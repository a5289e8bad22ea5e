------------------------ MODULE LinkRequests_proofs ------------------------
(***************************************************************************)
(* Proofs about LinkRequests, for any number of peers, channels, receivers *)
(* and other users, any horizon, timeout, increment and number of attempts:*)
(* what one manager does leaves what the others hold as it was, so that    *)
(* for each of them the slots and the queues agree with the status of its  *)
(* link.  With two peers, what a request offers stays locked besides, and  *)
(* no request that fits anywhere is left out of a broadcast.               *)
(***************************************************************************)
EXTENDS LinkRequests, SharedChannel_proofs, FiniteSetTheorems

(* The states on which a manager acts *)
ManagerStates ==
  [mac_id : {Me}, tables : [Tables -> [Slots -> Reservation]],
   failed : Failures, slot : Slots, scheduled : BOOLEAN,
   link_requests : Seq(Peers), link_replies : Seq(Replies),
   link_id : Peers, advertised : Slots \cup {NONE}, proposals : SUBSET Proposals,
   link_status : Statuses, is_link_initiator : BOOLEAN, attempts : 0 .. MaxAttempts,
   timeout : 0 .. Timeout, expected : Slots,
   locked_resources : SUBSET Entries, scheduled_resources : SUBSET Entries,
   late : BOOLEAN]

Typed(st) == st \in ManagerStates /\ st.proposals \subseteq Offers

(* A burst is reserved for the link of the manager. *)
Burst(st, c, s) ==
  st.tables[c][s].action \in {"TX", "RX"} /\ st.tables[c][s].target = st.link_id

(* The channels name a peer only for its lock or burst, and no receiver is *)
(* ever locked.                                                            *)
Clean(tb) ==
  /\ \A c \in PP, s \in Slots :
       tb[c][s].target \in Peers => tb[c][s].action \in {"LOCKED", "TX", "RX"}
  /\ \A h \in RxTables, s \in Slots : ~IsLocked(tb[h][s])

LocksRight(st) ==
  \A t \in Tables, s \in Slots :
    s > 0 /\ IsLocked(st.tables[t][s]) /\ st.tables[t][s].target = st.link_id =>
      /\ st.link_status = "awaiting_reply"
      /\ <<t, s>> \in st.locked_resources

BurstsRight(st) ==
  /\ \A e \in st.scheduled_resources : e[1] \in PP /\ Burst(st, e[1], e[2])
  /\ \A c \in PP, s \in Slots : s > 0 /\ Burst(st, c, s) => <<c, s>> \in st.scheduled_resources

(* Locks are remembered only while the reply is awaited, bursts only of an *)
(* established link.                                                       *)
Tidy(st) ==
  /\ st.link_status # "awaiting_reply" => st.locked_resources = {}
  /\ st.link_status # "link_established" => st.scheduled_resources = {}

(* Those for whom a request, and those for whom a reply is queued *)
Asked(st)    == {st.link_requests[i] : i \in DOMAIN st.link_requests}
Answered(st) == {st.link_replies[i].dest : i \in DOMAIN st.link_replies}

NoneTwice(st) ==
  /\ \A i, j \in DOMAIN st.link_requests : st.link_requests[i] = st.link_requests[j] => i = j
  /\ \A i, j \in DOMAIN st.link_replies :
       st.link_replies[i].dest = st.link_replies[j].dest => i = j

QueuesRight(st) ==
  /\ NoneTwice(st)
  /\ st.link_id \in Asked(st) <=> st.link_status = "awaiting_request_generation"
  /\ st.link_id \in Answered(st) => st.link_status = "link_established" /\ ~st.is_link_initiator

(* The bursts that end an exchange *)
Ending(st) ==
  {e \in st.scheduled_resources :
     st.tables[e[1]][e[2]].action = IF st.is_link_initiator THEN "RX" ELSE "TX"}

(* The timeout agrees with a link whose first burst is, or was, at start:  *)
(* the last burst that has been counted lies no later than at the offset b.*)
CountRight(st, b) ==
  st.link_status = "link_established" =>
    /\ st.timeout > 0
    /\ \E start \in Int :
         /\ \A e \in st.scheduled_resources : e[2] =< LastBurst(start)
         /\ \A e \in Ending(st) : \E k \in 0 .. Timeout - 1 :
              e[2] = start + (2 * k + 1) * Increment
         /\ st.timeout < Timeout =>
              start + (2 * (Timeout - st.timeout) - 1) * Increment =< b

Held(st) ==
  /\ Good(st) /\ Clean(st.tables)
  /\ LocksRight(st) /\ BurstsRight(st) /\ QueuesRight(st) /\ Tidy(st)

(* What a manager does leaves what belongs to the others as it was: their  *)
(* locks and bursts, and their requests; it queues no reply for them.      *)
Holds(r, t, p) == r.target = p /\ (IsLocked(r) \/ t \in PP)

LeavesSlots(st, st2) ==
  \A p \in Peers \ {st.link_id}, t \in Tables, s \in Slots :
    Holds(st.tables[t][s], t, p) \/ Holds(st2.tables[t][s], t, p)
      => st2.tables[t][s] = st.tables[t][s]

LeavesQueues(st, st2) ==
  \A p \in Peers \ {st.link_id} :
    /\ p \in Asked(st2) <=> p \in Asked(st)
    /\ p \in Answered(st2) => p \in Answered(st)

Leaves(st, st2) ==
  /\ st2.mac_id = st.mac_id /\ st2.link_id = st.link_id
  /\ LeavesSlots(st, st2) /\ LeavesQueues(st, st2)

LEMMA LeavesReflexive == \A st : Leaves(st, st)
BY DEF Leaves, LeavesSlots, LeavesQueues

LEMMA LeavesTransitive ==
  ASSUME NEW st, NEW st2, NEW st3, Leaves(st, st2), Leaves(st2, st3)
  PROVE  Leaves(st, st3)
<1>1. LeavesSlots(st, st3)
  BY DEF Leaves, LeavesSlots
<1>2. LeavesQueues(st, st3)
  BY DEF Leaves, LeavesQueues
<1> QED BY <1>1, <1>2 DEF Leaves

-----------------------------------------------------------------------------
(* The queues *)

(* r holds the elements of the queue at the given positions, each once. *)
Selects(queue, positions, r) ==
  \E f \in [1 .. Len(r) -> positions] :
    /\ \A i \in 1 .. Len(r) : r[i] = queue[f[i]]
    /\ \A i, j \in 1 .. Len(r) : f[i] = f[j] => i = j
    /\ \A k \in positions : \E i \in 1 .. Len(r) : f[i] = k

(* What is left of a queue is what is not erased, each once and in any     *)
(* case no more than there was.                                            *)
LEMMA ErasedIs ==
  ASSUME NEW S, NEW queue \in Seq(S), NEW positions
  PROVE  LET r == Erased(queue, positions)
         IN  /\ r \in Seq(S) /\ Len(r) =< Len(queue)
             /\ Selects(queue, DOMAIN queue \ positions, r)
<1> DEFINE N == Len(queue)
           Left(n, r) ==
             /\ r \in Seq(S) /\ Len(r) =< n
             /\ Selects(queue, (1 .. n) \ positions, r)
           D == [n \in 0 .. N |-> {r \in Seq(S) : Left(n, r)}]
           turn(n, x) == IF n \in positions THEN x ELSE Append(x, queue[n])
           F == [p \in (1 .. N) \X Seq(S) |-> turn(p[1], p[2])]
           kept[n \in 0 .. Len(queue)] ==
             IF n = 0 THEN << >>
             ELSE IF n \in positions THEN kept[n - 1]
             ELSE Append(kept[n - 1], queue[n])
<1>1. N \in Nat /\ DOMAIN queue = 1 .. N /\ \A n \in 1 .. N : queue[n] \in S
  OBVIOUS
<1>2. Left(0, << >>) /\ << >> \in Seq(S)
  <2> DEFINE e == << >>
             f == [i \in 1 .. Len(e) |-> i]
             left == (1 .. 0) \ positions
  <2>1. e \in Seq(S) /\ Len(e) = 0 /\ (\A i \in 1 .. Len(e) : FALSE) /\ \A k \in left : FALSE
    OBVIOUS
  <2> HIDE DEF e, left
  <2>2. f \in [1 .. Len(e) -> left]
    BY <2>1
  <2> HIDE DEF f
  <2>3. Selects(queue, left, e)
    BY <2>1, <2>2 DEF Selects
  <2>4. Left(0, e)
    BY <2>1, <2>3 DEF left
  <2> QED BY <2>1, <2>4 DEF e
<1>3. ASSUME NEW n \in 1 .. N, NEW x \in Seq(S), Left(n - 1, x)
      PROVE  turn(n, x) \in Seq(S) /\ Left(n, turn(n, x))
  <2>1. PICK f \in [1 .. Len(x) -> (1 .. (n - 1)) \ positions] :
          /\ \A i \in 1 .. Len(x) : x[i] = queue[f[i]]
          /\ \A i, j \in 1 .. Len(x) : f[i] = f[j] => i = j
          /\ \A k \in (1 .. (n - 1)) \ positions : \E i \in 1 .. Len(x) : f[i] = k
    BY <1>3 DEF Selects
  <2>2. Len(x) \in Nat /\ Len(x) =< n - 1 /\ n \in Nat /\ n - 1 \in Nat
    BY <1>1, <1>3
  <2>3. CASE n \in positions
    <3>1. (1 .. n) \ positions = (1 .. (n - 1)) \ positions
      BY <2>2, <2>3
    <3>2. turn(n, x) = x /\ Len(x) =< n
      BY <2>2, <2>3
    <3> QED BY <1>3, <3>1, <3>2
  <2>4. CASE n \notin positions
    <3> DEFINE y == Append(x, queue[n])
               g == [i \in 1 .. Len(x) + 1 |-> IF i = Len(x) + 1 THEN n ELSE f[i]]
    <3>1. turn(n, x) = y
      BY <2>4
    <3>2. /\ y \in Seq(S) /\ Len(y) = Len(x) + 1 /\ y[Len(x) + 1] = queue[n]
          /\ \A i \in 1 .. Len(x) : y[i] = x[i]
      BY <1>1
    <3> HIDE DEF y
    <3>3. /\ \A i \in 1 .. Len(x) + 1 : i = Len(x) + 1 \/ i \in 1 .. Len(x)
          /\ \A i \in 1 .. Len(x) : i # Len(x) + 1 /\ i \in 1 .. Len(x) + 1
          /\ Len(x) + 1 \in 1 .. Len(x) + 1
      BY <2>2
    <3>4. \A k : k \in (1 .. n) \ positions <=> k = n \/ k \in (1 .. (n - 1)) \ positions
      BY <2>2, <2>4
    <3>5. n \notin (1 .. (n - 1)) \ positions
      BY <2>2
    <3>6. g \in [1 .. Len(y) -> (1 .. n) \ positions]
      BY <2>1, <3>2, <3>3, <3>4
    <3>7. /\ g[Len(x) + 1] = n
          /\ \A i \in 1 .. Len(x) : g[i] = f[i]
      BY <3>3
    <3> HIDE DEF g
    <3>8. \A i \in 1 .. Len(y) : y[i] = queue[g[i]]
      BY <2>1, <3>2, <3>3, <3>7
    <3>9. \A i, j \in 1 .. Len(y) : g[i] = g[j] => i = j
      <4>1. \A i \in 1 .. Len(x) : f[i] # n
        BY <2>1, <3>5
      <4> SUFFICES ASSUME NEW i \in 1 .. Len(x) + 1, NEW j \in 1 .. Len(x) + 1, g[i] = g[j]
                   PROVE  i = j
        BY <3>2
      <4>2. CASE i \in 1 .. Len(x) /\ j \in 1 .. Len(x)
        BY <2>1, <3>7, <4>2
      <4>3. CASE i = Len(x) + 1 /\ j \in 1 .. Len(x)
        BY <3>7, <4>1, <4>3
      <4>4. CASE i \in 1 .. Len(x) /\ j = Len(x) + 1
        BY <3>7, <4>1, <4>4
      <4> HIDE DEF Left, turn
      <4> QED BY <3>3, <4>2, <4>3, <4>4
    <3>10. \A k \in (1 .. n) \ positions : \E i \in 1 .. Len(y) : g[i] = k
      <4> SUFFICES ASSUME NEW k \in (1 .. n) \ positions
                   PROVE  \E i \in 1 .. Len(x) + 1 : g[i] = k
        BY <3>2
      <4>1. CASE k = n
        BY <3>3, <3>7, <4>1
      <4>2. CASE k \in (1 .. (n - 1)) \ positions
        <5>1. PICK i \in 1 .. Len(x) : f[i] = k
          BY <2>1, <4>2
        <5> QED BY <3>3, <3>7, <5>1
      <4> QED BY <3>4, <4>1, <4>2
    <3>11. Len(y) =< n
      BY <2>2, <3>2
    <3> DEFINE left == (1 .. n) \ positions
    <3>12. Selects(queue, left, y)
      <4>1. g \in [1 .. Len(y) -> left] /\ \A k \in left : \E i \in 1 .. Len(y) : g[i] = k
        BY <3>6, <3>10
      <4> HIDE DEF left
      <4> QED BY <3>8, <3>9, <4>1 DEF Selects
    <3> QED BY <3>1, <3>2, <3>11, <3>12
  <2> QED BY <2>3, <2>4
<1> HIDE DEF Left
<1>4. << >> \in D[0] /\ \A n \in 1 .. N : \A x \in D[n - 1] : turn(n, x) \in D[n] /\ x \in Seq(S)
  <2>1. \A n \in 1 .. N : n - 1 \in 0 .. N /\ n \in 0 .. N
    BY <1>1
  <2>2. 0 \in 0 .. N
    BY <1>1
  <2> HIDE DEF turn
  <2> QED BY <1>2, <1>3, <2>1, <2>2
<1>5. PICK g : Loops(g, N, << >>, F) /\ \A n \in 0 .. N : g[n] \in D[n]
  <2>1. \A n \in 1 .. N : \A x \in D[n - 1] : F[<<n, x>>] \in D[n]
    <3> HIDE DEF turn, D
    <3> QED BY <1>4
  <2> HIDE DEF D, F
  <2> QED BY <1>1, <1>4, <2>1, LoopExists
<1>6. g = [n \in 0 .. Len(queue) |->
             IF n = 0 THEN << >>
             ELSE IF n \in positions THEN g[n - 1]
             ELSE Append(g[n - 1], queue[n])]
  <2>1. \A n \in 1 .. N : F[<<n, g[n - 1]>>] = turn(n, g[n - 1])
    <3>1. \A n \in 1 .. N : n - 1 \in 0 .. N
      BY <1>1
    <3>2. \A n \in 1 .. N : g[n - 1] \in Seq(S)
      BY <1>4, <1>5, <3>1
    <3> HIDE DEF turn
    <3> QED BY <3>2
  <2>2. \A n \in 0 .. N : n # 0 => n \in 1 .. N
    BY <1>1
  <2>3. g = [n \in 0 .. N |-> IF n = 0 THEN << >> ELSE F[<<n, g[n - 1]>>]]
    BY <1>5, Zenon DEF Loops
  <2>4. g = [n \in 0 .. N |-> IF n = 0 THEN << >> ELSE turn(n, g[n - 1])]
    <3> HIDE DEF F, turn
    <3> QED BY <2>1, <2>2, <2>3
  <2> QED BY <2>4
<1>7. kept = [n \in 0 .. Len(queue) |->
                IF n = 0 THEN << >>
                ELSE IF n \in positions THEN kept[n - 1]
                ELSE Append(kept[n - 1], queue[n])]
  <2>1. \E f : f = [n \in 0 .. Len(queue) |->
                      IF n = 0 THEN << >>
                      ELSE IF n \in positions THEN f[n - 1]
                      ELSE Append(f[n - 1], queue[n])]
    BY <1>6
  <2> QED BY <2>1
<1>8. Erased(queue, positions) = kept[N]
  BY DEF Erased
<1> HIDE DEF kept
<1>9. kept[0] = << >> /\ \A n \in 1 .. N : kept[n] = turn(n, kept[n - 1])
  <2>1. 0 \in 0 .. Len(queue) /\ \A n \in 1 .. N : n \in 0 .. Len(queue) /\ n # 0
    BY <1>1
  <2>2. kept = [n \in 0 .. Len(queue) |-> IF n = 0 THEN << >> ELSE turn(n, kept[n - 1])]
    BY <1>7
  <2> HIDE DEF turn, N
  <2> QED BY <2>1, <2>2
<1>10. \A n \in 0 .. N : kept[n] \in D[n]
  <2>1. kept[0] \in D[0] /\ \A n \in 1 .. N : kept[n - 1] \in D[n - 1] => kept[n] \in D[n]
    <3> HIDE DEF turn, D
    <3> QED BY <1>4, <1>9
  <2> HIDE DEF D
  <2> QED BY <1>1, <2>1, LoopKeeps
<1>11. kept[N] \in Seq(S) /\ Left(N, kept[N])
  BY <1>1, <1>10
<1> QED BY <1>1, <1>8, <1>11 DEF Left

(* The queue of requests and that of replies without one of the users *)
LEMMA QueuesWithout ==
  ASSUME NEW requests \in Seq(Peers), NEW replies \in Seq(Replies), NEW id,
         \A i, j \in DOMAIN requests : requests[i] = requests[j] => i = j,
         \A i, j \in DOMAIN replies : replies[i].dest = replies[j].dest => i = j
  PROVE  LET q == Without(requests, id)
             r == WithoutReplies(replies, id)
         IN  /\ q \in Seq(Peers) /\ r \in Seq(Replies) /\ Len(q) =< Len(requests)
             /\ \A i, j \in DOMAIN q : q[i] = q[j] => i = j
             /\ \A i, j \in DOMAIN r : r[i].dest = r[j].dest => i = j
             /\ \A p : (\E i \in DOMAIN q : q[i] = p) <=> p # id /\ \E i \in DOMAIN requests : requests[i] = p
             /\ \A i \in DOMAIN r : r[i].dest # id /\ \E j \in DOMAIN replies : replies[j].dest = r[i].dest
<1> DEFINE q == Without(requests, id)
           r == WithoutReplies(replies, id)
<1>1. /\ q \in Seq(Peers) /\ Len(q) =< Len(requests)
      /\ \A i, j \in DOMAIN q : q[i] = q[j] => i = j
      /\ \A p : (\E i \in DOMAIN q : q[i] = p) <=> p # id /\ \E i \in DOMAIN requests : requests[i] = p
  <2> DEFINE out == {i \in DOMAIN requests : requests[i] = id}
  <2>1. /\ q \in Seq(Peers) /\ Len(q) =< Len(requests)
        /\ Selects(requests, DOMAIN requests \ out, q)
    <3>1. q = Erased(requests, out)
      BY DEF Without
    <3> HIDE DEF q, out
    <3> QED BY <3>1, ErasedIs
  <2>2. PICK f \in [1 .. Len(q) -> DOMAIN requests \ out] :
          /\ \A i \in 1 .. Len(q) : q[i] = requests[f[i]]
          /\ \A i, j \in 1 .. Len(q) : f[i] = f[j] => i = j
          /\ \A k \in DOMAIN requests \ out : \E i \in 1 .. Len(q) : f[i] = k
    <3> HIDE DEF q, out
    <3> QED BY <2>1 DEF Selects
  <2>3. DOMAIN q = 1 .. Len(q)
    BY <2>1
  <2>4. \A i \in DOMAIN q : f[i] \in DOMAIN requests /\ requests[f[i]] # id
    BY <2>2, <2>3
  <2>5. \A k \in DOMAIN requests : requests[k] # id => k \in DOMAIN requests \ out
    OBVIOUS
  <2> HIDE DEF q, out
  <2>6. \A i, j \in DOMAIN q : q[i] = q[j] => i = j
    BY <2>2, <2>3, <2>4
  <2>7. ASSUME NEW p PROVE (\E i \in DOMAIN q : q[i] = p) <=> p # id /\ \E i \in DOMAIN requests : requests[i] = p
    <3>1. ASSUME NEW i \in DOMAIN q, q[i] = p
          PROVE  p # id /\ \E j \in DOMAIN requests : requests[j] = p
      <4>1. q[i] = requests[f[i]] /\ f[i] \in DOMAIN requests /\ requests[f[i]] # id
        BY <2>2, <2>3, <2>4, <3>1
      <4> QED BY <3>1, <4>1
    <3>2. ASSUME p # id, NEW k \in DOMAIN requests, requests[k] = p
          PROVE  \E i \in DOMAIN q : q[i] = p
      <4>1. PICK i \in 1 .. Len(q) : f[i] = k
        BY <2>2, <2>5, <3>2
      <4>2. i \in DOMAIN q /\ q[i] = requests[f[i]]
        BY <2>2, <2>3
      <4> QED BY <3>2, <4>1, <4>2
    <3> QED BY <3>1, <3>2
  <2> QED BY <2>1, <2>6, <2>7
<1>2. /\ r \in Seq(Replies)
      /\ \A i, j \in DOMAIN r : r[i].dest = r[j].dest => i = j
      /\ \A i \in DOMAIN r : r[i].dest # id /\ \E j \in DOMAIN replies : replies[j].dest = r[i].dest
  <2> DEFINE out == {i \in DOMAIN replies : replies[i].dest = id}
  <2>1. /\ r \in Seq(Replies)
        /\ Selects(replies, DOMAIN replies \ out, r)
    <3>1. r = Erased(replies, out)
      BY DEF WithoutReplies
    <3> HIDE DEF r, out
    <3> QED BY <3>1, ErasedIs
  <2>2. PICK f \in [1 .. Len(r) -> DOMAIN replies \ out] :
          /\ \A i \in 1 .. Len(r) : r[i] = replies[f[i]]
          /\ \A i, j \in 1 .. Len(r) : f[i] = f[j] => i = j
    BY <2>1 DEF Selects
  <2>3. DOMAIN r = 1 .. Len(r)
    BY <2>1
  <2>4. \A i \in DOMAIN r : f[i] \in DOMAIN replies /\ replies[f[i]].dest # id
    BY <2>2, <2>3
  <2> HIDE DEF r
  <2> QED BY <2>1, <2>2, <2>3, <2>4
<1> QED BY <1>1, <1>2

-----------------------------------------------------------------------------
(* What the methods of PPLinkManager do to the state of a manager *)

LEMMA PeerIds ==
  /\ Peers \subseteq UserIds /\ Peers \subseteq Ids /\ Me \notin Peers /\ UNSET_ID \notin Peers
  /\ Idle.target = UNSET_ID
BY PeersAssumption, IdsAssumption DEF Ids, Idle, Res

(* What they leave as it was *)
Frame(st, st2) ==
  /\ st2.mac_id = st.mac_id /\ st2.link_id = st.link_id /\ st2.failed = st.failed
  /\ st2.slot = st.slot /\ st2.scheduled = st.scheduled
  /\ st2.advertised = st.advertised /\ st2.proposals = st.proposals

Returns(st, st2) ==
  /\ Typed(st2) /\ Held(st2) /\ Frame(st, st2) /\ Leaves(st, st2)
  /\ st2.link_status \in {"link_not_established", "awaiting_request_generation"}

LEMMA Cancelled ==
  ASSUME NEW st, Typed(st), Held(st)
  PROVE  LET c == cancelLink(st)
         IN  /\ Returns(st, c) /\ c.link_status = "link_not_established"
             /\ c.locked_resources = {} /\ c.scheduled_resources = {}
             /\ st.link_id \notin Answered(c) /\ Len(c.link_requests) =< Len(st.link_requests)
             /\ \A t \in Tables, s \in Slots :
                  s > 0 => ~(IsLocked(c.tables[t][s]) /\ c.tables[t][s].target = st.link_id)
<1> DEFINE ids  == {st.mac_id, st.link_id}
           mid  == UnlockAll(st.tables, st.locked_resources, ids)
           free == UnscheduleAll(mid, st.scheduled_resources)
           q    == Without(st.link_requests, st.link_id)
           r    == WithoutReplies(st.link_replies, st.link_id)
           c    == cancelLink(st)
<1>1. /\ st \in ManagerStates /\ st.link_id \in Peers /\ st.mac_id = Me
      /\ st.tables \in TB
  BY DEF Typed, ManagerStates, TB
<1>2. st.scheduled_resources \in SUBSET (PP \X Slots)
  <2>1. st.scheduled_resources \in SUBSET (Tables \X Slots)
    BY <1>1 DEF ManagerStates, Entries
  <2>2. \A e \in st.scheduled_resources : e[1] \in PP /\ e[2] \in Slots /\ e = <<e[1], e[2]>>
    BY <2>1, EntryIs DEF Held, BurstsRight
  <2> QED BY <2>2
<1>3. /\ free \in TB /\ OneTx(free) /\ HardwareNeverBusy(free) /\ SharedOnlyTxRx(free)
      /\ \A t \in Tables, s \in Slots : free[t][s] \in {st.tables[t][s], Idle}
      /\ \A s \in Slots : IsTx(free[SH][s]) <=> IsTx(st.tables[SH][s])
      /\ \A t \in Tables, s \in Slots :
           IsLocked(free[t][s]) =>
             ~(<<t, s>> \in st.locked_resources /\ s > 0 /\ st.tables[t][s].target \in ids)
      /\ \A t \in Tables, s \in Slots :
           free[t][s] # st.tables[t][s] => \/ <<t, s>> \in st.scheduled_resources
                                           \/ CanUnlock(st.tables[t][s], ids)
                                           \/ t = TxTable /\ IsTx(st.tables[t][s])
      /\ \A e \in st.scheduled_resources : free[e[1]][e[2]] = Idle
      /\ ~UnscheduleThrows(mid, st.scheduled_resources, {"TX", "RX"})
  <2>1. /\ OneTx(st.tables) /\ HardwareNeverBusy(st.tables) /\ SharedOnlyTxRx(st.tables)
        /\ \A e \in st.scheduled_resources : st.tables[e[1]][e[2]].action \in {"TX", "RX"}
    BY DEF Held, Good, BurstsRight, Burst
  <2> QED BY <1>1, <1>2, <2>1, Returned
<1>4. /\ q \in Seq(Peers) /\ r \in Seq(Replies) /\ Len(q) =< Len(st.link_requests)
      /\ \A i, j \in DOMAIN q : q[i] = q[j] => i = j
      /\ \A i, j \in DOMAIN r : r[i].dest = r[j].dest => i = j
      /\ \A p : (\E i \in DOMAIN q : q[i] = p)
                  <=> p # st.link_id /\ \E i \in DOMAIN st.link_requests : st.link_requests[i] = p
      /\ \A i \in DOMAIN r : /\ r[i].dest # st.link_id
                             /\ \E j \in DOMAIN st.link_replies : st.link_replies[j].dest = r[i].dest
  <2>1. /\ st.link_requests \in Seq(Peers) /\ st.link_replies \in Seq(Replies)
        /\ \A i, j \in DOMAIN st.link_requests : st.link_requests[i] = st.link_requests[j] => i = j
        /\ \A i, j \in DOMAIN st.link_replies :
             st.link_replies[i].dest = st.link_replies[j].dest => i = j
    BY <1>1 DEF ManagerStates, Held, QueuesRight, NoneTwice
  <2> QED BY <2>1, QueuesWithout
<1> HIDE DEF free, mid
<1>5. c = [st EXCEPT !.tables = free, !.link_status = "link_not_established",
                     !.locked_resources = {}, !.scheduled_resources = {},
                     !.link_requests = q, !.link_replies = r]
  <2>1. c = [st EXCEPT !.tables = free, !.failed = st.failed,
                     !.link_status = "link_not_established",
                     !.locked_resources = {}, !.scheduled_resources = {},
                     !.link_requests = q, !.link_replies = r]
    BY <1>1, <1>3 DEF cancelLink, ManagerStates, free, mid
  <2> HIDE DEF q, r
  <2> QED BY <2>1, <1>1 DEF ManagerStates
<1> HIDE DEF q, r
<1>6. /\ c \in ManagerStates /\ Frame(st, c)
      /\ c.tables = free /\ c.link_status = "link_not_established"
      /\ c.locked_resources = {} /\ c.scheduled_resources = {}
      /\ c.link_requests = q /\ c.link_replies = r
  <2>1. free \in [Tables -> [Slots -> Reservation]]
    BY <1>3 DEF TB
  <2> HIDE DEF c
  <2>2. c \in ManagerStates
    BY <1>1, <1>4, <1>5, <2>1 DEF ManagerStates, Statuses
  <2>3. Frame(st, c)
    BY <1>1, <1>5 DEF ManagerStates, Frame
  <2> QED BY <1>1, <1>5, <2>2, <2>3 DEF ManagerStates
<1> HIDE DEF c
<1>7. Typed(c)
  BY <1>6 DEF Typed, Frame
<1>8. Good(c)
  <2>1. Shaped(c)
    BY <1>6 DEF Shaped, ManagerStates, Fields
  <2> QED BY <1>3, <1>6, <2>1 DEF Held, Good, ReservedAt, Frame
<1>9. Clean(free)
  BY <1>3, IdleIs, PeerIds, Disjoint DEF Held, Clean
<1>10. \A t \in Tables, s \in Slots :
         s > 0 => ~(IsLocked(free[t][s]) /\ free[t][s].target = st.link_id)
  <2>1. \A t \in Tables, s \in Slots :
          IsLocked(free[t][s]) => free[t][s] = st.tables[t][s]
    BY <1>3, IdleIs
  <2> QED BY <2>1, <1>3 DEF Held, LocksRight
<1>11. \A ch \in PP, s \in Slots : s > 0 => ~Burst(c, ch, s)
  <2> SUFFICES ASSUME NEW ch \in PP, NEW s \in Slots, s > 0, Burst(c, ch, s) PROVE FALSE
    OBVIOUS
  <2>1. free[ch][s] = st.tables[ch][s] /\ ~IsIdle(free[ch][s])
    BY <1>3, <1>6, IdleIs, Disjoint DEF Burst, IsIdle
  <2>2. Burst(st, ch, s)
    BY <1>6, <2>1 DEF Burst, Frame
  <2>3. <<ch, s>> \in st.scheduled_resources
    BY <2>2 DEF Held, BurstsRight
  <2> QED BY <2>1, <2>3, <1>3, IdleIs
<1>12. LeavesQueues(st, c) /\ st.link_id \notin Answered(c) /\ st.link_id \notin Asked(c)
  <2>1. \A p : p \in Asked(c) <=> p # st.link_id /\ p \in Asked(st)
    BY <1>4, <1>6 DEF Asked
  <2>2. \A p \in Answered(c) : p # st.link_id /\ p \in Answered(st)
    BY <1>4, <1>6 DEF Answered
  <2> QED BY <2>1, <2>2 DEF LeavesQueues
<1>13. LocksRight(c) /\ BurstsRight(c) /\ QueuesRight(c) /\ Tidy(c)
  <2>1. LocksRight(c) /\ BurstsRight(c)
    BY <1>6, <1>10, <1>11 DEF LocksRight, BurstsRight, Frame
  <2>2. NoneTwice(c)
    BY <1>4, <1>6 DEF NoneTwice
  <2>3. QueuesRight(c)
    BY <1>6, <1>12, <2>2 DEF QueuesRight, Frame
  <2>4. Tidy(c)
    BY <1>6 DEF Tidy
  <2> QED BY <2>1, <2>3, <2>4
<1>14. LeavesSlots(st, c)
  <2> SUFFICES ASSUME NEW p \in Peers \ {st.link_id}, NEW t \in Tables, NEW s \in Slots,
                      Holds(st.tables[t][s], t, p) \/ Holds(free[t][s], t, p),
                      free[t][s] # st.tables[t][s]
               PROVE  FALSE
    BY <1>6 DEF LeavesSlots
  <2>1. free[t][s] = Idle /\ Holds(st.tables[t][s], t, p)
    BY <1>3, PeerIds DEF Holds
  <2>2. ~CanUnlock(st.tables[t][s], ids)
    BY <1>1, <2>1, PeerIds DEF CanUnlock, Holds
  <2>3. ~(t = TxTable /\ IsTx(st.tables[t][s]))
    BY <2>1, Disjoint DEF Holds, IsTx, IsLocked
  <2> DEFINE e == <<t, s>>
  <2>4. e \in st.scheduled_resources /\ e[1] = t /\ e[2] = s
    BY <1>3, <2>2, <2>3
  <2> HIDE DEF e
  <2>5. st.tables[t][s].target = st.link_id
    BY <2>4 DEF Held, BurstsRight, Burst
  <2> QED BY <2>1, <2>5 DEF Holds
<1>15. Returns(st, c)
  BY <1>6, <1>7, <1>8, <1>9, <1>12, <1>13, <1>14 DEF Returns, Held, Leaves, Frame
<1> QED BY <1>4, <1>6, <1>10, <1>12, <1>15 DEF c

(* A state that holds the same slots for the link *)
SameSlots(st, a) ==
  /\ a.tables = st.tables
  /\ a.locked_resources = st.locked_resources
  /\ a.scheduled_resources = st.scheduled_resources
  /\ a.link_status = st.link_status \/ st.link_status = "link_not_established"

LEMMA StillHeld ==
  ASSUME NEW st, Typed(st), Held(st), NEW a \in ManagerStates, Frame(st, a), SameSlots(st, a),
         QueuesRight(a), LeavesQueues(st, a)
  PROVE  Typed(a) /\ Held(a) /\ Leaves(st, a)
<1>1. Typed(a)
  BY DEF Typed, Frame
<1>2. Good(a) /\ Clean(a.tables)
  <2>1. Shaped(a)
    BY DEF Shaped, ManagerStates, Fields
  <2> QED BY <2>1 DEF Held, Good, Frame, SameSlots
<1>3. LocksRight(a) /\ BurstsRight(a)
  BY DEF Held, LocksRight, BurstsRight, Burst, Frame, SameSlots
<1>4. Leaves(st, a)
  BY DEF Leaves, LeavesSlots, Frame, SameSlots
<1>5. Tidy(a)
  BY DEF Held, Tidy, SameSlots
<1> QED BY <1>1, <1>2, <1>3, <1>4, <1>5 DEF Held

(* The same if the queues and the status are as they were *)
SameQueues(st, a) ==
  /\ a.link_requests = st.link_requests /\ a.link_replies = st.link_replies
  /\ a.link_status = st.link_status /\ a.is_link_initiator = st.is_link_initiator

LEMMA AsItWas ==
  ASSUME NEW st, Typed(st), Held(st), NEW a \in ManagerStates, Frame(st, a), SameSlots(st, a),
         SameQueues(st, a)
  PROVE  Typed(a) /\ Held(a) /\ Leaves(st, a)
<1>1. QueuesRight(a) /\ LeavesQueues(st, a)
  BY DEF QueuesRight, NoneTwice, LeavesQueues, Asked, Answered, SameQueues, Held, Frame
<1> QED BY <1>1, StillHeld

(* The number of attempts matters to nothing that is held. *)
LEMMA AttemptsChange ==
  ASSUME NEW st, Typed(st), Held(st), NEW n \in 0 .. MaxAttempts
  PROVE  LET a == [st EXCEPT !.attempts = n]
         IN  /\ Typed(a) /\ Held(a) /\ Frame(st, a) /\ Leaves(st, a) /\ a.attempts = n
             /\ a.link_status = st.link_status
<1> DEFINE a == [st EXCEPT !.attempts = n]
<1>1. st \in ManagerStates
  BY DEF Typed
<1>2. /\ a \in ManagerStates /\ Frame(st, a) /\ SameSlots(st, a) /\ a.attempts = n
      /\ a.link_status = st.link_status /\ SameQueues(st, a)
  BY <1>1 DEF ManagerStates, Frame, SameSlots, SameQueues
<1> HIDE DEF a
<1> QED BY <1>2, AsItWas DEF a

(* What was returned in two steps *)
LEMMA ReturnsTwice ==
  ASSUME NEW st, NEW x, NEW y, Frame(st, x), Leaves(st, x), Returns(x, y)
  PROVE  Returns(st, y)
<1>1. Leaves(st, y)
  BY LeavesTransitive DEF Returns
<1> QED BY <1>1 DEF Returns, Frame

LEMMA Establish ==
  ASSUME NEW st, Typed(st), Held(st), st.link_status = "link_not_established"
  PROVE  Returns(st, establishLink(st))
<1>1. st \in ManagerStates /\ st.attempts \in Int
  BY DEF Typed, ManagerStates
<1>2. CASE st.attempts + 1 >= MaxAttempts
  <2> DEFINE c == cancelLink(st)
             a == [c EXCEPT !.attempts = 0]
  <2>1. establishLink(st) = a
    BY <1>2 DEF establishLink
  <2>2. Returns(st, c) /\ 0 \in 0 .. MaxAttempts
    BY Cancelled, AttemptsAssumption
  <2> HIDE DEF c
  <2>3. Typed(a) /\ Held(a) /\ Frame(c, a) /\ Leaves(c, a) /\ a.link_status = c.link_status
    BY <2>2, AttemptsChange DEF Returns
  <2> HIDE DEF a
  <2>4. Returns(c, a)
    BY <2>2, <2>3 DEF Returns
  <2> QED BY <2>1, <2>2, <2>4, ReturnsTwice DEF Returns
<1>3. CASE ~(st.attempts + 1 >= MaxAttempts)
  <2> DEFINE q == Append(st.link_requests, st.link_id)
             n == Len(st.link_requests)
             e == [st EXCEPT !.attempts = st.attempts + 1, !.link_requests = q,
                             !.link_status = "awaiting_request_generation"]
  <2>1. establishLink(st) = e
    <3>1. "link_not_established" # "link_established"
      OBVIOUS
    <3> QED BY <1>1, <1>3, <3>1 DEF establishLink, ManagerStates
  <2>2. st.attempts + 1 \in 0 .. MaxAttempts
    BY <1>1, <1>3, AttemptsAssumption DEF ManagerStates
  <2>3. /\ q \in Seq(Peers) /\ DOMAIN st.link_requests = 1 .. n /\ DOMAIN q = 1 .. n + 1
        /\ q[n + 1] = st.link_id /\ \A i \in 1 .. n : q[i] = st.link_requests[i]
        /\ \A i \in 1 .. n + 1 : i = n + 1 \/ i \in 1 .. n
        /\ \A i \in 1 .. n : i \in 1 .. n + 1
        /\ n + 1 \in 1 .. n + 1
    <3>1. st.link_id \in Peers /\ st.link_requests \in Seq(Peers)
      BY <1>1 DEF ManagerStates
    <3> QED BY <3>1
  <2> HIDE DEF q, n
  <2>4. /\ \A p : (\E i \in DOMAIN q : q[i] = p)
                    <=> p = st.link_id \/ \E i \in DOMAIN st.link_requests : st.link_requests[i] = p
        /\ \A i \in 1 .. n : st.link_requests[i] # st.link_id
        /\ \A i, j \in DOMAIN st.link_requests : st.link_requests[i] = st.link_requests[j] => i = j
    BY <2>3 DEF Held, QueuesRight, NoneTwice, Asked
  <2> HIDE DEF e
  <2>5. /\ e \in ManagerStates /\ Frame(st, e) /\ SameSlots(st, e)
        /\ e.link_status = "awaiting_request_generation"
        /\ e.link_requests = q /\ e.link_replies = st.link_replies
    BY <1>1, <2>2, <2>3 DEF e, ManagerStates, Frame, Statuses, SameSlots
  <2>6. NoneTwice(e)
    <3>1. \A i, j \in DOMAIN q : q[i] = q[j] => i = j
      BY <2>3, <2>4
    <3> QED BY <2>5, <3>1 DEF Held, QueuesRight, NoneTwice
  <2>7. /\ \A p : p \in Asked(e) <=> p = st.link_id \/ p \in Asked(st)
        /\ Answered(e) = Answered(st)
    BY <2>4, <2>5 DEF Asked, Answered
  <2>8. LeavesQueues(st, e)
    BY <2>7 DEF LeavesQueues
  <2>9. QueuesRight(e)
    BY <2>5, <2>6, <2>7 DEF Held, QueuesRight, Frame
  <2> QED BY <2>1, <2>5, <2>8, <2>9, StillHeld DEF Returns
<1> QED BY <1>2, <1>3

(* What awaits its reply afterwards did so before, behind the same locks. *)
StillAwaits(st, st2) ==
  st2.link_status = "awaiting_reply" =>
    /\ st.link_status = "awaiting_reply"
    /\ \A t \in Tables, s \in Slots :
         IsLocked(st.tables[t][s]) /\ st.tables[t][s].target = st.link_id
           => st2.tables[t][s] = st.tables[t][s]

LEMMA AwaitsTransitive ==
  ASSUME NEW st, NEW x, NEW y, x.link_id = st.link_id, StillAwaits(st, x), StillAwaits(x, y)
  PROVE  StillAwaits(st, y)
BY DEF StillAwaits

LEMMA Notified ==
  ASSUME NEW st, Typed(st), Held(st)
  PROVE  LET n == notifyOutgoing(st)
         IN  /\ Typed(n) /\ Held(n) /\ Frame(st, n) /\ Leaves(st, n) /\ StillAwaits(st, n)
             /\ st.link_status = "link_not_established" => Returns(st, n)
             /\ st.link_status # "link_not_established" => n = st
<1>1. CASE st.link_status # "link_not_established"
  BY <1>1, LeavesReflexive DEF notifyOutgoing, Frame, StillAwaits
<1>2. CASE st.link_status = "link_not_established"
  <2> DEFINE a == [st EXCEPT !.attempts = 0]
  <2>1. notifyOutgoing(st) = establishLink(a)
    BY <1>2 DEF notifyOutgoing
  <2>2. /\ Typed(a) /\ Held(a) /\ Frame(st, a) /\ Leaves(st, a)
        /\ a.link_status = st.link_status
    BY AttemptsChange, AttemptsAssumption
  <2> HIDE DEF a
  <2>3. Returns(a, establishLink(a))
    BY <1>2, <2>2, Establish
  <2>4. Returns(st, establishLink(a))
    BY <2>2, <2>3, ReturnsTwice
  <2> QED BY <1>2, <2>1, <2>4 DEF Returns, StillAwaits
<1> QED BY <1>1, <1>2

LEMMA AwaitedReply ==
  ASSUME NEW st, Typed(st), Held(st)
  PROVE  LET a == awaitReply(st)
         IN  /\ Typed(a) /\ Held(a) /\ Frame(st, a) /\ Leaves(st, a) /\ StillAwaits(st, a)
             /\ st.link_status # "awaiting_reply" => a = st
             /\ st.link_status = "awaiting_reply" => a.link_status # "link_established"
<1>1. CASE st.link_status # "awaiting_reply"
  BY <1>1, LeavesReflexive DEF awaitReply, Frame, StillAwaits
<1>2. CASE st.link_status = "awaiting_reply" /\ st.expected = 0
  <2> DEFINE c == cancelLink(st)
  <2>1. awaitReply(st) = establishLink(c)
    BY <1>2 DEF awaitReply
  <2>2. Returns(st, c) /\ c.link_status = "link_not_established"
    BY Cancelled
  <2> HIDE DEF c
  <2>3. Returns(c, establishLink(c))
    BY <2>2, Establish DEF Returns
  <2>4. Returns(st, establishLink(c))
    BY <2>2, <2>3, ReturnsTwice DEF Returns
  <2> QED BY <1>2, <2>1, <2>4 DEF Returns, StillAwaits
<1>3. CASE st.link_status = "awaiting_reply" /\ st.expected # 0
  <2> DEFINE a == [st EXCEPT !.expected = st.expected - 1]
  <2>1. st \in ManagerStates /\ awaitReply(st) = a
    BY <1>3 DEF awaitReply, Typed, ManagerStates
  <2>2. st.expected - 1 \in Slots
    BY <1>3, <2>1, HorizonAssumption DEF ManagerStates, Slots
  <2> HIDE DEF a
  <2>3. a \in ManagerStates /\ Frame(st, a) /\ SameSlots(st, a) /\ SameQueues(st, a)
    BY <2>1, <2>2 DEF a, ManagerStates, Frame, SameSlots, SameQueues
  <2>4. StillAwaits(st, a)
    BY <1>3, <2>3 DEF SameSlots, StillAwaits
  <2> QED BY <1>3, <2>1, <2>3, <2>4, AsItWas DEF SameQueues
<1> QED BY <1>1, <1>2, <1>3

-----------------------------------------------------------------------------
(* The timeout.  The exchanges that are counted lie in the past, so that   *)
(* after the last of them no burst is left.                                *)

LEMMA Expired ==
  ASSUME NEW st, Typed(st), Held(st), st.link_status = "link_established",
         \A e \in st.scheduled_resources : e[2] =< 0,
         NEW more \in BOOLEAN
  PROVE  Returns(st, onTimeoutExpiry([st EXCEPT !.timeout = 0], more))
<1> DEFINE f == [[st EXCEPT !.timeout = 0] EXCEPT !.locked_resources = {}, !.scheduled_resources = {}]
<1>1. st \in ManagerStates /\ 0 \in 0 .. Timeout
  BY BurstsAssumption DEF Typed
<1>2. /\ f \in ManagerStates /\ Frame(st, f) /\ f.tables = st.tables
      /\ f.locked_resources = {} /\ f.scheduled_resources = {} /\ SameQueues(st, f)
  BY <1>1 DEF ManagerStates, Frame, SameQueues
<1> HIDE DEF f
<1>3. Typed(f)
  BY <1>2 DEF Typed, Frame
<1>4. Good(f) /\ Clean(f.tables)
  <2>1. Shaped(f)
    BY <1>2 DEF Shaped, ManagerStates, Fields
  <2> QED BY <1>2, <2>1 DEF Held, Good, Frame
<1>5. LocksRight(f)
  BY <1>2 DEF Held, LocksRight, Frame, SameQueues
<1>6. QueuesRight(f) /\ Leaves(st, f)
  <2>1. Asked(f) = Asked(st) /\ Answered(f) = Answered(st)
    BY <1>2 DEF Asked, Answered, SameQueues
  <2>2. NoneTwice(f)
    BY <1>2 DEF Held, QueuesRight, NoneTwice, SameQueues
  <2>3. QueuesRight(f)
    BY <1>2, <2>1, <2>2 DEF Held, QueuesRight, SameQueues, Frame
  <2>4. Leaves(st, f)
    BY <1>2, <2>1 DEF Leaves, LeavesSlots, LeavesQueues, Frame
  <2> QED BY <2>3, <2>4
<1>7. BurstsRight(f)
  <2>1. ASSUME NEW c \in PP, NEW s \in Slots, s > 0, Burst(f, c, s) PROVE FALSE
    <3>1. <<c, s>> \in st.scheduled_resources
      BY <2>1, <1>2 DEF Held, BurstsRight, Burst, Frame
    <3> QED BY <3>1, <2>1, ZeroSlot
  <2> QED BY <1>2, <2>1 DEF BurstsRight
<1>8. Typed(f) /\ Held(f)
  <2>1. Tidy(f)
    BY <1>2 DEF Tidy
  <2> QED BY <1>3, <1>4, <1>5, <1>6, <1>7, <2>1 DEF Held
<1> DEFINE c == cancelLink(f)
           x == [c EXCEPT !.attempts = 0]
<1>9. Returns(f, c) /\ c.link_status = "link_not_established"
  BY <1>8, Cancelled
<1>10. onTimeoutExpiry([st EXCEPT !.timeout = 0], more) = IF more THEN notifyOutgoing(x) ELSE x
  BY DEF onTimeoutExpiry, f
<1> HIDE DEF c
<1>11. Typed(x) /\ Held(x) /\ Frame(c, x) /\ Leaves(c, x) /\ x.link_status = c.link_status
  BY <1>9, AttemptsChange, AttemptsAssumption DEF Returns
<1> HIDE DEF x
<1>12. Returns(st, x)
  <2>1. Returns(c, x)
    BY <1>9, <1>11 DEF Returns
  <2>2. Returns(f, x)
    BY <1>9, <2>1, ReturnsTwice DEF Returns
  <2> QED BY <1>2, <1>6, <2>2, ReturnsTwice
<1>13. Returns(x, notifyOutgoing(x))
  BY <1>9, <1>11, Notified
<1>14. Returns(st, notifyOutgoing(x))
  BY <1>12, <1>13, ReturnsTwice DEF Returns
<1> QED BY <1>10, <1>12, <1>14

LEMMA Decremented ==
  ASSUME NEW st, Typed(st), Held(st), CountRight(st, -1), NEW more \in BOOLEAN
  PROVE  LET d == decrementTimeout(st, more)
         IN  /\ Typed(d) /\ d.mac_id = st.mac_id /\ d.link_id = st.link_id /\ StillAwaits(st, d)
             /\ \/ d.failed # "none"
                \/ Held(d) /\ Frame(st, d) /\ Leaves(st, d) /\ CountRight(d, 0)
<1>1. st \in ManagerStates /\ st.timeout \in 0 .. Timeout /\ Timeout \in Nat \ {0}
  BY BurstsAssumption DEF Typed, ManagerStates
<1> DEFINE ahead == Ending(st)
           left  == IF \E e \in ahead : e[2] = 0 THEN st.timeout - 1 ELSE st.timeout
<1>2. decrementTimeout(st, more) =
        IF st.link_status # "link_established" THEN st
        ELSE IF ahead = {} THEN [st EXCEPT !.failed = "no_exchange_left"]
        ELSE IF left = 0 THEN onTimeoutExpiry([st EXCEPT !.timeout = 0], more)
        ELSE [st EXCEPT !.timeout = left]
  BY DEF decrementTimeout, Ending
<1>3. CASE st.link_status # "link_established"
  BY <1>2, <1>3, LeavesReflexive DEF CountRight, Frame, StillAwaits
<1>4. CASE st.link_status = "link_established" /\ ahead = {}
  <2> DEFINE d == [st EXCEPT !.failed = "no_exchange_left"]
  <2>1. decrementTimeout(st, more) = d
    BY <1>2, <1>4
  <2>2. /\ d \in ManagerStates /\ d.failed = "no_exchange_left"
        /\ d.mac_id = st.mac_id /\ d.link_id = st.link_id
        /\ d.proposals = st.proposals /\ d.link_status = st.link_status
    BY <1>1 DEF ManagerStates, Failures
  <2> HIDE DEF d
  <2> QED BY <1>4, <2>1, <2>2 DEF Typed, StillAwaits
<1>5. CASE st.link_status = "link_established" /\ ahead # {}
  <2>1. st.timeout > 0
    BY <1>5 DEF CountRight
  <2>2. PICK start \in Int :
         /\ \A e \in st.scheduled_resources : e[2] =< LastBurst(start)
         /\ \A e \in Ending(st) : \E k \in 0 .. Timeout - 1 :
              e[2] = start + (2 * k + 1) * Increment
         /\ st.timeout < Timeout =>
              start + (2 * (Timeout - st.timeout) - 1) * Increment =< -1
    BY <1>5 DEF CountRight
  <2>3. /\ left \in 0 .. Timeout
        /\ left < Timeout => start + (2 * (Timeout - left) - 1) * Increment =< 0
        /\ left = 0 => LastBurst(start) =< 0
    <3>1. CASE ~\E e \in ahead : e[2] = 0
      <4>1. left = st.timeout
        BY <3>1
      <4> DEFINE x == start + (2 * (Timeout - left) - 1) * Increment
      <4>2. x \in Int
        BY <1>1, <4>1, BurstsAssumption
      <4>3. left < Timeout => x =< -1
        BY <2>2, <4>1
      <4> HIDE DEF x, left
      <4>4. left < Timeout => x =< 0
        BY <4>2, <4>3
      <4> QED BY <1>1, <2>1, <4>1, <4>4 DEF x
    <3>2. CASE \E e \in ahead : e[2] = 0
      <4>1. left = st.timeout - 1 /\ left \in 0 .. Timeout - 1 /\ left + 1 = st.timeout
        BY <1>1, <2>1, <3>2
      <4>2. PICK k \in 0 .. Timeout - 1 : start + (2 * k + 1) * Increment = 0
        BY <2>2, <3>2
      <4>3. left + 1 < Timeout => start + (2 * (Timeout - (left + 1)) - 1) * Increment =< -1
        BY <2>2, <4>1
      <4> HIDE DEF left
      <4>4. left \in 0 .. Timeout
        BY <1>1, <4>1
      <4> QED BY <4>1, <4>2, <4>3, <4>4, NextExchange
    <3> QED BY <3>1, <3>2
  <2> HIDE DEF left
  <2>4. CASE left = 0
    <3>1. \A e \in st.scheduled_resources : e[2] =< 0
      <4>1. LastBurst(start) \in Int /\ \A e \in st.scheduled_resources : e[2] \in Int
        <5>1. LastBurst(start) \in Int
          BY BurstsAssumption DEF LastBurst
        <5>2. st.scheduled_resources \subseteq Tables \X Slots
          BY <1>1 DEF ManagerStates, Entries
        <5> QED BY <5>1, <5>2, EntryIs
      <4> QED BY <2>2, <2>3, <2>4, <4>1
    <3>2. Returns(st, onTimeoutExpiry([st EXCEPT !.timeout = 0], more))
      BY <1>5, <3>1, Expired
    <3> QED BY <1>2, <1>5, <2>4, <3>2 DEF Returns, CountRight, Frame, StillAwaits
  <2>5. CASE left # 0
    <3> DEFINE d == [st EXCEPT !.timeout = left]
    <3>1. decrementTimeout(st, more) = d
      BY <1>2, <1>5, <2>5
    <3>2. /\ d \in ManagerStates /\ Frame(st, d) /\ SameSlots(st, d) /\ d.timeout = left
          /\ SameQueues(st, d)
      BY <1>1, <2>3 DEF ManagerStates, Frame, SameSlots, SameQueues
    <3> HIDE DEF d
    <3>3. Typed(d) /\ Held(d) /\ Leaves(st, d)
      BY <3>2, AsItWas
    <3>4. CountRight(d, 0)
      <4>1. Ending(d) = Ending(st) /\ d.scheduled_resources = st.scheduled_resources
        BY <3>2 DEF Ending, SameSlots, SameQueues
      <4>2. d.timeout > 0 /\ d.timeout = left
        BY <2>3, <2>5, <3>2
      <4> HIDE DEF ahead
      <4> QED BY <2>2, <2>3, <4>1, <4>2 DEF CountRight
    <3>5. StillAwaits(st, d)
      BY <1>5, <3>2 DEF StillAwaits, SameQueues
    <3> QED BY <3>1, <3>2, <3>3, <3>4, <3>5 DEF Frame
  <2> QED BY <2>4, <2>5
<1> QED BY <1>3, <1>4, <1>5

-----------------------------------------------------------------------------
(* The bursts of a link *)

(* An accepted link: what an earlier one held is returned first, and the   *)
(* timeout agrees with the bursts.                                         *)
Accepts(st, a) ==
  /\ Typed(a) /\ Held(a) /\ CountRight(a, -1) /\ Leaves(st, a)
  /\ a.slot = st.slot /\ a.scheduled = st.scheduled
  /\ a.failed \in {st.failed, "faulty_link"}
  /\ a.link_status = "link_established"

LEMMA Accepted ==
  ASSUME NEW st, Typed(st), Held(st), NEW p, p.channel \in PP, p.slot \in Slots, InHorizon(p.slot),
         NEW through_request \in BOOLEAN
  PROVE  LET a == acceptLink(st, p, through_request)
         IN  /\ Accepts(st, a) /\ st.link_id \notin Answered(a)
             /\ a.is_link_initiator = ~through_request
<1> DEFINE free      == cancelLink(st)
           initiator == ~through_request
           bursts    == scheduleBursts(free.tables, p.channel, p.slot, st.link_id, initiator)
           a         == acceptLink(st, p, through_request)
<1>1. /\ Returns(st, free) /\ free.link_status = "link_not_established"
      /\ free.locked_resources = {} /\ free.scheduled_resources = {}
      /\ st.link_id \notin Answered(free)
  BY Cancelled
<1>2. /\ free \in ManagerStates /\ free.link_id = st.link_id /\ st.link_id \in Peers
      /\ st.link_id \in UserIds /\ Held(free) /\ p.slot \in Nat
  <2>1. st.link_id \in Peers
    BY DEF Typed, ManagerStates
  <2>2. p.slot \in Nat
    BY ZeroSlot
  <2> HIDE DEF free
  <2> QED BY <1>1, <2>1, <2>2, PeerIds DEF Returns, Typed, Frame
<1> HIDE DEF free
<1> DEFINE new       == bursts.tables
           scheduled == bursts.scheduled
<1>3. /\ new \in TB /\ OneTx(new) /\ HardwareNeverBusy(new) /\ SharedOnlyTxRx(new)
      /\ \A s \in Slots : IsTx(new[SH][s]) <=> IsTx(free.tables[SH][s])
      /\ \A t \in Tables, s \in Slots : IsLocked(new[t][s]) => IsLocked(free.tables[t][s])
      /\ scheduled \in SUBSET (PP \X Slots)
      /\ \A e \in scheduled :
           /\ new[e[1]][e[2]].action \in {"TX", "RX"} /\ new[e[1]][e[2]].target = st.link_id
           /\ e[2] =< LastBurst(p.slot)
           /\ new[e[1]][e[2]].action = (IF initiator THEN "RX" ELSE "TX")
                => e[2] \in RxBursts(p.slot)
      /\ \A ch \in PP, s \in Slots : new[ch][s] = free.tables[ch][s] \/ <<ch, s>> \in scheduled
      /\ \A ch \in PP, s \in Slots :
           new[ch][s] = free.tables[ch][s] \/ CanUse(free.tables[ch][s], st.link_id)
      /\ \A t \in Channels \cup {TxTable}, s \in Slots :
           IsLocked(free.tables[t][s]) => new[t][s] = free.tables[t][s]
  <2>1. /\ free.tables \in TB /\ OneTx(free.tables) /\ HardwareNeverBusy(free.tables)
        /\ SharedOnlyTxRx(free.tables)
    BY <1>2 DEF Held, Good
  <2> HIDE DEF initiator
  <2>2. Booked(free.tables, new, scheduled, p.slot, st.link_id, initiator)
    BY <1>2, <2>1, Scheduled
  <2> HIDE DEF new, scheduled
  <2> QED BY <2>2 DEF Booked
<1> DEFINE failed == IF free.failed = "none" /\ bursts.throws THEN "faulty_link" ELSE free.failed
<1>4. failed \in {free.failed, "faulty_link"} /\ failed \in Failures
  BY <1>2 DEF ManagerStates, Failures
<1>5. a = [free EXCEPT !.tables = new, !.scheduled_resources = scheduled, !.failed = failed,
                       !.is_link_initiator = initiator, !.link_status = "link_established",
                       !.timeout = Timeout, !.attempts = 0, !.late = FALSE]
  <2>1. a = [free EXCEPT !.tables = bursts.tables, !.scheduled_resources = bursts.scheduled,
                         !.failed = IF @ = "none" /\ bursts.throws THEN "faulty_link" ELSE @,
                         !.is_link_initiator = ~through_request,
                         !.link_status = "link_established",
                         !.timeout = Timeout, !.attempts = 0, !.late = FALSE]
    BY DEF acceptLink, free
  <2> HIDE DEF bursts, a
  <2> QED BY <1>2, <2>1 DEF ManagerStates
<1> HIDE DEF bursts, failed, a, new, scheduled
<1>6. /\ a \in ManagerStates /\ a.mac_id = free.mac_id /\ a.link_id = free.link_id
      /\ a.slot = free.slot /\ a.scheduled = free.scheduled /\ a.failed = failed
      /\ a.tables = new /\ a.link_status = "link_established" /\ a.is_link_initiator = initiator
      /\ a.locked_resources = {} /\ a.scheduled_resources = scheduled /\ a.timeout = Timeout
      /\ a.link_requests = free.link_requests /\ a.link_replies = free.link_replies
      /\ a.proposals = free.proposals
  <2>1. /\ new \in [Tables -> [Slots -> Reservation]] /\ scheduled \in SUBSET Entries
        /\ initiator \in BOOLEAN /\ Timeout \in 0 .. Timeout /\ 0 \in 0 .. MaxAttempts
    BY <1>2, <1>3, Disjoint, BurstsAssumption, AttemptsAssumption DEF TB, Entries
  <2> HIDE DEF initiator
  <2>2. a \in ManagerStates
    BY <1>2, <1>4, <1>5, <2>1 DEF ManagerStates, Statuses
  <2> QED BY <1>1, <1>2, <1>5, <2>2 DEF ManagerStates
<1>7. Typed(a)
  BY <1>1, <1>6 DEF Typed, Returns
<1>8. Good(a)
  <2>1. Shaped(a)
    BY <1>6 DEF Shaped, ManagerStates, Fields
  <2> QED BY <1>2, <1>3, <1>6, <2>1 DEF Held, Good, ReservedAt
<1>9. \A e \in scheduled : e[1] \in PP /\ e[2] \in Slots /\ e = <<e[1], e[2]>>
  BY <1>3, EntryIs
<1>10. \A ch \in PP, s \in Slots :
         \/ new[ch][s] = free.tables[ch][s]
         \/ /\ new[ch][s].action \in {"TX", "RX"} /\ new[ch][s].target = st.link_id
            /\ free.tables[ch][s].target \notin Peers
  <2> SUFFICES ASSUME NEW ch \in PP, NEW s \in Slots, new[ch][s] # free.tables[ch][s]
               PROVE  /\ new[ch][s].action \in {"TX", "RX"} /\ new[ch][s].target = st.link_id
                      /\ free.tables[ch][s].target \notin Peers
    OBVIOUS
  <2> DEFINE e == <<ch, s>>
  <2>1. e \in scheduled /\ e[1] = ch /\ e[2] = s
    BY <1>3
  <2> HIDE DEF e
  <2>2. new[ch][s].action \in {"TX", "RX"} /\ new[ch][s].target = st.link_id
    BY <1>3, <2>1
  <2>3. free.tables[ch][s].action \in {"IDLE", "BUSY"}
    BY <1>3 DEF CanUse, IsIdle, IsBusy
  <2> QED BY <1>2, <2>2, <2>3 DEF Held, Clean
<1>11. Clean(new)
  BY <1>2, <1>3, <1>10, Disjoint DEF Held, Clean
<1>12. LocksRight(a)
  <2> SUFFICES ASSUME NEW t \in Tables, NEW s \in Slots, s > 0, IsLocked(new[t][s]),
                      new[t][s].target = st.link_id
               PROVE  FALSE
    BY <1>2, <1>6 DEF LocksRight
  <2>1. IsLocked(free.tables[t][s])
    BY <1>3
  <2>2. t \notin RxTables
    BY <1>2, <2>1 DEF Held, Clean
  <2>3. new[t][s] = free.tables[t][s]
    BY <1>3, <2>1, <2>2 DEF Tables
  <2> QED BY <1>1, <1>2, <2>1, <2>3 DEF Held, LocksRight
<1>13. BurstsRight(a)
  <2>1. \A e \in scheduled : e[1] \in PP /\ Burst(a, e[1], e[2])
    BY <1>2, <1>3, <1>6, <1>9 DEF Burst
  <2>2. ASSUME NEW ch \in PP, NEW s \in Slots, s > 0, Burst(a, ch, s) PROVE <<ch, s>> \in scheduled
    <3>1. ~Burst(free, ch, s)
      BY <1>1, <1>2, <2>2 DEF Held, BurstsRight
    <3>2. new[ch][s] # free.tables[ch][s]
      BY <1>2, <1>6, <2>2, <3>1 DEF Burst
    <3> QED BY <1>3, <3>2
  <2> QED BY <2>1, <2>2, <1>6 DEF BurstsRight
<1>14. Asked(a) = Asked(free) /\ Answered(a) = Answered(free)
  BY <1>6 DEF Asked, Answered
<1>15. QueuesRight(a)
  <2>1. NoneTwice(a)
    BY <1>2, <1>6 DEF Held, QueuesRight, NoneTwice
  <2>2. st.link_id \notin Asked(a)
    BY <1>1, <1>2, <1>14 DEF Held, QueuesRight
  <2> QED BY <1>1, <1>2, <1>6, <1>14, <2>1, <2>2 DEF QueuesRight
<1>16. CountRight(a, -1)
  <2>1. a.timeout > 0 /\ ~(a.timeout < Timeout)
    BY <1>6, BurstsAssumption
  <2>2. \A e \in a.scheduled_resources : e[2] =< LastBurst(p.slot)
    BY <1>3, <1>6
  <2>3. \A e \in Ending(a) : \E k \in 0 .. Timeout - 1 : e[2] = p.slot + (2 * k + 1) * Increment
    <3>1. \A e \in Ending(a) : e[2] \in RxBursts(p.slot)
      BY <1>3, <1>6 DEF Ending
    <3> QED BY <3>1 DEF RxBursts
  <2>4. p.slot \in Int
    BY <1>2
  <2> QED BY <2>1, <2>2, <2>3, <2>4 DEF CountRight
<1>17. LeavesSlots(free, a)
  <2> SUFFICES ASSUME NEW q \in Peers \ {st.link_id}, NEW t \in Tables, NEW s \in Slots,
                      Holds(free.tables[t][s], t, q) \/ Holds(new[t][s], t, q)
               PROVE  new[t][s] = free.tables[t][s]
    BY <1>2, <1>6 DEF LeavesSlots
  <2>1. CASE t \in PP
    BY <1>10, <2>1 DEF Holds
  <2>2. CASE t \notin PP
    <3>1. IsLocked(free.tables[t][s])
      BY <1>3, <2>2 DEF Holds
    <3>2. t \notin RxTables
      BY <1>2, <3>1 DEF Held, Clean
    <3> QED BY <1>3, <3>1, <3>2 DEF Tables
  <2> QED BY <2>1, <2>2
<1>18. Leaves(st, a)
  <2>1. Leaves(free, a)
    BY <1>6, <1>14, <1>17 DEF Leaves, LeavesQueues
  <2> QED BY <1>1, <2>1, LeavesTransitive DEF Returns
<1>19. Typed(a) /\ Held(a)
  <2>1. Tidy(a)
    BY <1>6 DEF Tidy
  <2> QED BY <1>6, <1>7, <1>8, <1>11, <1>12, <1>13, <1>15, <2>1 DEF Held
<1> QED BY <1>1, <1>4, <1>6, <1>14, <1>16, <1>18, <1>19 DEF Accepts, Returns, Frame, a

-----------------------------------------------------------------------------
(* What the methods of SHLinkManager do to the state of a manager *)

(* The user's broadcast may be scheduled anew; the link is as it was, and  *)
(* so is every lock.                                                       *)
SameLink(st, st2) ==
  /\ st2.mac_id = st.mac_id /\ st2.link_id = st.link_id
  /\ st2.advertised = st.advertised /\ st2.proposals = st.proposals
  /\ st2.link_status = st.link_status /\ st2.is_link_initiator = st.is_link_initiator
  /\ st2.link_requests = st.link_requests /\ st2.link_replies = st.link_replies
  /\ st2.timeout = st.timeout
  /\ st2.locked_resources = st.locked_resources
  /\ st2.scheduled_resources = st.scheduled_resources
  /\ \A t \in PP \cup RxTables : st2.tables[t] = st.tables[t]
  /\ \A t \in Tables, s \in Slots :
       IsLocked(st.tables[t][s]) \/ IsLocked(st2.tables[t][s])
         => st2.tables[t][s] = st.tables[t][s]

LEMMA SameLinkTransitive ==
  ASSUME NEW st, NEW x, NEW y, SameLink(st, x), SameLink(x, y)
  PROVE  SameLink(st, y)
BY DEF SameLink

LEMMA SameLinkLeaves ==
  ASSUME NEW st, NEW st2, SameLink(st, st2)
  PROVE  Leaves(st, st2) /\ StillAwaits(st, st2)
<1>1. LeavesSlots(st, st2)
  BY DEF LeavesSlots, Holds, SameLink
<1>2. LeavesQueues(st, st2)
  BY DEF LeavesQueues, Asked, Answered, SameLink
<1>3. StillAwaits(st, st2)
  BY DEF StillAwaits, SameLink
<1> QED BY <1>1, <1>2, <1>3 DEF Leaves, SameLink

LEMMA BroadcastChange ==
  ASSUME NEW st, Typed(st), Held(st), NEW st2, Good(st2), Keeps(st, st2)
  PROVE  /\ Typed(st2) /\ Held(st2) /\ SameLink(st, st2)
         /\ \A b \in Int : CountRight(st, b) => CountRight(st2, b)
<1>1. /\ st \in ManagerStates
      /\ DOMAIN st2 = DOMAIN st /\ st2 = [f \in DOMAIN st |-> st2[f]]
      /\ \A f \in DOMAIN st \ Fields : st2[f] = st[f]
      /\ st2.failed \in {st.failed, "no_candidate"}
      /\ st2.tables \in [Tables -> [Slots -> Reservation]]
      /\ st2.slot \in Slots /\ st2.scheduled \in BOOLEAN
  BY DEF Typed, Good, Keeps, Shaped, TB
<1>2. /\ st2.mac_id = st.mac_id /\ st2.link_id = st.link_id
      /\ st2.advertised = st.advertised /\ st2.proposals = st.proposals
      /\ st2.link_status = st.link_status /\ st2.is_link_initiator = st.is_link_initiator
      /\ st2.link_requests = st.link_requests /\ st2.link_replies = st.link_replies
      /\ st2.timeout = st.timeout
      /\ st2.locked_resources = st.locked_resources
      /\ st2.scheduled_resources = st.scheduled_resources
      /\ st2.attempts = st.attempts /\ st2.expected = st.expected
      /\ st2.late = st.late
  BY <1>1 DEF ManagerStates, Fields
<1>3. st2 \in ManagerStates
  <2>1. st2.failed \in Failures
    BY <1>1 DEF ManagerStates, Failures
  <2>2. st2 = [tables |-> st2.tables, failed |-> st2.failed, mac_id |-> st2.mac_id,
               link_id |-> st2.link_id, slot |-> st2.slot, scheduled |-> st2.scheduled,
               link_requests |-> st2.link_requests, link_replies |-> st2.link_replies,
               advertised |-> st2.advertised, proposals |-> st2.proposals,
               link_status |-> st2.link_status, is_link_initiator |-> st2.is_link_initiator,
               attempts |-> st2.attempts, timeout |-> st2.timeout, expected |-> st2.expected,
               locked_resources |-> st2.locked_resources,
               scheduled_resources |-> st2.scheduled_resources, late |-> st2.late]
    BY <1>1 DEF ManagerStates
  <2> QED BY <1>1, <1>2, <2>1, <2>2 DEF ManagerStates
<1>4. Typed(st2)
  BY <1>2, <1>3 DEF Typed
<1>5. \A t \in PP \cup RxTables : st2.tables[t] = st.tables[t]
  BY DEF Keeps, SameLinks
<1>6. ASSUME NEW t \in Tables, NEW s \in Slots,
             IsLocked(st.tables[t][s]) \/ IsLocked(st2.tables[t][s])
      PROVE  st2.tables[t][s] = st.tables[t][s]
  <2>1. t # SH
    BY <1>6 DEF Held, Good, SharedOnlyTxRx, IsLocked, IsIdle, IsTx, IsRx
  <2>2. CASE t = TxTable
    BY <1>6, <2>2 DEF Keeps, SameLocks
  <2>3. CASE t # TxTable
    BY <2>1, <2>3, <1>5 DEF Tables, Channels
  <2> QED BY <2>2, <2>3
<1>7. SameLink(st, st2)
  BY <1>2, <1>5, <1>6 DEF SameLink
<1>8. LocksRight(st2)
  BY <1>2, <1>6 DEF LocksRight, Held
<1>9. BurstsRight(st2)
  <2>1. \A c \in PP : \A s : Burst(st2, c, s) <=> Burst(st, c, s)
    BY <1>2, <1>5 DEF Burst
  <2>2. BurstsRight(st)
    BY DEF Held
  <2> QED BY <1>2, <2>1, <2>2 DEF BurstsRight
<1>10. QueuesRight(st2)
  BY <1>2 DEF QueuesRight, NoneTwice, Asked, Answered, Held
<1>11. Clean(st2.tables)
  BY <1>5 DEF Clean, Held
<1>12. ASSUME NEW b \in Int, CountRight(st, b) PROVE CountRight(st2, b)
  <2>1. Ending(st2) = Ending(st)
    <3>1. \A e \in st.scheduled_resources : st2.tables[e[1]][e[2]] = st.tables[e[1]][e[2]]
      BY <1>5 DEF Held, BurstsRight
    <3> QED BY <1>2, <3>1 DEF Ending
  <2> QED BY <1>2, <1>12, <2>1 DEF CountRight
<1>13. Tidy(st2)
  BY <1>2 DEF Held, Tidy
<1> QED BY <1>4, <1>7, <1>8, <1>9, <1>10, <1>11, <1>12, <1>13 DEF Held

(* A broadcast that is scheduled anew *)
LEMMA Rescheduled ==
  ASSUME NEW st, Typed(st), Held(st), NEW st2 \in scheduleBroadcastSlot(st)
  PROVE  /\ Typed(st2) /\ Held(st2) /\ Ahead(st2) /\ SameLink(st, st2)
         /\ \A b \in Int : CountRight(st, b) => CountRight(st2, b)
         /\ st2.failed \in {st.failed, "no_candidate"}
<1>1. Good(st2) /\ Keeps(st, st2) /\ Ahead(st2)
  BY Schedule DEF Held
<1> QED BY <1>1, BroadcastChange DEF Keeps

LEMMA Suggested ==
  ASSUME NEW st, Typed(st), Held(st), NEW f \in propose(st)
  PROVE  /\ Typed(f.st) /\ Held(f.st) /\ SameLink(st, f.st)
         /\ \A b \in Int : CountRight(st, b) => CountRight(f.st, b)
         /\ f.proposals \subseteq Offers
         /\ f.proposals # {} => f.expected \in Slots
         /\ f = [st |-> f.st, proposals |-> f.proposals, expected |-> f.expected]
<1>1. /\ st \in ManagerStates /\ st.slot \in Slots /\ st.proposals \subseteq Offers
      /\ st.advertised \in Slots \cup {NONE}
  BY DEF Typed, ManagerStates
<1>2. ASSUME NEW st2, NEW m \in Nat, f = Found(st2, m)
      PROVE  /\ f.st = st2 /\ f.proposals \subseteq Offers
             /\ f.proposals # {} => f.expected \in Slots
             /\ f = [st |-> f.st, proposals |-> f.proposals, expected |-> f.expected]
  <2>1. /\ f.st = st2 /\ f.proposals = findLinkProposals(st2.tables, m) /\ f.expected = m
        /\ f = [st |-> f.st, proposals |-> f.proposals, expected |-> f.expected]
    BY <1>2 DEF Found
  <2>2. \A p \in f.proposals : p \in Offers /\ m =< p.slot /\ p.slot \in Slots
    BY <2>1, Proposed DEF Offers, Proposals
  <2>3. ASSUME NEW p \in f.proposals PROVE m \in Slots
    <3>1. m =< p.slot /\ p.slot \in Slots
      BY <2>2
    <3> QED BY <3>1, HorizonAssumption DEF Slots
  <2> QED BY <2>1, <2>2, <2>3
<1>3. CASE f \in proposeRemoteLinks(st) /\ st.advertised # NONE
  <2>1. PICK p \in st.proposals : f = [st |-> st, proposals |-> {p}, expected |-> st.advertised]
    BY <1>3 DEF proposeRemoteLinks
  <2>2. f.st = st /\ f.proposals = {p} /\ f.expected = st.advertised
    BY <2>1
  <2> QED BY <1>1, <1>3, <2>1, <2>2 DEF SameLink
<1>4. CASE f \in proposeLocalLinks(st) /\ st.advertised # NONE
  <2>1. f = Found(st, st.advertised + 1)
    BY <1>4 DEF proposeLocalLinks
  <2>2. st.advertised + 1 \in Nat
    BY <1>1, <1>4, HorizonAssumption DEF Slots
  <2> QED BY <1>2, <2>1, <2>2 DEF SameLink
<1>5. CASE f \in proposeLocalLinks(st) /\ st.advertised = NONE
  <2>1. PICK next \in IF st.slot = 0 THEN scheduleBroadcastSlot(st) ELSE {st} : f = Found(next, next.slot)
    BY <1>5 DEF proposeLocalLinks
  <2>2. /\ Typed(next) /\ Held(next) /\ SameLink(st, next)
        /\ \A b \in Int : CountRight(st, b) => CountRight(next, b)
    BY <2>1, Rescheduled DEF SameLink
  <2>3. next.slot \in Nat
    BY <2>2, ZeroSlot DEF Held, Good
  <2> QED BY <1>2, <2>1, <2>2, <2>3
<1> QED BY <1>3, <1>4, <1>5 DEF propose

(* Every slot that the proposals ask for is locked for the peer. *)
OffersLocked(tb, id, proposals) ==
  \A q \in proposals : \A e \in BurstEntries(q) :
    e[2] > 0 => e \in Entries /\ tb[e[1]][e[2]] = Res("LOCKED", id)

(* The slots of a request are locked where nothing else holds them. *)
LEMMA Locked ==
  ASSUME NEW st, Typed(st), Held(st), st.link_status = "awaiting_reply",
         st.locked_resources = {}, st.scheduled_resources = {},
         st.failed = "none", NEW proposals \in SUBSET Offers
  PROVE  LET k == lockProposedResources(st, proposals)
         IN  /\ Typed(k) /\ k.mac_id = st.mac_id /\ k.link_id = st.link_id
             /\ k.link_status = "awaiting_reply" /\ k.link_requests = st.link_requests
             /\ k.failed = "none" =>
                  Held(k) /\ Leaves(st, k) /\ OffersLocked(k.tables, st.link_id, proposals)
<1> DEFINE tx       == UNION {{p.channel} \X TxBursts(p.slot) : p \in proposals}
           rx       == UNION {{p.channel} \X RxBursts(p.slot) : p \in proposals}
           toLock   == tx \cup rx \cup {<<TxTable, e[2]>> : e \in tx}
           receiver(s) == {x \in RxTables : CanLock(st.tables[x][s])}
           taken    == {<<CHOOSE x \in receiver(e[2]) : TRUE, e[2]>> :
                          e \in {r \in rx : receiver(r[2]) # {}}}
           new      == [t \in Tables |-> [s \in Slots |->
                          IF <<t, s>> \in toLock THEN Res("LOCKED", st.link_id) ELSE st.tables[t][s]]]
           cannot   == \/ \E e \in toLock : \/ ~CanLock(st.tables[e[1]][e[2]])
                                            \/ LockMismatch(st.tables[e[1]][e[2]], st.link_id)
                       \/ \E e \in rx : receiver(e[2]) = {}
           failed   == IF cannot THEN "cannot_lock" ELSE st.failed
           locked   == st.locked_resources \cup toLock \cup taken
           k        == lockProposedResources(st, proposals)
<1>1. /\ st \in ManagerStates /\ st.link_id \in Peers /\ st.tables \in TB
      /\ st.failed \in Failures /\ st.locked_resources \in SUBSET Entries
  BY DEF Typed, ManagerStates, TB
<1>2. k = [st EXCEPT !.tables = new, !.locked_resources = locked, !.failed = failed]
  <2>1. k = [st EXCEPT !.tables = new, !.locked_resources = @ \cup toLock \cup taken,
                       !.failed = IF cannot THEN "cannot_lock" ELSE @]
    BY DEF lockProposedResources
  <2> HIDE DEF k, new, toLock, taken, cannot
  <2> QED BY <1>1, <2>1 DEF ManagerStates
<1>3. tx \subseteq PP \X Slots /\ rx \subseteq PP \X Slots
  <2>1. \A p \in proposals : p.channel \in PP /\ p.slot \in Nat /\ InHorizon(p.slot)
    BY ZeroSlot DEF Offers, Proposals
  <2>2. \A p \in proposals : TxBursts(p.slot) \subseteq Slots /\ RxBursts(p.slot) \subseteq Slots
    BY <2>1, BurstSlots
  <2> QED BY <2>1, <2>2
<1> HIDE DEF tx, rx
<1>4. /\ toLock \subseteq (PP \cup {TxTable}) \X Slots /\ toLock \subseteq Entries
  <2>1. \A e \in tx : e[2] \in Slots
    BY <1>3, EntryIs
  <2>2. toLock \subseteq (PP \cup {TxTable}) \X Slots
    BY <1>3, <2>1
  <2> QED BY <2>2, Disjoint DEF Entries
<1>5. taken \subseteq Entries
  <2>1. ASSUME NEW e \in rx, receiver(e[2]) # {}
        PROVE  <<CHOOSE x \in receiver(e[2]) : TRUE, e[2]>> \in Entries
    <3> DEFINE x0 == CHOOSE x \in receiver(e[2]) : TRUE
    <3>1. x0 \in receiver(e[2])
      BY <2>1
    <3>2. x0 \in Tables
      BY <3>1, Disjoint
    <3>3. e[2] \in Slots
      BY <1>3, EntryIs
    <3> HIDE DEF x0
    <3>4. <<x0, e[2]>> \in Entries
      BY <3>2, <3>3 DEF Entries
    <3> QED BY <3>4 DEF x0
  <2> QED BY <2>1
<1>6. /\ new \in TB
      /\ \A t \in Tables, s \in Slots :
           new[t][s] = IF <<t, s>> \in toLock THEN Res("LOCKED", st.link_id) ELSE st.tables[t][s]
  <2>1. Res("LOCKED", st.link_id) \in Reservation
    BY <1>1, PeerIds DEF Res, Reservation, Actions
  <2> HIDE DEF toLock
  <2> QED BY <1>1, <2>1 DEF TB
<1>7. ~cannot => \A e \in toLock : /\ CanLock(st.tables[e[1]][e[2]])
                                   /\ ~LockMismatch(st.tables[e[1]][e[2]], st.link_id)
  OBVIOUS
<1>8. failed \in Failures /\ locked \in SUBSET Entries
  <2> HIDE DEF cannot, toLock, taken
  <2> QED BY <1>1, <1>4, <1>5 DEF Failures
<1>9. failed = "none" => ~cannot
  OBVIOUS
<1>10. toLock \subseteq locked
  OBVIOUS
<1>14. \A q \in proposals : BurstEntries(q) \subseteq toLock
  <2> SUFFICES ASSUME NEW q \in proposals, NEW e \in BurstEntries(q) PROVE e \in toLock
    OBVIOUS
  <2>1. CASE \E s \in TxBursts(q.slot) : e = <<q.channel, s>> \/ e = <<TxTable, s>>
    <3>1. PICK s \in TxBursts(q.slot) : e = <<q.channel, s>> \/ e = <<TxTable, s>>
      BY <2>1
    <3>2. <<q.channel, s>> \in tx
      BY DEF tx
    <3> QED BY <3>1, <3>2
  <2>2. CASE \E s \in RxBursts(q.slot) : e = <<q.channel, s>>
    BY <2>2 DEF rx
  <2> QED BY <2>1, <2>2 DEF BurstEntries
<1> HIDE DEF k, new, locked, failed, cannot, toLock, taken
<1>11. /\ k \in ManagerStates /\ k.mac_id = st.mac_id /\ k.link_id = st.link_id
       /\ k.tables = new /\ k.locked_resources = locked /\ k.failed = failed
       /\ k.slot = st.slot /\ k.scheduled = st.scheduled /\ k.proposals = st.proposals
       /\ k.link_status = "awaiting_reply" /\ k.scheduled_resources = {}
       /\ k.link_requests = st.link_requests /\ k.link_replies = st.link_replies
       /\ k.is_link_initiator = st.is_link_initiator
  <2>1. new \in [Tables -> [Slots -> Reservation]]
    BY <1>6 DEF TB
  <2>2. k \in ManagerStates
    BY <1>1, <1>2, <1>8, <2>1 DEF ManagerStates
  <2> QED BY <1>1, <1>2, <2>2 DEF ManagerStates
<1>12. Typed(k)
  BY <1>11 DEF Typed
<1>13. ASSUME ~cannot PROVE Held(k) /\ Leaves(st, k) /\ OffersLocked(k.tables, st.link_id, proposals)
  <2> DEFINE lock == Res("LOCKED", st.link_id)
  <2>1. lock.action = "LOCKED" /\ lock.target = st.link_id
    BY DEF Res
  <2> HIDE DEF lock
  <2>2. \A t \in Tables, s \in Slots :
          \/ <<t, s>> \notin toLock /\ new[t][s] = st.tables[t][s]
          \/ /\ <<t, s>> \in toLock /\ new[t][s] = lock
             /\ \/ IsIdle(st.tables[t][s])
                \/ IsLocked(st.tables[t][s]) /\ st.tables[t][s].target = st.link_id
    <3> SUFFICES ASSUME NEW t \in Tables, NEW s \in Slots, <<t, s>> \in toLock
                 PROVE  /\ new[t][s] = lock
                        /\ \/ IsIdle(st.tables[t][s])
                           \/ IsLocked(st.tables[t][s]) /\ st.tables[t][s].target = st.link_id
      BY <1>6
    <3>1. CanLock(st.tables[t][s]) /\ ~LockMismatch(st.tables[t][s], st.link_id)
      <4> DEFINE e == <<t, s>>
      <4>1. e \in toLock /\ e[1] = t /\ e[2] = s
        OBVIOUS
      <4> HIDE DEF e
      <4> QED BY <1>7, <1>13, <4>1
    <3> QED BY <3>1, <1>6 DEF CanLock, LockMismatch, lock
  <2>3. \A t \in Tables, s \in Slots :
          /\ IsTx(new[t][s]) <=> IsTx(st.tables[t][s])
          /\ IsBusy(new[t][s]) => IsBusy(st.tables[t][s])
    BY <2>1, <2>2 DEF IsTx, IsBusy, IsIdle, IsLocked
  <2>4. OneTx(new)
    BY <2>3, Disjoint DEF Held, Good, OneTx
  <2>5. HardwareNeverBusy(new)
    BY <2>3, Disjoint DEF Held, Good, HardwareNeverBusy
  <2>6. \A s \in Slots : new[SH][s] = st.tables[SH][s]
    <3>1. \A s \in Slots : <<SH, s>> \notin toLock
      BY <1>4, Disjoint
    <3> QED BY <3>1, <1>6, Disjoint
  <2>7. Good(k)
    <3>1. Shaped(k)
      BY <1>11 DEF Shaped, ManagerStates, Fields
    <3> QED BY <1>6, <1>11, <2>4, <2>5, <2>6, <3>1
            DEF Held, Good, SharedOnlyTxRx, ReservedAt
  <2>8. LocksRight(k)
    <3>1. \A t \in Tables, s \in Slots :
            s > 0 /\ IsLocked(new[t][s]) /\ new[t][s].target = st.link_id => <<t, s>> \in toLock
      BY <2>2 DEF Held, LocksRight
    <3> QED BY <1>10, <1>11, <3>1 DEF LocksRight
  <2>9. BurstsRight(k)
    <3>1. ASSUME NEW c \in PP, NEW s \in Slots, s > 0, Burst(k, c, s) PROVE FALSE
      <4>1. new[c][s] # lock
        BY <3>1, <1>11, <2>1 DEF Burst
      <4>2. Burst(st, c, s)
        <5>1. c \in Tables
          BY Disjoint
        <5>2. new[c][s] = st.tables[c][s]
          BY <2>2, <4>1, <5>1
        <5> QED BY <1>11, <3>1, <5>2 DEF Burst
      <4> QED BY <3>1, <4>2 DEF Held, BurstsRight
    <3> QED BY <1>11, <3>1 DEF BurstsRight
  <2>10. Asked(k) = Asked(st) /\ Answered(k) = Answered(st)
    BY <1>11 DEF Asked, Answered
  <2>11. QueuesRight(k)
    <3>1. NoneTwice(k)
      BY <1>11 DEF Held, QueuesRight, NoneTwice
    <3> QED BY <1>11, <2>10, <3>1 DEF Held, QueuesRight
  <2>12. Clean(new)
    <3>1. \A c \in PP, s \in Slots :
            new[c][s].target \in Peers => new[c][s].action \in {"LOCKED", "TX", "RX"}
      <4> SUFFICES ASSUME NEW c \in PP, NEW s \in Slots, new[c][s].target \in Peers
                   PROVE  new[c][s].action \in {"LOCKED", "TX", "RX"}
        OBVIOUS
      <4>1. new[c][s] = lock \/ new[c][s] = st.tables[c][s]
        <5>1. c \in Tables
          BY Disjoint
        <5> QED BY <2>2, <5>1
      <4>2. CASE new[c][s] = lock
        BY <2>1, <4>2
      <4>3. CASE new[c][s] = st.tables[c][s]
        BY <4>3 DEF Held, Clean
      <4> QED BY <4>1, <4>2, <4>3
    <3>2. \A h \in RxTables, s \in Slots : <<h, s>> \notin toLock
      BY <1>4, Disjoint, TablesAssumption
    <3>3. \A h \in RxTables, s \in Slots : ~IsLocked(new[h][s])
      BY <2>2, <3>2, Disjoint DEF Held, Clean
    <3> QED BY <3>1, <3>3 DEF Clean
  <2>13. LeavesSlots(st, k)
    <3> SUFFICES ASSUME NEW p \in Peers \ {st.link_id}, NEW t \in Tables, NEW s \in Slots,
                        <<t, s>> \in toLock,
                        Holds(st.tables[t][s], t, p) \/ Holds(new[t][s], t, p)
                 PROVE  FALSE
      BY <1>6, <1>11 DEF LeavesSlots
    <3>1. Holds(st.tables[t][s], t, p) /\ IsIdle(st.tables[t][s])
      BY <2>1, <2>2 DEF Holds
    <3>2. t \in PP
      BY <3>1 DEF Holds, IsIdle, IsLocked
    <3> QED BY <3>1, <3>2 DEF Holds, IsIdle, Held, Clean
  <2>14. Leaves(st, k)
    BY <1>11, <2>10, <2>13 DEF Leaves, LeavesQueues
  <2>15. OffersLocked(new, st.link_id, proposals)
    <3> SUFFICES ASSUME NEW q \in proposals, NEW e \in BurstEntries(q)
                 PROVE  e \in Entries /\ new[e[1]][e[2]] = lock
      BY DEF OffersLocked, lock
    <3>1. e \in toLock /\ e \in Entries
      BY <1>4, <1>14
    <3>2. e[1] \in Tables /\ e[2] \in Slots /\ <<e[1], e[2]>> \in toLock
      BY <3>1, EntryIs DEF Entries
    <3> QED BY <2>2, <3>1, <3>2
  <2>16. Tidy(k)
    BY <1>11 DEF Tidy
  <2> QED BY <1>11, <2>7, <2>8, <2>9, <2>11, <2>12, <2>14, <2>15, <2>16 DEF Held
<1> QED BY <1>9, <1>11, <1>12, <1>13 DEF k

(* What a handler makes of a manager, if it does not throw *)
Result(st, st2) ==
  /\ Typed(st2) /\ st2.mac_id = st.mac_id /\ st2.link_id = st.link_id
  /\ st2.failed = "none" => Held(st2) /\ CountRight(st2, -1) /\ Leaves(st, st2)

(* A request that is sent: what it proposes is locked. *)
LEMMA RequestSent ==
  ASSUME NEW f, Typed(f.st), Held(f.st), CountRight(f.st, -1),
         f.proposals \subseteq Offers, f.proposals # {} => f.expected \in Slots,
         f = [st |-> f.st, proposals |-> f.proposals, expected |-> f.expected]
  PROVE  LET r == Requested(f)
         IN  /\ Result(f.st, r.st) /\ r.proposals \subseteq Offers
             /\ Len(r.st.link_requests) =< Len(f.st.link_requests)
             /\ r.proposals = {} => r.st = f.st
             /\ r.proposals # {} /\ r.st.failed = "none" =>
                  /\ r.st.link_status = "awaiting_reply"
                  /\ OffersLocked(r.st.tables, f.st.link_id, r.proposals)
<1> DEFINE st == f.st
           c  == cancelLink(st)
           n  == notifyLinkRequestSent(st, f.expected)
           k  == lockProposedResources(n, f.proposals)
<1>1. CASE f.proposals = {} \/ st.failed # "none"
  <2>1. Requested(f).st = st /\ Requested(f).proposals = {}
    BY <1>1 DEF Requested
  <2>2. Len(st.link_requests) \in Nat
    BY DEF Typed, ManagerStates
  <2> QED BY <2>1, <2>2, LeavesReflexive DEF Result
<1>2. CASE ~(f.proposals = {} \/ st.failed # "none")
  <2>1. Requested(f).st = k /\ Requested(f).proposals = f.proposals
    BY <1>2 DEF Requested
  <2>2. /\ Returns(st, c) /\ c.link_status = "link_not_established"
        /\ c.locked_resources = {} /\ c.scheduled_resources = {}
        /\ st.link_id \notin Answered(c) /\ Len(c.link_requests) =< Len(st.link_requests)
    BY Cancelled
  <2>3. n = [c EXCEPT !.link_status = "awaiting_reply", !.timeout = Timeout, !.expected = f.expected]
    BY DEF notifyLinkRequestSent
  <2>4. c \in ManagerStates /\ f.expected \in Slots /\ Timeout \in 0 .. Timeout
    BY <1>2, <2>2, BurstsAssumption DEF Returns, Typed
  <2> HIDE DEF c, n
  <2>5. /\ n \in ManagerStates /\ Frame(c, n) /\ SameSlots(c, n)
        /\ n.link_status = "awaiting_reply"
        /\ n.locked_resources = {} /\ n.scheduled_resources = {}
        /\ n.link_requests = c.link_requests /\ n.link_replies = c.link_replies
    <3>1. n \in ManagerStates
      BY <2>3, <2>4 DEF ManagerStates, Statuses
    <3> QED BY <2>2, <2>3, <2>4, <3>1 DEF ManagerStates, Frame, SameSlots
  <2>6. QueuesRight(n) /\ LeavesQueues(c, n)
    <3>1. Asked(n) = Asked(c) /\ Answered(n) = Answered(c)
      BY <2>5 DEF Asked, Answered
    <3>2. Held(c) /\ c.link_id = st.link_id
      BY <2>2 DEF Returns, Frame
    <3>3. NoneTwice(n)
      BY <2>5, <3>2 DEF Held, QueuesRight, NoneTwice
    <3>4. c.link_id \notin Asked(c)
      BY <2>2, <3>2 DEF Held, QueuesRight
    <3> QED BY <2>2, <2>5, <3>1, <3>2, <3>3, <3>4 DEF QueuesRight, LeavesQueues, Frame
  <2>7. Typed(n) /\ Held(n) /\ Leaves(c, n)
    BY <2>2, <2>5, <2>6, StillHeld DEF Returns
  <2>8. n.failed = "none" /\ n.mac_id = st.mac_id /\ n.link_id = st.link_id
    BY <1>2, <2>2, <2>5 DEF Returns, Frame
  <2>9. /\ Typed(k) /\ k.mac_id = n.mac_id /\ k.link_id = n.link_id
        /\ k.link_status = "awaiting_reply" /\ k.link_requests = n.link_requests
        /\ k.failed = "none" =>
             Held(k) /\ Leaves(n, k) /\ OffersLocked(k.tables, n.link_id, f.proposals)
    BY <2>5, <2>7, <2>8, Locked
  <2> HIDE DEF k
  <2>10. k.failed = "none" => Leaves(st, k)
    <3>1. Leaves(st, n)
      BY <2>2, <2>7, LeavesTransitive DEF Returns
    <3> QED BY <2>9, <3>1, LeavesTransitive
  <2>11. k.link_requests = c.link_requests
    BY <2>5, <2>9
  <2>12. Result(st, k)
    <3>1. k.failed = "none" => CountRight(k, -1)
      BY <2>9 DEF CountRight
    <3> HIDE DEF st
    <3> QED BY <2>8, <2>9, <2>10, <3>1 DEF Result
  <2> QED BY <1>2, <2>1, <2>2, <2>8, <2>9, <2>11, <2>12
<1> QED BY <1>1, <1>2

-----------------------------------------------------------------------------
(* What cannot be proposed while the broadcast is prepared cannot be       *)
(* proposed after it: until then slots are only taken.                     *)
Narrower(tb, tb2) ==
  \A t \in PP \cup RxTables \cup {TxTable}, s \in Slots :
    s > 0 /\ IsIdle(tb2[t][s]) => IsIdle(tb[t][s])

LEMMA NarrowerTransitive ==
  ASSUME NEW tb, NEW tb2, NEW tb3, Narrower(tb, tb2), Narrower(tb2, tb3)
  PROVE  Narrower(tb, tb3)
BY DEF Narrower

(* No link that the peer of manager k could reply to in time fits. *)
FitsNowhere(o, k) ==
  /\ k.advertised = NONE => o.slot > 0
  /\ \A c \in PP : ValidStarts(o.tables, c, EarliestReply(o, k)) = {}

LEMMA BurstsAhead ==
  ASSUME NEW start \in Nat \ {0}, NEW s \in TxBursts(start) \cup RxBursts(start)
  PROVE  s > 0
<1>1. ASSUME NEW n \in Nat PROVE n * Increment \in Nat
  <2>1. 0 * Increment =< n * Increment /\ n * Increment \in Int /\ 0 * Increment = 0
    BY BurstsAssumption, Monotone
  <2> QED BY <2>1
<1>2. PICK n \in Nat : s = start + n * Increment
  <2>1. PICK k \in 0 .. Timeout - 1 : \/ s = start + 2 * k * Increment
                                      \/ s = start + (2 * k + 1) * Increment
    BY DEF TxBursts, RxBursts
  <2>2. 2 * k \in Nat /\ 2 * k + 1 \in Nat
    BY <2>1, BurstsAssumption
  <2> QED BY <2>1, <2>2
<1> QED BY <1>1, <1>2

LEMMA StartsNarrow ==
  ASSUME NEW tb, NEW tb2, Narrower(tb, tb2), NEW c \in PP, NEW m \in Nat \ {0}
  PROVE  ValidStarts(tb2, c, m) \subseteq ValidStarts(tb, c, m)
<1> SUFFICES ASSUME NEW x \in ValidStarts(tb2, c, m) PROVE x \in ValidStarts(tb, c, m)
  OBVIOUS
<1>1. x \in m .. Horizon - 1 /\ InHorizon(x) /\ isLinkValid(tb2, c, x, TRUE)
  BY DEF ValidStarts
<1>2. x \in Nat \ {0}
  BY <1>1, HorizonAssumption
<1>3. \A s \in TxBursts(x) \cup RxBursts(x) : s \in Slots /\ s > 0
  BY <1>1, <1>2, BurstSlots, BurstsAhead
<1>4. \A s \in TxBursts(x) : IsTxValid(tb2, c, s) => IsTxValid(tb, c, s)
  BY <1>3 DEF Narrower, IsTxValid
<1>5. \A s \in RxBursts(x) : IsRxValid(tb2, c, s) => IsRxValid(tb, c, s)
  BY <1>3 DEF Narrower, IsRxValid, IdleReceivers
<1>6. isLinkValid(tb, c, x, TRUE)
  BY <1>1, <1>4, <1>5 DEF isLinkValid
<1> QED BY <1>1, <1>6 DEF ValidStarts

LEMMA StillNowhere ==
  ASSUME NEW o, NEW k, NEW o2, NEW k2, FitsNowhere(o, k),
         k.advertised \in Slots \cup {NONE}, k2.advertised = k.advertised,
         o.slot \in Slots, k.advertised = NONE => o2.slot = o.slot,
         Narrower(o.tables, o2.tables)
  PROVE  FitsNowhere(o2, k2)
<1>1. EarliestReply(o2, k2) = EarliestReply(o, k)
  BY DEF EarliestReply
<1>2. EarliestReply(o, k) \in Nat \ {0}
  <2>1. CASE k.advertised = NONE
    <3>1. o.slot > 0 /\ o.slot \in Nat
      BY <2>1, ZeroSlot DEF FitsNowhere
    <3>2. EarliestReply(o, k) = o.slot
      BY <2>1 DEF EarliestReply
    <3> QED BY <3>1, <3>2
  <2>2. CASE k.advertised # NONE
    <3>1. EarliestReply(o, k) = k.advertised + 1 /\ k.advertised \in Nat
      BY <2>2, ZeroSlot DEF EarliestReply
    <3> QED BY <3>1
  <2> QED BY <2>1, <2>2
<1> QED BY <1>1, <1>2, StartsNarrow DEF FitsNowhere

(* A broadcast is scheduled after the present one: none is given back. *)
LEMMA ScheduleNarrows ==
  ASSUME NEW st, Good(st), st.slot = 0, NEW st2 \in scheduleBroadcastSlot(st)
  PROVE  Narrower(st.tables, st2.tables)
<1> DEFINE free == unscheduleBroadcastSlot(st)
<1>1. /\ Good(free) /\ Shaped(free) /\ Shaped(st) /\ st.tables \in TB /\ free.tables \in TB
  BY Unschedule DEF Good
<1>2. \A t \in PP \cup RxTables, s \in Slots : st2.tables[t][s] = st.tables[t][s]
  BY Schedule DEF Keeps, SameLinks
<1>3. \A s \in Slots : s > 0 => free.tables[TxTable][s] = st.tables[TxTable][s]
  <2>1. CASE ~st.scheduled
    BY <2>1 DEF unscheduleBroadcastSlot
  <2>2. CASE st.scheduled
    <3>1. free.tables = Mark(st.tables, SH, 0, Idle)
      BY <1>1, <2>2 DEF unscheduleBroadcastSlot, Shaped, Fields
    <3> HIDE DEF free
    <3> QED BY <1>1, <3>1, MarkEffect, Disjoint, IdleIs, ZeroSlot
  <2> QED BY <2>1, <2>2
<1> HIDE DEF free
<1>4. \A s \in Slots : \/ st2.tables[TxTable][s] = free.tables[TxTable][s]
                       \/ ~IsIdle(st2.tables[TxTable][s])
  <2>1. CASE \E m \in MinOffsets : \E s \in SHCandidates(free.tables, NumCandidates, m) :
               st2 = ScheduledAt(free, s)
    <3>1. PICK m \in MinOffsets : \E s \in SHCandidates(free.tables, NumCandidates, m) :
                 st2 = ScheduledAt(free, s)
      BY <2>1
    <3>2. PICK s \in SHCandidates(free.tables, NumCandidates, m) : st2 = ScheduledAt(free, s)
      BY <3>1
    <3>3. s \in Slots
      BY <3>2, MinOffsetsAssumption, HorizonAssumption DEF SHCandidates, Slots
    <3>4. \/ st2.tables = Mark(free.tables, SH, s, OwnBroadcast)
          \/ st2.tables = free.tables
      BY <1>1, <3>2 DEF ScheduledAt, Shaped, Fields
    <3>5. OwnBroadcast \in Reservation /\ ~IsIdle(OwnBroadcast)
      BY Reservations DEF IsTx, IsIdle
    <3> QED BY <1>1, <3>3, <3>4, <3>5, MarkEffect, Disjoint
  <2>2. CASE st2 = [free EXCEPT !.failed = "no_candidate"]
    BY <1>1, <2>2 DEF Shaped, Fields
  <2> QED BY <2>1, <2>2, TransmitAssumption DEF scheduleBroadcastSlot, free
<1> QED BY <1>2, <1>3, <1>4 DEF Narrower

LEMMA SuggestedNarrows ==
  ASSUME NEW st, Typed(st), Held(st), NEW f \in propose(st)
  PROVE  /\ Narrower(st.tables, f.st.tables)
         /\ f.st.advertised = st.advertised
         /\ st.slot > 0 \/ st.advertised # NONE => f.st.slot = st.slot
         /\ f.proposals = {} /\ f.st.failed = "none" => FitsNowhere(f.st, f.st)
<1>1. /\ st \in ManagerStates /\ st.slot \in Slots /\ st.advertised \in Slots \cup {NONE}
      /\ Narrower(st.tables, st.tables)
  BY DEF Typed, ManagerStates, Narrower
<1>2. ASSUME NEW st2, NEW m, f = Found(st2, m)
      PROVE  /\ f.st = st2
             /\ f.proposals = {} => \A c \in PP : ValidStarts(st2.tables, c, m) = {}
  BY <1>2 DEF Found, findLinkProposals
<1>3. CASE f \in proposeRemoteLinks(st) /\ st.advertised # NONE
  <2>1. PICK p \in st.proposals : f = [st |-> st, proposals |-> {p}, expected |-> st.advertised]
    BY <1>3 DEF proposeRemoteLinks
  <2>2. f.st = st /\ f.proposals = {p}
    BY <2>1
  <2> QED BY <1>1, <2>2
<1>4. CASE f \in proposeLocalLinks(st) /\ st.advertised # NONE
  <2>1. f = Found(st, st.advertised + 1)
    BY <1>4 DEF proposeLocalLinks
  <2> QED BY <1>1, <1>2, <1>4, <2>1 DEF FitsNowhere, EarliestReply
<1>5. CASE f \in proposeLocalLinks(st) /\ st.advertised = NONE
  <2>1. PICK next \in IF st.slot = 0 THEN scheduleBroadcastSlot(st) ELSE {st} : f = Found(next, next.slot)
    BY <1>5 DEF proposeLocalLinks
  <2>2. /\ Narrower(st.tables, next.tables) /\ next.advertised = st.advertised
        /\ st.slot > 0 => next = st
        /\ next.failed = "none" => next.slot > 0
    <3>1. CASE st.slot = 0
      <4>1. next \in scheduleBroadcastSlot(st) /\ Good(st)
        BY <2>1, <3>1 DEF Held
      <4>2. next.failed = "none" => next.slot > 0
        BY <4>1, Schedule, TransmitAssumption
      <4> QED BY <3>1, <4>1, <4>2, ScheduleNarrows, Rescheduled DEF SameLink
    <3>2. CASE st.slot # 0
      <4>1. next = st /\ st.slot \in Nat
        BY <1>1, <2>1, <3>2, ZeroSlot
      <4>2. st.slot > 0
        BY <3>2, <4>1
      <4> QED BY <1>1, <4>1, <4>2
    <3> QED BY <3>1, <3>2
  <2> QED BY <1>2, <1>5, <2>1, <2>2 DEF FitsNowhere, EarliestReply
<1> QED BY <1>3, <1>4, <1>5 DEF propose

LEMMA RequestNarrows ==
  ASSUME NEW f, Typed(f.st), Held(f.st), f.st.link_status = "awaiting_request_generation",
         f = [st |-> f.st, proposals |-> f.proposals, expected |-> f.expected]
  PROVE  LET r == Requested(f)
         IN  /\ Narrower(f.st.tables, r.st.tables)
             /\ r.st.slot = f.st.slot /\ r.st.advertised = f.st.advertised
             /\ r.proposals = {} /\ r.st.failed = "none" => f.proposals = {}
<1> DEFINE st == f.st
           c  == cancelLink(st)
           n  == notifyLinkRequestSent(st, f.expected)
           k  == lockProposedResources(n, f.proposals)
<1>1. st \in ManagerStates /\ st.locked_resources = {} /\ st.scheduled_resources = {}
  BY DEF Typed, Held, Tidy
<1>2. CASE f.proposals = {} \/ st.failed # "none"
  <2>1. Requested(f).st = st
    BY <1>2 DEF Requested
  <2> QED BY <1>2, <2>1 DEF Narrower
<1>3. CASE ~(f.proposals = {} \/ st.failed # "none")
  <2>1. Requested(f).st = k /\ Requested(f).proposals = f.proposals
    BY <1>3 DEF Requested
  <2>2. /\ \A t \in Tables, s \in Slots : c.tables[t][s] = st.tables[t][s]
        /\ c.slot = st.slot /\ c.advertised = st.advertised /\ DOMAIN c = DOMAIN st
    BY <1>1 DEF cancelLink, UnlockAll, UnscheduleAll, ManagerStates
  <2>3. n.tables = c.tables /\ n.slot = c.slot /\ n.advertised = c.advertised /\ DOMAIN n = DOMAIN c
    BY <1>1, <2>2 DEF notifyLinkRequestSent, ManagerStates
  <2> HIDE DEF c, n
  <2>4. /\ \A t \in Tables, s \in Slots :
             k.tables[t][s] = n.tables[t][s] \/ IsLocked(k.tables[t][s])
        /\ k.slot = n.slot /\ k.advertised = n.advertised
    BY <1>1, <2>2, <2>3 DEF lockProposedResources, ManagerStates, IsLocked, Res
  <2> HIDE DEF k
  <2>5. Narrower(st.tables, k.tables)
    BY <2>2, <2>3, <2>4, Disjoint DEF Narrower, IsIdle, IsLocked
  <2> QED BY <1>3, <2>1, <2>2, <2>3, <2>4, <2>5
<1> QED BY <1>2, <1>3

(* What the handlers that receive a broadcast make of a manager *)
RightTo(st, st2, b) ==
  /\ Typed(st2) /\ st2.mac_id = st.mac_id /\ st2.link_id = st.link_id /\ Ahead(st2)
  /\ st2.failed = "none" =>
       /\ st.failed = "none"
       /\ Held(st2) /\ CountRight(st2, b) /\ Leaves(st, st2) /\ StillAwaits(st, st2)

Right(st, st2) == RightTo(st, st2, -1)

LEMMA RightThen ==
  ASSUME NEW st, NEW x, NEW y, NEW b, NEW d, RightTo(st, x, d), RightTo(x, y, b)
  PROVE  RightTo(st, y, b)
<1>1. ASSUME y.failed = "none" PROVE Leaves(st, y) /\ StillAwaits(st, y)
  <2>1. /\ Leaves(st, x) /\ Leaves(x, y) /\ x.link_id = st.link_id
        /\ StillAwaits(st, x) /\ StillAwaits(x, y)
    BY <1>1 DEF RightTo
  <2> QED BY <2>1, LeavesTransitive, AwaitsTransitive
<1> QED BY <1>1 DEF RightTo

LEMMA RequestsProcessed ==
  ASSUME NEW st, Right(st, st), st.failed = "none",
         NEW requests \in SUBSET Offers, NEW conformant,
         NEW st2 \in processLinkRequests(st, requests, conformant)
  PROVE  Right(st, st2)
<1> DEFINE acceptable == {p \in requests :
                            /\ p.slot > st.slot
                            /\ conformant
                            /\ isLinkValid(st.tables, p.channel, p.slot, FALSE)}
           earliest   == {p \in acceptable : \A q \in acceptable : p.slot =< q.slot}
           Reply(p)   == [channel |-> p.channel, slot |-> p.slot - st.slot, due |-> st.slot,
                          dest |-> st.link_id]
<1>1. Typed(st) /\ Held(st) /\ CountRight(st, -1) /\ Ahead(st) /\ st.slot \in Slots /\ st.link_id \in Peers
  <2>1. Typed(st) /\ Held(st) /\ CountRight(st, -1) /\ Ahead(st)
    BY DEF Right, RightTo
  <2> QED BY <2>1 DEF Typed, ManagerStates
<1>2. CASE requests = {}
  BY <1>2 DEF processLinkRequests
<1>3. CASE requests # {} /\ acceptable = {}
  <2>1. st2 = notifyOutgoing(st)
    BY <1>3 DEF processLinkRequests
  <2>2. /\ Typed(st2) /\ Held(st2) /\ Frame(st, st2) /\ Leaves(st, st2) /\ StillAwaits(st, st2)
        /\ st.link_status = "link_not_established" => Returns(st, st2)
        /\ st.link_status # "link_not_established" => st2 = st
    BY <1>1, <2>1, Notified
  <2>3. CountRight(st2, -1)
    BY <1>1, <2>2 DEF Returns, CountRight
  <2> QED BY <1>1, <2>2, <2>3 DEF Right, RightTo, Frame, Ahead
<1>4. CASE requests # {} /\ acceptable # {}
  <2>1. PICK p \in earliest : st2 = [acceptLink(st, p, TRUE) EXCEPT !.link_replies = Append(@, Reply(p))]
    BY <1>4 DEF processLinkRequests
  <2>2. /\ p.channel \in PP /\ p.slot \in Slots /\ InHorizon(p.slot) /\ p.slot > st.slot
    BY DEF Offers, Proposals
  <2> DEFINE a == acceptLink(st, p, TRUE)
             b == TRUE
  <2>3. /\ Accepts(st, a) /\ st.link_id \notin Answered(a)
        /\ a.is_link_initiator = FALSE
    <3>1. Accepts(st, a) /\ st.link_id \notin Answered(a) /\ a.is_link_initiator = ~TRUE
      <4>1. b \in BOOLEAN
        OBVIOUS
      <4>2. /\ Accepts(st, acceptLink(st, p, b))
            /\ st.link_id \notin Answered(acceptLink(st, p, b))
            /\ acceptLink(st, p, b).is_link_initiator = ~b
        <5> HIDE DEF b, a
        <5> QED BY <1>1, <2>2, <4>1, Accepted
      <4> QED BY <4>2
    <3> QED BY <3>1
  <2>4. Reply(p) \in Replies /\ Reply(p).dest = st.link_id
    <3>1. p.slot - st.slot \in Slots /\ st.slot \in Int
      BY <1>1, <2>2, HorizonAssumption DEF Slots
    <3> QED BY <1>1, <2>2, <3>1 DEF Replies
  <2> HIDE DEF a, Reply
  <2> DEFINE r == Reply(p)
             n == Len(a.link_replies)
             q == Append(a.link_replies, r)
  <2>5. st2 = [a EXCEPT !.link_replies = q] /\ a \in ManagerStates
    BY <2>1, <2>3 DEF Accepts, Typed, a
  <2> HIDE DEF r
  <2>6. /\ q \in Seq(Replies) /\ DOMAIN a.link_replies = 1 .. n /\ DOMAIN q = 1 .. n + 1
        /\ q[n + 1] = r /\ \A i \in 1 .. n : q[i] = a.link_replies[i]
        /\ \A i \in 1 .. n + 1 : i = n + 1 \/ i \in 1 .. n
        /\ \A i \in 1 .. n : i \in 1 .. n + 1
        /\ n + 1 \in 1 .. n + 1
    <3>1. r \in Replies /\ a.link_replies \in Seq(Replies)
      BY <2>4, <2>5 DEF ManagerStates, r
    <3> QED BY <3>1
  <2> HIDE DEF q, n
  <2>7. /\ st2 \in ManagerStates /\ Frame(a, st2) /\ SameSlots(a, st2)
        /\ st2.link_status = "link_established" /\ st2.is_link_initiator = FALSE
        /\ st2.link_requests = a.link_requests /\ st2.link_replies = q
        /\ st2.timeout = a.timeout
    BY <2>3, <2>5, <2>6 DEF ManagerStates, Frame, SameSlots, Accepts
  <2>8. Held(a) /\ a.link_id = st.link_id /\ r.dest = st.link_id /\ a.link_status = "link_established"
    BY <2>3, <2>4 DEF Accepts, Leaves, r
  <2>9. /\ \A x : x \in Answered(st2) <=> x = st.link_id \/ x \in Answered(a)
        /\ Asked(st2) = Asked(a)
    BY <2>6, <2>7, <2>8 DEF Answered, Asked
  <2>10. NoneTwice(st2)
    <3>1. \A i \in 1 .. n : a.link_replies[i].dest # r.dest
      BY <2>3, <2>6, <2>8 DEF Answered
    <3>2. \A i, j \in 1 .. n : a.link_replies[i].dest = a.link_replies[j].dest => i = j
      BY <2>6, <2>8 DEF Held, QueuesRight, NoneTwice
    <3>3. \A i, j \in 1 .. n + 1 : q[i].dest = q[j].dest => i = j
      BY <2>6, <3>1, <3>2
    <3> QED BY <2>6, <2>7, <2>8, <3>3 DEF Held, QueuesRight, NoneTwice
  <2>11. QueuesRight(st2) /\ LeavesQueues(a, st2)
    <3>1. st.link_id \notin Asked(st2)
      BY <2>8, <2>9 DEF Held, QueuesRight
    <3> QED BY <2>7, <2>8, <2>9, <2>10, <3>1 DEF QueuesRight, LeavesQueues, Frame
  <2>12. Typed(st2) /\ Held(st2) /\ Leaves(a, st2)
    BY <2>3, <2>7, <2>11, StillHeld DEF Accepts
  <2>13. CountRight(st2, -1)
    <3>1. Ending(st2) = Ending(a) /\ st2.scheduled_resources = a.scheduled_resources
      BY <2>3, <2>7 DEF Ending, SameSlots
    <3> QED BY <2>3, <2>7, <3>1 DEF CountRight, Accepts
  <2>14. Leaves(st, st2)
    BY <2>3, <2>12, LeavesTransitive DEF Accepts
  <2>15. Ahead(st2) /\ StillAwaits(st, st2)
    BY <1>1, <2>3, <2>7 DEF Ahead, Accepts, Frame, StillAwaits
  <2> QED BY <2>12, <2>13, <2>14, <2>15 DEF Right, RightTo, Leaves
<1> QED BY <1>2, <1>3, <1>4

(* What a link reply names *)
ReplyRight(reply) ==
  reply # NONE => reply.channel \in PP /\ reply.slot \in Slots /\ InHorizon(reply.slot)

LEMMA ReplyProcessed ==
  ASSUME NEW st, Right(st, st), NEW reply, ReplyRight(reply), NEW conformant
  PROVE  Right(st, processLinkReply(st, reply, conformant))
<1>1. CASE reply = NONE \/ reply.dest # st.mac_id \/ ~conformant \/ st.failed # "none"
  BY <1>1 DEF processLinkReply
<1>2. CASE ~(reply = NONE \/ reply.dest # st.mac_id \/ ~conformant \/ st.failed # "none")
  <2>1. Typed(st) /\ Held(st) /\ Ahead(st)
    BY <1>2 DEF Right, RightTo
  <2>2. reply.channel \in PP /\ reply.slot \in Slots /\ InHorizon(reply.slot)
    BY <1>2 DEF ReplyRight
  <2> DEFINE b == FALSE
             a == acceptLink(st, reply, b)
             l == reply.due # 0
             x == [a EXCEPT !.late = l]
  <2>3. processLinkReply(st, reply, conformant) = x
    BY <1>2 DEF processLinkReply
  <2>4. Accepts(st, a)
    <3>1. b \in BOOLEAN
      OBVIOUS
    <3> HIDE DEF b
    <3> QED BY <2>1, <2>2, <3>1, Accepted
  <2>5. l \in BOOLEAN /\ a \in ManagerStates
    BY <2>4 DEF Accepts, Typed
  <2> HIDE DEF a, l
  <2>6. /\ x \in ManagerStates /\ Frame(a, x) /\ SameSlots(a, x) /\ SameQueues(a, x)
        /\ x.timeout = a.timeout
    BY <2>4, <2>5 DEF ManagerStates, Frame, SameSlots, SameQueues
  <2> HIDE DEF x
  <2>7. Typed(x) /\ Held(x) /\ Leaves(a, x)
    BY <2>4, <2>6, AsItWas DEF Accepts
  <2>8. CountRight(x, -1)
    <3>1. Ending(x) = Ending(a) /\ x.scheduled_resources = a.scheduled_resources
      BY <2>4, <2>6 DEF Ending, SameSlots, SameQueues
    <3> QED BY <2>4, <2>6, <3>1 DEF CountRight, Accepts, SameQueues
  <2>9. Leaves(st, x)
    BY <2>4, <2>7, LeavesTransitive DEF Accepts
  <2>10. Ahead(x) /\ StillAwaits(st, x)
    BY <2>1, <2>4, <2>6 DEF Ahead, Accepts, Frame, StillAwaits, SameQueues
  <2>11. Right(st, x)
    BY <1>2, <2>7, <2>8, <2>9, <2>10 DEF Right, RightTo, Leaves
  <2> QED BY <2>3, <2>11
<1> QED BY <1>1, <1>2

(* The peer's advertised slot is expected *)
LEMMA SlotExpected ==
  ASSUME NEW st, Right(st, st), st.failed = "none",
         NEW s \in Slots, NEW id \in UserIds, NEW st2 \in checkAdvertisedSlot(st, id, s)
  PROVE  Right(st, st2)
<1>1. Typed(st) /\ Held(st) /\ Ahead(st) /\ CountRight(st, -1) /\ Good(st)
  BY DEF Right, RightTo, Held
<1>2. Good(st2) /\ Keeps(st, st2) /\ Ahead(st2)
  BY <1>1, AdvertisedSlot
<1>3. /\ Typed(st2) /\ Held(st2) /\ SameLink(st, st2)
      /\ CountRight(st, -1) => CountRight(st2, -1)
  BY <1>1, <1>2, BroadcastChange
<1>4. Leaves(st, st2) /\ StillAwaits(st, st2)
  BY <1>3, SameLinkLeaves
<1> QED BY <1>1, <1>2, <1>3, <1>4 DEF Right, RightTo, SameLink

(* What the NeighborObserver notes of the peer *)
LEMMA Noted ==
  ASSUME NEW st, NEW b, RightTo(st, st, b), NEW a \in Slots \cup {NONE}, NEW proposals \in SUBSET Offers
  PROVE  /\ RightTo(st, [st EXCEPT !.advertised = a], b)
         /\ RightTo(st, [st EXCEPT !.proposals = proposals], b)
         /\ [st EXCEPT !.advertised = a].link_id = st.link_id
         /\ [st EXCEPT !.advertised = a].failed = st.failed
<1>1. st \in ManagerStates /\ proposals \subseteq Proposals
  BY DEF RightTo, Typed, Offers, Proposals
<1>2. ASSUME NEW x, x = [st EXCEPT !.advertised = a] \/ x = [st EXCEPT !.proposals = proposals]
      PROVE  RightTo(st, x, b) /\ x.link_id = st.link_id /\ x.failed = st.failed
  <2>1. /\ x \in ManagerStates /\ x.proposals \in {st.proposals, proposals}
        /\ x.mac_id = st.mac_id /\ x.link_id = st.link_id /\ x.failed = st.failed
        /\ x.slot = st.slot /\ x.scheduled = st.scheduled
        /\ x.tables = st.tables /\ x.timeout = st.timeout
        /\ x.locked_resources = st.locked_resources
        /\ x.scheduled_resources = st.scheduled_resources
        /\ x.link_status = st.link_status /\ x.is_link_initiator = st.is_link_initiator
        /\ x.link_requests = st.link_requests /\ x.link_replies = st.link_replies
    <3>1. CASE x = [st EXCEPT !.advertised = a]
      BY <1>1, <3>1 DEF ManagerStates
    <3>2. CASE x = [st EXCEPT !.proposals = proposals]
      BY <1>1, <3>2 DEF ManagerStates
    <3> QED BY <1>2, <3>1, <3>2
  <2>2. Typed(x)
    BY <2>1 DEF Typed, RightTo
  <2>3. Ahead(x)
    BY <2>1 DEF Ahead, RightTo
  <2>5. Leaves(st, x) /\ StillAwaits(st, x)
    <3>1. LeavesSlots(st, x) /\ LeavesQueues(st, x) /\ StillAwaits(st, x)
      BY <2>1 DEF LeavesSlots, LeavesQueues, Asked, Answered, StillAwaits
    <3> QED BY <2>1, <3>1 DEF Leaves
  <2>6. ASSUME x.failed = "none" PROVE Held(x) /\ CountRight(x, b)
    <3>1. Held(st) /\ CountRight(st, b)
      BY <2>1, <2>6 DEF RightTo
    <3>2. Good(x) /\ Clean(x.tables)
      <4>1. Shaped(x)
        BY <2>1 DEF Shaped, ManagerStates, Fields
      <4> QED BY <2>1, <3>1, <4>1 DEF Held, Good
    <3>3. LocksRight(x) /\ BurstsRight(x)
      BY <2>1, <3>1 DEF Held, LocksRight, BurstsRight, Burst
    <3>4. QueuesRight(x)
      BY <2>1, <3>1 DEF Held, QueuesRight, NoneTwice, Asked, Answered
    <3>5. CountRight(x, b)
      BY <2>1, <3>1 DEF CountRight, Ending
    <3>6. Tidy(x)
      BY <2>1, <3>1 DEF Held, Tidy
    <3> QED BY <3>2, <3>3, <3>4, <3>5, <3>6 DEF Held
  <2> QED BY <2>1, <2>2, <2>3, <2>5, <2>6 DEF RightTo
<1> QED BY <1>2

(* What a broadcast carries *)
PacketRight(p) ==
  /\ p.slot \in Slots /\ p.requests \subseteq Offers /\ p.proposals \subseteq Offers
  /\ ReplyRight(p.reply)

LEMMA MessageProcessed ==
  ASSUME NEW st, Right(st, st), st.failed = "none", NEW p, PacketRight(p), NEW conformant,
         NEW st2 \in processBroadcastMessage(st, p, conformant)
  PROVE  Right(st, st2)
<1> DEFINE told  == [st EXCEPT !.advertised = p.slot]
           heard == checkAdvertisedSlot(told, st.link_id, p.slot)
           Rest(st1) ==
             IF st1.failed # "none"
             THEN {st1}
             ELSE {processLinkReply(st3, p.reply, conformant) :
                     st3 \in processLinkRequests(processLinkProposals(st1, p.proposals),
                                                 p.requests, conformant)}
<1>1. PICK st1 \in heard : st2 \in Rest(st1)
  BY DEF processBroadcastMessage, reportBroadcastSlotAdvertisement
<1>2. /\ p.slot \in Slots /\ p.requests \in SUBSET Offers /\ p.proposals \in SUBSET Offers
      /\ ReplyRight(p.reply)
  BY DEF PacketRight
<1>3. Right(st, told) /\ told.failed = "none"
  <2>1. {} \in SUBSET Offers
    OBVIOUS
  <2> QED BY <1>2, <2>1, Noted DEF Right
<1>4. st.link_id \in UserIds
  BY PeerIds DEF Right, RightTo, Typed, ManagerStates
<1> HIDE DEF told
<1>5. Right(told, st1)
  <2>1. Right(told, told)
    BY <1>3, LeavesReflexive DEF Right, RightTo, StillAwaits
  <2> QED BY <1>1, <1>2, <1>3, <1>4, <2>1, SlotExpected
<1>6. Right(st, st1)
  BY <1>3, <1>5, RightThen DEF Right
<1>7. CASE st1.failed # "none"
  BY <1>1, <1>6, <1>7
<1>8. CASE st1.failed = "none"
  <2> DEFINE noted == processLinkProposals(st1, p.proposals)
  <2>1. PICK st3 \in processLinkRequests(noted, p.requests, conformant) :
          st2 = processLinkReply(st3, p.reply, conformant)
    BY <1>1, <1>8
  <2>2. Right(st1, st1)
    BY <1>5, LeavesReflexive DEF Right, RightTo, StillAwaits
  <2>3. Right(st1, noted) /\ noted.failed = "none"
    <3>1. CASE p.proposals = {}
      BY <1>8, <2>2, <3>1 DEF processLinkProposals
    <3>2. CASE p.proposals # {}
      <4>1. noted = [st1 EXCEPT !.proposals = p.proposals]
        BY <3>2 DEF processLinkProposals, replaceAdvertisedLinkProposals
      <4>2. Right(st1, noted)
        <5> DEFINE proposals == p.proposals
        <5>1. RightTo(st1, st1, -1) /\ NONE \in Slots \cup {NONE}
          BY <2>2 DEF Right
        <5>2. proposals \in SUBSET Offers /\ noted = [st1 EXCEPT !.proposals = proposals]
          BY <1>2, <4>1
        <5> HIDE DEF proposals, noted
        <5>3. RightTo(st1, [st1 EXCEPT !.proposals = proposals], -1)
          BY <5>1, <5>2, Noted
        <5> QED BY <5>2, <5>3 DEF Right
      <4>3. noted.failed = st1.failed
        BY <2>2, <4>1 DEF Right, RightTo, Typed, ManagerStates
      <4> QED BY <1>8, <4>2, <4>3
    <3> QED BY <3>1, <3>2
  <2> HIDE DEF noted
  <2>4. Right(noted, st3)
    <3>1. Right(noted, noted)
      BY <2>3, LeavesReflexive DEF Right, RightTo, StillAwaits
    <3> QED BY <1>2, <2>1, <2>3, <3>1, RequestsProcessed
  <2>5. Right(st3, st2)
    <3>1. Right(st3, st3)
      BY <2>4, LeavesReflexive DEF Right, RightTo, StillAwaits
    <3> QED BY <1>2, <2>1, <3>1, ReplyProcessed
  <2>6. Right(st1, st3)
    BY <2>3, <2>4, RightThen DEF Right
  <2>7. Right(st1, st2)
    BY <2>5, <2>6, RightThen DEF Right
  <2> QED BY <1>6, <2>7, RightThen DEF Right
<1> QED BY <1>7, <1>8

LEMMA SlotEnded ==
  ASSUME NEW st, Right(st, st), st.failed = "none", NEW more \in BOOLEAN
  PROVE  RightTo(st, [onLinkSlotEnd(st, more) EXCEPT !.advertised = CountDown(@)], 0)
<1> DEFINE a == awaitReply(st)
           d == decrementTimeout(a, more)
           n == CountDown(d.advertised)
<1>1. Typed(st) /\ Held(st) /\ CountRight(st, -1) /\ Ahead(st)
  BY DEF Right, RightTo
<1>2. /\ Typed(a) /\ Held(a) /\ Frame(st, a) /\ Leaves(st, a) /\ StillAwaits(st, a)
      /\ st.link_status # "awaiting_reply" => a = st
      /\ st.link_status = "awaiting_reply" => a.link_status # "link_established"
  BY <1>1, AwaitedReply
<1>3. CountRight(a, -1)
  <2>1. CASE st.link_status # "awaiting_reply"
    BY <1>1, <1>2, <2>1
  <2>2. CASE st.link_status = "awaiting_reply"
    BY <1>2, <2>2 DEF CountRight
  <2> QED BY <2>1, <2>2
<1>4. /\ Typed(d) /\ d.mac_id = a.mac_id /\ d.link_id = a.link_id /\ StillAwaits(a, d)
      /\ d.failed # "none" \/ (Held(d) /\ Frame(a, d) /\ Leaves(a, d) /\ CountRight(d, 0))
  BY <1>2, <1>3, Decremented
<1>5. RightTo(st, d, 0)
  <2>1. RightTo(st, a, -1)
    BY <1>1, <1>2, <1>3 DEF RightTo, Frame, Ahead
  <2>2. RightTo(a, d, 0)
    BY <1>4, <2>1 DEF RightTo, Frame, Ahead
  <2> QED BY <2>1, <2>2, RightThen
<1>6. n \in Slots \cup {NONE} /\ d \in ManagerStates
  <2>1. d \in ManagerStates /\ d.advertised \in Slots \cup {NONE}
    BY <1>4 DEF Typed, ManagerStates
  <2>2. \A x \in Slots : x # 0 => x - 1 \in Slots
    BY HorizonAssumption DEF Slots
  <2> QED BY <2>1, <2>2 DEF CountDown
<1>7. [onLinkSlotEnd(st, more) EXCEPT !.advertised = CountDown(@)] = [d EXCEPT !.advertised = n]
  BY DEF onLinkSlotEnd
<1> HIDE DEF d, n
<1>8. RightTo(d, d, 0)
  BY <1>5, LeavesReflexive DEF RightTo, StillAwaits
<1>9. RightTo(d, [d EXCEPT !.advertised = n], 0)
  <2>1. {} \in SUBSET Offers
    OBVIOUS
  <2> QED BY <1>6, <1>8, <2>1, Noted
<1> QED BY <1>5, <1>7, <1>9, RightThen

-----------------------------------------------------------------------------
(* The managers together: what one of them does is done to the shared      *)
(* state and to its own part, and the others still hold what they held.    *)

ManagersTyped(o, l) ==
  /\ o \in OwnStates /\ l = [p \in Peers |-> l[p]]
  /\ \A p \in Peers : l[p] \in LinkStates(p) /\ l[p].proposals \subseteq Offers

(* For every peer p, b[p] bounds the bursts that have been counted.        *)
AllRight(o, l, b) ==
  \A p \in Peers : Held(At(o, l[p])) /\ CountRight(At(o, l[p]), b[p])

LEMMA WholeTyped ==
  ASSUME NEW o, NEW l, ManagersTyped(o, l), NEW p \in Peers
  PROVE  /\ Typed(At(o, l[p])) /\ At(o, l[p]).link_id = p
         /\ OwnPart(At(o, l[p])) = o /\ LinkPart(At(o, l[p])) = l[p]
<1>1. l[p] \in LinkStates(p) /\ l[p].proposals \subseteq Offers /\ o \in OwnStates
  BY DEF ManagersTyped
<1>2. At(o, l[p]) \in ManagerStates
  BY <1>1, PeerIds DEF At, ManagerStates, OwnStates, LinkStates
<1>3. At(o, l[p]).link_id = p /\ At(o, l[p]).proposals = l[p].proposals
  BY <1>1 DEF At, LinkStates
<1>4. OwnPart(At(o, l[p])) = o
  BY <1>1 DEF At, OwnPart, OwnStates
<1>5. LinkPart(At(o, l[p])) = l[p]
  BY <1>1 DEF At, LinkPart, LinkStates
<1> QED BY <1>1, <1>2, <1>3, <1>4, <1>5 DEF Typed

LEMMA PartsTyped ==
  ASSUME NEW st, Typed(st)
  PROVE  /\ OwnPart(st) \in OwnStates /\ LinkPart(st) \in LinkStates(st.link_id)
         /\ LinkPart(st).proposals \subseteq Offers
         /\ At(OwnPart(st), LinkPart(st)) = st
<1>1. st \in ManagerStates /\ st.proposals \subseteq Offers
  BY DEF Typed
<1>2. OwnPart(st) \in OwnStates
  BY <1>1 DEF OwnPart, ManagerStates, OwnStates
<1>3. LinkPart(st) \in LinkStates(st.link_id)
  BY <1>1 DEF LinkPart, ManagerStates, LinkStates
<1>4. At(OwnPart(st), LinkPart(st)) = st
  BY <1>1 DEF At, OwnPart, LinkPart, ManagerStates
<1>5. LinkPart(st).proposals = st.proposals
  BY DEF LinkPart
<1> QED BY <1>1, <1>2, <1>3, <1>4, <1>5

(* What a manager other than the one that acted holds *)
LEMMA OtherManager ==
  ASSUME NEW o, NEW l, ManagersTyped(o, l), NEW p \in Peers, NEW x \in Peers \ {p}, NEW b,
         Held(At(o, l[x])), CountRight(At(o, l[x]), b),
         NEW st2, Typed(st2), Held(st2), Leaves(At(o, l[p]), st2)
  PROVE  Held(At(OwnPart(st2), l[x])) /\ CountRight(At(OwnPart(st2), l[x]), b)
<1> DEFINE st == At(o, l[p])
           y  == At(o, l[x])
           y2 == At(OwnPart(st2), l[x])
<1>1. /\ y.tables = st.tables /\ y.link_requests = st.link_requests
      /\ y.link_replies = st.link_replies
      /\ y2.tables = st2.tables /\ y2.slot = st2.slot /\ y2.scheduled = st2.scheduled
      /\ y2.link_requests = st2.link_requests /\ y2.link_replies = st2.link_replies
      /\ y2.link_status = y.link_status /\ y2.is_link_initiator = y.is_link_initiator
      /\ y2.locked_resources = y.locked_resources
      /\ y2.scheduled_resources = y.scheduled_resources /\ y2.timeout = y.timeout
      /\ y2.link_id = y.link_id
  BY DEF At, OwnPart
<1>2. Typed(y) /\ y.link_id = x /\ st.link_id = p /\ y2 \in ManagerStates
  <2>1. Typed(y) /\ y.link_id = x /\ st.link_id = p
    BY WholeTyped
  <2>2. y2 \in ManagerStates
    <3>1. OwnPart(st2) \in OwnStates
      BY PartsTyped
    <3>2. l[x] \in LinkStates(x)
      BY DEF ManagersTyped
    <3> QED BY <3>1, <3>2 DEF At, ManagerStates, OwnStates, LinkStates
  <2> QED BY <2>1, <2>2
<1>3. \A t \in Tables, s \in Slots :
        Holds(st.tables[t][s], t, x) \/ Holds(st2.tables[t][s], t, x)
          => st2.tables[t][s] = st.tables[t][s]
  BY <1>2 DEF Leaves, LeavesSlots
<1>4. \A e \in y.scheduled_resources :
        /\ e[1] \in PP /\ e[2] \in Slots /\ Burst(y, e[1], e[2])
        /\ st2.tables[e[1]][e[2]] = st.tables[e[1]][e[2]]
  <2> SUFFICES ASSUME NEW e \in y.scheduled_resources
               PROVE  /\ e[1] \in PP /\ e[2] \in Slots /\ Burst(y, e[1], e[2])
                      /\ st2.tables[e[1]][e[2]] = st.tables[e[1]][e[2]]
    OBVIOUS
  <2> HIDE DEF y, y2, st
  <2>1. e \in Tables \X Slots
    BY <1>2 DEF Typed, ManagerStates, Entries
  <2>2. e[2] \in Slots /\ e[1] \in Tables
    BY <2>1, EntryIs
  <2>3. e[1] \in PP /\ Burst(y, e[1], e[2])
    BY DEF Held, BurstsRight, y
  <2>4. Holds(st.tables[e[1]][e[2]], e[1], x)
    BY <1>1, <1>2, <2>3 DEF Burst, Holds
  <2> QED BY <1>3, <2>2, <2>3, <2>4
<1>5. Held(y) /\ CountRight(y, b)
  OBVIOUS
<1> HIDE DEF st, y, y2
<1>6. Good(y2) /\ Clean(y2.tables)
  <2>1. Shaped(y2)
    BY <1>2 DEF Shaped, ManagerStates, Fields
  <2> QED BY <1>1, <2>1 DEF Held, Good
<1>7. LocksRight(y2)
  BY <1>1, <1>2, <1>3, <1>5 DEF Held, LocksRight, Holds
<1>8. BurstsRight(y2)
  <2>1. \A e \in y2.scheduled_resources : e[1] \in PP /\ Burst(y2, e[1], e[2])
    BY <1>1, <1>4 DEF Burst
  <2>2. ASSUME NEW c \in PP, NEW s \in Slots, s > 0, Burst(y2, c, s)
        PROVE  <<c, s>> \in y2.scheduled_resources
    <3>1. st2.tables[c][s] = st.tables[c][s]
      BY <1>1, <1>2, <1>3, <2>2, Disjoint DEF Burst, Holds
    <3>2. Burst(y, c, s)
      BY <1>1, <2>2, <3>1 DEF Burst
    <3> QED BY <1>1, <1>5, <2>2, <3>2 DEF Held, BurstsRight
  <2> QED BY <2>1, <2>2 DEF BurstsRight
<1>9. QueuesRight(y2)
  <2>1. NoneTwice(y2)
    BY <1>1 DEF Held, QueuesRight, NoneTwice
  <2>2. /\ Asked(y2) = Asked(st2) /\ Answered(y2) = Answered(st2)
        /\ Asked(y) = Asked(st) /\ Answered(y) = Answered(st)
    BY <1>1 DEF Asked, Answered
  <2>3. /\ x \in Asked(st2) <=> x \in Asked(st)
        /\ x \in Answered(st2) => x \in Answered(st)
    BY <1>2 DEF Leaves, LeavesQueues, st
  <2> QED BY <1>1, <1>2, <1>5, <2>1, <2>2, <2>3 DEF Held, QueuesRight
<1>10. CountRight(y2, b)
  <2>1. Ending(y2) = Ending(y)
    BY <1>1, <1>4 DEF Ending
  <2> QED BY <1>1, <1>5, <2>1 DEF CountRight
<1>11. Held(y2) /\ CountRight(y2, b)
  <2>1. Tidy(y2)
    BY <1>1, <1>5 DEF Held, Tidy
  <2> QED BY <1>6, <1>7, <1>8, <1>9, <1>10, <2>1 DEF Held
<1> QED BY <1>11 DEF y2

(* All of them, after one has acted: o2 and l2 are what it leaves. *)
Acted(o, l, p, st2, o2, l2) ==
  /\ ManagersTyped(o2, l2) /\ At(o2, l2[p]) = st2
  /\ \A x \in Peers \ {p} : l2[x] = l[x]
  /\ \A b \in [Peers -> Int], n \in Int :
       Held(st2) /\ CountRight(st2, n) /\ Leaves(At(o, l[p]), st2) /\ AllRight(o, l, b)
         => AllRight(o2, l2, [b EXCEPT ![p] = n])

LEMMA OneActed ==
  ASSUME NEW o, NEW l, ManagersTyped(o, l), NEW p \in Peers,
         NEW st2, Typed(st2), st2.link_id = p
  PROVE  Acted(o, l, p, st2, OwnPart(st2), [l EXCEPT ![p] = LinkPart(st2)])
<1> DEFINE l2 == [l EXCEPT ![p] = LinkPart(st2)]
           o2 == OwnPart(st2)
<1>1. /\ l2 = [x \in Peers |-> l2[x]] /\ l2[p] = LinkPart(st2)
      /\ \A x \in Peers \ {p} : l2[x] = l[x]
  <2>1. DOMAIN l = Peers
    BY DEF ManagersTyped
  <2> QED BY <2>1
<1>2. /\ o2 \in OwnStates /\ LinkPart(st2) \in LinkStates(p)
      /\ LinkPart(st2).proposals \subseteq Offers /\ At(o2, LinkPart(st2)) = st2
  BY PartsTyped
<1> HIDE DEF l2, o2
<1>3. ManagersTyped(o2, l2)
  <2>1. ASSUME NEW x \in Peers PROVE l2[x] \in LinkStates(x) /\ l2[x].proposals \subseteq Offers
    <3>1. CASE x = p
      BY <1>1, <1>2, <3>1
    <3>2. CASE x # p
      BY <1>1, <3>2 DEF ManagersTyped
    <3> QED BY <3>1, <3>2
  <2> QED BY <1>1, <1>2, <2>1 DEF ManagersTyped
<1>4. ASSUME NEW b \in [Peers -> Int], NEW n \in Int,
             Held(st2), CountRight(st2, n), Leaves(At(o, l[p]), st2), AllRight(o, l, b)
      PROVE  AllRight(o2, l2, [b EXCEPT ![p] = n])
  <2> SUFFICES ASSUME NEW x \in Peers
               PROVE  Held(At(o2, l2[x])) /\ CountRight(At(o2, l2[x]), [b EXCEPT ![p] = n][x])
    BY DEF AllRight
  <2>1. CASE x = p
    <3>1. At(o2, l2[x]) = st2 /\ [b EXCEPT ![p] = n][x] = n
      BY <1>1, <1>2, <2>1
    <3> QED BY <1>4, <3>1
  <2>2. CASE x # p
    <3>1. l2[x] = l[x] /\ [b EXCEPT ![p] = n][x] = b[x]
      BY <1>1, <2>2
    <3>2. Held(At(o, l[x])) /\ CountRight(At(o, l[x]), b[x])
      BY <1>4 DEF AllRight
    <3>3. Held(At(o2, l[x])) /\ CountRight(At(o2, l[x]), b[x])
      BY <1>4, <2>2, <3>2, OtherManager DEF o2
    <3> QED BY <3>1, <3>3
  <2> QED BY <2>1, <2>2
<1> QED BY <1>1, <1>2, <1>3, <1>4 DEF l2, o2, Acted

-----------------------------------------------------------------------------
(* The loop over link_requests *)

CountedTo(n) == [p \in Peers |-> n]

LEMMA AfterEraseIs ==
  ASSUME NEW memory \in Seq(Peers), NEW requests \in Seq(Peers), Len(requests) =< Len(memory)
  PROVE  LET m == AfterErase(memory, requests)
         IN  /\ m \in Seq(Peers) /\ Len(m) = Len(memory)
             /\ \A k \in 1 .. Len(memory) :
                  m[k] = IF k =< Len(requests) THEN requests[k] ELSE memory[k]
<1> DEFINE r    == Len(requests)
           rest == SubSeq(memory, r + 1, Len(memory))
<1>1. r \in Nat /\ Len(memory) \in Nat /\ r =< Len(memory)
  OBVIOUS
<1>2. /\ rest \in Seq(Peers) /\ Len(rest) = Len(memory) - r
      /\ \A k \in 1 .. Len(memory) - r : rest[k] = memory[r + k]
  BY <1>1
<1> HIDE DEF rest
<1>3. /\ requests \o rest \in Seq(Peers) /\ Len(requests \o rest) = Len(memory)
      /\ \A k \in 1 .. Len(memory) :
           (requests \o rest)[k] = IF k =< r THEN requests[k] ELSE rest[k - r]
  BY <1>1, <1>2
<1>4. \A k \in 1 .. Len(memory) : k > r => k - r \in 1 .. Len(memory) - r /\ r + (k - r) = k
  BY <1>1
<1> HIDE DEF r
<1>5. \A k \in 1 .. Len(memory) :
        (requests \o rest)[k] = IF k =< r THEN requests[k] ELSE memory[k]
  BY <1>1, <1>2, <1>3, <1>4
<1> QED BY <1>3, <1>5 DEF AfterErase, rest, r

(* What is locked for a peer and stays as it is remains locked for it. *)
LEMMA OffersStay ==
  ASSUME NEW tb, NEW new, NEW p, NEW proposals, OffersLocked(tb, p, proposals),
         \A t \in Tables, s \in Slots :
           IsLocked(tb[t][s]) /\ tb[t][s].target = p => new[t][s] = tb[t][s]
  PROVE  OffersLocked(new, p, proposals)
<1> SUFFICES ASSUME NEW q \in proposals, NEW e \in BurstEntries(q), e[2] > 0
             PROVE  new[e[1]][e[2]] = tb[e[1]][e[2]]
  BY DEF OffersLocked
<1>1. e \in Tables \X Slots /\ tb[e[1]][e[2]] = Res("LOCKED", p)
  BY DEF OffersLocked, Entries
<1>2. e[1] \in Tables /\ e[2] \in Slots
  BY <1>1, EntryIs
<1>3. Res("LOCKED", p).action = "LOCKED" /\ Res("LOCKED", p).target = p
  BY DEF Res
<1> QED BY <1>1, <1>2, <1>3 DEF IsLocked

(* What is offered is awaited, and locked. *)
OfferedRight(o, l, offers) ==
  \A p \in Peers : offers[p] # {} =>
    l[p].link_status = "awaiting_reply" /\ OffersLocked(o.tables, p, offers[p])

LoopTyped(a) ==
  /\ a = [own |-> a.own, link |-> a.link, requests |-> a.requests, memory |-> a.memory]
  /\ ManagersTyped(a.own, a.link)
  /\ a.requests \in [Peers -> SUBSET Offers]
  /\ a.memory \in Seq(Peers) /\ Len(a.own.link_requests) =< Len(a.memory)

(* Those who are asked in this broadcast await the reply. *)
LoopRight(a) ==
  a.own.failed = "none" =>
    /\ AllRight(a.own, a.link, CountedTo(-1))
    /\ \A p \in Peers : a.requests[p] # {} => a.link[p].link_status = "awaiting_reply"

(* What is offered after the broadcast, apart from what nobody awaits *)
NewOffers(a, offers) ==
  [p \in Peers |-> IF a.requests[p] = {} THEN offers[p] ELSE a.requests[p]]

(* With two requests in the queue at most, nobody is asked twice: after n  *)
(* turns the next one has not been asked.                                  *)
LoopOffers(a, offers, n) ==
  /\ n = 0 => /\ a.memory = a.own.link_requests
              /\ \A p \in Peers : a.requests[p] = {}
  /\ Len(a.memory) =< 2 /\ a.own.failed = "none" =>
       /\ n + 1 =< Len(a.memory) => a.requests[a.memory[n + 1]] = {}
       /\ OfferedRight(a.own, a.link, NewOffers(a, offers))

(* One turn of the loop, for the peer p with the manager st: what it         *)
(* proposes, f, and what is made of it, r                                  *)
TurnFor(a, a2, p, st, f, r) ==
  /\ p \in Peers /\ st = At(a.own, a.link[p])
  /\ Typed(st) /\ Held(st) /\ st.link_id = p
  /\ Typed(f.st) /\ Held(f.st) /\ SameLink(st, f.st) /\ f.proposals \subseteq Offers
  /\ f = [st |-> f.st, proposals |-> f.proposals, expected |-> f.expected]
  /\ r.st.link_id = p /\ (r.proposals = {} => r.st = f.st)
  /\ r.proposals # {} /\ r.st.failed = "none" =>
       /\ r.st.link_status = "awaiting_reply"
       /\ OffersLocked(r.st.tables, f.st.link_id, r.proposals)
  /\ r.st = At(a2.own, a2.link[p]) /\ \A x \in Peers \ {p} : a2.link[x] = a.link[x]
  /\ a2.requests[p] = a.requests[p] \cup r.proposals
  /\ \A x \in Peers \ {p} : a2.requests[x] = a.requests[x]
  /\ a2.own.link_requests \in Seq(Peers)
  /\ a2.memory \in Seq(Peers) /\ Len(a2.memory) = Len(a.memory)
  /\ \A k \in 1 .. Len(a.memory) :
       a2.memory[k] = IF k =< Len(a2.own.link_requests)
                      THEN a2.own.link_requests[k] ELSE a.memory[k]
  /\ a2.own.failed = "none" => Held(r.st) /\ Leaves(st, r.st)

LEMMA OneTurn ==
  ASSUME NEW a, LoopTyped(a), LoopRight(a), NEW n \in Nat, n + 1 =< Len(a.memory),
         a.own.failed = "none", NEW a2 \in AddRequest(a, n + 1)
  PROVE  LET p == a.memory[n + 1]
             st == At(a.own, a.link[p])
         IN  /\ LoopTyped(a2)
             /\ a2.own.failed = "none" => AllRight(a2.own, a2.link, CountedTo(-1))
             /\ \E f \in propose(st) : TurnFor(a, a2, p, st, f, Requested(f))
<1> DEFINE p == a.memory[n + 1]
           st == At(a.own, a.link[p])
<1>0. /\ p \in Peers /\ a.memory \in Seq(Peers) /\ Len(a.memory) \in Nat
      /\ ManagersTyped(a.own, a.link) /\ a.requests \in [Peers -> SUBSET Offers]
      /\ Len(a.own.link_requests) =< Len(a.memory)
      /\ a.own.link_requests \in Seq(Peers)
  <2>1. a.memory \in Seq(Peers) /\ ManagersTyped(a.own, a.link) /\ a.requests \in [Peers -> SUBSET Offers]
    BY DEF LoopTyped
  <2>2. n + 1 \in 1 .. Len(a.memory)
    BY <2>1
  <2>3. a.own.link_requests \in Seq(Peers)
    BY <2>1 DEF ManagersTyped, OwnStates
  <2> QED BY <2>1, <2>2, <2>3 DEF LoopTyped
<1>1. PICK f \in propose(st) :
        LET r == Requested(f)
        IN  a2 = [own |-> OwnPart(r.st), link |-> [a.link EXCEPT ![p] = LinkPart(r.st)],
                  requests |-> [a.requests EXCEPT ![p] = @ \cup r.proposals],
                  memory |-> AfterErase(a.memory, r.st.link_requests)]
  BY DEF AddRequest
<1> DEFINE r == Requested(f)
<1> HIDE DEF p
<1>2. /\ a2 = [own |-> a2.own, link |-> a2.link, requests |-> a2.requests, memory |-> a2.memory]
      /\ a2.own = OwnPart(r.st) /\ a2.link = [a.link EXCEPT ![p] = LinkPart(r.st)]
      /\ a2.requests = [a.requests EXCEPT ![p] = @ \cup r.proposals]
      /\ a2.memory = AfterErase(a.memory, r.st.link_requests)
  BY <1>1
<1>3. Typed(st) /\ st.link_id = p /\ st.tables = a.own.tables /\ st.link_requests = a.own.link_requests
      /\ st.link_status = a.link[p].link_status
  BY <1>0, WholeTyped DEF At
<1>4. Held(st) /\ CountRight(st, -1)
  BY <1>0 DEF LoopRight, AllRight, CountedTo
<1>5. /\ Typed(f.st) /\ Held(f.st) /\ SameLink(st, f.st) /\ CountRight(f.st, -1)
      /\ f.proposals \subseteq Offers
      /\ f.proposals # {} => f.expected \in Slots
      /\ f = [st |-> f.st, proposals |-> f.proposals, expected |-> f.expected]
  <2> HIDE DEF st
  <2> QED BY <1>3, <1>4, Suggested
<1>6. /\ Result(f.st, r.st) /\ r.proposals \subseteq Offers
      /\ Len(r.st.link_requests) =< Len(f.st.link_requests)
      /\ r.proposals = {} => r.st = f.st
      /\ r.proposals # {} /\ r.st.failed = "none" =>
           /\ r.st.link_status = "awaiting_reply"
           /\ OffersLocked(r.st.tables, f.st.link_id, r.proposals)
  BY <1>5, RequestSent
<1> HIDE DEF r, st
<1>7. Typed(r.st) /\ r.st.link_id = p
  BY <1>3, <1>5, <1>6 DEF Result, SameLink
<1>8. r.st.failed = "none" => Held(r.st) /\ CountRight(r.st, -1) /\ Leaves(st, r.st)
  BY <1>5, <1>6, SameLinkLeaves, LeavesTransitive DEF Result
<1>9. /\ ManagersTyped(a2.own, a2.link) /\ At(a2.own, a2.link[p]) = r.st
      /\ \A x \in Peers \ {p} : a2.link[x] = a.link[x]
      /\ \A b \in [Peers -> Int], k \in Int :
           Held(r.st) /\ CountRight(r.st, k) /\ Leaves(st, r.st) /\ AllRight(a.own, a.link, b)
             => AllRight(a2.own, a2.link, [b EXCEPT ![p] = k])
  <2>1. Acted(a.own, a.link, p, r.st, a2.own, a2.link)
    BY <1>0, <1>2, <1>7, OneActed
  <2>2. At(a.own, a.link[p]) = st
    BY DEF st
  <2> QED BY <2>1, <2>2 DEF Acted
<1>10. /\ r.st.tables = a2.own.tables /\ r.st.failed = a2.own.failed
       /\ r.st.link_requests = a2.own.link_requests
       /\ r.st.link_status = a2.link[p].link_status
  BY <1>9 DEF At
<1>11. /\ a2.requests \in [Peers -> SUBSET Offers] /\ a2.requests[p] = a.requests[p] \cup r.proposals
       /\ \A x \in Peers \ {p} : a2.requests[x] = a.requests[x]
  BY <1>0, <1>2, <1>6
<1>12. /\ a2.own.link_requests \in Seq(Peers)
       /\ Len(a2.own.link_requests) =< Len(a.own.link_requests)
       /\ Len(a2.own.link_requests) =< Len(a.memory)
  <2>1. r.st.link_requests \in Seq(Peers)
    BY <1>7 DEF Typed, ManagerStates
  <2>2. Len(r.st.link_requests) =< Len(a.own.link_requests)
    BY <1>3, <1>5, <1>6 DEF SameLink
  <2>3. Len(r.st.link_requests) \in Nat /\ Len(a.own.link_requests) \in Nat
    BY <1>0, <2>1
  <2> QED BY <1>0, <1>10, <2>1, <2>2, <2>3
<1>13. /\ a2.memory \in Seq(Peers) /\ Len(a2.memory) = Len(a.memory)
       /\ \A k \in 1 .. Len(a.memory) :
            a2.memory[k] = IF k =< Len(a2.own.link_requests)
                           THEN a2.own.link_requests[k] ELSE a.memory[k]
  BY <1>0, <1>2, <1>10, <1>12, AfterEraseIs
<1>14. LoopTyped(a2)
  BY <1>2, <1>9, <1>11, <1>12, <1>13 DEF LoopTyped
<1>15. ASSUME a2.own.failed = "none"
       PROVE  /\ AllRight(a2.own, a2.link, CountedTo(-1))
              /\ Held(r.st) /\ Leaves(st, r.st)
  <2>1. Held(r.st) /\ CountRight(r.st, -1) /\ Leaves(st, r.st)
    BY <1>8, <1>10, <1>15
  <2>2. /\ CountedTo(-1) \in [Peers -> Int] /\ [CountedTo(-1) EXCEPT ![p] = -1] = CountedTo(-1)
    BY <1>0 DEF CountedTo
  <2>3. AllRight(a.own, a.link, CountedTo(-1))
    BY DEF LoopRight
  <2>4. AllRight(a2.own, a2.link, [CountedTo(-1) EXCEPT ![p] = -1])
    <3>1. -1 \in Int
      OBVIOUS
    <3> QED BY <1>9, <2>1, <2>2, <2>3, <3>1
  <2> QED BY <2>1, <2>2, <2>4
<1>16. st = At(a.own, a.link[p])
  BY DEF st
<1>17. TurnFor(a, a2, p, st, f, r)
  BY <1>0, <1>3, <1>4, <1>5, <1>6, <1>7, <1>9, <1>11, <1>12, <1>13, <1>15, <1>16 DEF TurnFor
<1> QED BY <1>14, <1>15, <1>17 DEF r, st, p

LEMMA RequestAdded ==
  ASSUME NEW a, LoopTyped(a), LoopRight(a), NEW n \in Nat, n + 1 =< Len(a.memory),
         NEW offers, LoopOffers(a, offers, n),
         NEW a2 \in AddRequest(a, n + 1)
  PROVE  LoopTyped(a2) /\ LoopRight(a2) /\ LoopOffers(a2, offers, n + 1) /\ Len(a2.memory) = Len(a.memory)
<1> DEFINE p == a.memory[n + 1]
           st == At(a.own, a.link[p])
<1>1. /\ p \in Peers /\ a.memory \in Seq(Peers) /\ Len(a.memory) \in Nat
      /\ ManagersTyped(a.own, a.link) /\ a.requests \in [Peers -> SUBSET Offers]
      /\ Len(a.own.link_requests) =< Len(a.memory)
      /\ a.own.link_requests \in Seq(Peers)
  <2>1. a.memory \in Seq(Peers) /\ ManagersTyped(a.own, a.link) /\ a.requests \in [Peers -> SUBSET Offers]
    BY DEF LoopTyped
  <2>2. n + 1 \in 1 .. Len(a.memory)
    BY <2>1
  <2>3. a.own.link_requests \in Seq(Peers)
    BY <2>1 DEF ManagersTyped, OwnStates
  <2> QED BY <2>1, <2>2, <2>3 DEF TurnFor, LoopTyped
<1>2. CASE a.own.failed # "none"
  <2>1. a2 = a
    BY <1>2 DEF AddRequest
  <2>2. n + 1 # 0
    OBVIOUS
  <2> QED BY <1>2, <2>1, <2>2 DEF TurnFor, LoopOffers
<1>3. CASE a.own.failed = "none"
  <2>1. PICK f \in propose(st) : TurnFor(a, a2, p, st, f, Requested(f))
    BY <1>3, OneTurn
  <2> DEFINE r == Requested(f)
  <2> HIDE DEF p, r, st
  <2>0. LoopTyped(a2) /\ (a2.own.failed = "none" => AllRight(a2.own, a2.link, CountedTo(-1)))
    BY <1>3, OneTurn
  <2>2. TurnFor(a, a2, p, st, f, r)
    BY <2>1 DEF r
  <2>3. /\ st.tables = a.own.tables /\ st.link_requests = a.own.link_requests
        /\ st.link_status = a.link[p].link_status
        /\ r.st.tables = a2.own.tables /\ r.st.failed = a2.own.failed
        /\ r.st.link_requests = a2.own.link_requests
        /\ r.st.link_status = a2.link[p].link_status
    <3>1. st = At(a.own, a.link[p]) /\ r.st = At(a2.own, a2.link[p])
      BY <2>2, Zenon DEF TurnFor
    <3> QED BY <3>1 DEF At
  <2>16. LoopRight(a2)
    <3> SUFFICES ASSUME a2.own.failed = "none", NEW x \in Peers, a2.requests[x] # {}
                 PROVE  a2.link[x].link_status = "awaiting_reply"
      BY <2>0 DEF LoopRight
    <3>1. CASE x = p /\ r.proposals # {}
      BY <2>2, <2>3, <3>1 DEF TurnFor
    <3>2. CASE x = p /\ r.proposals = {}
      <4>1. a.requests[p] # {}
        BY <2>2, <3>2 DEF TurnFor
      <4>2. a.link[p].link_status = "awaiting_reply"
        BY <1>1, <1>3, <4>1 DEF LoopRight
      <4>3. SameLink(st, r.st)
        BY <2>2, <3>2, Zenon DEF TurnFor
      <4> QED BY <2>3, <3>2, <4>2, <4>3 DEF SameLink
    <3>3. CASE x # p
      BY <1>3, <2>2, <3>3 DEF TurnFor, LoopRight
    <3> QED BY <3>1, <3>2, <3>3
  <2>17. ASSUME Len(a2.memory) =< 2, a2.own.failed = "none", (n + 1) + 1 =< Len(a2.memory)
         PROVE  a2.requests[a2.memory[(n + 1) + 1]] = {}
    <3>1. n = 0 /\ Len(a.memory) = 2 /\ (n + 1) + 1 = 2 /\ n + 1 = 1
      <4> DEFINE N == Len(a.memory)
      <4>1. N \in Nat /\ N =< 2 /\ (n + 1) + 1 =< N
        BY <1>1, <2>2, <2>17 DEF TurnFor
      <4> HIDE DEF N
      <4>2. n = 0 /\ N = 2 /\ (n + 1) + 1 = 2 /\ n + 1 = 1
        BY <4>1
      <4> QED BY <4>2 DEF N
    <3>2. a.memory = a.own.link_requests /\ \A x \in Peers : a.requests[x] = {}
      BY <3>1 DEF LoopOffers
    <3>3. a2.memory[2] \in Peers
      BY <2>2, <3>1 DEF TurnFor
    <3>4. CASE r.proposals = {}
      BY <2>2, <3>1, <3>2, <3>3, <3>4 DEF TurnFor
    <3>5. CASE r.proposals # {}
      <4>1. p \notin Asked(r.st)
        BY <2>2, <2>3, <2>17, <3>5 DEF TurnFor, Held, QueuesRight
      <4>2. a2.memory[2] # p
        <5>1. CASE 2 =< Len(a2.own.link_requests)
          <6>1. 2 \in DOMAIN r.st.link_requests /\ a2.memory[2] = r.st.link_requests[2]
            BY <2>2, <2>3, <3>1, <5>1 DEF TurnFor
          <6> QED BY <4>1, <6>1 DEF Asked
        <5>2. CASE ~(2 =< Len(a2.own.link_requests))
          <6>1. a2.memory[2] = a.memory[2]
            BY <2>2, <3>1, <5>2 DEF TurnFor
          <6>2. 1 \in DOMAIN st.link_requests /\ 2 \in DOMAIN st.link_requests
            BY <1>1, <2>3, <3>1, <3>2
          <6>3. st.link_requests[1] # st.link_requests[2]
            <7>1. NoneTwice(st)
              BY <2>2 DEF TurnFor, Held, QueuesRight
            <7> QED BY <6>2, <7>1 DEF NoneTwice
          <6> QED BY <2>3, <3>1, <3>2, <6>1, <6>3 DEF p
        <5> QED BY <5>1, <5>2
      <4> QED BY <2>2, <3>1, <3>2, <3>3, <4>2 DEF TurnFor
    <3> QED BY <3>4, <3>5
  <2>18. ASSUME Len(a2.memory) =< 2, a2.own.failed = "none"
         PROVE  OfferedRight(a2.own, a2.link, NewOffers(a2, offers))
    <3>1. a.requests[p] = {} /\ OfferedRight(a.own, a.link, NewOffers(a, offers))
      BY <1>3, <2>2, <2>18 DEF TurnFor, LoopOffers, p
    <3> SUFFICES ASSUME NEW x \in Peers, NewOffers(a2, offers)[x] # {}
                 PROVE  /\ a2.link[x].link_status = "awaiting_reply"
                        /\ OffersLocked(a2.own.tables, x, NewOffers(a2, offers)[x])
      BY DEF OfferedRight
    <3>2. CASE x = p /\ r.proposals # {}
      <4>1. NewOffers(a2, offers)[x] = r.proposals
        BY <2>2, <3>1, <3>2 DEF TurnFor, NewOffers
      <4>2. f.st.link_id = p
        BY <2>2, <2>3 DEF TurnFor, SameLink
      <4> QED BY <2>2, <2>3, <2>18, <3>2, <4>1, <4>2 DEF TurnFor
    <3>3. ASSUME NewOffers(a2, offers)[x] = NewOffers(a, offers)[x],
                 a2.link[x].link_status = a.link[x].link_status,
                 \A t \in Tables, s \in Slots :
                   IsLocked(a.own.tables[t][s]) /\ a.own.tables[t][s].target = x
                     => a2.own.tables[t][s] = a.own.tables[t][s]
          PROVE  /\ a2.link[x].link_status = "awaiting_reply"
                 /\ OffersLocked(a2.own.tables, x, NewOffers(a2, offers)[x])
      <4>1. /\ a.link[x].link_status = "awaiting_reply"
            /\ OffersLocked(a.own.tables, x, NewOffers(a, offers)[x])
        BY <3>1, <3>3 DEF OfferedRight
      <4>2. OffersLocked(a2.own.tables, x, NewOffers(a, offers)[x])
        BY <3>3, <4>1, OffersStay
      <4> QED BY <3>3, <4>1, <4>2
    <3>4. CASE x = p /\ r.proposals = {}
      <4>1. NewOffers(a2, offers)[x] = NewOffers(a, offers)[x]
        BY <2>2, <3>4 DEF TurnFor, NewOffers
      <4>2. SameLink(st, r.st)
        BY <2>2, <3>4, Zenon DEF TurnFor
      <4>3. a2.link[x].link_status = a.link[x].link_status
        BY <2>3, <3>4, <4>2 DEF SameLink
      <4>4. \A t \in Tables, s \in Slots :
              IsLocked(a.own.tables[t][s]) => a2.own.tables[t][s] = a.own.tables[t][s]
        BY <2>3, <4>2 DEF SameLink
      <4> QED BY <3>3, <4>1, <4>3, <4>4
    <3>5. CASE x # p
      <4>1. NewOffers(a2, offers)[x] = NewOffers(a, offers)[x]
        BY <2>2, <3>5 DEF TurnFor, NewOffers
      <4>2. a2.link[x].link_status = a.link[x].link_status
        BY <2>2, <3>5 DEF TurnFor
      <4>3. \A t \in Tables, s \in Slots :
              IsLocked(a.own.tables[t][s]) /\ a.own.tables[t][s].target = x
                => a2.own.tables[t][s] = a.own.tables[t][s]
        <5>1. LeavesSlots(st, r.st) /\ st.link_id = p
          BY <2>2, <2>18, Zenon DEF TurnFor, Leaves
        <5> QED BY <2>3, <3>5, <5>1 DEF LeavesSlots, Holds
      <4> QED BY <3>3, <4>1, <4>2, <4>3
    <3> QED BY <3>2, <3>4, <3>5
  <2>19. LoopOffers(a2, offers, n + 1)
    <3>1. n + 1 # 0
      OBVIOUS
    <3> QED BY <2>17, <2>18, <3>1 DEF LoopOffers
  <2> QED BY <2>0, <2>2, <2>16, <2>19 DEF TurnFor
<1> QED BY <1>2, <1>3

(* With two requests in the queue at most, what is queued is still to be   *)
(* read, or no link fits.                                                  *)
LoopAttached(a, n) ==
  Len(a.memory) =< 2 /\ a.own.failed = "none" =>
    /\ n + 1 =< Len(a.memory) => a.memory[n + 1] \in Asked(a.own)
    /\ \A x \in Asked(a.own) : \/ \E k \in n + 1 .. Len(a.memory) : a.memory[k] = x
                               \/ FitsNowhere(a.own, a.link[x])

LEMMA TurnAttaches ==
  ASSUME NEW a, LoopTyped(a), LoopRight(a), NEW n \in Nat, n + 1 =< Len(a.memory),
         n = 0 => a.memory = a.own.link_requests, LoopAttached(a, n),
         NEW a2 \in AddRequest(a, n + 1)
  PROVE  LoopAttached(a2, n + 1)
<1> DEFINE p == a.memory[n + 1]
           st == At(a.own, a.link[p])
<1> SUFFICES ASSUME Len(a2.memory) =< 2, a2.own.failed = "none"
             PROVE  /\ (n + 1) + 1 =< Len(a2.memory) => a2.memory[(n + 1) + 1] \in Asked(a2.own)
                    /\ \A x \in Asked(a2.own) :
                         \/ \E k \in (n + 1) + 1 .. Len(a2.memory) : a2.memory[k] = x
                         \/ FitsNowhere(a2.own, a2.link[x])
  BY DEF LoopAttached
<1>1. CASE a.own.failed # "none"
  BY <1>1 DEF AddRequest
<1>2. CASE a.own.failed = "none"
  <2>1. PICK f \in propose(st) : TurnFor(a, a2, p, st, f, Requested(f))
    BY <1>2, OneTurn
  <2> DEFINE r == Requested(f)
  <2>2. /\ st.tables = a.own.tables /\ st.slot = a.own.slot /\ Asked(st) = Asked(a.own)
        /\ st.link_requests = a.own.link_requests
        /\ r.st.tables = a2.own.tables /\ r.st.failed = a2.own.failed
        /\ r.st.slot = a2.own.slot /\ Asked(r.st) = Asked(a2.own)
        /\ r.st.link_requests = a2.own.link_requests
        /\ r.st.advertised = a2.link[p].advertised
    <3> HIDE DEF r, st, p
    <3>1. TurnFor(a, a2, p, st, f, r)
      BY <2>1 DEF r
    <3>2. st = At(a.own, a.link[p]) /\ r.st = At(a2.own, a2.link[p])
      BY <3>1 DEF TurnFor
    <3> QED BY <3>2 DEF At, Asked
  <2>3. /\ p \in Peers /\ st.link_id = p /\ Typed(st) /\ Held(st) /\ r.st.link_id = p
        /\ Typed(f.st) /\ Held(f.st) /\ SameLink(st, f.st)
        /\ f = [st |-> f.st, proposals |-> f.proposals, expected |-> f.expected]
        /\ r.proposals = {} => r.st = f.st
        /\ r.proposals # {} => r.st.link_status = "awaiting_reply"
        /\ Held(r.st) /\ Leaves(st, r.st)
        /\ \A x \in Peers \ {p} : a2.link[x] = a.link[x]
        /\ a2.own.link_requests \in Seq(Peers) /\ Len(a2.memory) = Len(a.memory)
        /\ \A k \in 1 .. Len(a.memory) :
             a2.memory[k] = IF k =< Len(a2.own.link_requests)
                            THEN a2.own.link_requests[k] ELSE a.memory[k]
    BY <2>1, <2>2 DEF TurnFor
  <2>4. /\ a.memory \in Seq(Peers) /\ ManagersTyped(a.own, a.link) /\ a.own.slot \in Slots
        /\ a.own.link_requests \in Seq(Peers)
        /\ \A x \in Peers : a.link[x].advertised \in Slots \cup {NONE}
    BY DEF LoopTyped, ManagersTyped, OwnStates, LinkStates
  <2>5. /\ p \in Asked(a.own)
        /\ \A x \in Asked(a.own) : \/ \E k \in n + 1 .. Len(a.memory) : a.memory[k] = x
                                   \/ FitsNowhere(a.own, a.link[x])
    BY <1>2, <2>3 DEF LoopAttached
  <2> HIDE DEF r, st, p
  <2>6. f.st.link_status = "awaiting_request_generation"
    BY <2>2, <2>3, <2>5 DEF Held, QueuesRight, SameLink
  <2>7. /\ Narrower(st.tables, f.st.tables)
        /\ st.slot > 0 \/ st.advertised # NONE => f.st.slot = st.slot
        /\ f.proposals = {} /\ f.st.failed = "none" => FitsNowhere(f.st, f.st)
    BY <2>1, <2>3, SuggestedNarrows
  <2>8. /\ Narrower(f.st.tables, r.st.tables) /\ r.st.slot = f.st.slot
        /\ r.proposals = {} /\ r.st.failed = "none" => f.proposals = {}
    BY <2>3, <2>6, RequestNarrows DEF r
  <2>9. ASSUME p \in Asked(a2.own)
        PROVE  r.st = f.st /\ FitsNowhere(a2.own, a2.link[p])
    <3>1. r.proposals = {} /\ r.st = f.st
      BY <2>2, <2>3, <2>9 DEF Held, QueuesRight
    <3>2. FitsNowhere(r.st, r.st)
      BY <2>2, <2>7, <2>8, <3>1
    <3> QED BY <2>2, <3>1, <3>2 DEF FitsNowhere, EarliestReply
  <2>10. ASSUME NEW x \in Peers \ {p} PROVE x \in Asked(a2.own) <=> x \in Asked(a.own)
    BY <2>2, <2>3 DEF Leaves, LeavesQueues
  <2>11. ASSUME NEW x \in Peers \ {p}, FitsNowhere(a.own, a.link[x])
         PROVE  FitsNowhere(a2.own, a2.link[x])
    <3>1. Narrower(a.own.tables, a2.own.tables)
      BY <2>2, <2>7, <2>8, NarrowerTransitive
    <3>2. a.link[x].advertised = NONE => a2.own.slot = a.own.slot
      BY <2>2, <2>7, <2>8, <2>11 DEF FitsNowhere
    <3> QED BY <2>3, <2>4, <2>11, <3>1, <3>2, StillNowhere
  <2>12. n = 0 \/ n + 1 = Len(a.memory)
    <3>1. Len(a.memory) \in Nat /\ Len(a.memory) =< 2
      BY <2>3, <2>4
    <3> QED BY <3>1
  <2>13. ASSUME n = 0, Len(a.memory) = 2
         PROVE  /\ a.memory[2] \in Peers \ {p} /\ a2.memory[2] = a.memory[2]
                /\ a2.memory[2] \in Asked(a2.own)
    <3>1. /\ a.own.link_requests = a.memory /\ p = a.memory[1] /\ Len(a2.memory) = 2
          /\ DOMAIN a.own.link_requests = {1, 2}
      BY <2>3, <2>4, <2>13 DEF p
    <3>2. Asked(a.own) = {p, a.memory[2]} /\ a.memory[2] \in Peers
      BY <2>4, <3>1 DEF Asked
    <3>3. a.memory[2] # p
      <4>1. st.link_requests = a.memory /\ 1 \in DOMAIN st.link_requests /\ 2 \in DOMAIN st.link_requests
        BY <2>2, <3>1
      <4>2. NoneTwice(st)
        BY <2>3, Zenon DEF Held, QueuesRight
      <4>3. \A i, j \in DOMAIN st.link_requests : st.link_requests[i] = st.link_requests[j] => i = j
        BY <4>2 DEF NoneTwice
      <4> QED BY <3>1, <4>1, <4>3
    <3>4. CASE 2 =< Len(a2.own.link_requests)
      <4> DEFINE y == a2.own.link_requests[2]
      <4>1. y \in Asked(a2.own) /\ a2.memory[2] = y /\ y \in Peers
        BY <2>3, <2>13, <3>4 DEF Asked
      <4>2. CASE y = p
        <5>1. a2.own.link_requests = a.own.link_requests
          BY <2>2, <2>3, <2>9, <4>1, <4>2 DEF SameLink
        <5> QED BY <3>1, <3>2, <3>3, <4>1, <5>1
      <4>3. CASE y # p
        BY <2>10, <3>2, <3>3, <4>1, <4>3
      <4> QED BY <4>2, <4>3
    <3>5. CASE ~(2 =< Len(a2.own.link_requests))
      BY <2>3, <2>10, <2>13, <3>2, <3>3, <3>5
    <3> QED BY <3>4, <3>5
  <2>14. ASSUME (n + 1) + 1 =< Len(a2.memory) PROVE a2.memory[(n + 1) + 1] \in Asked(a2.own)
    <3>1. n = 0 /\ Len(a.memory) = 2 /\ (n + 1) + 1 = 2
      <4> DEFINE N == Len(a.memory)
      <4>1. N \in Nat /\ N =< 2 /\ (n + 1) + 1 =< N
        BY <2>3, <2>4, <2>14
      <4> HIDE DEF N
      <4>2. n = 0 /\ N = 2 /\ (n + 1) + 1 = 2
        BY <4>1
      <4> QED BY <4>2 DEF N
    <3> QED BY <2>13, <3>1
  <2>15. ASSUME NEW x \in Asked(a2.own)
         PROVE  \/ \E k \in (n + 1) + 1 .. Len(a2.memory) : a2.memory[k] = x
                \/ FitsNowhere(a2.own, a2.link[x])
    <3>1. x \in Peers
      BY <2>3 DEF Asked
    <3>2. CASE x = p
      BY <2>9, <3>2
    <3>3. CASE x # p /\ FitsNowhere(a.own, a.link[x])
      BY <2>11, <3>1, <3>3
    <3>4. CASE x # p /\ ~FitsNowhere(a.own, a.link[x])
      <4>1. PICK k \in n + 1 .. Len(a.memory) : a.memory[k] = x
        BY <2>5, <2>10, <3>1, <3>4
      <4>2. k # n + 1
        BY <3>4, <4>1 DEF p
      <4>3. n = 0 /\ Len(a.memory) = 2 /\ k = 2 /\ 2 \in (n + 1) + 1 .. Len(a2.memory)
        <5> DEFINE N == Len(a.memory)
        <5>1. N \in Nat /\ N =< 2 /\ Len(a2.memory) = N /\ k \in n + 1 .. N /\ k # n + 1
          BY <2>3, <2>4, <4>1, <4>2
        <5> HIDE DEF N
        <5>2. n = 0 /\ N = 2 /\ k = 2
          BY <5>1
        <5> QED BY <5>1, <5>2 DEF N
      <4> QED BY <2>13, <4>1, <4>3
    <3> QED BY <3>2, <3>3, <3>4
  <2> QED BY <2>14, <2>15
<1> QED BY <1>1, <1>2

(* What is known of the state of the loop after n of its turns *)
AfterTurns(a, offers, n, N) ==
  /\ LoopTyped(a) /\ LoopRight(a) /\ Len(a.memory) = N
  /\ LoopOffers(a, offers, n) /\ LoopAttached(a, n)

LEMMA RequestsAdded ==
  ASSUME NEW o, NEW l, ManagersTyped(o, l), AllRight(o, l, CountedTo(-1)),
         NEW offers, Len(o.link_requests) =< 2 => OfferedRight(o, l, offers),
         NEW a \in AddRequests(o, l)
  PROVE  AfterTurns(a, offers, Len(o.link_requests), Len(o.link_requests))
<1> DEFINE N == Len(o.link_requests)
           U == [own : OwnStates, link : [Peers -> UNION {LinkStates(p) : p \in Peers}],
                 requests : [Peers -> SUBSET Offers], memory : Seq(Peers)]
           start == [own |-> o, link |-> l, requests |-> [p \in Peers |-> {}],
                     memory |-> o.link_requests]
           D == [n \in 0 .. N |-> SUBSET {x \in U : AfterTurns(x, offers, n, N)}]
           turn(n, X) == UNION {AddRequest(x, n) : x \in X}
           F == [q \in (1 .. N) \X SUBSET U |-> turn(q[1], q[2])]
           added[n \in 0 .. Len(o.link_requests)] ==
             IF n = 0 THEN {start} ELSE UNION {AddRequest(x, n) : x \in added[n - 1]}
<1>1. o.link_requests \in Seq(Peers) /\ N \in Nat
  BY DEF ManagersTyped, OwnStates
<1>2. AfterTurns(start, offers, 0, N)
  <2>1. start.own = o /\ start.link = l /\ start.memory = o.link_requests
        /\ start.requests \in [Peers -> SUBSET Offers] /\ \A p \in Peers : start.requests[p] = {}
    OBVIOUS
  <2>2. start = [own |-> start.own, link |-> start.link, requests |-> start.requests,
                 memory |-> start.memory]
    OBVIOUS
  <2> HIDE DEF start
  <2>3. LoopTyped(start)
    BY <1>1, <2>1, <2>2 DEF LoopTyped
  <2>4. LoopRight(start)
    BY <2>1 DEF LoopRight
  <2>5. LoopOffers(start, offers, 0)
    <3>1. ASSUME N =< 2, 1 =< N PROVE start.requests[start.memory[1]] = {}
      BY <1>1, <2>1, <3>1
    <3>2. ASSUME N =< 2 PROVE OfferedRight(start.own, start.link, NewOffers(start, offers))
      BY <2>1, <3>2 DEF OfferedRight, NewOffers
    <3> QED BY <2>1, <3>1, <3>2 DEF LoopOffers
  <2>6. LoopAttached(start, 0)
    <3>1. \A x \in Asked(start.own) : \E k \in 1 .. N : start.memory[k] = x
      BY <1>1, <2>1 DEF Asked
    <3>2. 1 =< N => start.memory[1] \in Asked(start.own)
      BY <1>1, <2>1 DEF Asked
    <3> QED BY <2>1, <3>1, <3>2 DEF LoopAttached
  <2> QED BY <2>1, <2>3, <2>4, <2>5, <2>6 DEF AfterTurns
<1>3. ASSUME NEW x, NEW n, AfterTurns(x, offers, n, N) PROVE x \in U
  <2>1. LoopTyped(x)
    BY <1>3 DEF AfterTurns
  <2>2. x.link \in [Peers -> UNION {LinkStates(p) : p \in Peers}]
    BY <2>1 DEF LoopTyped, ManagersTyped
  <2> QED BY <2>1, <2>2 DEF LoopTyped, ManagersTyped
<1>4. ASSUME NEW n \in 1 .. N, NEW X \in D[n - 1] PROVE turn(n, X) \in D[n] /\ X \in SUBSET U
  <2>1. n - 1 \in 0 .. N /\ n \in 0 .. N /\ n - 1 \in Nat /\ (n - 1) + 1 = n
    BY <1>1
  <2>2. \A x \in X : x \in U /\ AfterTurns(x, offers, n - 1, N)
    BY <2>1
  <2>3. ASSUME NEW x \in X, NEW y \in AddRequest(x, n) PROVE AfterTurns(y, offers, n, N)
    <3> DEFINE m == n - 1
    <3>1. m \in Nat /\ m + 1 = n /\ n =< N /\ AfterTurns(x, offers, m, N)
      BY <2>1, <2>2
    <3> HIDE DEF m
    <3>2. /\ LoopTyped(x) /\ LoopRight(x) /\ Len(x.memory) = N
          /\ LoopOffers(x, offers, m) /\ LoopAttached(x, m)
      BY <3>1 DEF AfterTurns
    <3>3. m + 1 =< Len(x.memory) /\ y \in AddRequest(x, m + 1)
      BY <3>1, <3>2
    <3>4. LoopTyped(y) /\ LoopRight(y) /\ LoopOffers(y, offers, m + 1) /\ Len(y.memory) = Len(x.memory)
      BY <3>1, <3>2, <3>3, RequestAdded
    <3>5. LoopAttached(y, m + 1)
      BY <3>1, <3>2, <3>3, TurnAttaches DEF LoopOffers
    <3> QED BY <3>1, <3>2, <3>4, <3>5 DEF AfterTurns
  <2> HIDE DEF U
  <2>4. turn(n, X) \subseteq {x \in U : AfterTurns(x, offers, n, N)}
    BY <1>3, <2>3
  <2> QED BY <2>1, <2>2, <2>4
<1>5. {start} \in D[0]
  <2>1. 0 \in 0 .. N
    BY <1>1
  <2> HIDE DEF start, U
  <2> QED BY <1>2, <1>3, <2>1
<1>6. PICK g : Loops(g, N, {start}, F) /\ \A n \in 0 .. N : g[n] \in D[n]
  <2>1. \A n \in 1 .. N : \A X \in D[n - 1] : F[<<n, X>>] \in D[n]
    <3> HIDE DEF turn, D, U
    <3> QED BY <1>4
  <2> HIDE DEF D, F, start
  <2> QED BY <1>1, <1>5, <2>1, LoopExists
<1>7. g = [n \in 0 .. Len(o.link_requests) |->
             IF n = 0 THEN {start} ELSE UNION {AddRequest(x, n) : x \in g[n - 1]}]
  <2>1. \A n \in 1 .. N : F[<<n, g[n - 1]>>] = turn(n, g[n - 1])
    <3>1. \A n \in 1 .. N : n - 1 \in 0 .. N
      BY <1>1
    <3>2. \A n \in 1 .. N : g[n - 1] \in SUBSET U
      <4> HIDE DEF turn, D, U
      <4> QED BY <1>4, <1>6, <3>1
    <3> HIDE DEF turn, U
    <3> QED BY <3>2
  <2>2. \A n \in 0 .. N : n # 0 => n \in 1 .. N
    BY <1>1
  <2>3. g = [n \in 0 .. N |-> IF n = 0 THEN {start} ELSE F[<<n, g[n - 1]>>]]
    <3> HIDE DEF F, start
    <3> QED BY <1>6, Zenon DEF Loops
  <2>4. g = [n \in 0 .. N |-> IF n = 0 THEN {start} ELSE turn(n, g[n - 1])]
    <3> HIDE DEF F, turn, start
    <3> QED BY <2>1, <2>2, <2>3
  <2> QED BY <2>4
<1>8. added = [n \in 0 .. Len(o.link_requests) |->
                 IF n = 0 THEN {start} ELSE UNION {AddRequest(x, n) : x \in added[n - 1]}]
  <2>1. \E f : f = [n \in 0 .. Len(o.link_requests) |->
                      IF n = 0 THEN {start} ELSE UNION {AddRequest(x, n) : x \in f[n - 1]}]
    BY <1>7
  <2> HIDE DEF start
  <2> QED BY <2>1
<1>9. AddRequests(o, l) = added[N]
  BY DEF AddRequests
<1> HIDE DEF added
<1>10. added[0] = {start} /\ \A n \in 1 .. N : added[n] = turn(n, added[n - 1])
  <2>1. 0 \in 0 .. Len(o.link_requests) /\ \A n \in 1 .. N : n \in 0 .. Len(o.link_requests) /\ n # 0
    BY <1>1
  <2>2. added = [n \in 0 .. Len(o.link_requests) |->
                   IF n = 0 THEN {start} ELSE turn(n, added[n - 1])]
    BY <1>8
  <2> HIDE DEF turn, N, start
  <2> QED BY <2>1, <2>2
<1>11. \A n \in 0 .. N : added[n] \in D[n]
  <2>1. added[0] \in D[0] /\ \A n \in 1 .. N : added[n - 1] \in D[n - 1] => added[n] \in D[n]
    <3> HIDE DEF turn, D, start
    <3> QED BY <1>4, <1>5, <1>10
  <2> HIDE DEF D
  <2> QED BY <1>1, <2>1, LoopKeeps
<1>12. N \in 0 .. N /\ added[N] \in D[N]
  BY <1>1, <1>11
<1> HIDE DEF U
<1>13. \A x \in added[N] : AfterTurns(x, offers, N, N)
  BY <1>12
<1> QED BY <1>9, <1>13

(* The queues may be shortened as long as the same requests remain. *)
OwnQueues(o, requests, replies) ==
  [o EXCEPT !.link_requests = requests, !.link_replies = replies]

LEMMA QueuesChanged ==
  ASSUME NEW o, NEW l, ManagersTyped(o, l), NEW q \in Seq(Peers), NEW r \in Seq(Replies)
  PROVE  LET o2 == OwnQueues(o, q, r)
         IN  /\ ManagersTyped(o2, l) /\ o2.link_requests = q /\ o2.link_replies = r
             /\ o2.tables = o.tables /\ o2.failed = o.failed /\ o2.mac_id = o.mac_id
             /\ o2.slot = o.slot /\ o2.scheduled = o.scheduled
             /\ \A b :
                  /\ AllRight(o, l, b)
                  /\ \A i, j \in DOMAIN q : q[i] = q[j] => i = j
                  /\ \A i, j \in DOMAIN r : r[i].dest = r[j].dest => i = j
                  /\ \A p \in Peers : (\E i \in DOMAIN q : q[i] = p)
                                        <=> \E i \in DOMAIN o.link_requests : o.link_requests[i] = p
                  /\ \A i \in DOMAIN r : \E j \in DOMAIN o.link_replies :
                                            o.link_replies[j].dest = r[i].dest
                  => AllRight(o2, l, b)
<1> DEFINE o2 == OwnQueues(o, q, r)
<1>1. /\ o2 \in OwnStates /\ o2.link_requests = q /\ o2.link_replies = r
      /\ o2.tables = o.tables /\ o2.failed = o.failed /\ o2.mac_id = o.mac_id
      /\ o2.slot = o.slot /\ o2.scheduled = o.scheduled
  BY DEF OwnQueues, OwnStates, ManagersTyped
<1> HIDE DEF o2
<1>2. ManagersTyped(o2, l)
  BY <1>1 DEF ManagersTyped
<1>3. ASSUME NEW b, AllRight(o, l, b),
             \A i, j \in DOMAIN q : q[i] = q[j] => i = j,
             \A i, j \in DOMAIN r : r[i].dest = r[j].dest => i = j,
             \A p \in Peers : (\E i \in DOMAIN q : q[i] = p)
                                <=> \E i \in DOMAIN o.link_requests : o.link_requests[i] = p,
             \A i \in DOMAIN r : \E j \in DOMAIN o.link_replies : o.link_replies[j].dest = r[i].dest,
             NEW p \in Peers
      PROVE  Held(At(o2, l[p])) /\ CountRight(At(o2, l[p]), b[p])
  <2> DEFINE st == At(o, l[p])
             a  == At(o2, l[p])
  <2>1. Typed(st) /\ a \in ManagerStates
    BY <1>2, WholeTyped DEF Typed
  <2>2. /\ Frame(st, a) /\ SameSlots(st, a)
        /\ a.link_requests = q /\ a.link_replies = r
        /\ st.link_requests = o.link_requests /\ st.link_replies = o.link_replies
        /\ a.link_status = st.link_status /\ a.is_link_initiator = st.is_link_initiator
        /\ a.timeout = st.timeout
    BY <1>1 DEF At, Frame, SameSlots
  <2>3. Held(st) /\ CountRight(st, b[p]) /\ st.link_id \in Peers
    BY <1>3, WholeTyped DEF AllRight
  <2> HIDE DEF st, a
  <2>4. (\A x \in Peers : x \in Asked(a) <=> x \in Asked(st))
        /\ \A x : x \in Answered(a) => x \in Answered(st)
    BY <1>3, <2>2 DEF Asked, Answered
  <2>5. NoneTwice(a)
    BY <1>3, <2>2 DEF NoneTwice
  <2>6. QueuesRight(a) /\ LeavesQueues(st, a)
    BY <2>2, <2>3, <2>4, <2>5 DEF QueuesRight, LeavesQueues, Held, Frame
  <2>7. Held(a)
    BY <2>1, <2>2, <2>3, <2>6, StillHeld
  <2>8. Ending(a) = Ending(st)
    BY <2>2 DEF Ending, SameSlots
  <2>9. CountRight(a, b[p])
    BY <2>2, <2>3, <2>8 DEF CountRight, SameSlots
  <2> QED BY <2>7, <2>9 DEF a
<1>4. \A b :
        /\ AllRight(o, l, b)
        /\ \A i, j \in DOMAIN q : q[i] = q[j] => i = j
        /\ \A i, j \in DOMAIN r : r[i].dest = r[j].dest => i = j
        /\ \A p \in Peers : (\E i \in DOMAIN q : q[i] = p)
                              <=> \E i \in DOMAIN o.link_requests : o.link_requests[i] = p
        /\ \A i \in DOMAIN r : \E j \in DOMAIN o.link_replies :
                                  o.link_replies[j].dest = r[i].dest
        => AllRight(o2, l, b)
  BY <1>3 DEF AllRight
<1> QED BY <1>1, <1>2, <1>4 DEF o2

(* A new broadcast slot changes nothing for the links. *)
LEMMA OwnRescheduled ==
  ASSUME NEW o, NEW l, ManagersTyped(o, l), NEW b \in [Peers -> Int], AllRight(o, l, b),
         NEW o2 \in scheduleBroadcastSlot(o)
  PROVE  /\ ManagersTyped(o2, l) /\ AllRight(o2, l, b) /\ Ahead(o2)
         /\ o2.link_requests = o.link_requests /\ o2.link_replies = o.link_replies
         /\ \A t \in Tables, s \in Slots :
              IsLocked(o.tables[t][s]) => o2.tables[t][s] = o.tables[t][s]
<1>1. o \in OwnStates
  BY DEF ManagersTyped
<1>2. PICK some \in Peers : TRUE
  <2>1. Peers # {}
    BY PeersAssumption, FS_EmptySet
  <2> QED BY <2>1
<1>3. Good(o)
  <2>1. Good(At(o, l[some]))
    BY <1>2 DEF AllRight, Held
  <2>2. Shaped(o)
    BY <1>1 DEF Shaped, OwnStates, Fields
  <2> QED BY <2>1, <2>2 DEF Good, At
<1>4. Good(o2) /\ Keeps(o, o2) /\ Ahead(o2)
  BY <1>3, Schedule
<1>5. /\ DOMAIN o2 = DOMAIN o /\ o2 = [f \in DOMAIN o |-> o2[f]]
      /\ \A f \in DOMAIN o \ Fields : o2[f] = o[f]
      /\ o2.failed \in {o.failed, "no_candidate"}
      /\ o2.tables \in [Tables -> [Slots -> Reservation]]
      /\ o2.slot \in Slots /\ o2.scheduled \in BOOLEAN
  BY <1>4 DEF Good, Keeps, Shaped, TB
<1>6. /\ o2.mac_id = o.mac_id /\ o2.link_requests = o.link_requests
      /\ o2.link_replies = o.link_replies
  BY <1>1, <1>5 DEF OwnStates, Fields
<1>7. o2 \in OwnStates
  <2>1. o2.failed \in Failures
    BY <1>1, <1>5 DEF OwnStates, Failures
  <2>2. o2 = [mac_id |-> o2.mac_id, tables |-> o2.tables, failed |-> o2.failed,
              slot |-> o2.slot, scheduled |-> o2.scheduled,
              link_requests |-> o2.link_requests, link_replies |-> o2.link_replies]
    BY <1>1, <1>5 DEF OwnStates
  <2> QED BY <1>1, <1>5, <1>6, <2>1, <2>2 DEF OwnStates
<1>8. ManagersTyped(o2, l)
  BY <1>7 DEF ManagersTyped
<1>9. ASSUME NEW p \in Peers
      PROVE  /\ Held(At(o2, l[p])) /\ CountRight(At(o2, l[p]), b[p])
             /\ SameLink(At(o, l[p]), At(o2, l[p]))
  <2> DEFINE st  == At(o, l[p])
             st2 == At(o2, l[p])
  <2>1. Typed(st) /\ Held(st) /\ CountRight(st, b[p]) /\ b[p] \in Int
    BY WholeTyped DEF AllRight
  <2>2. st \in ManagerStates /\ st2 \in ManagerStates
    BY <1>8, WholeTyped DEF Typed
  <2>3. /\ st2.tables = o2.tables /\ st2.slot = o2.slot /\ st2.scheduled = o2.scheduled
        /\ st2.failed = o2.failed
        /\ st.tables = o.tables /\ st.failed = o.failed
    BY DEF At
  <2>4. /\ DOMAIN st2 = DOMAIN st
        /\ \A f \in DOMAIN st \ Fields : st2[f] = st[f]
    <3>1. \A f \in DOMAIN st \ Fields :
            f \in {"mac_id", "link_requests", "link_replies", "link_id", "advertised", "proposals",
                   "link_status", "is_link_initiator", "attempts", "timeout", "expected",
                   "locked_resources", "scheduled_resources", "late"}
      BY DEF At, Fields
    <3>2. DOMAIN st2 = DOMAIN st
      BY DEF At
    <3>3. /\ st2.mac_id = st.mac_id /\ st2.link_requests = st.link_requests
          /\ st2.link_replies = st.link_replies /\ st2.link_id = st.link_id
          /\ st2.advertised = st.advertised /\ st2.proposals = st.proposals
          /\ st2.link_status = st.link_status /\ st2.is_link_initiator = st.is_link_initiator
          /\ st2.attempts = st.attempts /\ st2.timeout = st.timeout
          /\ st2.expected = st.expected /\ st2.locked_resources = st.locked_resources
          /\ st2.scheduled_resources = st.scheduled_resources /\ st2.late = st.late
      BY <1>6 DEF At
    <3> HIDE DEF st, st2
    <3> QED BY <3>1, <3>2, <3>3
  <2> HIDE DEF st, st2
  <2>5. Good(st2)
    <3>1. Shaped(st2)
      BY <2>2 DEF Shaped, ManagerStates, Fields
    <3> QED BY <1>4, <2>3, <3>1 DEF Good
  <2>6. Keeps(st, st2)
    BY <1>4, <2>3, <2>4 DEF Keeps
  <2>7. Held(st2) /\ SameLink(st, st2) /\ CountRight(st2, b[p])
    BY <2>1, <2>5, <2>6, BroadcastChange
  <2> QED BY <2>7 DEF st, st2
<1>10. ASSUME NEW t \in Tables, NEW s \in Slots, IsLocked(o.tables[t][s])
       PROVE  o2.tables[t][s] = o.tables[t][s]
  <2>1. SameLink(At(o, l[some]), At(o2, l[some]))
    BY <1>2, <1>9
  <2>2. At(o, l[some]).tables = o.tables /\ At(o2, l[some]).tables = o2.tables
    BY DEF At
  <2> QED BY <1>10, <2>1, <2>2 DEF SameLink
<1> QED BY <1>4, <1>6, <1>8, <1>9, <1>10 DEF AllRight

(* None of the queued requests is in the header: their links do not await  *)
(* a reply yet.  What is left of the queue is all of it.                   *)
LEMMA SentCancelled ==
  ASSUME NEW a, LoopTyped(a), LoopRight(a)
  PROVE  LET o2 == CancelSent(a)
         IN  /\ ManagersTyped(o2, a.link)
             /\ o2.tables = a.own.tables /\ o2.failed = a.own.failed
             /\ o2.failed = "none" => AllRight(o2, a.link, CountedTo(-1))
<1> DEFINE o    == a.own
           l    == a.link
           q    == o.link_requests
           sent_requests == {i \in DOMAIN q : a.requests[q[i]] # {}}
           left == Erased(q, sent_requests)
           o2   == CancelSent(a)
<1>1. ManagersTyped(o, l) /\ o \in OwnStates /\ q \in Seq(Peers) /\ o.link_replies \in Seq(Replies)
  BY DEF LoopTyped, ManagersTyped, OwnStates
<1>2. o2 = OwnQueues(o, left, o.link_replies)
  BY <1>1 DEF CancelSent, OwnQueues, OwnStates
<1>3. left \in Seq(Peers) /\ Selects(q, DOMAIN q \ sent_requests, left)
  <2>1. PICK x : x = left
    OBVIOUS
  <2> HIDE DEF sent_requests, q
  <2> QED BY <1>1, ErasedIs
<1> HIDE DEF left, o2
<1>4. /\ ManagersTyped(o2, l) /\ o2.tables = o.tables /\ o2.failed = o.failed
      /\ \A b :
           /\ AllRight(o, l, b)
           /\ \A i, j \in DOMAIN left : left[i] = left[j] => i = j
           /\ \A i, j \in DOMAIN o.link_replies : o.link_replies[i].dest = o.link_replies[j].dest => i = j
           /\ \A p \in Peers : (\E i \in DOMAIN left : left[i] = p)
                                 <=> \E i \in DOMAIN o.link_requests : o.link_requests[i] = p
           /\ \A i \in DOMAIN o.link_replies : \E j \in DOMAIN o.link_replies :
                                                  o.link_replies[j].dest = o.link_replies[i].dest
           => AllRight(o2, l, b)
  <2> HIDE DEF o, l
  <2> QED BY <1>1, <1>2, <1>3, QueuesChanged
<1>5. ASSUME o.failed = "none" PROVE AllRight(o2, l, CountedTo(-1))
  <2>1. AllRight(o, l, CountedTo(-1)) /\ \A p \in Peers : a.requests[p] # {} => l[p].link_status = "awaiting_reply"
    BY <1>5 DEF LoopRight
  <2>2. ASSUME NEW i \in DOMAIN q PROVE q[i] \in Peers /\ a.requests[q[i]] = {}
    <3> DEFINE p  == q[i]
               st == At(o, l[p])
    <3>1. p \in Peers
      BY <1>1
    <3>2. Held(st) /\ st.link_id = p /\ st.link_requests = q /\ st.link_status = l[p].link_status
      <4>1. Held(st)
        BY <2>1, <3>1 DEF AllRight
      <4>2. st.link_id = p
        BY <1>1, <3>1, WholeTyped
      <4> QED BY <4>1, <4>2 DEF At
    <3>3. st.link_id \in Asked(st)
      BY <3>2 DEF Asked
    <3>4. st.link_status = "awaiting_request_generation"
      BY <3>2, <3>3 DEF Held, QueuesRight
    <3> QED BY <2>1, <3>1, <3>2, <3>4
  <2>3. sent_requests = {}
    BY <2>2
  <2>4. Selects(q, DOMAIN q, left)
    BY <1>3, <2>3
  <2>5. PICK f \in [1 .. Len(left) -> DOMAIN q] :
          /\ \A i \in 1 .. Len(left) : left[i] = q[f[i]]
          /\ \A i, j \in 1 .. Len(left) : f[i] = f[j] => i = j
          /\ \A k \in DOMAIN q : \E i \in 1 .. Len(left) : f[i] = k
    <3> HIDE DEF q
    <3> QED BY <2>4 DEF Selects
  <2>6. DOMAIN left = 1 .. Len(left)
    BY <1>3
  <2>7. PICK some \in Peers : TRUE
    <3>1. Peers # {}
      BY PeersAssumption, FS_EmptySet
    <3> QED BY <3>1
  <2>8. /\ \A i, j \in DOMAIN q : q[i] = q[j] => i = j
        /\ \A i, j \in DOMAIN o.link_replies : o.link_replies[i].dest = o.link_replies[j].dest => i = j
    <3>1. NoneTwice(At(o, l[some]))
      BY <2>1, <2>7 DEF AllRight, Held, QueuesRight
    <3> QED BY <3>1 DEF NoneTwice, At
  <2> HIDE DEF q, o, l
  <2>9. /\ \A i, j \in DOMAIN left : left[i] = left[j] => i = j
        /\ \A p \in Peers : (\E i \in DOMAIN left : left[i] = p) <=> \E i \in DOMAIN q : q[i] = p
    BY <2>5, <2>6, <2>8
  <2>10. \A i \in DOMAIN o.link_replies : \E j \in DOMAIN o.link_replies :
           o.link_replies[j].dest = o.link_replies[i].dest
    OBVIOUS
  <2> QED BY <1>4, <2>1, <2>8, <2>9, <2>10 DEF q
<1> QED BY <1>4, <1>5 DEF o2

LEMMA SomePeer == \E p : p \in Peers
<1>1. Peers # {}
  BY PeersAssumption, FS_EmptySet
<1> QED BY <1>1

LEMMA OwnGood ==
  ASSUME NEW o, NEW l, NEW b, ManagersTyped(o, l), AllRight(o, l, b)
  PROVE  o \in OwnStates /\ Good(o)
<1>1. PICK p : p \in Peers
  BY SomePeer
<1>2. Good(At(o, l[p]))
  BY <1>1 DEF AllRight, Held
<1>3. o \in OwnStates
  BY DEF ManagersTyped
<1>4. Shaped(o)
  BY <1>3 DEF Shaped, OwnStates, Fields
<1> QED BY <1>2, <1>3, <1>4 DEF Good, At

(* Those in the queue are those whose link waits for its request. *)
LEMMA AskedAre ==
  ASSUME NEW o, NEW l, NEW b, ManagersTyped(o, l), AllRight(o, l, b)
  PROVE  /\ Asked(o) \subseteq Peers
         /\ \A p \in Peers : p \in Asked(o) <=> l[p].link_status = "awaiting_request_generation"
<1>1. Asked(o) \subseteq Peers
  <2>1. o.link_requests \in Seq(Peers)
    BY DEF ManagersTyped, OwnStates
  <2>2. \A i \in DOMAIN o.link_requests : o.link_requests[i] \in Peers
    BY <2>1
  <2> QED BY <2>2 DEF Asked
<1>2. ASSUME NEW p \in Peers
      PROVE  p \in Asked(o) <=> l[p].link_status = "awaiting_request_generation"
  <2> DEFINE st == At(o, l[p])
  <2>1. QueuesRight(st)
    BY DEF AllRight, Held
  <2>2. st.link_id = p
    BY WholeTyped
  <2>3. st.link_requests = o.link_requests /\ st.link_status = l[p].link_status
    BY DEF At
  <2> HIDE DEF st
  <2> QED BY <2>1, <2>2, <2>3 DEF QueuesRight, Asked
<1> QED BY <1>1, <1>2

(* What is still queued when the broadcast has been prepared fits nowhere. *)
LEMMA NothingForgotten ==
  ASSUME NEW o, NEW l, ManagersTyped(o, l), AllRight(o, l, CountedTo(-1)),
         Len(o.link_requests) =< 2,
         NEW a \in AddRequests(o, l), NEW st \in ScheduledNext(CancelSent(a)), st.failed = "none",
         NEW p \in Asked(st)
  PROVE  FitsNowhere(st, a.link[p])
<1> DEFINE N    == Len(o.link_requests)
           none == [q \in Peers |-> {}]
           x    == CancelSent(a)
<1>1. OfferedRight(o, l, none)
  BY DEF OfferedRight
<1> HIDE DEF none
<1>2. AfterTurns(a, none, N, N)
  BY <1>1, RequestsAdded
<1>3. /\ LoopTyped(a) /\ LoopRight(a) /\ LoopAttached(a, N) /\ Len(a.memory) = N
      /\ N \in Nat /\ N =< 2
  <2>1. o.link_requests \in Seq(Peers)
    BY DEF ManagersTyped, OwnStates
  <2> QED BY <1>2, <2>1 DEF AfterTurns
<1> HIDE DEF N
<1>4. ManagersTyped(a.own, a.link)
  BY <1>3 DEF LoopTyped
<1>5. /\ ManagersTyped(x, a.link) /\ x.tables = a.own.tables /\ x.failed = a.own.failed
      /\ x.failed = "none" => AllRight(x, a.link, CountedTo(-1))
      /\ x.slot = a.own.slot
  <2>1. x.slot = a.own.slot
    BY <1>4 DEF CancelSent, ManagersTyped, OwnStates
  <2> QED BY <1>3, <2>1, SentCancelled
<1>6. /\ x.failed = "none" /\ st.link_requests = x.link_requests
      /\ Narrower(x.tables, st.tables)
      /\ x.slot # 0 => st.slot = x.slot
  <2>1. CASE x.slot = 0 /\ x.failed = "none"
    <3>1. st \in scheduleBroadcastSlot(x)
      BY <2>1 DEF ScheduledNext
    <3>2. CountedTo(-1) \in [Peers -> Int] /\ AllRight(x, a.link, CountedTo(-1))
      BY <1>5, <2>1 DEF CountedTo
    <3> HIDE DEF x
    <3>3. Good(x)
      BY <1>5, <3>2, OwnGood
    <3>4. st.link_requests = x.link_requests
      BY <1>5, <3>1, <3>2, OwnRescheduled
    <3> QED BY <2>1, <3>1, <3>3, <3>4, ScheduleNarrows
  <2>2. CASE ~(x.slot = 0 /\ x.failed = "none")
    <3>1. st = x
      BY <2>2 DEF ScheduledNext
    <3> QED BY <3>1 DEF Narrower
  <2> QED BY <2>1, <2>2
<1> HIDE DEF x
<1>7. AllRight(x, a.link, CountedTo(-1)) /\ AllRight(a.own, a.link, CountedTo(-1)) /\ a.own.failed = "none"
  BY <1>3, <1>5, <1>6 DEF LoopRight
<1>8. p \in Peers /\ p \in Asked(a.own)
  <2>1. p \in Asked(x)
    BY <1>6 DEF Asked
  <2> QED BY <1>4, <1>5, <1>7, <2>1, AskedAre
<1>9. FitsNowhere(a.own, a.link[p])
  <2>1. \/ \E k \in N + 1 .. Len(a.memory) : a.memory[k] = p
        \/ FitsNowhere(a.own, a.link[p])
    BY <1>3, <1>7, <1>8 DEF LoopAttached
  <2> QED BY <1>3, <2>1
<1>10. a.link[p].advertised \in Slots \cup {NONE} /\ a.own.slot \in Slots
  BY <1>4, <1>8 DEF ManagersTyped, OwnStates, LinkStates
<1>11. a.link[p].advertised = NONE => st.slot = a.own.slot
  <2>1. a.link[p].advertised = NONE => a.own.slot # 0
    BY <1>9 DEF FitsNowhere
  <2> QED BY <1>5, <1>6, <2>1
<1> QED BY <1>5, <1>6, <1>9, <1>10, <1>11, StillNowhere

(* Whatever is scheduled after it, the shared state keeps its type. *)
LEMMA SentTyped ==
  ASSUME NEW o, NEW l, ManagersTyped(o, l), AllRight(o, l, CountedTo(-1)),
         NEW a \in AddRequests(o, l), NEW st \in ScheduledNext(CancelSent(a))
  PROVE  st \in OwnStates
<1> DEFINE none == [q \in Peers |-> {}]
           x    == CancelSent(a)
<1>1. OfferedRight(o, l, none)
  BY DEF OfferedRight
<1> HIDE DEF none
<1>2. LoopTyped(a) /\ LoopRight(a)
  BY <1>1, RequestsAdded DEF AfterTurns
<1>3. ManagersTyped(x, a.link) /\ (x.failed = "none" => AllRight(x, a.link, CountedTo(-1)))
  BY <1>2, SentCancelled
<1>4. CASE x.slot = 0 /\ x.failed = "none"
  <2>1. st \in scheduleBroadcastSlot(x) /\ CountedTo(-1) \in [Peers -> Int]
    BY <1>4 DEF ScheduledNext, CountedTo
  <2> HIDE DEF x
  <2> QED BY <1>3, <1>4, <2>1, OwnRescheduled DEF ManagersTyped
<1>5. CASE ~(x.slot = 0 /\ x.failed = "none")
  BY <1>3, <1>5 DEF ScheduledNext, ManagersTyped
<1> QED BY <1>4, <1>5

(* One broadcast of the user *)
LEMMA BroadcastSent ==
  ASSUME NEW o, NEW l, ManagersTyped(o, l), AllRight(o, l, CountedTo(-1)),
         NEW offers \in [Peers -> SUBSET Offers],
         Len(o.link_requests) =< 2 => OfferedRight(o, l, offers),
         NEW a \in AddRequests(o, l), NEW st \in ScheduledNext(CancelSent(a)),
         NEW failed \in {Sent(st).failed, "no_next_tx"}
  PROVE  LET o2 == [Sent(st) EXCEPT !.failed = failed]
             offers2 == StillOffered(a.link, NewOffers(a, offers))
         IN  /\ ManagersTyped(o2, a.link) /\ offers2 \in [Peers -> SUBSET Offers]
             /\ o2.failed = "none" => AllRight(o2, a.link, CountedTo(-1)) /\ Ahead(o2)
             /\ o2.failed = "none" /\ Len(o.link_requests) =< 2 => OfferedRight(o2, a.link, offers2)
<1> DEFINE N == Len(o.link_requests)
           x == CancelSent(a)
           r == IF st.link_replies = << >> THEN st.link_replies ELSE Tail(st.link_replies)
           sent_queues == OwnQueues(st, st.link_requests, r)
           o2 == [Sent(st) EXCEPT !.failed = failed]
           offers2 == StillOffered(a.link, NewOffers(a, offers))
<1>1. /\ LoopTyped(a) /\ LoopRight(a) /\ Len(a.memory) = N
      /\ N =< 2 /\ a.own.failed = "none" => OfferedRight(a.own, a.link, NewOffers(a, offers))
  <2>1. AfterTurns(a, offers, N, N)
    BY RequestsAdded
  <2> QED BY <2>1 DEF AfterTurns, LoopOffers
<1>2. /\ ManagersTyped(x, a.link) /\ x.tables = a.own.tables /\ x.failed = a.own.failed
      /\ x.failed = "none" => AllRight(x, a.link, CountedTo(-1))
  BY <1>1, SentCancelled
<1>3. CountedTo(-1) \in [Peers -> Int]
  BY DEF CountedTo
<1> HIDE DEF x
<1>4. /\ ManagersTyped(st, a.link)
      /\ st.failed = "none" =>
           /\ x.failed = "none" /\ AllRight(st, a.link, CountedTo(-1)) /\ Ahead(st)
           /\ \A t \in Tables, s \in Slots :
                IsLocked(a.own.tables[t][s]) => st.tables[t][s] = a.own.tables[t][s]
  <2>1. CASE x.slot = 0 /\ x.failed = "none"
    <3>1. st \in scheduleBroadcastSlot(x)
      BY <2>1 DEF ScheduledNext, x
    <3> QED BY <1>2, <1>3, <2>1, <3>1, OwnRescheduled
  <2>2. CASE ~(x.slot = 0 /\ x.failed = "none")
    <3>1. st = x
      BY <2>2 DEF ScheduledNext, x
    <3>2. x.slot \in Slots
      BY <1>2 DEF ManagersTyped, OwnStates
    <3>3. x.slot # 0 => x.slot > 0
      BY <3>2, HorizonAssumption DEF Slots
    <3> QED BY <1>2, <2>2, <3>1, <3>3 DEF Ahead
  <2> QED BY <2>1, <2>2
<1>5. st \in OwnStates /\ st.link_requests \in Seq(Peers) /\ st.link_replies \in Seq(Replies)
  BY <1>4 DEF ManagersTyped, OwnStates
<1>6. /\ r \in Seq(Replies)
      /\ \A i \in DOMAIN r : i + 1 \in DOMAIN st.link_replies /\ r[i] = st.link_replies[i + 1] /\ i \in Int
  BY <1>5
<1> HIDE DEF r
<1>7. /\ ManagersTyped(sent_queues, a.link)
      /\ sent_queues.tables = st.tables /\ sent_queues.failed = st.failed
      /\ sent_queues.slot = st.slot /\ sent_queues.scheduled = st.scheduled
      /\ st.failed = "none" => AllRight(sent_queues, a.link, CountedTo(-1))
  <2> DEFINE l2 == a.link
             q  == st.link_requests
  <2>1. q \in Seq(Peers) /\ ManagersTyped(st, l2)
    BY <1>4, <1>5
  <2>2. ASSUME st.failed = "none"
        PROVE  /\ \A i, j \in DOMAIN q : q[i] = q[j] => i = j
               /\ \A i, j \in DOMAIN r : r[i].dest = r[j].dest => i = j
               /\ \A p \in Peers : (\E i \in DOMAIN q : q[i] = p)
                                     <=> \E i \in DOMAIN st.link_requests : st.link_requests[i] = p
               /\ \A i \in DOMAIN r : \E j \in DOMAIN st.link_replies :
                                         st.link_replies[j].dest = r[i].dest
    <3>1. PICK some \in Peers : TRUE
      <4>1. Peers # {}
        BY PeersAssumption, FS_EmptySet
      <4> QED BY <4>1
    <3>2. NoneTwice(At(st, a.link[some]))
      BY <1>4, <2>2, <3>1 DEF AllRight, Held, QueuesRight
    <3>3. /\ \A i, j \in DOMAIN q : q[i] = q[j] => i = j
          /\ \A i, j \in DOMAIN st.link_replies :
               st.link_replies[i].dest = st.link_replies[j].dest => i = j
      BY <3>2 DEF NoneTwice, At
    <3>4. \A i, j \in DOMAIN r : r[i].dest = r[j].dest => i = j
      <4> SUFFICES ASSUME NEW i \in DOMAIN r, NEW j \in DOMAIN r, r[i].dest = r[j].dest
                   PROVE  i = j
        OBVIOUS
      <4>1. i + 1 = j + 1 /\ i \in Int /\ j \in Int
        BY <1>6, <3>3
      <4> QED BY <4>1
    <3> QED BY <1>6, <3>3, <3>4
  <2> HIDE DEF q, l2
  <2>3. /\ ManagersTyped(OwnQueues(st, q, r), l2)
        /\ OwnQueues(st, q, r).tables = st.tables /\ OwnQueues(st, q, r).failed = st.failed
        /\ OwnQueues(st, q, r).slot = st.slot /\ OwnQueues(st, q, r).scheduled = st.scheduled
        /\ st.failed = "none" => (AllRight(st, l2, CountedTo(-1)) => AllRight(OwnQueues(st, q, r), l2, CountedTo(-1)))
    <3>1. LET y == OwnQueues(st, q, r)
          IN  /\ ManagersTyped(y, l2) /\ y.link_requests = q /\ y.link_replies = r
              /\ y.tables = st.tables /\ y.failed = st.failed /\ y.mac_id = st.mac_id
              /\ y.slot = st.slot /\ y.scheduled = st.scheduled
              /\ \A b :
                   /\ AllRight(st, l2, b)
                   /\ \A i, j \in DOMAIN q : q[i] = q[j] => i = j
                   /\ \A i, j \in DOMAIN r : r[i].dest = r[j].dest => i = j
                   /\ \A p \in Peers : (\E i \in DOMAIN q : q[i] = p)
                                         <=> \E i \in DOMAIN st.link_requests : st.link_requests[i] = p
                   /\ \A i \in DOMAIN r : \E j \in DOMAIN st.link_replies :
                                             st.link_replies[j].dest = r[i].dest
                   => AllRight(y, l2, b)
      BY <1>6, <2>1, QueuesChanged, Zenon
    <3> QED BY <2>2, <3>1, Zenon
  <2> QED BY <1>4, <2>3 DEF q, l2
<1>8. /\ o2 = [sent_queues EXCEPT !.failed = failed]
  BY <1>5 DEF Sent, OwnQueues, OwnStates, r
<1> HIDE DEF sent_queues, o2
<1>9. /\ ManagersTyped(o2, a.link) /\ o2.failed = failed
      /\ o2.failed = "none" => o2 = sent_queues /\ st.failed = "none"
  <2>1. /\ sent_queues \in OwnStates /\ st.failed \in Failures
        /\ failed \in {st.failed, "no_next_tx"}
    BY <1>5, <1>7 DEF ManagersTyped, OwnStates, Sent
  <2>2. failed \in Failures
    BY <2>1 DEF Failures
  <2>3. o2 \in OwnStates /\ o2.failed = failed
    BY <1>8, <2>1, <2>2 DEF OwnStates
  <2>4. ASSUME failed = "none" PROVE o2 = sent_queues /\ st.failed = "none"
    <3>1. st.failed = "none"
      BY <2>1, <2>4
    <3> QED BY <1>7, <1>8, <2>1, <2>4, <3>1 DEF OwnStates
  <2> QED BY <1>7, <2>3, <2>4 DEF ManagersTyped
<1>10. offers2 \in [Peers -> SUBSET Offers] /\ \A p \in Peers : offers2[p] # {} => offers2[p] = NewOffers(a, offers)[p]
  <2>1. a.requests \in [Peers -> SUBSET Offers]
    BY <1>1 DEF LoopTyped
  <2> QED BY <2>1 DEF StillOffered, NewOffers
<1> HIDE DEF offers2
<1>11. ASSUME o2.failed = "none", N =< 2 PROVE OfferedRight(o2, a.link, offers2)
  <2>1. /\ OfferedRight(a.own, a.link, NewOffers(a, offers))
        /\ o2.tables = st.tables
        /\ \A t \in Tables, s \in Slots :
             IsLocked(a.own.tables[t][s]) => st.tables[t][s] = a.own.tables[t][s]
    BY <1>1, <1>2, <1>4, <1>7, <1>9, <1>11
  <2> SUFFICES ASSUME NEW p \in Peers, offers2[p] # {}
               PROVE  /\ a.link[p].link_status = "awaiting_reply"
                      /\ OffersLocked(o2.tables, p, offers2[p])
    BY DEF OfferedRight
  <2>2. /\ a.link[p].link_status = "awaiting_reply"
        /\ OffersLocked(a.own.tables, p, offers2[p])
    BY <1>10, <2>1 DEF OfferedRight
  <2>3. OffersLocked(o2.tables, p, offers2[p])
    BY <2>1, <2>2, OffersStay
  <2> QED BY <2>2, <2>3
<1>12. o2.failed = "none" => AllRight(o2, a.link, CountedTo(-1)) /\ Ahead(o2)
  BY <1>4, <1>7, <1>9 DEF Ahead
<1> QED BY <1>9, <1>10, <1>11, <1>12 DEF o2, offers2

-----------------------------------------------------------------------------
(* The end of a time slot *)

(* What awaits its reply afterwards did so before, behind the same locks. *)
KeepsOffers(o, l, o2, l2) ==
  \A p \in Peers : l2[p].link_status = "awaiting_reply" =>
    /\ l[p].link_status = "awaiting_reply"
    /\ \A t \in Tables, s \in Slots :
         IsLocked(o.tables[t][s]) /\ o.tables[t][s].target = p
           => o2.tables[t][s] = o.tables[t][s]

LEMMA OffersKept ==
  ASSUME NEW o, NEW l, NEW o2, NEW l2, KeepsOffers(o, l, o2, l2),
         NEW offers, OfferedRight(o, l, offers)
  PROVE  OfferedRight(o2, l2, StillOffered(l2, offers))
<1> SUFFICES ASSUME NEW p \in Peers, StillOffered(l2, offers)[p] # {}
             PROVE  /\ l2[p].link_status = "awaiting_reply"
                    /\ OffersLocked(o2.tables, p, StillOffered(l2, offers)[p])
  BY DEF OfferedRight
<1>1. l2[p].link_status = "awaiting_reply" /\ StillOffered(l2, offers)[p] = offers[p]
  BY DEF StillOffered
<1>2. OffersLocked(o.tables, p, offers[p])
  BY <1>1 DEF OfferedRight
<1>3. OffersLocked(o2.tables, p, offers[p])
  BY <1>1, <1>2, OffersStay DEF KeepsOffers
<1> QED BY <1>1, <1>3

LEMMA TurnKeeps ==
  ASSUME NEW o, NEW l, ManagersTyped(o, l), NEW p \in Peers, NEW st2, NEW o2, NEW l2,
         Acted(o, l, p, st2, o2, l2), Leaves(At(o, l[p]), st2), StillAwaits(At(o, l[p]), st2)
  PROVE  KeepsOffers(o, l, o2, l2)
<1> DEFINE st == At(o, l[p])
<1>1. st.link_id = p /\ st2 = At(o2, l2[p]) /\ \A x \in Peers \ {p} : l2[x] = l[x]
  BY WholeTyped DEF Acted
<1>2. /\ o2.tables = st2.tables /\ l2[p].link_status = st2.link_status
      /\ o.tables = st.tables /\ l[p].link_status = st.link_status
  BY <1>1 DEF At
<1>3. Leaves(st, st2) /\ StillAwaits(st, st2)
  OBVIOUS
<1> HIDE DEF st
<1>4. ASSUME NEW x \in Peers, l2[x].link_status = "awaiting_reply"
      PROVE  /\ l[x].link_status = "awaiting_reply"
             /\ \A t \in Tables, s \in Slots :
                  IsLocked(o.tables[t][s]) /\ o.tables[t][s].target = x
                    => o2.tables[t][s] = o.tables[t][s]
  <2>1. CASE x = p
    BY <1>1, <1>2, <1>3, <1>4, <2>1 DEF StillAwaits
  <2>2. CASE x # p
    <3>1. l[x] = l2[x]
      BY <1>1, <2>2
    <3>2. LeavesSlots(st, st2)
      BY <1>3 DEF Leaves
    <3> QED BY <1>1, <1>2, <1>4, <2>2, <3>1, <3>2 DEF LeavesSlots, Holds
  <2> QED BY <2>1, <2>2
<1> QED BY <1>4 DEF KeepsOffers

(* A manager that has acted, and what that leaves to the others *)
RightWith(o, l, o2, l2, b) ==
  /\ ManagersTyped(o2, l2) /\ Ahead(o2)
  /\ o2.failed = "none" =>
       o.failed = "none" /\ AllRight(o2, l2, b) /\ KeepsOffers(o, l, o2, l2)

LEMMA TurnTaken ==
  ASSUME NEW o, NEW l, ManagersTyped(o, l), NEW b \in [Peers -> Int], AllRight(o, l, b),
         NEW p \in Peers, NEW n \in Int, NEW st2, RightTo(At(o, l[p]), st2, n)
  PROVE  RightWith(o, l, OwnPart(st2), [l EXCEPT ![p] = LinkPart(st2)], [b EXCEPT ![p] = n])
<1> DEFINE o2 == OwnPart(st2)
           l2 == [l EXCEPT ![p] = LinkPart(st2)]
           st == At(o, l[p])
<1>1. /\ Typed(st2) /\ st2.link_id = st.link_id /\ Ahead(st2)
      /\ st2.failed = "none" =>
           /\ st.failed = "none" /\ Held(st2) /\ CountRight(st2, n)
           /\ Leaves(st, st2) /\ StillAwaits(st, st2)
  BY DEF RightTo
<1>2. st.link_id = p
  BY WholeTyped
<1>3. Acted(o, l, p, st2, o2, l2)
  BY <1>1, <1>2, OneActed
<1>4. /\ o2.failed = st2.failed /\ o2.tables = st2.tables /\ o2.slot = st2.slot
      /\ o2.scheduled = st2.scheduled
      /\ o.failed = st.failed
  BY DEF OwnPart, At
<1>5. st = At(o, l[p])
  OBVIOUS
<1> HIDE DEF o2, l2, st
<1>6. Ahead(o2)
  BY <1>1, <1>4 DEF Ahead
<1>7. ASSUME o2.failed = "none"
      PROVE  o.failed = "none" /\ AllRight(o2, l2, [b EXCEPT ![p] = n])
  BY <1>1, <1>3, <1>4, <1>5, <1>7 DEF Acted
<1>8. ASSUME o2.failed = "none" PROVE KeepsOffers(o, l, o2, l2)
  BY <1>1, <1>3, <1>4, <1>5, <1>8, TurnKeeps
<1> QED BY <1>3, <1>6, <1>7, <1>8 DEF Acted, RightWith, o2, l2

(* A manager on which nothing was done *)
LEMMA RightAlready ==
  ASSUME NEW o, NEW l, ManagersTyped(o, l), AllRight(o, l, CountedTo(-1)), Ahead(o),
         o.failed = "none", NEW p \in Peers
  PROVE  Right(At(o, l[p]), At(o, l[p])) /\ At(o, l[p]).failed = "none"
<1> DEFINE st == At(o, l[p])
<1>1. Typed(st) /\ Held(st) /\ CountRight(st, -1)
  BY WholeTyped DEF AllRight, CountedTo
<1>2. st.failed = "none" /\ Ahead(st)
  BY DEF At, Ahead
<1> HIDE DEF st
<1>3. StillAwaits(st, st)
  BY DEF StillAwaits
<1> QED BY <1>1, <1>2, <1>3, LeavesReflexive DEF Right, RightTo, st

(* The managers one after the other: those of the first n peers have       *)
(* counted the burst that ended.                                           *)
Ended(r, y, order, n) ==
  /\ y = [own |-> y.own, link |-> y.link]
  /\ ManagersTyped(y.own, y.link) /\ Ahead(y.own)
  /\ y.own.failed = "none" =>
       /\ r.own.failed = "none"
       /\ AllRight(y.own, y.link, [p \in Peers |-> IF \E i \in 1 .. n : order[i] = p THEN 0 ELSE -1])
       /\ KeepsOffers(r.own, r.link, y.own, y.link)

LEMMA NextEnded ==
  ASSUME NEW order, NEW n \in Nat, order[n + 1] \in Peers,
         \A i \in 1 .. n : order[i] # order[n + 1],
         NEW r, NEW y, Ended(r, y, order, n), NEW more \in BOOLEAN
  PROVE  Ended(r, ManagerSlotEnd(y, order[n + 1], more), order, n + 1)
<1> DEFINE p   == order[n + 1]
           b   == [q \in Peers |-> IF \E i \in 1 .. n : order[i] = q THEN 0 ELSE -1]
           st  == At(y.own, y.link[p])
           st2 == [onLinkSlotEnd(st, more) EXCEPT !.advertised = CountDown(@)]
           z   == ManagerSlotEnd(y, p, more)
<1>1. /\ y = [own |-> y.own, link |-> y.link]
      /\ ManagersTyped(y.own, y.link) /\ Ahead(y.own)
      /\ y.own.failed = "none" =>
           /\ r.own.failed = "none"
           /\ AllRight(y.own, y.link, b) /\ KeepsOffers(r.own, r.link, y.own, y.link)
  BY DEF Ended
<1>2. CASE y.own.failed # "none"
  <2>1. z = y
    BY <1>2 DEF ManagerSlotEnd
  <2> QED BY <1>1, <1>2, <2>1 DEF Ended
<1>3. CASE y.own.failed = "none"
  <2>1. z = [own |-> OwnPart(st2), link |-> [y.link EXCEPT ![p] = LinkPart(st2)]]
    <3> HIDE DEF p
    <3>1. z = IF y.own.failed # "none" THEN y
              ELSE [own |-> OwnPart(onLinkSlotEnd(st, more)),
                    link |-> [y.link EXCEPT ![p] = LinkPart(st2)]]
      BY Zenon DEF ManagerSlotEnd
    <3>2. OwnPart(onLinkSlotEnd(st, more)) = OwnPart(st2)
      BY DEF OwnPart
    <3> QED BY <1>3, <3>1, <3>2
  <2>2. b \in [Peers -> Int] /\ b[p] = -1
    BY <1>1
  <2>3. [b EXCEPT ![p] = 0] =
          [q \in Peers |-> IF \E i \in 1 .. n + 1 : order[i] = q THEN 0 ELSE -1]
    <3>1. \A i : i \in 1 .. n + 1 <=> i \in 1 .. n \/ i = n + 1
      OBVIOUS
    <3> QED BY <3>1
  <2>4. Right(st, st) /\ st.failed = "none"
    <3>1. Typed(st) /\ Held(st) /\ CountRight(st, -1)
      BY <1>1, <1>3, <2>2, WholeTyped DEF AllRight
    <3>2. st.failed = "none" /\ Ahead(st)
      BY <1>1, <1>3 DEF At, Ahead
    <3> HIDE DEF st
    <3>3. StillAwaits(st, st)
      BY DEF StillAwaits
    <3> QED BY <3>1, <3>2, <3>3, LeavesReflexive DEF Right, RightTo
  <2>5. RightTo(st, st2, 0)
    <3> HIDE DEF st
    <3> QED BY <2>4, SlotEnded
  <2> HIDE DEF p, b, st2, z
  <2>6. st = At(y.own, y.link[p]) /\ p \in Peers
    BY DEF p
  <2>7. /\ ManagersTyped(z.own, z.link) /\ Ahead(z.own) /\ z = [own |-> z.own, link |-> z.link]
        /\ z.own.failed = "none" =>
             /\ AllRight(z.own, z.link, [b EXCEPT ![p] = 0])
             /\ KeepsOffers(y.own, y.link, z.own, z.link)
    <3>1. RightTo(At(y.own, y.link[p]), st2, 0)
      BY <2>5, <2>6
    <3>2. z.own = OwnPart(st2) /\ z.link = [y.link EXCEPT ![p] = LinkPart(st2)]
          /\ z = [own |-> z.own, link |-> z.link]
      BY <2>1
    <3>3. RightWith(y.own, y.link, OwnPart(st2), [y.link EXCEPT ![p] = LinkPart(st2)], [b EXCEPT ![p] = 0])
      <4>1. ManagersTyped(y.own, y.link) /\ AllRight(y.own, y.link, b) /\ 0 \in Int
        BY <1>1, <1>3
      <4> HIDE DEF st
      <4> QED BY <2>2, <2>6, <3>1, <4>1, TurnTaken
    <3> QED BY <3>2, <3>3 DEF RightWith
  <2>8. ASSUME z.own.failed = "none" PROVE KeepsOffers(r.own, r.link, z.own, z.link)
    BY <1>1, <1>3, <2>7, <2>8 DEF KeepsOffers
  <2>9. ASSUME z.own.failed = "none"
        PROVE  AllRight(z.own, z.link, [q \in Peers |-> IF \E i \in 1 .. n + 1 : order[i] = q THEN 0 ELSE -1])
    <3> DEFINE b2 == [q \in Peers |-> IF \E i \in 1 .. n + 1 : order[i] = q THEN 0 ELSE -1]
    <3>1. [b EXCEPT ![p] = 0] = b2
      BY <2>3 DEF b, p
    <3> HIDE DEF b2
    <3>2. AllRight(z.own, z.link, b2)
      BY <2>7, <2>9, <3>1
    <3> QED BY <3>2 DEF b2
  <2> QED BY <1>1, <1>3, <2>7, <2>8, <2>9 DEF Ended, z, p
<1> QED BY <1>2, <1>3

LEMMA ManagersEnded ==
  ASSUME NEW r, r = [own |-> r.own, link |-> r.link], ManagersTyped(r.own, r.link), Ahead(r.own),
         r.own.failed = "none" => AllRight(r.own, r.link, CountedTo(-1)),
         NEW more \in SUBSET Peers
  PROVE  LET after == ManagersSlotEnd(r, more)
         IN  RightWith(r.own, r.link, after.own, after.link, CountedTo(0))
<1> DEFINE N     == Cardinality(Peers)
           order == SetToSeq(Peers)
           U == [own : OwnStates, link : [Peers -> UNION {LinkStates(p) : p \in Peers}]]
           D == [n \in 0 .. N |-> {y \in U : Ended(r, y, order, n)}]
           turn(n, y) == ManagerSlotEnd(y, order[n], order[n] \in more)
           F == [q \in (1 .. N) \X U |-> turn(q[1], q[2])]
           ended[n \in 0 .. Cardinality(Peers)] ==
             IF n = 0 THEN r ELSE ManagerSlotEnd(ended[n - 1], order[n], order[n] \in more)
<1>1. /\ N \in Nat /\ order \in [1 .. N -> Peers]
      /\ \A i, j \in 1 .. N : order[i] = order[j] => i = j
  <2>1. N \in Nat /\ ExistsBijection(1 .. N, Peers)
    BY PeersAssumption, FS_CardinalityType
  <2>2. \E f \in [1 .. N -> Peers] : IsInjective(f)
    BY <2>1 DEF ExistsBijection, Bijection, Injection
  <2>3. order \in [1 .. N -> Peers] /\ IsInjective(order)
    BY <2>2 DEF SetToSeq
  <2> HIDE DEF N, order
  <2> QED BY <2>1, <2>3 DEF IsInjective
<1> HIDE DEF order
<1>2. ASSUME NEW y, NEW n, Ended(r, y, order, n) PROVE y \in U
  <2>1. y = [own |-> y.own, link |-> y.link] /\ ManagersTyped(y.own, y.link)
    BY <1>2 DEF Ended
  <2>2. y.link \in [Peers -> UNION {LinkStates(p) : p \in Peers}]
    BY <2>1 DEF ManagersTyped
  <2> QED BY <2>1, <2>2 DEF ManagersTyped
<1>3. Ended(r, r, order, 0)
  <2>1. CountedTo(-1) = [p \in Peers |-> IF \E i \in 1 .. 0 : order[i] = p THEN 0 ELSE -1]
    BY DEF CountedTo
  <2>2. KeepsOffers(r.own, r.link, r.own, r.link)
    BY DEF KeepsOffers
  <2> QED BY <2>1, <2>2 DEF Ended
<1>4. ASSUME NEW n \in 1 .. N, NEW y \in D[n - 1] PROVE turn(n, y) \in D[n] /\ y \in U
  <2>1. n - 1 \in 0 .. N /\ n \in 0 .. N /\ n - 1 \in Nat /\ (n - 1) + 1 = n
        /\ \A i \in 1 .. (n - 1) : i \in 1 .. N /\ i # n
    BY <1>1
  <2>2. y \in U /\ Ended(r, y, order, n - 1)
    BY <2>1
  <2>3. Ended(r, turn(n, y), order, n)
    <3> DEFINE m    == n - 1
               last == order[n] \in more
    <3>1. m \in Nat /\ m + 1 = n /\ Ended(r, y, order, m)
          /\ order[m + 1] \in Peers /\ (\A i \in 1 .. m : order[i] # order[m + 1])
          /\ last \in BOOLEAN
      BY <1>1, <2>1, <2>2
    <3>2. turn(n, y) = ManagerSlotEnd(y, order[m + 1], last)
      BY <3>1
    <3> HIDE DEF m, last, turn
    <3>3. Ended(r, ManagerSlotEnd(y, order[m + 1], last), order, m + 1)
      BY <3>1, NextEnded
    <3> QED BY <3>1, <3>2, <3>3
  <2> HIDE DEF U, turn
  <2> QED BY <1>2, <2>1, <2>2, <2>3
<1>5. r \in D[0]
  <2>1. 0 \in 0 .. N
    BY <1>1
  <2> HIDE DEF U
  <2> QED BY <1>2, <1>3, <2>1
<1>6. PICK g : Loops(g, N, r, F) /\ \A n \in 0 .. N : g[n] \in D[n]
  <2>1. \A n \in 1 .. N : \A y \in D[n - 1] : F[<<n, y>>] \in D[n]
    <3> HIDE DEF turn, D, U
    <3> QED BY <1>4
  <2> HIDE DEF D, F
  <2> QED BY <1>1, <1>5, <2>1, LoopExists
<1>7. g = [n \in 0 .. Cardinality(Peers) |->
             IF n = 0 THEN r ELSE ManagerSlotEnd(g[n - 1], order[n], order[n] \in more)]
  <2>1. \A n \in 1 .. N : F[<<n, g[n - 1]>>] = turn(n, g[n - 1])
    <3>1. \A n \in 1 .. N : n - 1 \in 0 .. N
      BY <1>1
    <3>2. \A n \in 1 .. N : g[n - 1] \in U
      <4> HIDE DEF turn, D, U
      <4> QED BY <1>4, <1>6, <3>1
    <3> HIDE DEF turn, U
    <3> QED BY <3>2
  <2>2. \A n \in 0 .. N : n # 0 => n \in 1 .. N
    BY <1>1
  <2>3. g = [n \in 0 .. N |-> IF n = 0 THEN r ELSE F[<<n, g[n - 1]>>]]
    <3> HIDE DEF F
    <3> QED BY <1>6, Zenon DEF Loops
  <2>4. g = [n \in 0 .. N |-> IF n = 0 THEN r ELSE turn(n, g[n - 1])]
    <3> HIDE DEF F, turn
    <3> QED BY <2>1, <2>2, <2>3
  <2> QED BY <2>4
<1>8. ended = [n \in 0 .. Cardinality(Peers) |->
                 IF n = 0 THEN r ELSE ManagerSlotEnd(ended[n - 1], order[n], order[n] \in more)]
  <2>1. \E f : f = [n \in 0 .. Cardinality(Peers) |->
                      IF n = 0 THEN r ELSE ManagerSlotEnd(f[n - 1], order[n], order[n] \in more)]
    BY <1>7
  <2> QED BY <2>1
<1>9. ManagersSlotEnd(r, more) = ended[N]
  BY DEF ManagersSlotEnd, order
<1> HIDE DEF ended
<1>10. ended[0] = r /\ \A n \in 1 .. N : ended[n] = turn(n, ended[n - 1])
  <2>1. 0 \in 0 .. Cardinality(Peers) /\ \A n \in 1 .. N : n \in 0 .. Cardinality(Peers) /\ n # 0
    BY <1>1
  <2>2. ended = [n \in 0 .. Cardinality(Peers) |-> IF n = 0 THEN r ELSE turn(n, ended[n - 1])]
    BY <1>8
  <2> HIDE DEF turn, N
  <2> QED BY <2>1, <2>2
<1>11. \A n \in 0 .. N : ended[n] \in D[n]
  <2>1. ended[0] \in D[0] /\ \A n \in 1 .. N : ended[n - 1] \in D[n - 1] => ended[n] \in D[n]
    <3> HIDE DEF turn, D
    <3> QED BY <1>4, <1>5, <1>10
  <2> HIDE DEF D
  <2> QED BY <1>1, <2>1, LoopKeeps
<1>12. N \in 0 .. N /\ ended[N] \in D[N]
  BY <1>1, <1>11
<1> DEFINE after == ended[N]
<1>13. Ended(r, after, order, N)
  <2> HIDE DEF U
  <2> QED BY <1>12
<1> HIDE DEF after
<1>14. ASSUME after.own.failed = "none" PROVE AllRight(after.own, after.link, CountedTo(0))
  <2> DEFINE b == [p \in Peers |-> IF \E i \in 1 .. N : order[i] = p THEN 0 ELSE -1]
  <2>1. AllRight(after.own, after.link, b) /\ \A p \in Peers : b[p] \in {0, -1}
    BY <1>13, <1>14 DEF Ended
  <2> HIDE DEF b
  <2> SUFFICES ASSUME NEW p \in Peers
               PROVE  Held(At(after.own, after.link[p])) /\ CountRight(At(after.own, after.link[p]), 0)
    BY DEF AllRight, CountedTo
  <2>2. Held(At(after.own, after.link[p])) /\ CountRight(At(after.own, after.link[p]), b[p])
    BY <2>1 DEF AllRight
  <2>3. CASE b[p] = 0
    BY <2>2, <2>3
  <2>4. CASE b[p] = -1
    <3> DEFINE st == At(after.own, after.link[p])
    <3>1. Typed(st)
      BY <1>13, WholeTyped DEF Ended
    <3> HIDE DEF st
    <3>2. \A start \in Int : (2 * (Timeout - st.timeout) - 1) * Increment \in Int
      BY <3>1, BurstsAssumption DEF Typed, ManagerStates
    <3>3. \A x, y \in Int : x + y =< -1 => x + y =< 0
      OBVIOUS
    <3>4. CountRight(st, -1)
      BY <2>2, <2>4 DEF st
    <3>5. CountRight(st, 0)
      BY <3>2, <3>3, <3>4 DEF CountRight
    <3> QED BY <2>2, <3>5 DEF st
  <2> QED BY <2>1, <2>3, <2>4
<1> QED BY <1>9, <1>13, <1>14 DEF Ended, RightWith, after

-----------------------------------------------------------------------------
(* A time slot passes *)

LEMMA ElapsedIs ==
  ASSUME NEW proposals \in SUBSET Offers
  PROVE  Elapsed(proposals) \in SUBSET Offers
<1> SUFFICES ASSUME NEW q \in proposals, q.slot > 1
             PROVE  [q EXCEPT !.slot = @ - 1] \in Offers
  BY DEF Elapsed
<1>1. q \in Proposals /\ q.slot \in Slots /\ InHorizon(q.slot)
  BY DEF Offers, Proposals
<1>2. q.slot - 1 \in Slots
  BY <1>1, HorizonAssumption DEF Slots
<1>3. InHorizon(q.slot - 1)
  <2>1. \A x, y, z \in Int : x + y =< z => (x - 1) + y =< z
    OBVIOUS
  <2>2. (2 * Timeout - 1) * Increment \in Int
    BY BurstsAssumption
  <2>3. q.slot \in Int /\ Horizon \in Int
    BY <1>1, HorizonAssumption DEF Slots
  <2>4. q.slot + (2 * Timeout - 1) * Increment =< Horizon
    BY <1>1 DEF InHorizon, LastBurst
  <2>5. (q.slot - 1) + (2 * Timeout - 1) * Increment =< Horizon
    BY <2>1, <2>2, <2>3, <2>4
  <2> QED BY <2>5 DEF InHorizon, LastBurst
<1> DEFINE p == [q EXCEPT !.slot = @ - 1]
<1>4. p \in Proposals /\ p.slot = q.slot - 1
  BY <1>1, <1>2 DEF Proposals
<1> HIDE DEF p
<1>5. InHorizon(p.slot)
  BY <1>3, <1>4
<1> QED BY <1>4, <1>5 DEF Offers, Proposals, p

(* The cells of the tables have moved a slot closer; on the shared channel *)
(* and for the transmitter this is said of the locks alone.                *)
Moved(tb, tb2) ==
  /\ \A t \in PP \cup RxTables, s \in Slots :
       tb2[t][s] = IF s = Horizon THEN Idle ELSE tb[t][s + 1]
  /\ \A t \in Tables, s \in Slots :
       /\ IsLocked(tb2[t][s]) => s + 1 \in Slots /\ tb2[t][s] = tb[t][s + 1]
       /\ s + 1 \in Slots /\ IsLocked(tb[t][s + 1]) => tb2[t][s] = tb[t][s + 1]

LEMMA OwnMoved ==
  ASSUME NEW o \in OwnStates, Good(o), Ahead(o), o.failed = "none", NEW st2 \in onSlotStart(o)
  PROVE  LET o2 == [ListenNow(st2) EXCEPT !.link_replies = Sooner(@)]
         IN  /\ o2 \in OwnStates /\ Good(o2) /\ Moved(o.tables, o2.tables)
             /\ o2.link_requests = o.link_requests
             /\ DOMAIN o2.link_replies = DOMAIN o.link_replies
             /\ \A i \in DOMAIN o.link_replies :
                  o2.link_replies[i].dest = o.link_replies[i].dest
<1> DEFINE l  == ListenNow(st2)
           o2 == [ListenNow(st2) EXCEPT !.link_replies = Sooner(@)]
           q  == o.link_replies
           replies == Sooner(q)
<1>1. Good(l) /\ l.failed \in {"none", "no_candidate"} /\ MovedOn(o, l)
  BY SlotStarted
<1>2. o2 = [l EXCEPT !.link_replies = Sooner(@)]
  OBVIOUS
<1> HIDE DEF l, o2
<1>3. l.mac_id = o.mac_id /\ l.link_requests = o.link_requests /\ l.link_replies = q
  BY <1>1 DEF MovedOn, OwnStates, Fields
<1>4. /\ l.failed \in Failures /\ l.tables \in [Tables -> [Slots -> Reservation]]
      /\ l.slot \in Slots /\ l.scheduled \in BOOLEAN
      /\ DOMAIN l = DOMAIN o /\ l = [f \in DOMAIN l |-> l[f]]
  BY <1>1 DEF Good, Shaped, TB, MovedOn, Failures
<1>5. replies \in Seq(Replies) /\ DOMAIN replies = DOMAIN q
  <2>1. q \in Seq(Replies)
    BY DEF OwnStates
  <2>2. \A i \in DOMAIN q : q[i] \in Replies
    BY <2>1
  <2>3. \A r \in Replies : [r EXCEPT !.due = @ - 1] \in Replies
    BY DEF Replies
  <2>4. DOMAIN q = 1 .. Len(q) /\ Len(q) \in Nat
    BY <2>1
  <2>5. replies \in [1 .. Len(q) -> Replies]
    BY <2>2, <2>3, <2>4 DEF Sooner
  <2> QED BY <2>4, <2>5
<1>6. \A i \in DOMAIN q : replies[i].dest = q[i].dest
  <2>1. \A i \in DOMAIN q : q[i] \in Replies
    BY DEF OwnStates
  <2>2. \A r \in Replies : [r EXCEPT !.due = @ - 1].dest = r.dest
    BY DEF Replies
  <2> QED BY <2>1, <2>2 DEF Sooner
<1>7. o2 = [l EXCEPT !.link_replies = replies]
  BY <1>2, <1>3
<1> HIDE DEF q, replies
<1>8. /\ o2.tables = l.tables /\ o2.slot = l.slot /\ o2.scheduled = l.scheduled
      /\ o2.failed = l.failed /\ o2.mac_id = o.mac_id /\ o2.link_requests = o.link_requests
      /\ o2.link_replies = replies
      /\ DOMAIN o2 = DOMAIN o /\ o2 = [f \in DOMAIN o2 |-> o2[f]]
  BY <1>3, <1>4, <1>7 DEF OwnStates
<1>9. o2 \in OwnStates
  <2>1. o2 = [mac_id |-> o2.mac_id, tables |-> o2.tables, failed |-> o2.failed,
              slot |-> o2.slot, scheduled |-> o2.scheduled,
              link_requests |-> o2.link_requests, link_replies |-> o2.link_replies]
    BY <1>8 DEF OwnStates
  <2> QED BY <1>4, <1>5, <1>8, <2>1 DEF OwnStates
<1>10. Good(o2)
  <2>1. Shaped(o2)
    BY <1>9 DEF Shaped, OwnStates, Fields
  <2> QED BY <1>1, <1>8, <2>1 DEF Good
<1>11. Moved(o.tables, o2.tables)
  <2>1. o.tables \in TB
    BY DEF Good
  <2>2. \A t \in Tables, s \in Slots :
          /\ IsLocked(l.tables[t][s]) => s + 1 \in Slots /\ l.tables[t][s] = o.tables[t][s + 1]
          /\ s + 1 \in Slots /\ t # SH /\ IsLocked(o.tables[t][s + 1])
               => l.tables[t][s] = o.tables[t][s + 1]
    BY <1>1, <2>1, CellsMoved
  <2>3. ASSUME NEW t \in PP \cup RxTables, NEW s \in Slots
        PROVE  l.tables[t][s] = IF s = Horizon THEN Idle ELSE o.tables[t][s + 1]
    <3>1. l.tables[t] = Shift(o.tables)[t] /\ t \in Tables
      BY <1>1, Disjoint DEF MovedOn, SameLinks
    <3> QED BY <3>1 DEF Shift
  <2>4. \A s \in Slots : s + 1 \in Slots => ~IsLocked(o.tables[SH][s + 1])
    BY DEF Good, SharedOnlyTxRx, IsLocked, IsIdle, IsTx, IsRx
  <2> QED BY <1>8, <2>2, <2>3, <2>4 DEF Moved
<1> QED BY <1>5, <1>6, <1>8, <1>9, <1>10, <1>11 DEF o2, q

LEMMA LinkMoved ==
  ASSUME NEW p \in Peers, NEW k \in LinkStates(p), k.proposals \subseteq Offers
  PROVE  LET k2 == LinkBegun(k)
         IN  /\ k2 \in LinkStates(p) /\ k2.proposals \subseteq Offers
             /\ k2.link_id = p
             /\ k2.link_status = k.link_status /\ k2.is_link_initiator = k.is_link_initiator
             /\ k2.timeout = k.timeout
             /\ k2.locked_resources = Aged(k.locked_resources)
             /\ k2.scheduled_resources = Aged(k.scheduled_resources)
<1>1. /\ Aged(k.locked_resources) \in SUBSET Entries
      /\ Aged(k.scheduled_resources) \in SUBSET Entries
  <2>1. /\ k.locked_resources \in SUBSET (Tables \X Slots)
        /\ k.scheduled_resources \in SUBSET (Tables \X Slots)
    BY DEF LinkStates, Entries
  <2> QED BY <2>1, AgedIs DEF Entries
<1>2. Elapsed(k.proposals) \in SUBSET Offers /\ Elapsed(k.proposals) \in SUBSET Proposals
  <2>1. Elapsed(k.proposals) \in SUBSET Offers
    BY ElapsedIs
  <2> QED BY <2>1 DEF Offers, Proposals
<1>3. LinkBegun(k) = [k EXCEPT !.locked_resources = Aged(k.locked_resources),
                               !.scheduled_resources = Aged(k.scheduled_resources),
                               !.proposals = Elapsed(k.proposals)]
  BY DEF LinkBegun
<1> QED BY <1>1, <1>2, <1>3 DEF LinkStates

(* What the manager for p holds after the tables have moved *)
LEMMA ManagerMoved ==
  ASSUME NEW o, NEW l, ManagersTyped(o, l), NEW p \in Peers,
         Held(At(o, l[p])), CountRight(At(o, l[p]), 0),
         NEW o2 \in OwnStates, Good(o2), Moved(o.tables, o2.tables),
         o2.link_requests = o.link_requests,
         DOMAIN o2.link_replies = DOMAIN o.link_replies,
         \A i \in DOMAIN o.link_replies : o2.link_replies[i].dest = o.link_replies[i].dest
  PROVE  Held(At(o2, LinkBegun(l[p]))) /\ CountRight(At(o2, LinkBegun(l[p])), -1)
<1> DEFINE st == At(o, l[p])
           u  == At(o2, LinkBegun(l[p]))
<1>1. Typed(st) /\ st.link_id = p /\ Held(st) /\ CountRight(st, 0)
  BY WholeTyped
<1>2. LinkBegun(l[p]) \in LinkStates(p) /\ u \in ManagerStates
  <2>1. l[p] \in LinkStates(p) /\ l[p].proposals \subseteq Offers
    BY DEF ManagersTyped
  <2>2. LinkBegun(l[p]) \in LinkStates(p)
    BY <2>1, LinkMoved
  <2> QED BY <2>2 DEF At, ManagerStates, OwnStates, LinkStates
<1>3. /\ u.tables = o2.tables /\ u.slot = o2.slot /\ u.scheduled = o2.scheduled
      /\ st.tables = o.tables
      /\ u.link_id = p /\ u.link_status = st.link_status
      /\ u.is_link_initiator = st.is_link_initiator /\ u.timeout = st.timeout
      /\ u.link_requests = st.link_requests
      /\ u.locked_resources = Aged(st.locked_resources)
      /\ u.scheduled_resources = Aged(st.scheduled_resources)
      /\ DOMAIN u.link_replies = DOMAIN st.link_replies
      /\ \A i \in DOMAIN st.link_replies : u.link_replies[i].dest = st.link_replies[i].dest
  <2>1. l[p] \in LinkStates(p) /\ l[p].proposals \subseteq Offers
    BY DEF ManagersTyped
  <2>2. /\ LinkBegun(l[p]).link_id = p
        /\ LinkBegun(l[p]).link_status = l[p].link_status
        /\ LinkBegun(l[p]).is_link_initiator = l[p].is_link_initiator
        /\ LinkBegun(l[p]).timeout = l[p].timeout
        /\ LinkBegun(l[p]).locked_resources = Aged(l[p].locked_resources)
        /\ LinkBegun(l[p]).scheduled_resources = Aged(l[p].scheduled_resources)
    BY <2>1, LinkMoved
  <2> QED BY <2>2 DEF At
<1> HIDE DEF st, u
<1>4. Good(u)
  <2>1. Shaped(u)
    BY <1>2 DEF Shaped, ManagerStates, Fields
  <2> QED BY <1>3, <2>1 DEF Good
<1>5. /\ \A t \in PP \cup RxTables, s \in Slots :
           u.tables[t][s] = IF s = Horizon THEN Idle ELSE st.tables[t][s + 1]
      /\ \A t \in Tables, s \in Slots :
           IsLocked(u.tables[t][s]) => s + 1 \in Slots /\ u.tables[t][s] = st.tables[t][s + 1]
  BY <1>3 DEF Moved
<1>6. /\ \A s \in Slots : s + 1 > 0 /\ (s # Horizon <=> s + 1 \in Slots)
      /\ Idle.action = "IDLE" /\ Idle.target \notin Peers
  <2>1. \A s \in Slots : s + 1 > 0 /\ (s # Horizon <=> s + 1 \in Slots)
    BY HorizonAssumption DEF Slots
  <2>2. Idle.action = "IDLE"
    BY DEF Idle, Res
  <2> QED BY <2>1, <2>2, PeerIds
<1>7. Clean(u.tables)
  <2>1. ASSUME NEW c \in PP, NEW s \in Slots, u.tables[c][s].target \in Peers
        PROVE  u.tables[c][s].action \in {"LOCKED", "TX", "RX"}
    <3>1. s + 1 \in Slots /\ u.tables[c][s] = st.tables[c][s + 1]
      BY <1>5, <1>6, <2>1
    <3> QED BY <1>1, <2>1, <3>1 DEF Held, Clean
  <2>2. ASSUME NEW h \in RxTables, NEW s \in Slots PROVE ~IsLocked(u.tables[h][s])
    <3>1. h \in Tables
      BY Disjoint
    <3> QED BY <1>1, <1>5, <3>1 DEF Held, Clean
  <2> QED BY <2>1, <2>2 DEF Clean
<1>8. LocksRight(u)
  <2>1. st.locked_resources \in SUBSET (Tables \X Slots)
    BY <1>1 DEF Typed, ManagerStates, Entries
  <2> SUFFICES ASSUME NEW t \in Tables, NEW s \in Slots, s > 0, IsLocked(u.tables[t][s]),
                      u.tables[t][s].target = u.link_id
               PROVE  u.link_status = "awaiting_reply" /\ <<t, s>> \in u.locked_resources
    BY DEF LocksRight
  <2>2. s + 1 \in Slots /\ u.tables[t][s] = st.tables[t][s + 1]
    BY <1>5
  <2>3. st.link_status = "awaiting_reply" /\ <<t, s + 1>> \in st.locked_resources
    BY <1>1, <1>3, <1>6, <2>2 DEF Held, LocksRight
  <2>4. <<t, s>> \in Aged(st.locked_resources)
    BY <2>1, <2>3, AgedIs
  <2> QED BY <1>3, <2>3, <2>4
<1>9. /\ \A e \in u.scheduled_resources :
           /\ <<e[1], e[2] + 1>> \in st.scheduled_resources /\ e[2] + 1 \in Slots /\ e[2] \in Slots
           /\ e[1] \in PP /\ u.tables[e[1]][e[2]] = st.tables[e[1]][e[2] + 1]
      /\ \A c : \A s \in Slots :
           <<c, s + 1>> \in st.scheduled_resources => <<c, s>> \in u.scheduled_resources
  <2>1. st.scheduled_resources \in SUBSET (PP \X Slots)
    <3>1. st.scheduled_resources \in SUBSET (Tables \X Slots)
      BY <1>1 DEF Typed, ManagerStates, Entries
    <3>2. \A e \in st.scheduled_resources : e[1] \in PP /\ e[2] \in Slots /\ e = <<e[1], e[2]>>
      BY <1>1, <3>1, EntryIs DEF Held, BurstsRight
    <3> QED BY <3>2
  <2>2. /\ u.scheduled_resources \in SUBSET (PP \X Slots)
        /\ \A c, s : <<c, s>> \in u.scheduled_resources
                       => s \in Slots /\ <<c, s + 1>> \in st.scheduled_resources
        /\ \A c : \A s \in Slots : <<c, s + 1>> \in st.scheduled_resources
                                    => <<c, s>> \in u.scheduled_resources
    <3> DEFINE held == st.scheduled_resources
    <3>1. held \in SUBSET (PP \X Slots)
      BY <2>1
    <3> HIDE DEF held
    <3>2. /\ Aged(held) \in SUBSET (PP \X Slots)
          /\ \A c, s : <<c, s>> \in Aged(held) => s \in Slots /\ <<c, s + 1>> \in held
          /\ \A c : \A s \in Slots : <<c, s + 1>> \in held => <<c, s>> \in Aged(held)
      BY <3>1, AgedIs
    <3>3. u.scheduled_resources = Aged(held)
      BY <1>3 DEF held
    <3> QED BY <3>2, <3>3 DEF held
  <2>3. ASSUME NEW e \in u.scheduled_resources
        PROVE  /\ <<e[1], e[2] + 1>> \in st.scheduled_resources /\ e[2] + 1 \in Slots /\ e[2] \in Slots
               /\ e[1] \in PP /\ u.tables[e[1]][e[2]] = st.tables[e[1]][e[2] + 1]
    <3>1. e[1] \in PP /\ e[2] \in Slots /\ e = <<e[1], e[2]>>
      BY <2>2, EntryIs
    <3>2. <<e[1], e[2] + 1>> \in st.scheduled_resources
      BY <2>2, <3>1
    <3>3. e[2] + 1 \in Slots
      BY <2>1, <3>2
    <3>4. u.tables[e[1]][e[2]] = st.tables[e[1]][e[2] + 1]
      BY <1>5, <1>6, <3>1, <3>3
    <3> QED BY <3>1, <3>2, <3>3, <3>4
  <2> QED BY <2>2, <2>3
<1>10. BurstsRight(u)
  <2>1. ASSUME NEW e \in u.scheduled_resources PROVE e[1] \in PP /\ Burst(u, e[1], e[2])
    <3> DEFINE d == <<e[1], e[2] + 1>>
    <3>1. d \in st.scheduled_resources /\ d[1] = e[1] /\ d[2] = e[2] + 1
      BY <1>9, <2>1
    <3> HIDE DEF d
    <3>2. Burst(st, e[1], e[2] + 1)
      BY <1>1, <3>1 DEF Held, BurstsRight
    <3> QED BY <1>1, <1>3, <1>9, <2>1, <3>2 DEF Burst
  <2>2. ASSUME NEW c \in PP, NEW s \in Slots, s > 0, Burst(u, c, s)
        PROVE  <<c, s>> \in u.scheduled_resources
    <3>1. s + 1 \in Slots /\ u.tables[c][s] = st.tables[c][s + 1]
      BY <1>5, <1>6, <2>2 DEF Burst
    <3>2. Burst(st, c, s + 1)
      BY <1>1, <1>3, <2>2, <3>1 DEF Burst
    <3>3. <<c, s + 1>> \in st.scheduled_resources
      BY <1>1, <1>6, <3>1, <3>2 DEF Held, BurstsRight
    <3> QED BY <1>9, <3>3
  <2> QED BY <2>1, <2>2 DEF BurstsRight
<1>11. QueuesRight(u)
  <2>1. NoneTwice(u)
    BY <1>1, <1>3 DEF Held, QueuesRight, NoneTwice
  <2>2. Asked(u) = Asked(st) /\ \A x : x \in Answered(u) => x \in Answered(st)
    BY <1>3 DEF Asked, Answered
  <2> QED BY <1>1, <1>3, <2>1, <2>2 DEF Held, QueuesRight
<1>12. CountRight(u, -1)
  <2> SUFFICES ASSUME u.link_status = "link_established" PROVE CountRight(u, -1)
    BY DEF CountRight
  <2>1. /\ st.timeout > 0
        /\ \E start \in Int :
             /\ \A e \in st.scheduled_resources : e[2] =< LastBurst(start)
             /\ \A e \in Ending(st) : \E k \in 0 .. Timeout - 1 :
                  e[2] = start + (2 * k + 1) * Increment
             /\ st.timeout < Timeout =>
                  start + (2 * (Timeout - st.timeout) - 1) * Increment =< 0
    BY <1>1, <1>3 DEF CountRight
  <2>2. PICK start \in Int :
          /\ \A e \in st.scheduled_resources : e[2] =< LastBurst(start)
          /\ \A e \in Ending(st) : \E k \in 0 .. Timeout - 1 :
               e[2] = start + (2 * k + 1) * Increment
          /\ st.timeout < Timeout =>
               start + (2 * (Timeout - st.timeout) - 1) * Increment =< 0
    BY <2>1
  <2>3. start - 1 \in Int /\ Increment \in Int /\ Timeout \in Int /\ st.timeout \in Int
    BY <1>1, BurstsAssumption DEF Typed, ManagerStates
  <2>4. \A x, y, z \in Int : /\ (x + 1 =< y + z => x =< (y - 1) + z)
                            /\ (x + 1 = y + z => x = (y - 1) + z)
                            /\ (y + z =< 0 => (y - 1) + z =< -1)
    OBVIOUS
  <2>5. ASSUME NEW e \in u.scheduled_resources PROVE e[2] =< LastBurst(start - 1)
    <3> DEFINE d == <<e[1], e[2] + 1>>
    <3>1. d \in st.scheduled_resources /\ d[2] = e[2] + 1 /\ e[2] \in Int
      <4>1. d \in st.scheduled_resources /\ e[2] \in Slots
        BY <1>9
      <4>2. e[2] \in Int
        BY <4>1, HorizonAssumption DEF Slots
      <4> QED BY <4>1, <4>2
    <3> HIDE DEF d
    <3>2. e[2] + 1 =< start + (2 * Timeout - 1) * Increment
      BY <2>2, <3>1 DEF LastBurst
    <3>3. (2 * Timeout - 1) * Increment \in Int
      BY <2>3
    <3>4. e[2] =< (start - 1) + (2 * Timeout - 1) * Increment
      BY <2>4, <3>1, <3>2, <3>3
    <3> QED BY <3>4 DEF LastBurst
  <2>6. ASSUME NEW e \in Ending(u)
        PROVE  \E k \in 0 .. Timeout - 1 : e[2] = (start - 1) + (2 * k + 1) * Increment
    <3> DEFINE d == <<e[1], e[2] + 1>>
    <3>1. /\ e \in u.scheduled_resources
          /\ u.tables[e[1]][e[2]].action = IF u.is_link_initiator THEN "RX" ELSE "TX"
      BY DEF Ending
    <3>2. /\ d \in st.scheduled_resources /\ d[1] = e[1] /\ d[2] = e[2] + 1 /\ e[2] \in Int
          /\ u.tables[e[1]][e[2]] = st.tables[e[1]][e[2] + 1]
      <4>1. d \in st.scheduled_resources /\ e[2] \in Slots
        BY <1>9, <3>1
      <4>2. e[2] \in Int
        BY <4>1, HorizonAssumption DEF Slots
      <4> QED BY <1>9, <3>1, <4>1, <4>2
    <3> HIDE DEF d
    <3>3. d \in Ending(st)
      BY <1>3, <3>1, <3>2 DEF Ending
    <3>4. PICK k \in 0 .. Timeout - 1 : e[2] + 1 = start + (2 * k + 1) * Increment
      BY <2>2, <3>2, <3>3
    <3>5. (2 * k + 1) * Increment \in Int
      BY <2>3
    <3>6. e[2] = (start - 1) + (2 * k + 1) * Increment
      BY <2>4, <3>2, <3>4, <3>5
    <3> QED BY <3>6
  <2>7. u.timeout < Timeout =>
          (start - 1) + (2 * (Timeout - u.timeout) - 1) * Increment =< -1
    <3>1. (2 * (Timeout - st.timeout) - 1) * Increment \in Int
      BY <2>3
    <3>2. st.timeout < Timeout =>
            (start - 1) + (2 * (Timeout - st.timeout) - 1) * Increment =< -1
      BY <2>2, <2>4, <3>1
    <3> QED BY <1>3, <3>2
  <2>8. u.timeout > 0
    BY <1>3, <2>1
  <2>9. \E first \in Int :
          /\ \A e \in u.scheduled_resources : e[2] =< LastBurst(first)
          /\ \A e \in Ending(u) : \E k \in 0 .. Timeout - 1 :
               e[2] = first + (2 * k + 1) * Increment
          /\ u.timeout < Timeout =>
               first + (2 * (Timeout - u.timeout) - 1) * Increment =< -1
    <3>1. PICK first : first = start - 1
      OBVIOUS
    <3> QED BY <2>3, <2>5, <2>6, <2>7, <3>1
  <2> QED BY <2>8, <2>9 DEF CountRight
<1>13. Tidy(u)
  <2>1. Aged({}) = {}
    BY DEF Aged
  <2> QED BY <1>1, <1>3, <2>1 DEF Held, Tidy
<1> QED BY <1>4, <1>7, <1>8, <1>10, <1>11, <1>12, <1>13 DEF Held, u

LEMMA BurstsMoved ==
  ASSUME NEW start \in Nat, NEW s
  PROVE  /\ s \in TxBursts(start - 1) => s \in Nat /\ s + 1 \in TxBursts(start)
         /\ s \in RxBursts(start - 1) => s \in Nat /\ s + 1 \in RxBursts(start)
<1>1. \A x \in Nat, z \in Int : x - 1 + z \in Nat => (x - 1 + z) + 1 = x + z /\ x + z \in Nat
  OBVIOUS
<1>2. \A k \in 0 .. Timeout - 1 : 2 * k * Increment \in Int /\ (2 * k + 1) * Increment \in Int
  BY BurstsAssumption
<1>3. ASSUME s \in TxBursts(start - 1) PROVE s \in Nat /\ s + 1 \in TxBursts(start)
  <2>1. PICK k \in 0 .. Timeout - 1 : s = start - 1 + 2 * k * Increment
    BY <1>3 DEF TxBursts
  <2>2. s \in Nat
    BY <1>3 DEF TxBursts
  <2>3. s + 1 = start + 2 * k * Increment /\ s + 1 \in Nat
    BY <1>1, <1>2, <2>1, <2>2
  <2> QED BY <2>2, <2>3 DEF TxBursts
<1>4. ASSUME s \in RxBursts(start - 1) PROVE s \in Nat /\ s + 1 \in RxBursts(start)
  <2>1. PICK k \in 0 .. Timeout - 1 : s = start - 1 + (2 * k + 1) * Increment
    BY <1>4 DEF RxBursts
  <2>2. s \in Nat
    BY <1>4 DEF RxBursts
  <2>3. s + 1 = start + (2 * k + 1) * Increment /\ s + 1 \in Nat
    BY <1>1, <1>2, <2>1, <2>2
  <2> QED BY <2>2, <2>3 DEF RxBursts
<1> QED BY <1>3, <1>4

(* What is offered is locked, a slot closer. *)
LEMMA OffersMoved ==
  ASSUME NEW proposals \in SUBSET Offers, NEW tb, NEW tb2, Moved(tb, tb2), NEW p,
         OffersLocked(tb, p, proposals)
  PROVE  OffersLocked(tb2, p, Elapsed(proposals))
<1> SUFFICES ASSUME NEW q2 \in Elapsed(proposals), NEW e \in BurstEntries(q2), e[2] > 0
             PROVE  e \in Entries /\ tb2[e[1]][e[2]] = Res("LOCKED", p)
  BY DEF OffersLocked
<1>1. PICK q \in proposals : q2 = [q EXCEPT !.slot = @ - 1]
  BY DEF Elapsed
<1>2. /\ q \in [channel : PP, slot : Slots]
      /\ q2.channel = q.channel /\ q2.slot = q.slot - 1 /\ q.slot \in Nat
  <2>1. q \in [channel : PP, slot : Slots]
    BY DEF Offers
  <2>2. q.slot \in Nat
    BY <2>1, HorizonAssumption DEF Slots
  <2> QED BY <1>1, <2>1, <2>2
<1>3. PICK t, s : e = <<t, s>> /\ <<t, s + 1>> \in BurstEntries(q) /\ s \in Nat
  <2>1. CASE \E s \in TxBursts(q2.slot) \cup RxBursts(q2.slot) : e = <<q2.channel, s>>
    <3>1. PICK s \in TxBursts(q.slot - 1) \cup RxBursts(q.slot - 1) : e = <<q.channel, s>>
      BY <1>2, <2>1
    <3>2. s + 1 \in TxBursts(q.slot) \cup RxBursts(q.slot) /\ s \in Nat
      BY <1>2, <3>1, BurstsMoved
    <3> QED BY <3>1, <3>2 DEF BurstEntries
  <2>2. CASE \E s \in TxBursts(q2.slot) : e = <<TxTable, s>>
    <3>1. PICK s \in TxBursts(q.slot - 1) : e = <<TxTable, s>>
      BY <1>2, <2>2
    <3>2. s + 1 \in TxBursts(q.slot) /\ s \in Nat
      BY <1>2, <3>1, BurstsMoved
    <3> QED BY <3>1, <3>2 DEF BurstEntries
  <2> QED BY <2>1, <2>2 DEF BurstEntries
<1> DEFINE d == <<t, s + 1>>
<1>4. d \in BurstEntries(q) /\ d[1] = t /\ d[2] = s + 1 /\ s + 1 > 0
  BY <1>3
<1>5. d \in Entries /\ tb[t][s + 1] = Res("LOCKED", p)
  <2> HIDE DEF d
  <2> QED BY <1>4 DEF OffersLocked
<1>6. t \in Tables /\ s + 1 \in Slots /\ s \in Slots
  <2>1. t \in Tables /\ s + 1 \in Slots
    BY <1>5 DEF Entries
  <2>2. s \in Slots
    BY <1>3, <2>1, HorizonAssumption DEF Slots
  <2> QED BY <2>1, <2>2
<1>7. tb2[t][s] = Res("LOCKED", p)
  <2>1. IsLocked(tb[t][s + 1])
    BY <1>5 DEF IsLocked, Res
  <2> QED BY <1>5, <1>6, <2>1 DEF Moved
<1> QED BY <1>3, <1>6, <1>7 DEF Entries

-----------------------------------------------------------------------------
(* The inductive invariant *)

IInv ==
  /\ ManagersTyped(own, link)
  /\ offered \in [Peers -> SUBSET Offers]
  /\ sent \in BOOLEAN
  /\ phase \in {"update", "execute", "end"}
  /\ NoFailureYet =>
       /\ AllRight(own, link, CountedTo(IF phase = "update" THEN 0 ELSE -1))
       /\ phase # "execute" => Ahead(own)

(* With two peers, besides *)
OInv == NoFailureYet => OfferedRight(own, link, offered)

(* The user as it is before its first broadcast is scheduled *)
LEMMA FirstManagers ==
  LET first == [mac_id |-> Me, tables |-> EmptyTables, failed |-> "none", slot |-> 0,
                scheduled |-> FALSE, link_requests |-> << >>, link_replies |-> << >>]
      l     == [p \in Peers |-> NewLink(p)]
  IN  ManagersTyped(first, l) /\ AllRight(first, l, CountedTo(-1))
<1> DEFINE first == [mac_id |-> Me, tables |-> EmptyTables, failed |-> "none", slot |-> 0,
                     scheduled |-> FALSE, link_requests |-> << >>, link_replies |-> << >>]
           l     == [p \in Peers |-> NewLink(p)]
<1>1. /\ EmptyTables \in [Tables -> [Slots -> Reservation]]
      /\ \A t \in Tables, s \in Slots : EmptyTables[t][s] = Idle
  BY IdleIs DEF EmptyTables
<1>2. first \in OwnStates
  <2>1. << >> \in Seq(Peers) /\ << >> \in Seq(Replies) /\ "none" \in Failures
    BY DEF Failures
  <2> QED BY <1>1, <2>1, ZeroSlot DEF OwnStates
<1>3. ASSUME NEW p \in Peers PROVE l[p] \in LinkStates(p) /\ l[p].proposals \subseteq Offers
  <2>1. 0 \in 0 .. MaxAttempts /\ 0 \in 0 .. Timeout /\ 0 \in Slots
    BY AttemptsAssumption, BurstsAssumption, ZeroSlot
  <2>2. "link_not_established" \in Statuses
    BY DEF Statuses
  <2> QED BY <2>1, <2>2 DEF NewLink, LinkStates
<1>4. ManagersTyped(first, l)
  BY <1>2, <1>3 DEF ManagersTyped
<1>5. ASSUME NEW p \in Peers PROVE Held(At(first, l[p])) /\ CountRight(At(first, l[p]), -1)
  <2> DEFINE st == At(first, l[p])
  <2>1. st \in ManagerStates
    BY <1>4, WholeTyped DEF Typed
  <2>2. /\ st.tables = EmptyTables /\ st.scheduled = FALSE /\ st.slot = 0
        /\ st.link_id = p /\ st.link_status = "link_not_established"
        /\ st.link_requests = << >> /\ st.link_replies = << >>
        /\ st.locked_resources = {} /\ st.scheduled_resources = {}
    BY DEF At, NewLink
  <2> HIDE DEF st, first, l
  <2>3. Good(st)
    <3>1. Shaped(st)
      BY <2>1 DEF Shaped, ManagerStates, Fields
    <3>2. OneTx(st.tables) /\ HardwareNeverBusy(st.tables) /\ SharedOnlyTxRx(st.tables)
      BY <1>1, <2>2, IdleIs, Disjoint DEF OneTx, HardwareNeverBusy, SharedOnlyTxRx
    <3>3. ReservedAt(st.tables, st.scheduled, st.slot)
      BY <1>1, <2>2, IdleIs, Disjoint DEF ReservedAt
    <3> QED BY <1>1, <2>2, <3>1, <3>2, <3>3, ZeroSlot DEF Good, TB
  <2>4. \A t \in Tables, s \in Slots :
          /\ ~IsLocked(st.tables[t][s]) /\ st.tables[t][s].action \notin {"TX", "RX"}
          /\ st.tables[t][s].target \notin Peers
    BY <1>1, <2>2, IdleIs, PeerIds DEF IsIdle, IsLocked
  <2>5. Clean(st.tables) /\ LocksRight(st) /\ BurstsRight(st)
    BY <2>2, <2>4, Disjoint DEF Clean, LocksRight, BurstsRight, Burst
  <2>6. QueuesRight(st)
    <3>1. DOMAIN << >> = {}
      OBVIOUS
    <3>2. Asked(st) = {} /\ Answered(st) = {} /\ NoneTwice(st)
      BY <2>2, <3>1 DEF Asked, Answered, NoneTwice
    <3> QED BY <2>2, <3>2 DEF QueuesRight
  <2>7. CountRight(st, -1)
    BY <2>2 DEF CountRight
  <2>8. Tidy(st)
    BY <2>2 DEF Tidy
  <2> QED BY <2>3, <2>5, <2>6, <2>7, <2>8 DEF Held, st
<1>6. AllRight(first, l, CountedTo(-1))
  <2> HIDE DEF first, l
  <2> QED BY <1>5 DEF AllRight, CountedTo
<1> QED BY <1>4, <1>6

LEMMA InitIInv == Init => IInv /\ OInv
<1> SUFFICES ASSUME Init PROVE IInv /\ OInv
  OBVIOUS
<1> DEFINE first == [mac_id |-> Me, tables |-> EmptyTables, failed |-> "none", slot |-> 0,
                     scheduled |-> FALSE, link_requests |-> << >>, link_replies |-> << >>]
<1>1. /\ own \in scheduleBroadcastSlot(first)
      /\ link = [p \in Peers |-> NewLink(p)] /\ offered = [p \in Peers |-> {}]
      /\ sent = FALSE /\ phase = "execute"
  BY DEF Init
<1>2. ManagersTyped(first, link) /\ AllRight(first, link, CountedTo(-1))
  BY <1>1, FirstManagers
<1> HIDE DEF first
<1>3. CountedTo(-1) \in [Peers -> Int]
  BY DEF CountedTo
<1>4. ManagersTyped(own, link) /\ AllRight(own, link, CountedTo(-1))
  BY <1>1, <1>2, <1>3, OwnRescheduled
<1>5. offered \in [Peers -> SUBSET Offers] /\ OfferedRight(own, link, offered)
  BY <1>1 DEF OfferedRight
<1>6. (IF phase = "update" THEN 0 ELSE -1) = -1
  BY <1>1
<1> QED BY <1>1, <1>4, <1>5, <1>6 DEF IInv, OInv

LEMMA UpdateStep ==
  ASSUME IInv, Update
  PROVE  IInv' /\ (OInv => OInv')
<1>1. /\ NoFailureYet /\ phase = "update" /\ phase' = "execute"
      /\ sent' = sent
  BY DEF Update, StepTo
<1>2. PICK st \in onSlotStart(own) : own' = [ListenNow(st) EXCEPT !.link_replies = Sooner(@)]
  BY DEF Update
<1>3. link' = [p \in Peers |-> LinkBegun(link[p])] /\ offered' = [p \in Peers |-> Elapsed(offered[p])]
  BY DEF Update
<1>4. /\ ManagersTyped(own, link) /\ offered \in [Peers -> SUBSET Offers] /\ sent \in BOOLEAN
      /\ AllRight(own, link, CountedTo(0)) /\ Ahead(own)
  BY <1>1 DEF IInv
<1>5. /\ own' \in OwnStates /\ Good(own') /\ Moved(own.tables, own'.tables)
      /\ own'.link_requests = own.link_requests
      /\ DOMAIN own'.link_replies = DOMAIN own.link_replies
      /\ \A i \in DOMAIN own.link_replies : own'.link_replies[i].dest = own.link_replies[i].dest
  <2>1. own \in OwnStates /\ Good(own) /\ Ahead(own) /\ own.failed = "none"
    BY <1>1, <1>4, OwnGood DEF NoFailureYet
  <2> QED BY <1>2, <2>1, OwnMoved
<1>6. ASSUME NEW p \in Peers
      PROVE  /\ link'[p] \in LinkStates(p) /\ link'[p].proposals \subseteq Offers
             /\ Held(At(own', link'[p])) /\ CountRight(At(own', link'[p]), -1)
             /\ link'[p].link_status = link[p].link_status
  <2>1. link'[p] = LinkBegun(link[p])
    BY <1>3
  <2>2. link[p] \in LinkStates(p) /\ link[p].proposals \subseteq Offers
    BY <1>4 DEF ManagersTyped
  <2>3. /\ LinkBegun(link[p]) \in LinkStates(p) /\ LinkBegun(link[p]).proposals \subseteq Offers
        /\ LinkBegun(link[p]).link_status = link[p].link_status
    BY <2>2, LinkMoved
  <2>4. Held(At(own, link[p])) /\ CountRight(At(own, link[p]), 0)
    BY <1>4 DEF AllRight, CountedTo
  <2>5. Held(At(own', LinkBegun(link[p]))) /\ CountRight(At(own', LinkBegun(link[p])), -1)
    BY <1>4, <1>5, <2>4, ManagerMoved
  <2> QED BY <2>1, <2>3, <2>5
<1>7. ManagersTyped(own', link')
  BY <1>3, <1>5, <1>6 DEF ManagersTyped
<1>8. AllRight(own', link', CountedTo(-1))
  BY <1>6 DEF AllRight, CountedTo
<1>9. offered' \in [Peers -> SUBSET Offers]
  BY <1>3, <1>4, ElapsedIs
<1>10. (IF phase' = "update" THEN 0 ELSE -1) = -1
  BY <1>1
<1>11. IInv'
  BY <1>1, <1>4, <1>7, <1>8, <1>9, <1>10 DEF IInv
<1>12. ASSUME OInv PROVE OInv'
  <2> SUFFICES ASSUME NEW p \in Peers, offered'[p] # {}
               PROVE  /\ link'[p].link_status = "awaiting_reply"
                      /\ OffersLocked(own'.tables, p, offered'[p])
    BY DEF OInv, OfferedRight
  <2>1. offered'[p] = Elapsed(offered[p]) /\ offered[p] \in SUBSET Offers
    BY <1>3, <1>4
  <2>2. offered[p] # {}
    BY <2>1 DEF Elapsed
  <2>3. link[p].link_status = "awaiting_reply" /\ OffersLocked(own.tables, p, offered[p])
    BY <1>1, <1>12, <2>2 DEF OInv, OfferedRight
  <2>4. OffersLocked(own'.tables, p, Elapsed(offered[p]))
    BY <1>5, <2>1, <2>3, OffersMoved
  <2> QED BY <1>6, <2>1, <2>3, <2>4
<1> QED BY <1>11, <1>12

(* With two peers the queue holds two requests at most. *)
LEMMA TwoRequests ==
  ASSUME Cardinality(Peers) = 2, NEW o, NEW l, NEW b, ManagersTyped(o, l), AllRight(o, l, b)
  PROVE  Len(o.link_requests) =< 2
<1> DEFINE q == o.link_requests
<1>1. q \in Seq(Peers) /\ Len(q) \in Nat
  BY DEF ManagersTyped, OwnStates
<1>2. \A i, j \in DOMAIN q : q[i] = q[j] => i = j
  <2>1. PICK p : p \in Peers
    BY SomePeer
  <2>2. NoneTwice(At(o, l[p]))
    BY <2>1 DEF AllRight, Held, QueuesRight
  <2> QED BY <2>2 DEF NoneTwice, At
<1>3. \E f \in [1 .. 2 -> Peers] : \A p \in Peers : \E i \in 1 .. 2 : f[i] = p
  <2>1. ExistsBijection(1 .. 2, Peers)
    BY PeersAssumption, FS_CardinalityType
  <2> QED BY <2>1 DEF ExistsBijection, Bijection, Surjection
<1>4. PICK x, y : \A p \in Peers : p = x \/ p = y
  <2>1. PICK f \in [1 .. 2 -> Peers] : \A p \in Peers : \E i \in 1 .. 2 : f[i] = p
    BY <1>3
  <2>2. \A i \in 1 .. 2 : i = 1 \/ i = 2
    OBVIOUS
  <2>3. \A p \in Peers : p = f[1] \/ p = f[2]
    BY <2>1, <2>2
  <2> QED BY <2>3
<1>5. ASSUME Len(q) > 2 PROVE FALSE
  <2>1. 1 \in DOMAIN q /\ 2 \in DOMAIN q /\ 3 \in DOMAIN q
    BY <1>1, <1>5
  <2>2. q[1] \in Peers /\ q[2] \in Peers /\ q[3] \in Peers
    BY <1>1, <2>1
  <2>3. q[1] # q[2] /\ q[1] # q[3] /\ q[2] # q[3]
    BY <1>2, <2>1
  <2> QED BY <1>4, <2>2, <2>3
<1> QED BY <1>1, <1>5

(* The broadcast, with the links its requests propose *)
LEMMA ExecuteStep ==
  ASSUME IInv, Execute
  PROVE  IInv' /\ (Cardinality(Peers) = 2 /\ OInv => OInv')
<1>1. /\ NoFailureYet /\ phase = "execute" /\ phase' = "end"
      /\ sent' = IsTx(own.tables[SH][0]) /\ sent' \in BOOLEAN
  BY DEF Execute, StepTo, IsTx
<1>2. /\ ManagersTyped(own, link) /\ offered \in [Peers -> SUBSET Offers]
      /\ AllRight(own, link, CountedTo(-1)) /\ own.failed = "none"
  BY <1>1 DEF IInv, NoFailureYet
<1>3. (IF phase' = "update" THEN 0 ELSE -1) = -1
  BY <1>1
<1>4. CASE ~IsTx(own.tables[SH][0])
  <2>1. own' = own /\ link' = link /\ offered' = offered
    BY <1>4 DEF Execute
  <2>2. Good(own)
    BY <1>2, OwnGood
  <2>3. own.scheduled => own.slot > 0
    <3>1. own.scheduled => own.slot # 0
      BY <1>4, <2>2, ZeroSlot DEF Good, ReservedAt
    <3>2. own.slot \in Nat
      BY <2>2, ZeroSlot DEF Good
    <3> QED BY <3>1, <3>2
  <2>4. Ahead(own)'
    BY <2>1, <2>3 DEF Ahead
  <2>5. OInv => OInv'
    BY <1>1, <2>1 DEF OInv, NoFailureYet
  <2> QED BY <1>1, <1>2, <1>3, <2>1, <2>4, <2>5 DEF IInv
<1>5. CASE IsTx(own.tables[SH][0])
  <2>1. PICK a \in AddRequests(own, link) : \E st \in ScheduledNext(CancelSent(a)) :
          /\ own' = [Sent(st) EXCEPT !.failed =
                       IF @ = "none" /\ \E p \in Peers : UtilizationThrows(At(st, a.link[p]))
                       THEN "no_next_tx" ELSE @]
          /\ link' = a.link
          /\ offered' = StillOffered(a.link,
               [p \in Peers |-> IF a.requests[p] = {} THEN offered[p] ELSE a.requests[p]])
    BY <1>5 DEF Execute
  <2>2. PICK st \in ScheduledNext(CancelSent(a)) :
          /\ own' = [Sent(st) EXCEPT !.failed =
                       IF @ = "none" /\ \E p \in Peers : UtilizationThrows(At(st, a.link[p]))
                       THEN "no_next_tx" ELSE @]
          /\ link' = a.link
          /\ offered' = StillOffered(a.link,
               [p \in Peers |-> IF a.requests[p] = {} THEN offered[p] ELSE a.requests[p]])
    BY <2>1
  <2> DEFINE failed == IF Sent(st).failed = "none" /\ \E p \in Peers : UtilizationThrows(At(st, a.link[p]))
                       THEN "no_next_tx" ELSE Sent(st).failed
             none == [p \in Peers |-> {}]
  <2>3. /\ own' = [Sent(st) EXCEPT !.failed = failed]
        /\ failed \in {Sent(st).failed, "no_next_tx"}
        /\ offered' = StillOffered(link', NewOffers(a, offered))
    BY <2>2 DEF NewOffers
  <2> HIDE DEF failed
  <2>4. /\ ManagersTyped(own', link')
        /\ own'.failed = "none" => AllRight(own', link', CountedTo(-1)) /\ Ahead(own')
    <3>1. none \in [Peers -> SUBSET Offers] /\ OfferedRight(own, link, none)
      BY DEF OfferedRight
    <3> HIDE DEF none
    <3>2. /\ ManagersTyped([Sent(st) EXCEPT !.failed = failed], a.link)
          /\ [Sent(st) EXCEPT !.failed = failed].failed = "none" =>
               /\ AllRight([Sent(st) EXCEPT !.failed = failed], a.link, CountedTo(-1))
               /\ Ahead([Sent(st) EXCEPT !.failed = failed])
      BY <1>2, <2>3, <3>1, BroadcastSent
    <3> QED BY <2>2, <2>3, <3>2
  <2>5. offered' \in [Peers -> SUBSET Offers]
    <3>1. none \in [Peers -> SUBSET Offers] /\ OfferedRight(own, link, none)
      BY DEF OfferedRight
    <3> HIDE DEF none
    <3>2. AfterTurns(a, none, Len(own.link_requests), Len(own.link_requests))
      BY <1>2, <3>1, RequestsAdded
    <3>3. a.requests \in [Peers -> SUBSET Offers]
      BY <3>2 DEF AfterTurns, LoopTyped
    <3> QED BY <1>2, <2>3, <3>3 DEF StillOffered, NewOffers
  <2>6. IInv'
    BY <1>1, <1>3, <2>4, <2>5 DEF IInv, NoFailureYet
  <2>7. ASSUME Cardinality(Peers) = 2, OInv PROVE OInv'
    <3>1. Len(own.link_requests) =< 2 /\ OfferedRight(own, link, offered)
      BY <1>1, <1>2, <2>7, TwoRequests DEF OInv
    <3>2. [Sent(st) EXCEPT !.failed = failed].failed = "none" =>
            OfferedRight([Sent(st) EXCEPT !.failed = failed], a.link,
                         StillOffered(a.link, NewOffers(a, offered)))
      BY <1>2, <2>3, <3>1, BroadcastSent
    <3> QED BY <2>2, <2>3, <3>2 DEF OInv, NoFailureYet
  <2> QED BY <2>6, <2>7
<1> QED BY <1>4, <1>5

(* The packets that a peer may send *)
LEMMA PeersPacketRight ==
  ASSUME offered \in [Peers -> SUBSET Offers], NEW p \in Peers, NEW k \in PacketsOf(p)
  PROVE  PacketRight(k)
<1> DEFINE Links == [channel : PP, slot : StartSlots]
           Reply(q) == [channel |-> q.channel, slot |-> q.slot, due |-> 0, dest |-> Me]
<1>1. Links \subseteq Offers /\ Claims \subseteq Slots
  BY OffsetsAssumption DEF Offers
<1>2. PICK s \in Claims :
        \/ k = [slot |-> s, requests |-> {}, reply |-> NONE, proposals |-> {}]
        \/ \E q \in Links : k = [slot |-> s, requests |-> {q}, reply |-> NONE, proposals |-> {}]
        \/ \E q \in Links : k = [slot |-> s, requests |-> {}, reply |-> NONE, proposals |-> {q}]
        \/ \E q \in offered[p] : k = [slot |-> s, requests |-> {}, reply |-> Reply(q), proposals |-> {}]
  BY DEF PacketsOf
<1>3. \A q \in offered[p] : ReplyRight(Reply(q))
  BY DEF Offers, ReplyRight
<1>4. ReplyRight(NONE)
  BY DEF ReplyRight
<1>5. /\ k.slot = s /\ (k.requests = {} \/ \E q \in Links : k.requests = {q})
      /\ (k.proposals = {} \/ \E q \in Links : k.proposals = {q})
      /\ (k.reply = NONE \/ \E q \in offered[p] : k.reply = Reply(q))
  <2> HIDE DEF Links, Reply
  <2> QED BY <1>2
<1> HIDE DEF Links, Reply
<1> QED BY <1>1, <1>3, <1>4, <1>5 DEF PacketRight

(* What may be received *)
LEMMA ReceivedRight ==
  ASSUME ManagersTyped(own, link), AllRight(own, link, CountedTo(-1)), Ahead(own),
         own.failed = "none", offered \in [Peers -> SUBSET Offers], NEW r \in Received
  PROVE  r = [own |-> r.own, link |-> r.link] /\ RightWith(own, link, r.own, r.link, CountedTo(-1))
<1>1. CASE r = [own |-> own, link |-> link]
  <2>1. KeepsOffers(own, link, own, link)
    BY DEF KeepsOffers
  <2> QED BY <1>1, <2>1 DEF RightWith
<1>2. CASE r # [own |-> own, link |-> link]
  <2>a. PICK p \in Peers : \E k \in PacketsOf(p) : \E c \in Conformant :
          \E st \in processBroadcastMessage(At(own, link[p]), k, c) :
            r = [own |-> OwnPart(st), link |-> [link EXCEPT ![p] = LinkPart(st)]]
    BY <1>2 DEF Received
  <2>1. PICK k \in PacketsOf(p) : \E c \in Conformant :
          \E st \in processBroadcastMessage(At(own, link[p]), k, c) :
            r = [own |-> OwnPart(st), link |-> [link EXCEPT ![p] = LinkPart(st)]]
    BY <2>a
  <2>b. PICK c \in Conformant : \E st \in processBroadcastMessage(At(own, link[p]), k, c) :
            r = [own |-> OwnPart(st), link |-> [link EXCEPT ![p] = LinkPart(st)]]
    BY <2>1
  <2>2. PICK st \in processBroadcastMessage(At(own, link[p]), k, c) :
          r = [own |-> OwnPart(st), link |-> [link EXCEPT ![p] = LinkPart(st)]]
    BY <2>b
  <2>3. Right(At(own, link[p]), At(own, link[p])) /\ At(own, link[p]).failed = "none"
    BY RightAlready
  <2>4. Right(At(own, link[p]), st)
    <3> DEFINE before == At(own, link[p])
    <3>1. PacketRight(k)
      BY PeersPacketRight
    <3>2. Right(before, before) /\ before.failed = "none" /\ st \in processBroadcastMessage(before, k, c)
      BY <2>3
    <3> HIDE DEF before
    <3>3. Right(before, st)
      BY <3>1, <3>2, MessageProcessed
    <3> QED BY <3>3 DEF before
  <2>5. CountedTo(-1) \in [Peers -> Int] /\ [CountedTo(-1) EXCEPT ![p] = -1] = CountedTo(-1) /\ -1 \in Int
    BY DEF CountedTo
  <2>6. RightWith(own, link, OwnPart(st), [link EXCEPT ![p] = LinkPart(st)], [CountedTo(-1) EXCEPT ![p] = -1])
    BY <2>4, <2>5, TurnTaken DEF Right
  <2> QED BY <2>2, <2>5, <2>6
<1> QED BY <1>1, <1>2

LEMMA SlotEndStep ==
  ASSUME IInv, SlotEnd
  PROVE  IInv' /\ (OInv => OInv')
<1>1. NoFailureYet /\ phase = "end" /\ phase' = "update" /\ sent' = FALSE
  BY DEF SlotEnd, StepTo
<1>2. PICK r \in Received, more \in SUBSET Peers :
        LET after == ManagersSlotEnd(r, more)
        IN  own' = after.own /\ link' = after.link /\ offered' = StillOffered(after.link, offered)
  BY DEF SlotEnd
<1>3. /\ ManagersTyped(own, link) /\ AllRight(own, link, CountedTo(-1)) /\ Ahead(own)
      /\ own.failed = "none" /\ offered \in [Peers -> SUBSET Offers]
  <2>1. (IF phase = "update" THEN 0 ELSE -1) = -1
    BY <1>1
  <2> QED BY <1>1, <2>1 DEF IInv, NoFailureYet
<1>4. r = [own |-> r.own, link |-> r.link] /\ RightWith(own, link, r.own, r.link, CountedTo(-1))
  BY <1>3, ReceivedRight
<1>5. /\ own' = ManagersSlotEnd(r, more).own /\ link' = ManagersSlotEnd(r, more).link
      /\ offered' = StillOffered(link', offered)
  BY <1>2
<1>6. RightWith(r.own, r.link, own', link', CountedTo(0))
  BY <1>4, <1>5, ManagersEnded DEF RightWith
<1>7. offered' \in [Peers -> SUBSET Offers]
  BY <1>3, <1>5 DEF StillOffered
<1>8. (IF phase' = "update" THEN 0 ELSE -1) = 0
  BY <1>1
<1>9. IInv'
  BY <1>1, <1>6, <1>7, <1>8 DEF IInv, RightWith, NoFailureYet
<1>10. ASSUME OInv, own'.failed = "none" PROVE OfferedRight(own', link', offered')
  <2>1. KeepsOffers(own, link, r.own, r.link) /\ KeepsOffers(r.own, r.link, own', link')
    BY <1>4, <1>6, <1>10 DEF RightWith
  <2>2. KeepsOffers(own, link, own', link')
    BY <2>1 DEF KeepsOffers
  <2>3. OfferedRight(own, link, offered)
    BY <1>1, <1>10 DEF OInv
  <2> QED BY <1>5, <2>2, <2>3, OffersKept
<1> QED BY <1>9, <1>10 DEF OInv, NoFailureYet

(* The upper layer has data. *)
LEMMA NotifyStep ==
  ASSUME IInv, NEW p \in Peers, NotifyOutgoing(p)
  PROVE  IInv' /\ (OInv => OInv')
<1> DEFINE st == At(own, link[p])
           n  == notifyOutgoing(st)
           b  == IF phase = "update" THEN 0 ELSE -1
<1>1. /\ NoFailureYet /\ own.failed = "none" /\ link[p].link_status = "link_not_established"
      /\ own' = OwnPart(n) /\ link' = [link EXCEPT ![p] = LinkPart(n)]
      /\ offered' = offered /\ sent' = sent /\ phase' = phase
  BY DEF NotifyOutgoing, NoFailureYet
<1>2. /\ ManagersTyped(own, link) /\ AllRight(own, link, CountedTo(b)) /\ b \in Int
      /\ phase # "execute" => Ahead(own)
  BY <1>1 DEF IInv
<1>3. Typed(st) /\ Held(st) /\ st.link_id = p /\ st.link_status = "link_not_established"
  <2>1. st.link_status = link[p].link_status
    BY DEF At
  <2> QED BY <1>1, <1>2, <2>1, WholeTyped DEF AllRight
<1>4. st = At(own, link[p]) /\ n = notifyOutgoing(st)
  OBVIOUS
<1> HIDE DEF st, n
<1>5. /\ Typed(n) /\ Held(n) /\ Frame(st, n) /\ Leaves(st, n) /\ StillAwaits(st, n)
      /\ n.link_status \in {"link_not_established", "awaiting_request_generation"}
  BY <1>3, <1>4, Notified DEF Returns
<1>6. Acted(own, link, p, n, own', link')
  BY <1>1, <1>2, <1>3, <1>5, OneActed DEF Frame
<1>7. CountRight(n, b)
  BY <1>5 DEF CountRight
<1> HIDE DEF b
<1>8. ManagersTyped(own', link') /\ AllRight(own', link', CountedTo(b))
  <2>1. CountedTo(b) \in [Peers -> Int] /\ [CountedTo(b) EXCEPT ![p] = b] = CountedTo(b)
    BY <1>2 DEF CountedTo
  <2> QED BY <1>2, <1>4, <1>5, <1>6, <1>7, <2>1 DEF Acted
<1>9. Ahead(own) => Ahead(own)'
  <2>1. own'.slot = n.slot /\ own'.scheduled = n.scheduled /\ own'.failed = n.failed
    BY <1>1 DEF OwnPart
  <2>2. own.slot = st.slot /\ own.scheduled = st.scheduled /\ own.failed = st.failed
    BY <1>4 DEF At
  <2> QED BY <1>5, <2>1, <2>2 DEF Ahead, Frame
<1>10. IInv'
  BY <1>1, <1>2, <1>8, <1>9 DEF IInv, b
<1>11. ASSUME OInv PROVE OfferedRight(own', link', offered')
  <2>1. KeepsOffers(own, link, own', link')
    BY <1>2, <1>4, <1>5, <1>6, TurnKeeps
  <2>2. OfferedRight(own, link, offered)
    BY <1>1, <1>11 DEF OInv
  <2> SUFFICES ASSUME NEW x \in Peers, offered[x] # {}
               PROVE  link'[x].link_status = "awaiting_reply" /\ OffersLocked(own'.tables, x, offered[x])
    BY <1>1 DEF OfferedRight
  <2>3. link[x].link_status = "awaiting_reply" /\ OffersLocked(own.tables, x, offered[x])
    BY <2>2 DEF OfferedRight
  <2>4. x # p
    BY <1>1, <2>3
  <2>5. link'[x].link_status = "awaiting_reply"
    BY <1>6, <2>3, <2>4 DEF Acted
  <2>6. OffersLocked(own'.tables, x, offered[x])
    BY <2>1, <2>3, <2>5, OffersStay DEF KeepsOffers
  <2> QED BY <2>5, <2>6
<1> QED BY <1>10, <1>11 DEF OInv

LEMMA NextIInv ==
  ASSUME IInv, [Next]_vars
  PROVE  IInv' /\ (Cardinality(Peers) = 2 /\ OInv => OInv')
<1>1. CASE Update
  BY <1>1, UpdateStep
<1>2. CASE Execute
  BY <1>2, ExecuteStep
<1>3. CASE SlotEnd
  BY <1>3, SlotEndStep
<1>4. CASE \E p \in Peers : NotifyOutgoing(p)
  BY <1>4, NotifyStep
<1>5. CASE UNCHANGED vars
  <2>1. own' = own /\ link' = link /\ offered' = offered /\ sent' = sent /\ phase' = phase
    BY <1>5 DEF vars
  <2>2. IInv'
    BY <2>1 DEF IInv, NoFailureYet, Ahead
  <2>3. OInv => OInv'
    BY <2>1 DEF OInv, NoFailureYet
  <2> QED BY <2>2, <2>3
<1> QED BY <1>1, <1>2, <1>3, <1>4, <1>5 DEF Next

LEMMA Inductive == Spec => []IInv
<1>1. Init => IInv
  BY InitIInv
<1>2. IInv /\ [Next]_vars => IInv'
  BY NextIInv
<1> QED BY <1>1, <1>2, PTL DEF Spec

-----------------------------------------------------------------------------
(* The theorems *)

(* Whatever the peers broadcast, and however many links are asked for,     *)
(* answered and given up in turn, the state of the shared manager and of   *)
(* every link manager stays what their types say.                          *)
THEOREM TypeCorrect == Spec => []TypeOK
<1>1. IInv => TypeOK
  <2> SUFFICES ASSUME IInv PROVE TypeOK
    OBVIOUS
  <2>1. own \in OwnStates /\ DOMAIN link = Peers /\ \A p \in Peers : link[p] \in LinkStates(p)
    BY DEF IInv, ManagersTyped
  <2>2. Offers \subseteq Proposals
    BY DEF Offers, Proposals
  <2>3. offered \in [Peers -> SUBSET Proposals]
    BY <2>2 DEF IInv
  <2> QED BY <2>1, <2>3 DEF IInv, TypeOK
<1> QED BY <1>1, Inductive, PTL

(* A slot of a point-to-point channel that names a peer is a lock of the   *)
(* request, or a burst of the link, that this peer's manager keeps: links  *)
(* never share a slot, and no manager that gives up, is cancelled or       *)
(* expires leaves a reservation that nobody knows of.                      *)
THEOREM SlotsOfLinksHolds == Spec => []SlotsOfLinks
<1>1. IInv => SlotsOfLinks
  <2> SUFFICES ASSUME IInv, NoFailureYet, NEW c \in PP, NEW s \in Slots \ {0}, NEW p \in Peers,
                      own.tables[c][s].target = p
               PROVE  <<c, s>> \in IF IsLocked(own.tables[c][s]) THEN link[p].locked_resources
                                   ELSE link[p].scheduled_resources
    BY DEF SlotsOfLinks
  <2> DEFINE st == At(own, link[p])
  <2>1. Held(st)
    BY DEF IInv, AllRight
  <2>2. /\ st.tables = own.tables /\ st.locked_resources = link[p].locked_resources
        /\ st.scheduled_resources = link[p].scheduled_resources
    BY DEF At
  <2>3. st.link_id = p
    BY WholeTyped DEF IInv
  <2>4. s \in Slots /\ s > 0 /\ c \in Tables
    BY DEF Slots, Tables, Channels
  <2> HIDE DEF st
  <2>5. own.tables[c][s].action \in {"LOCKED", "TX", "RX"}
    BY <2>1, <2>2, <2>4 DEF Held, Clean
  <2>6. CASE IsLocked(own.tables[c][s])
    BY <2>1, <2>2, <2>3, <2>4, <2>6 DEF Held, LocksRight
  <2>7. CASE ~IsLocked(own.tables[c][s])
    <3>1. Burst(st, c, s)
      BY <2>2, <2>3, <2>5, <2>7 DEF Burst, IsLocked
    <3> QED BY <2>1, <2>2, <2>4, <2>7, <3>1 DEF Held, BurstsRight
  <2> QED BY <2>6, <2>7
<1> QED BY <1>1, Inductive, PTL

(* The queue of requests holds exactly those peers, once each, whose link  *)
(* waits for its request to be generated, although it is extended, read    *)
(* and cancelled by several managers and while a broadcast is built; and   *)
(* no reply is queued twice or for a peer without an established link.     *)
THEOREM QueuesOfLinksHolds == Spec => []QueuesOfLinks
<1>1. IInv => QueuesOfLinks
  <2> SUFFICES ASSUME IInv, NoFailureYet
               PROVE  /\ IsInjective(own.link_requests)
                      /\ \A p \in Peers : Contains(own.link_requests, p)
                                            <=> link[p].link_status = "awaiting_request_generation"
                      /\ \A i, j \in DOMAIN own.link_replies :
                           i # j => own.link_replies[i].dest # own.link_replies[j].dest
                      /\ \A i \in DOMAIN own.link_replies :
                           /\ link[own.link_replies[i].dest].link_status = "link_established"
                           /\ ~link[own.link_replies[i].dest].is_link_initiator
    BY DEF QueuesOfLinks
  <2>1. ASSUME NEW p \in Peers
        PROVE  /\ \A i, j \in DOMAIN own.link_requests :
                    own.link_requests[i] = own.link_requests[j] => i = j
               /\ \A i, j \in DOMAIN own.link_replies :
                    own.link_replies[i].dest = own.link_replies[j].dest => i = j
               /\ (\E i \in DOMAIN own.link_requests : own.link_requests[i] = p)
                    <=> link[p].link_status = "awaiting_request_generation"
               /\ (\E i \in DOMAIN own.link_replies : own.link_replies[i].dest = p)
                    => link[p].link_status = "link_established" /\ ~link[p].is_link_initiator
    <3> DEFINE st == At(own, link[p])
    <3>1. QueuesRight(st)
      BY DEF IInv, AllRight, Held
    <3>2. /\ st.link_requests = own.link_requests /\ st.link_replies = own.link_replies
          /\ st.link_status = link[p].link_status
          /\ st.is_link_initiator = link[p].is_link_initiator
      BY DEF At
    <3>3. st.link_id = p
      BY WholeTyped DEF IInv
    <3> HIDE DEF st
    <3> QED BY <3>1, <3>2, <3>3 DEF QueuesRight, NoneTwice, Asked, Answered
  <2>2. PICK p : p \in Peers
    BY SomePeer
  <2>3. IsInjective(own.link_requests)
    BY <2>1, <2>2 DEF IsInjective
  <2>4. \A x \in Peers : Contains(own.link_requests, x)
                           <=> link[x].link_status = "awaiting_request_generation"
    BY <2>1 DEF Contains
  <2>5. own.link_replies \in Seq(Replies)
    BY DEF IInv, ManagersTyped, OwnStates
  <2>6. \A i \in DOMAIN own.link_replies : own.link_replies[i].dest \in Peers
    <3>1. \A i \in DOMAIN own.link_replies : own.link_replies[i] \in Replies
      BY <2>5
    <3> QED BY <3>1 DEF Replies
  <2>7. \A i \in DOMAIN own.link_replies :
          /\ link[own.link_replies[i].dest].link_status = "link_established"
          /\ ~link[own.link_replies[i].dest].is_link_initiator
    BY <2>1, <2>6
  <2> QED BY <2>1, <2>2, <2>3, <2>4, <2>7
<1> QED BY <1>1, Inductive, PTL

(* With two peers, what a request offers stays locked for the peer that    *)
(* has to answer, whatever the other peer's request, reply or link does in *)
(* the meantime.  (With three it does not: see MCLinkRequests_three.)      *)
THEOREM OffersHeldHolds ==
  ASSUME Cardinality(Peers) = 2
  PROVE  Spec => []OffersHeld
<1>1. Init => IInv /\ OInv
  BY InitIInv
<1>2. IInv /\ OInv /\ [Next]_vars => (IInv /\ OInv)'
  BY NextIInv
<1>3. IInv /\ OInv => OffersHeld
  <2> SUFFICES ASSUME OInv, NoFailureYet, NEW p \in Peers, NEW q \in offered[p],
                      NEW e \in BurstEntries(q), e[2] > 0
               PROVE  own.tables[e[1]][e[2]] = Res("LOCKED", p)
    BY DEF OffersHeld
  <2>1. OffersLocked(own.tables, p, offered[p])
    BY DEF OInv, OfferedRight
  <2> QED BY <2>1 DEF OffersLocked
<1> QED BY <1>1, <1>2, <1>3, PTL DEF Spec

(* With two peers, a broadcast carries every request for which a link fits *)
(* anywhere: whoever is still queued after it could not have been offered  *)
(* a slot when his turn came, and nothing was freed until the broadcast    *)
(* was sent.  (With three the loop may pass over one.)                     *)
THEOREM RequestsAttachedHolds ==
  ASSUME Cardinality(Peers) = 2
  PROVE  Spec => RequestsAttached
<1> DEFINE Attached ==
             sent' /\ ~sent /\ own'.failed = "none" =>
               \A p \in ToSet(own'.link_requests), c \in PP :
                 ValidStarts(own'.tables, c, EarliestReply(own', link'[p])) = {}
<1>1. IInv /\ [Next]_vars => Attached
  <2> SUFFICES ASSUME IInv, [Next]_vars, sent', ~sent, own'.failed = "none",
                      NEW p \in ToSet(own'.link_requests), NEW c \in PP
               PROVE  ValidStarts(own'.tables, c, EarliestReply(own', link'[p])) = {}
    OBVIOUS
  <2>1. Execute
    BY DEF Next, Update, SlotEnd, NotifyOutgoing, vars
  <2>2. own.failed = "none" /\ ManagersTyped(own, link) /\ AllRight(own, link, CountedTo(-1))
    BY <2>1 DEF IInv, Execute, StepTo, NoFailureYet
  <2>3. Len(own.link_requests) =< 2
    BY <2>2, TwoRequests
  <2>4. IsTx(own.tables[SH][0])
    BY <2>1 DEF Execute
  <2>5. PICK a \in AddRequests(own, link) : \E st \in ScheduledNext(CancelSent(a)) :
          /\ own' = [Sent(st) EXCEPT !.failed =
                       IF @ = "none" /\ \E q \in Peers : UtilizationThrows(At(st, a.link[q]))
                       THEN "no_next_tx" ELSE @]
          /\ link' = a.link
    BY <2>1, <2>4 DEF Execute
  <2>6. PICK st \in ScheduledNext(CancelSent(a)) :
          /\ own' = [Sent(st) EXCEPT !.failed =
                       IF @ = "none" /\ \E q \in Peers : UtilizationThrows(At(st, a.link[q]))
                       THEN "no_next_tx" ELSE @]
          /\ link' = a.link
    BY <2>5
  <2>7. st \in OwnStates
    BY <2>2, <2>3, SentTyped
  <2>8. /\ own'.link_requests = st.link_requests /\ own'.tables = st.tables
        /\ own'.slot = st.slot /\ st.failed = "none"
    BY <2>6, <2>7 DEF Sent, OwnStates
  <2>9. p \in Asked(st)
    BY <2>8 DEF ToSet, Asked
  <2>10. FitsNowhere(st, a.link[p])
    BY <2>2, <2>3, <2>8, <2>9, NothingForgotten
  <2> QED BY <2>6, <2>8, <2>10 DEF FitsNowhere, EarliestReply
<1> QED BY <1>1, Inductive, PTL DEF Spec, RequestsAttached
=============================================================================
