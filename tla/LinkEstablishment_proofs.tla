---------------------- MODULE LinkEstablishment_proofs ----------------------
(***************************************************************************)
(* Proofs about LinkEstablishment, for any number of channels and receivers*)
(* and other users, any horizon, timeout, increment and number of attempts:*)
(* what a user has locked or reserved for a link, and what it has queued,  *)
(* agrees with the status of the link.                                     *)
(***************************************************************************)
EXTENDS LinkEstablishment, SharedChannel_proofs

(* The states a user may be in, whatever happened: proposals and replies   *)
(* name links that end within the planning horizon.                        *)
Typed(st) ==
  /\ st \in UserStates /\ st.link_id = Peer(st.mac_id)
  /\ st.proposals \subseteq Offers
  /\ \A i \in DOMAIN st.link_replies : InHorizon(st.link_replies[i].slot)

(* A burst is reserved for the link. *)
Burst(st, c, s) ==
  st.tables[c][s].action \in {"TX", "RX"} /\ st.tables[c][s].target = st.link_id

LocksRight(st) ==
  \A t \in Tables, s \in Slots :
    s > 0 /\ IsLocked(st.tables[t][s]) =>
      /\ st.link_status = "awaiting_reply"
      /\ <<t, s>> \in st.locked_resources
      /\ st.tables[t][s].target = st.link_id

BurstsRight(st) ==
  /\ \A e \in st.scheduled_resources : e[1] \in PP /\ Burst(st, e[1], e[2])
  /\ \A c \in PP, s \in Slots : s > 0 /\ Burst(st, c, s) => <<c, s>> \in st.scheduled_resources

QueuesRight(st) ==
  /\ st.link_requests = IF st.link_status = "awaiting_request_generation"
                        THEN << st.link_id >> ELSE << >>
  /\ \/ st.link_replies = << >>
     \/ /\ st.link_status = "link_established" /\ ~st.is_link_initiator
        /\ Len(st.link_replies) = 1 /\ st.link_replies[1].dest = st.link_id

(* The bursts that end an exchange *)
Ending(st) ==
  {e \in st.scheduled_resources :
     st.tables[e[1]][e[2]].action = IF st.is_link_initiator THEN "RX" ELSE "TX"}

(* The timeout agrees with a link whose first burst is, or was, at start:  *)
(* the last burst that has been counted lies no later than at the offset b.*)
CountRight(st, b) ==
  st.link_status = "link_established" =>
    /\ st.timeout > 0
    /\ \E start \in Int :
         /\ \A e \in st.scheduled_resources : e[2] =< LastBurst(start)
         /\ \A e \in Ending(st) : \E k \in 0 .. Timeout - 1 :
              e[2] = start + (2 * k + 1) * Increment
         /\ st.timeout < Timeout =>
              start + (2 * (Timeout - st.timeout) - 1) * Increment =< b

Held(st) ==
  /\ Good(st)
  /\ LocksRight(st) /\ BurstsRight(st) /\ QueuesRight(st)

PacketRight(p) ==
  /\ p \in Packets
  /\ p.requests \subseteq Offers /\ p.proposals \subseteq Offers
  /\ p.reply # NONE => InHorizon(p.reply.slot)

(* A slot has begun for the user, and it has not sent yet; it has counted  *)
(* its exchange, and the slot has not passed yet.                          *)
Begun(u)   == (phase = "update" /\ u \notin todo) \/ (phase = "execute" /\ u \in todo)
Counted(u) == (phase = "end" /\ u \notin todo) \/ (phase = "update" /\ u \in todo)

UserRight(u) ==
  /\ Held(user[u])
  /\ ~Begun(u) => Ahead(user[u])
  /\ CountRight(user[u], IF Counted(u) THEN 0 ELSE -1)

(* The inductive invariant *)
IInv ==
  /\ phase \in {"update", "execute", "end"} /\ todo \in SUBSET Users
  /\ user \in [Users -> UserStates] /\ packet \in [Users -> Packets \cup {NONE}]
  /\ \A u \in Users :
       /\ Typed(user[u]) /\ user[u].mac_id = u
       /\ packet[u] = NONE \/ PacketRight(packet[u])
  /\ NoFailureYet => \A u \in Users : UserRight(u)

-----------------------------------------------------------------------------
(* The queues *)

(* A queue of nothing else is empty afterwards.                            *)
LEMMA AllErased ==
  ASSUME NEW queue, queue = << >> \/ \E x : queue = <<x>>
  PROVE  Erased(queue, DOMAIN queue) = << >>
<1> DEFINE kept[n \in 0 .. Len(queue)] ==
             IF n = 0 THEN << >>
             ELSE IF n \in DOMAIN queue THEN kept[n - 1]
             ELSE Append(kept[n - 1], queue[n])
           g == [n \in 0 .. Len(queue) |-> << >>]
<1>1. Len(queue) \in {0, 1} /\ DOMAIN queue = 1 .. Len(queue)
  OBVIOUS
<1>2. g = [n \in 0 .. Len(queue) |->
             IF n = 0 THEN << >>
             ELSE IF n \in DOMAIN queue THEN g[n - 1]
             ELSE Append(g[n - 1], queue[n])]
  <2>1. \A n \in 0 .. Len(queue) : n # 0 => n \in DOMAIN queue /\ n - 1 \in 0 .. Len(queue)
    BY <1>1
  <2> QED BY <2>1
<1>3. kept = [n \in 0 .. Len(queue) |->
                IF n = 0 THEN << >>
                ELSE IF n \in DOMAIN queue THEN kept[n - 1]
                ELSE Append(kept[n - 1], queue[n])]
  <2>1. \E f : f = [n \in 0 .. Len(queue) |->
                      IF n = 0 THEN << >>
                      ELSE IF n \in DOMAIN queue THEN f[n - 1]
                      ELSE Append(f[n - 1], queue[n])]
    BY <1>2
  <2> QED BY <2>1
<1>4. Erased(queue, DOMAIN queue) = kept[Len(queue)]
  BY DEF Erased
<1> HIDE DEF kept
<1>5. kept[0] = << >> /\ (1 =< Len(queue) => kept[1] = kept[0])
  BY <1>1, <1>3
<1> QED BY <1>1, <1>4, <1>5

LEMMA QueueErased ==
  /\ \A id : Without(<< >>, id) = << >> /\ Without(<<id>>, id) = << >>
  /\ \A id : WithoutReplies(<< >>, id) = << >>
  /\ \A id, r : r.dest = id => WithoutReplies(<<r>>, id) = << >>
<1>1. ASSUME NEW id PROVE Without(<< >>, id) = << >> /\ WithoutReplies(<< >>, id) = << >>
  <2> DEFINE q == << >>
  <2>1. DOMAIN q = {i \in DOMAIN q : q[i] = id} /\ DOMAIN q = {i \in DOMAIN q : q[i].dest = id}
    OBVIOUS
  <2> QED BY <2>1, AllErased DEF Without, WithoutReplies
<1>2. ASSUME NEW id PROVE Without(<<id>>, id) = << >>
  <2> DEFINE q == <<id>>
  <2>1. DOMAIN q = {i \in DOMAIN q : q[i] = id} /\ \E x : q = <<x>>
    OBVIOUS
  <2> HIDE DEF q
  <2>2. Without(q, id) = << >>
    BY <2>1, AllErased DEF Without
  <2> QED BY <2>2 DEF q
<1>3. ASSUME NEW id, NEW r, r.dest = id PROVE WithoutReplies(<<r>>, id) = << >>
  <2> DEFINE q == <<r>>
  <2>1. DOMAIN q = {i \in DOMAIN q : q[i].dest = id} /\ \E x : q = <<x>>
    BY <1>3
  <2> HIDE DEF q
  <2>2. WithoutReplies(q, id) = << >>
    BY <2>1, AllErased DEF WithoutReplies
  <2> QED BY <2>2 DEF q
<1> QED BY <1>1, <1>2, <1>3

-----------------------------------------------------------------------------
(* What the methods of PPLinkManager do to the state of a user *)

LEMMA Pair ==
  /\ \A u \in Users : Peer(u) \in Users /\ Peer(u) # u
  /\ Users \subseteq UserIds /\ Users \subseteq Ids /\ \A u \in Users : u # UNSET_ID
BY UsersAssumption, IdsAssumption DEF Users, Peer, Ids

(* What they leave as it was *)
Own(st, st2) ==
  /\ st2.mac_id = st.mac_id /\ st2.link_id = st.link_id /\ st2.failed = st.failed
  /\ st2.slot = st.slot /\ st2.scheduled = st.scheduled
  /\ st2.advertised = st.advertised /\ st2.proposals = st.proposals

Returns(st, st2) ==
  /\ Typed(st2) /\ Held(st2) /\ Own(st, st2)
  /\ st2.link_status \in {"link_not_established", "awaiting_request_generation"}

LEMMA Cancelled ==
  ASSUME NEW st, Typed(st), Held(st)
  PROVE  LET c == cancelLink(st)
         IN  /\ Returns(st, c) /\ c.link_status = "link_not_established"
             /\ c.locked_resources = {} /\ c.scheduled_resources = {}
             /\ c.link_requests = << >> /\ c.link_replies = << >>
             /\ \A t \in Tables, s \in Slots : c.tables[t][s] \in {st.tables[t][s], Idle}
             /\ \A e \in st.scheduled_resources : c.tables[e[1]][e[2]] = Idle
<1> DEFINE ids  == {st.mac_id, st.link_id}
           mid  == UnlockAll(st.tables, st.locked_resources, ids)
           free == UnscheduleAll(mid, st.scheduled_resources)
           c    == cancelLink(st)
<1>1. /\ st \in UserStates /\ st.link_id \in Users /\ st.mac_id \in Users
      /\ st.tables \in TB
  BY DEF Typed, UserStates, TB
<1>2. st.scheduled_resources \in SUBSET (PP \X Slots)
  BY <1>1 DEF UserStates, Held, BurstsRight, Entries
<1>3. /\ free \in TB /\ OneTx(free) /\ HardwareNeverBusy(free) /\ SharedOnlyTxRx(free)
      /\ \A t \in Tables, s \in Slots : free[t][s] \in {st.tables[t][s], Idle}
      /\ \A s \in Slots : IsTx(free[SH][s]) <=> IsTx(st.tables[SH][s])
      /\ \A t \in Tables, s \in Slots :
           IsLocked(free[t][s]) =>
             ~(<<t, s>> \in st.locked_resources /\ s > 0 /\ st.tables[t][s].target \in ids)
      /\ \A e \in st.scheduled_resources : free[e[1]][e[2]] = Idle
      /\ ~UnscheduleThrows(mid, st.scheduled_resources, {"TX", "RX"})
  <2>1. /\ OneTx(st.tables) /\ HardwareNeverBusy(st.tables) /\ SharedOnlyTxRx(st.tables)
        /\ \A e \in st.scheduled_resources : st.tables[e[1]][e[2]].action \in {"TX", "RX"}
    BY DEF Held, Good, BurstsRight, Burst
  <2> QED BY <1>1, <1>2, <2>1, Returned
<1>4. Without(st.link_requests, st.link_id) = << >> /\ WithoutReplies(st.link_replies, st.link_id) = << >>
  <2>1. st.link_requests = << >> \/ st.link_requests = << st.link_id >>
    BY DEF Held, QueuesRight
  <2>2. st.link_replies = << >> \/ \E r : st.link_replies = <<r>> /\ r.dest = st.link_id
    <3>1. st.link_replies \in Seq(Replies)
      BY <1>1 DEF UserStates
    <3>2. CASE Len(st.link_replies) = 1
      BY <3>1, <3>2 DEF Held, QueuesRight
    <3> QED BY <3>1, <3>2 DEF Held, QueuesRight
  <2> QED BY <2>1, <2>2, QueueErased
<1> HIDE DEF free, mid
<1>5. c = [st EXCEPT !.tables = free, !.link_status = "link_not_established",
                     !.locked_resources = {}, !.scheduled_resources = {},
                     !.link_requests = << >>, !.link_replies = << >>]
  <2>1. c = [st EXCEPT !.tables = free, !.failed = st.failed,
                     !.link_status = "link_not_established",
                     !.locked_resources = {}, !.scheduled_resources = {},
                     !.link_requests = << >>, !.link_replies = << >>]
    BY <1>1, <1>3, <1>4 DEF cancelLink, UserStates, free, mid
  <2> QED BY <2>1, <1>1 DEF UserStates
<1>6. /\ c \in UserStates /\ Own(st, c)
      /\ c.tables = free /\ c.link_status = "link_not_established"
      /\ c.locked_resources = {} /\ c.scheduled_resources = {}
      /\ c.link_requests = << >> /\ c.link_replies = << >>
  <2>1. << >> \in Seq(Users) /\ << >> \in Seq(Replies)
    OBVIOUS
  <2>2. free \in [Tables -> [Slots -> Reservation]]
    BY <1>3 DEF TB
  <2>3. c \in UserStates
    <3> HIDE DEF c
    <3> QED BY <1>1, <1>5, <2>1, <2>2 DEF UserStates, Statuses
  <2>4. Own(st, c)
    <3> HIDE DEF c
    <3> QED BY <1>1, <1>5 DEF UserStates, Own
  <2> HIDE DEF c
  <2> QED BY <1>1, <1>5, <2>3, <2>4 DEF UserStates
<1> HIDE DEF c
<1>7. Typed(c)
  BY <1>6 DEF Typed, Own
<1>8. Good(c)
  <2>1. Shaped(c)
    BY <1>6 DEF Shaped, UserStates, Fields
  <2> QED BY <1>3, <1>6, <2>1 DEF Held, Good, ReservedAt, Own
<1>9. \A t \in Tables, s \in Slots : s > 0 => ~IsLocked(free[t][s])
  <2>1. \A t \in Tables, s \in Slots : IsLocked(free[t][s]) => IsLocked(st.tables[t][s])
    BY <1>3, IdleIs
  <2> QED BY <2>1, <1>3 DEF Held, LocksRight
<1>10. \A ch \in PP, s \in Slots : s > 0 => ~Burst(c, ch, s)
  <2> SUFFICES ASSUME NEW ch \in PP, NEW s \in Slots, s > 0, Burst(c, ch, s) PROVE FALSE
    OBVIOUS
  <2>1. free[ch][s] = st.tables[ch][s] /\ ~IsIdle(free[ch][s])
    BY <1>3, <1>6, IdleIs, Disjoint DEF Burst, IsIdle
  <2>2. Burst(st, ch, s)
    BY <1>6, <2>1 DEF Burst, Own
  <2>3. <<ch, s>> \in st.scheduled_resources
    BY <2>2 DEF Held, BurstsRight
  <2> QED BY <2>1, <2>3, <1>3, IdleIs
<1>11. LocksRight(c) /\ BurstsRight(c) /\ QueuesRight(c)
  BY <1>6, <1>9, <1>10 DEF LocksRight, BurstsRight, QueuesRight
<1> QED BY <1>3, <1>6, <1>7, <1>8, <1>11 DEF Returns, Held, c

(* A state that holds the same slots for the link *)
SameSlots(st, a) ==
  /\ a.tables = st.tables
  /\ a.locked_resources = st.locked_resources
  /\ a.scheduled_resources = st.scheduled_resources
  /\ a.link_status = st.link_status \/ st.link_status # "awaiting_reply"

LEMMA StillHeld ==
  ASSUME NEW st, Typed(st), Held(st), NEW a \in UserStates, Own(st, a), SameSlots(st, a),
         QueuesRight(a), \A i \in DOMAIN a.link_replies : InHorizon(a.link_replies[i].slot)
  PROVE  Typed(a) /\ Held(a)
<1>1. Typed(a)
  BY DEF Typed, Own
<1>2. Good(a)
  <2>1. Shaped(a)
    BY DEF Shaped, UserStates, Fields
  <2> QED BY <2>1 DEF Held, Good, Own, SameSlots
<1>3. LocksRight(a) /\ BurstsRight(a)
  BY DEF Held, LocksRight, BurstsRight, Burst, Own, SameSlots
<1> QED BY <1>1, <1>2, <1>3 DEF Held

(* The number of attempts matters to nothing that is held. *)
LEMMA AttemptsChange ==
  ASSUME NEW st, Typed(st), Held(st), NEW n \in 0 .. MaxAttempts
  PROVE  LET a == [st EXCEPT !.attempts = n]
         IN  /\ Typed(a) /\ Held(a) /\ Own(st, a) /\ a.attempts = n
             /\ a.link_status = st.link_status
             /\ a.link_requests = st.link_requests
<1> DEFINE a == [st EXCEPT !.attempts = n]
<1>1. st \in UserStates
  BY DEF Typed
<1>2. /\ a \in UserStates /\ Own(st, a) /\ SameSlots(st, a) /\ a.attempts = n
      /\ a.link_status = st.link_status /\ a.is_link_initiator = st.is_link_initiator
      /\ a.link_requests = st.link_requests /\ a.link_replies = st.link_replies
  BY <1>1 DEF UserStates, Own, SameSlots
<1> HIDE DEF a
<1>3. QueuesRight(a) /\ \A i \in DOMAIN a.link_replies : InHorizon(a.link_replies[i].slot)
  BY <1>2 DEF Held, QueuesRight, Typed, Own
<1> QED BY <1>2, <1>3, StillHeld DEF a

LEMMA Establish ==
  ASSUME NEW st, Typed(st), Held(st), st.link_status = "link_not_established"
  PROVE  Returns(st, establishLink(st))
<1>1. st \in UserStates /\ st.attempts \in Int
  BY DEF Typed, UserStates
<1>2. CASE st.attempts + 1 >= MaxAttempts
  <2> DEFINE c == cancelLink(st)
  <2>1. establishLink(st) = [c EXCEPT !.attempts = 0]
    BY <1>2 DEF establishLink
  <2>2. Returns(st, c) /\ 0 \in 0 .. MaxAttempts
    BY Cancelled, AttemptsAssumption
  <2> HIDE DEF c
  <2>3. LET a == [c EXCEPT !.attempts = 0]
        IN  Typed(a) /\ Held(a) /\ Own(c, a) /\ a.link_status = c.link_status
    BY <2>2, AttemptsChange DEF Returns
  <2> QED BY <2>1, <2>2, <2>3 DEF Returns, Own
<1>3. CASE ~(st.attempts + 1 >= MaxAttempts)
  <2> DEFINE e == [st EXCEPT !.attempts = st.attempts + 1, !.link_requests = << st.link_id >>,
                             !.link_status = "awaiting_request_generation"]
  <2>1. establishLink(st) = e
    <3>1. Append(st.link_requests, st.link_id) = << st.link_id >>
      BY DEF Held, QueuesRight
    <3>2. "link_not_established" # "link_established"
      OBVIOUS
    <3>3. establishLink(st) = [st EXCEPT !.attempts = st.attempts + 1,
                                 !.link_requests = Append(st.link_requests, st.link_id),
                                 !.link_status = "awaiting_request_generation"]
      BY <1>1, <1>3, <3>2 DEF establishLink, UserStates
    <3> QED BY <3>1, <3>3
  <2>2. st.attempts + 1 \in 0 .. MaxAttempts
    BY <1>1, <1>3, AttemptsAssumption DEF UserStates
  <2>3. << st.link_id >> \in Seq(Users)
    BY <1>1 DEF UserStates
  <2> HIDE DEF e
  <2>4. /\ e \in UserStates /\ Own(st, e) /\ SameSlots(st, e)
        /\ e.link_status = "awaiting_request_generation"
        /\ e.link_requests = << st.link_id >> /\ e.link_replies = st.link_replies
    BY <1>1, <2>2, <2>3 DEF e, UserStates, Own, Statuses, SameSlots
  <2>5. QueuesRight(e) /\ \A i \in DOMAIN e.link_replies : InHorizon(e.link_replies[i].slot)
    BY <2>4 DEF Held, QueuesRight, Typed, Own
  <2> QED BY <2>1, <2>4, <2>5, StillHeld DEF Returns
<1> QED BY <1>2, <1>3

LEMMA Notified ==
  ASSUME NEW st, Typed(st), Held(st)
  PROVE  LET n == notifyOutgoing(st)
         IN  /\ Typed(n) /\ Held(n) /\ Own(st, n)
             /\ st.link_status = "link_not_established" => Returns(st, n)
             /\ st.link_status # "link_not_established" => n = st
<1>1. CASE st.link_status # "link_not_established"
  BY <1>1 DEF notifyOutgoing, Own
<1>2. CASE st.link_status = "link_not_established"
  <2> DEFINE a == [st EXCEPT !.attempts = 0]
  <2>1. notifyOutgoing(st) = establishLink(a)
    BY <1>2 DEF notifyOutgoing
  <2>2. Typed(a) /\ Held(a) /\ Own(st, a) /\ a.link_status = st.link_status
    BY AttemptsChange, AttemptsAssumption
  <2> HIDE DEF a
  <2>3. Returns(a, establishLink(a))
    BY <1>2, <2>2, Establish
  <2> QED BY <1>2, <2>1, <2>2, <2>3 DEF Returns, Own
<1> QED BY <1>1, <1>2

LEMMA AwaitedReply ==
  ASSUME NEW st, Typed(st), Held(st)
  PROVE  LET a == awaitReply(st)
         IN  /\ Typed(a) /\ Held(a) /\ Own(st, a)
             /\ st.link_status # "awaiting_reply" => a = st
             /\ st.link_status = "awaiting_reply" => a.link_status # "link_established"
<1>1. CASE st.link_status # "awaiting_reply"
  BY <1>1 DEF awaitReply, Own
<1>2. CASE st.link_status = "awaiting_reply" /\ st.expected = 0
  <2> DEFINE c == cancelLink(st)
  <2>1. awaitReply(st) = establishLink(c)
    BY <1>2 DEF awaitReply
  <2>2. Returns(st, c) /\ c.link_status = "link_not_established"
    BY Cancelled
  <2> HIDE DEF c
  <2>3. Returns(c, establishLink(c))
    BY <2>2, Establish DEF Returns
  <2> QED BY <1>2, <2>1, <2>2, <2>3 DEF Returns, Own
<1>3. CASE st.link_status = "awaiting_reply" /\ st.expected # 0
  <2> DEFINE a == [st EXCEPT !.expected = st.expected - 1]
  <2>1. st \in UserStates /\ awaitReply(st) = a
    BY <1>3 DEF awaitReply, Typed, UserStates
  <2>2. st.expected - 1 \in Slots
    BY <1>3, <2>1, HorizonAssumption DEF UserStates, Slots
  <2> HIDE DEF a
  <2>3. /\ a \in UserStates /\ Own(st, a) /\ SameSlots(st, a)
        /\ a.link_status = st.link_status /\ a.is_link_initiator = st.is_link_initiator
        /\ a.link_requests = st.link_requests /\ a.link_replies = st.link_replies
    BY <2>1, <2>2 DEF a, UserStates, Own, SameSlots
  <2>4. QueuesRight(a) /\ \A i \in DOMAIN a.link_replies : InHorizon(a.link_replies[i].slot)
    BY <2>3 DEF Held, QueuesRight, Typed, Own
  <2> QED BY <1>3, <2>1, <2>3, <2>4, StillHeld
<1> QED BY <1>1, <1>2, <1>3

-----------------------------------------------------------------------------
(* The timeout.  The exchanges that are counted lie in the past, so that   *)
(* after the last of them no burst is left.                                *)

LEMMA Expired ==
  ASSUME NEW st, Typed(st), Held(st), st.link_status = "link_established",
         \A e \in st.scheduled_resources : e[2] =< 0,
         NEW more \in BOOLEAN
  PROVE  Returns(st, onTimeoutExpiry([st EXCEPT !.timeout = 0], more))
<1> DEFINE f == [[st EXCEPT !.timeout = 0] EXCEPT !.locked_resources = {}, !.scheduled_resources = {}]
<1>1. st \in UserStates /\ 0 \in 0 .. Timeout
  BY BurstsAssumption DEF Typed
<1>2. /\ f \in UserStates /\ Own(st, f) /\ f.tables = st.tables
      /\ f.locked_resources = {} /\ f.scheduled_resources = {}
      /\ f.link_status = st.link_status /\ f.is_link_initiator = st.is_link_initiator
      /\ f.link_requests = st.link_requests /\ f.link_replies = st.link_replies
  BY <1>1 DEF UserStates, Own
<1> HIDE DEF f
<1>3. Typed(f)
  BY <1>2 DEF Typed, Own
<1>4. Good(f)
  <2>1. Shaped(f)
    BY <1>2 DEF Shaped, UserStates, Fields
  <2> QED BY <1>2, <2>1 DEF Held, Good, Own
<1>5. LocksRight(f) /\ QueuesRight(f)
  BY <1>2 DEF Held, LocksRight, QueuesRight, Own
<1>6. BurstsRight(f)
  <2>1. ASSUME NEW c \in PP, NEW s \in Slots, s > 0, Burst(f, c, s) PROVE FALSE
    <3>1. <<c, s>> \in st.scheduled_resources
      BY <2>1, <1>2 DEF Held, BurstsRight, Burst, Own
    <3> QED BY <3>1, <2>1, ZeroSlot
  <2> QED BY <1>2, <2>1 DEF BurstsRight
<1>7. Typed(f) /\ Held(f)
  BY <1>3, <1>4, <1>5, <1>6 DEF Held
<1> DEFINE c == cancelLink(f)
           x == [c EXCEPT !.attempts = 0]
<1>8. Returns(f, c) /\ c.link_status = "link_not_established"
  BY <1>7, Cancelled
<1>9. onTimeoutExpiry([st EXCEPT !.timeout = 0], more) = IF more THEN notifyOutgoing(x) ELSE x
  BY DEF onTimeoutExpiry, f
<1> HIDE DEF c
<1>10. Typed(x) /\ Held(x) /\ Own(c, x) /\ x.link_status = c.link_status
  BY <1>8, AttemptsChange, AttemptsAssumption DEF Returns
<1> HIDE DEF x
<1>11. Returns(x, notifyOutgoing(x))
  BY <1>8, <1>10, Notified
<1> QED BY <1>2, <1>8, <1>9, <1>10, <1>11 DEF Returns, Own

LEMMA Decremented ==
  ASSUME NEW st, Typed(st), Held(st), CountRight(st, -1), NEW more \in BOOLEAN
  PROVE  LET d == decrementTimeout(st, more)
         IN  /\ Typed(d) /\ d.mac_id = st.mac_id
             /\ \/ d.failed # "none"
                \/ Held(d) /\ Own(st, d) /\ CountRight(d, 0)
<1>1. st \in UserStates /\ st.timeout \in 0 .. Timeout /\ Timeout \in Nat \ {0}
  BY BurstsAssumption DEF Typed, UserStates
<1> DEFINE ahead == Ending(st)
           left  == IF \E e \in ahead : e[2] = 0 THEN st.timeout - 1 ELSE st.timeout
<1>2. decrementTimeout(st, more) =
        IF st.link_status # "link_established" THEN st
        ELSE IF ahead = {} THEN [st EXCEPT !.failed = "no_exchange_left"]
        ELSE IF left = 0 THEN onTimeoutExpiry([st EXCEPT !.timeout = 0], more)
        ELSE [st EXCEPT !.timeout = left]
  BY DEF decrementTimeout, Ending
<1>3. CASE st.link_status # "link_established"
  BY <1>2, <1>3 DEF CountRight, Own
<1>4. CASE st.link_status = "link_established" /\ ahead = {}
  <2> DEFINE d == [st EXCEPT !.failed = "no_exchange_left"]
  <2>1. decrementTimeout(st, more) = d
    BY <1>2, <1>4
  <2>2. /\ d \in UserStates /\ d.failed = "no_exchange_left"
        /\ d.mac_id = st.mac_id /\ d.link_id = st.link_id
        /\ d.proposals = st.proposals /\ d.link_replies = st.link_replies
    BY <1>1 DEF UserStates, Failures
  <2> HIDE DEF d
  <2> QED BY <2>1, <2>2 DEF Typed
<1>5. CASE st.link_status = "link_established" /\ ahead # {}
  <2>1. st.timeout > 0
    BY <1>5 DEF CountRight
  <2>2. PICK start \in Int :
         /\ \A e \in st.scheduled_resources : e[2] =< LastBurst(start)
         /\ \A e \in Ending(st) : \E k \in 0 .. Timeout - 1 :
              e[2] = start + (2 * k + 1) * Increment
         /\ st.timeout < Timeout =>
              start + (2 * (Timeout - st.timeout) - 1) * Increment =< -1
    BY <1>5 DEF CountRight
  <2>3. /\ left \in 0 .. Timeout
        /\ left < Timeout => start + (2 * (Timeout - left) - 1) * Increment =< 0
        /\ left = 0 => LastBurst(start) =< 0
    <3>1. CASE ~\E e \in ahead : e[2] = 0
      <4>1. left = st.timeout
        BY <3>1
      <4> DEFINE x == start + (2 * (Timeout - left) - 1) * Increment
      <4>2. x \in Int
        BY <1>1, <4>1, BurstsAssumption
      <4>3. left < Timeout => x =< -1
        BY <2>2, <4>1
      <4> HIDE DEF x, left
      <4>4. left < Timeout => x =< 0
        BY <4>2, <4>3
      <4> QED BY <1>1, <2>1, <4>1, <4>4 DEF x
    <3>2. CASE \E e \in ahead : e[2] = 0
      <4>1. left = st.timeout - 1 /\ left \in 0 .. Timeout - 1 /\ left + 1 = st.timeout
        BY <1>1, <2>1, <3>2
      <4>2. PICK k \in 0 .. Timeout - 1 : start + (2 * k + 1) * Increment = 0
        BY <2>2, <3>2
      <4>3. left + 1 < Timeout => start + (2 * (Timeout - (left + 1)) - 1) * Increment =< -1
        BY <2>2, <4>1
      <4> HIDE DEF left
      <4>4. left \in 0 .. Timeout
        BY <1>1, <4>1
      <4> QED BY <4>1, <4>2, <4>3, <4>4, NextExchange
    <3> QED BY <3>1, <3>2
  <2> HIDE DEF left
  <2>4. CASE left = 0
    <3>1. \A e \in st.scheduled_resources : e[2] =< 0
      <4>1. LastBurst(start) \in Int /\ \A e \in st.scheduled_resources : e[2] \in Int
        <5>1. LastBurst(start) \in Int
          BY BurstsAssumption DEF LastBurst
        <5>2. st.scheduled_resources \subseteq Tables \X Slots
          BY <1>1 DEF UserStates, Entries
        <5> QED BY <5>1, <5>2, EntryIs
      <4> QED BY <2>2, <2>3, <2>4, <4>1
    <3>2. Returns(st, onTimeoutExpiry([st EXCEPT !.timeout = 0], more))
      BY <1>5, <3>1, Expired
    <3> QED BY <1>2, <1>5, <2>4, <3>2 DEF Returns, CountRight, Own
  <2>5. CASE left # 0
    <3> DEFINE d == [st EXCEPT !.timeout = left]
    <3>1. decrementTimeout(st, more) = d
      BY <1>2, <1>5, <2>5
    <3>2. /\ d \in UserStates /\ Own(st, d) /\ SameSlots(st, d) /\ d.timeout = left
          /\ d.link_status = st.link_status /\ d.is_link_initiator = st.is_link_initiator
          /\ d.link_requests = st.link_requests /\ d.link_replies = st.link_replies
      BY <1>1, <2>3 DEF UserStates, Own, SameSlots
    <3> HIDE DEF d
    <3>3. QueuesRight(d) /\ \A i \in DOMAIN d.link_replies : InHorizon(d.link_replies[i].slot)
      BY <3>2 DEF Held, QueuesRight, Typed, Own
    <3>4. Typed(d) /\ Held(d)
      BY <3>2, <3>3, StillHeld
    <3>5. CountRight(d, 0)
      <4>1. Ending(d) = Ending(st) /\ d.scheduled_resources = st.scheduled_resources
        BY <3>2 DEF Ending, SameSlots
      <4>2. d.timeout > 0 /\ d.timeout = left
        BY <2>3, <2>5, <3>2
      <4> HIDE DEF ahead
      <4> QED BY <2>2, <2>3, <4>1, <4>2 DEF CountRight
    <3> QED BY <3>1, <3>2, <3>4, <3>5 DEF Own
  <2> QED BY <2>4, <2>5
<1> QED BY <1>3, <1>4, <1>5

-----------------------------------------------------------------------------
(* The bursts of a link *)

(* An accepted link: what an earlier one held is returned first, and the   *)
(* timeout agrees with the bursts.                                         *)
Accepts(st, a) ==
  /\ Typed(a) /\ Held(a) /\ CountRight(a, -1)
  /\ a.mac_id = st.mac_id /\ a.link_id = st.link_id
  /\ a.slot = st.slot /\ a.scheduled = st.scheduled
  /\ a.failed \in {st.failed, "faulty_link"}
  /\ a.link_status = "link_established"

LEMMA Accepted ==
  ASSUME NEW st, Typed(st), Held(st), NEW p, p.channel \in PP, p.slot \in Slots, InHorizon(p.slot),
         NEW through_request \in BOOLEAN
  PROVE  LET a == acceptLink(st, p, through_request)
         IN  Accepts(st, a) /\ a.link_replies = << >> /\ a.is_link_initiator = ~through_request
<1> DEFINE free      == cancelLink(st)
           initiator == ~through_request
           bursts    == scheduleBursts(free.tables, p.channel, p.slot, st.link_id, initiator)
           a         == acceptLink(st, p, through_request)
<1>1. /\ Returns(st, free) /\ free.link_status = "link_not_established"
      /\ free.locked_resources = {} /\ free.scheduled_resources = {}
      /\ free.link_requests = << >> /\ free.link_replies = << >>
  BY Cancelled
<1>2. /\ free \in UserStates /\ free.link_id = st.link_id /\ st.link_id \in UserIds
      /\ Held(free) /\ p.slot \in Nat
  <2>1. st.link_id \in UserIds
    <3>1. st.link_id \in Users
      BY DEF Typed, UserStates
    <3> QED BY <3>1, Pair
  <2>2. p.slot \in Nat
    BY ZeroSlot
  <2> HIDE DEF free
  <2> QED BY <1>1, <2>1, <2>2 DEF Returns, Typed, Own
<1> HIDE DEF free
<1> DEFINE new       == bursts.tables
           scheduled == bursts.scheduled
<1>3. /\ new \in TB /\ OneTx(new) /\ HardwareNeverBusy(new) /\ SharedOnlyTxRx(new)
      /\ \A s \in Slots : IsTx(new[SH][s]) <=> IsTx(free.tables[SH][s])
      /\ \A t \in Tables, s \in Slots : IsLocked(new[t][s]) => IsLocked(free.tables[t][s])
      /\ scheduled \in SUBSET (PP \X Slots)
      /\ \A e \in scheduled :
           /\ new[e[1]][e[2]].action \in {"TX", "RX"} /\ new[e[1]][e[2]].target = st.link_id
           /\ e[2] =< LastBurst(p.slot)
           /\ new[e[1]][e[2]].action = (IF initiator THEN "RX" ELSE "TX")
                => e[2] \in RxBursts(p.slot)
      /\ \A ch \in PP, s \in Slots : new[ch][s] = free.tables[ch][s] \/ <<ch, s>> \in scheduled
  <2>1. /\ free.tables \in TB /\ OneTx(free.tables) /\ HardwareNeverBusy(free.tables)
        /\ SharedOnlyTxRx(free.tables)
    BY <1>2 DEF Held, Good
  <2> HIDE DEF initiator
  <2>2. Booked(free.tables, new, scheduled, p.slot, st.link_id, initiator)
    BY <1>2, <2>1, Scheduled
  <2> HIDE DEF new, scheduled
  <2> QED BY <2>2 DEF Booked
<1> DEFINE failed == IF free.failed = "none" /\ bursts.throws THEN "faulty_link" ELSE free.failed
<1>4. failed \in {free.failed, "faulty_link"} /\ failed \in Failures
  BY <1>2 DEF UserStates, Failures
<1>5. a = [free EXCEPT !.tables = new, !.scheduled_resources = scheduled, !.failed = failed,
                       !.is_link_initiator = initiator, !.link_status = "link_established",
                       !.timeout = Timeout, !.attempts = 0, !.late = FALSE]
  <2>1. a = [free EXCEPT !.tables = bursts.tables, !.scheduled_resources = bursts.scheduled,
                         !.failed = IF @ = "none" /\ bursts.throws THEN "faulty_link" ELSE @,
                         !.is_link_initiator = ~through_request,
                         !.link_status = "link_established",
                         !.timeout = Timeout, !.attempts = 0, !.late = FALSE]
    BY DEF acceptLink, free
  <2> HIDE DEF bursts, a
  <2> QED BY <1>2, <2>1 DEF UserStates
<1> HIDE DEF bursts, failed, a, new, scheduled
<1>6. /\ a \in UserStates /\ a.mac_id = free.mac_id /\ a.link_id = free.link_id
      /\ a.slot = free.slot /\ a.scheduled = free.scheduled /\ a.failed = failed
      /\ a.tables = new /\ a.link_status = "link_established" /\ a.is_link_initiator = initiator
      /\ a.locked_resources = {} /\ a.scheduled_resources = scheduled /\ a.timeout = Timeout
      /\ a.link_requests = << >> /\ a.link_replies = << >> /\ a.proposals = free.proposals
  <2>1. /\ new \in [Tables -> [Slots -> Reservation]] /\ scheduled \in SUBSET Entries
        /\ initiator \in BOOLEAN /\ Timeout \in 0 .. Timeout /\ 0 \in 0 .. MaxAttempts
    BY <1>2, <1>3, Disjoint, BurstsAssumption, AttemptsAssumption DEF TB, Entries
  <2> HIDE DEF initiator
  <2>2. a \in UserStates
    BY <1>2, <1>4, <1>5, <2>1 DEF UserStates, Statuses
  <2> QED BY <1>1, <1>2, <1>5, <2>2 DEF UserStates
<1>7. Typed(a)
  BY <1>1, <1>6 DEF Typed, Returns
<1>8. Good(a)
  <2>1. Shaped(a)
    BY <1>6 DEF Shaped, UserStates, Fields
  <2> QED BY <1>2, <1>3, <1>6, <2>1 DEF Held, Good, ReservedAt
<1>9. LocksRight(a)
  <2>1. \A t \in Tables, s \in Slots : s > 0 => ~IsLocked(free.tables[t][s])
    BY <1>1, <1>2 DEF Held, LocksRight
  <2> QED BY <2>1, <1>3, <1>6 DEF LocksRight
<1>10. BurstsRight(a)
  <2>1. \A e \in scheduled : e[1] \in PP /\ Burst(a, e[1], e[2])
    BY <1>2, <1>3, <1>6, EntryIs DEF Burst
  <2>2. ASSUME NEW ch \in PP, NEW s \in Slots, s > 0, Burst(a, ch, s) PROVE <<ch, s>> \in scheduled
    <3>1. ~Burst(free, ch, s)
      BY <1>1, <1>2, <2>2 DEF Held, BurstsRight
    <3>2. new[ch][s] # free.tables[ch][s]
      BY <1>2, <1>6, <2>2, <3>1 DEF Burst
    <3> QED BY <1>3, <3>2
  <2> QED BY <2>1, <2>2, <1>6 DEF BurstsRight
<1>11. QueuesRight(a)
  BY <1>6 DEF QueuesRight
<1>12. CountRight(a, -1)
  <2>1. a.timeout > 0 /\ ~(a.timeout < Timeout)
    BY <1>6, BurstsAssumption
  <2>2. \A e \in a.scheduled_resources : e[2] =< LastBurst(p.slot)
    BY <1>3, <1>6
  <2>3. \A e \in Ending(a) : \E k \in 0 .. Timeout - 1 : e[2] = p.slot + (2 * k + 1) * Increment
    <3>1. \A e \in Ending(a) : e[2] \in RxBursts(p.slot)
      BY <1>3, <1>6 DEF Ending
    <3> QED BY <3>1 DEF RxBursts
  <2>4. p.slot \in Int
    BY <1>2
  <2> QED BY <2>1, <2>2, <2>3, <2>4 DEF CountRight
<1> QED BY <1>1, <1>2, <1>4, <1>6, <1>7, <1>8, <1>9, <1>10, <1>11, <1>12
        DEF Accepts, Held, Returns, Own, a

-----------------------------------------------------------------------------
(* What the methods of SHLinkManager do to the state of a user *)

(* The user's broadcast may be scheduled anew; the link is as it was. *)
SameLink(st, st2) ==
  /\ st2.mac_id = st.mac_id /\ st2.link_id = st.link_id
  /\ st2.advertised = st.advertised /\ st2.proposals = st.proposals
  /\ st2.link_status = st.link_status /\ st2.is_link_initiator = st.is_link_initiator
  /\ st2.link_requests = st.link_requests /\ st2.link_replies = st.link_replies
  /\ st2.timeout = st.timeout
  /\ st2.locked_resources = st.locked_resources
  /\ st2.scheduled_resources = st.scheduled_resources

LEMMA BroadcastChange ==
  ASSUME NEW st, Typed(st), Held(st), NEW st2, Good(st2), Keeps(st, st2)
  PROVE  /\ Typed(st2) /\ Held(st2) /\ SameLink(st, st2)
         /\ \A b \in Int : CountRight(st, b) => CountRight(st2, b)
<1>1. /\ st \in UserStates
      /\ DOMAIN st2 = DOMAIN st /\ st2 = [f \in DOMAIN st |-> st2[f]]
      /\ \A f \in DOMAIN st \ Fields : st2[f] = st[f]
      /\ st2.failed \in {st.failed, "no_candidate"}
      /\ st2.tables \in [Tables -> [Slots -> Reservation]]
      /\ st2.slot \in Slots /\ st2.scheduled \in BOOLEAN
  BY DEF Typed, Good, Keeps, Shaped, TB
<1>2. /\ SameLink(st, st2) /\ st2.attempts = st.attempts /\ st2.expected = st.expected
      /\ st2.late = st.late
  BY <1>1 DEF UserStates, Fields, SameLink
<1>3. st2 \in UserStates
  <2>1. st2.failed \in Failures
    BY <1>1 DEF UserStates, Failures
  <2>2. st2 = [tables |-> st2.tables, failed |-> st2.failed, mac_id |-> st2.mac_id,
               link_id |-> st2.link_id, slot |-> st2.slot, scheduled |-> st2.scheduled,
               link_requests |-> st2.link_requests, link_replies |-> st2.link_replies,
               advertised |-> st2.advertised, proposals |-> st2.proposals,
               link_status |-> st2.link_status, is_link_initiator |-> st2.is_link_initiator,
               attempts |-> st2.attempts, timeout |-> st2.timeout, expected |-> st2.expected,
               locked_resources |-> st2.locked_resources,
               scheduled_resources |-> st2.scheduled_resources, late |-> st2.late]
    BY <1>1 DEF UserStates
  <2> QED BY <1>1, <1>2, <2>1, <2>2 DEF UserStates, SameLink
<1>4. Typed(st2)
  BY <1>2, <1>3 DEF Typed, SameLink
<1>5. \A t \in PP \cup RxTables : st2.tables[t] = st.tables[t]
  BY DEF Keeps, SameLinks
<1>6. LocksRight(st2)
  <2> SUFFICES ASSUME NEW t \in Tables, NEW s \in Slots, s > 0, IsLocked(st2.tables[t][s])
               PROVE  st2.tables[t][s] = st.tables[t][s]
    BY <1>2 DEF LocksRight, Held, SameLink
  <2>1. t # SH
    BY DEF Good, SharedOnlyTxRx, IsLocked, IsIdle, IsTx, IsRx
  <2>2. CASE t = TxTable
    BY <2>2 DEF Keeps, SameLocks
  <2>3. CASE t # TxTable
    BY <2>1, <2>3, <1>5 DEF Tables, Channels
  <2> QED BY <2>2, <2>3
<1>7. BurstsRight(st2)
  <2>1. \A c \in PP : \A s : Burst(st2, c, s) <=> Burst(st, c, s)
    BY <1>2, <1>5 DEF Burst, SameLink
  <2>2. st2.scheduled_resources = st.scheduled_resources
    BY <1>2 DEF SameLink
  <2> QED BY <2>1, <2>2 DEF BurstsRight, Held
<1>8. QueuesRight(st2)
  BY <1>2 DEF QueuesRight, Held, SameLink
<1>9. ASSUME NEW b \in Int, CountRight(st, b) PROVE CountRight(st2, b)
  <2>1. Ending(st2) = Ending(st)
    <3>1. \A e \in st.scheduled_resources : st2.tables[e[1]][e[2]] = st.tables[e[1]][e[2]]
      BY <1>5 DEF Held, BurstsRight
    <3> QED BY <1>2, <3>1 DEF Ending, SameLink
  <2> QED BY <1>2, <1>9, <2>1 DEF CountRight, SameLink
<1> QED BY <1>2, <1>4, <1>6, <1>7, <1>8, <1>9 DEF Held

(* A broadcast that is scheduled anew *)
LEMMA Rescheduled ==
  ASSUME NEW st, Typed(st), Held(st), NEW st2 \in scheduleBroadcastSlot(st)
  PROVE  /\ Typed(st2) /\ Held(st2) /\ Ahead(st2) /\ SameLink(st, st2)
         /\ \A b \in Int : CountRight(st, b) => CountRight(st2, b)
<1>1. Good(st2) /\ Keeps(st, st2) /\ Ahead(st2)
  BY Schedule DEF Held
<1> QED BY <1>1, BroadcastChange

LEMMA Suggested ==
  ASSUME NEW st, Typed(st), Held(st), NEW f \in propose(st)
  PROVE  /\ Typed(f.st) /\ Held(f.st) /\ SameLink(st, f.st)
         /\ \A b \in Int : CountRight(st, b) => CountRight(f.st, b)
         /\ f.proposals \subseteq Offers
         /\ f.proposals # {} => f.expected \in Slots
         /\ f = [st |-> f.st, proposals |-> f.proposals, expected |-> f.expected]
<1>1. /\ st \in UserStates /\ st.slot \in Slots /\ st.proposals \subseteq Offers
      /\ st.advertised \in Slots \cup {NONE}
  BY DEF Typed, UserStates
<1>2. ASSUME NEW st2, NEW m \in Nat, f = Found(st2, m)
      PROVE  /\ f.st = st2 /\ f.proposals \subseteq Offers
             /\ f.proposals # {} => f.expected \in Slots
             /\ f = [st |-> f.st, proposals |-> f.proposals, expected |-> f.expected]
  <2>1. /\ f.st = st2 /\ f.proposals = findLinkProposals(st2.tables, m) /\ f.expected = m
        /\ f = [st |-> f.st, proposals |-> f.proposals, expected |-> f.expected]
    BY <1>2 DEF Found
  <2>2. \A p \in f.proposals : p \in Offers /\ m =< p.slot /\ p.slot \in Slots
    BY <2>1, Proposed DEF Offers, Proposals
  <2>3. ASSUME NEW p \in f.proposals PROVE m \in Slots
    <3>1. m =< p.slot /\ p.slot \in Slots
      BY <2>2
    <3> QED BY <3>1, HorizonAssumption DEF Slots
  <2> QED BY <2>1, <2>2, <2>3
<1>3. CASE f \in proposeRemoteLinks(st) /\ st.advertised # NONE
  <2>1. PICK p \in st.proposals : f = [st |-> st, proposals |-> {p}, expected |-> st.advertised]
    BY <1>3 DEF proposeRemoteLinks
  <2>2. f.st = st /\ f.proposals = {p} /\ f.expected = st.advertised
    BY <2>1
  <2> QED BY <1>1, <1>3, <2>1, <2>2 DEF SameLink
<1>4. CASE f \in proposeLocalLinks(st) /\ st.advertised # NONE
  <2>1. f = Found(st, st.advertised + 1)
    BY <1>4 DEF proposeLocalLinks
  <2>2. st.advertised + 1 \in Nat
    BY <1>1, <1>4, HorizonAssumption DEF Slots
  <2> QED BY <1>2, <2>1, <2>2 DEF SameLink
<1>5. CASE f \in proposeLocalLinks(st) /\ st.advertised = NONE
  <2>1. PICK next \in IF st.slot = 0 THEN scheduleBroadcastSlot(st) ELSE {st} : f = Found(next, next.slot)
    BY <1>5 DEF proposeLocalLinks
  <2>2. /\ Typed(next) /\ Held(next) /\ SameLink(st, next)
        /\ \A b \in Int : CountRight(st, b) => CountRight(next, b)
    BY <2>1, Rescheduled DEF SameLink
  <2>3. next.slot \in Nat
    BY <2>2, ZeroSlot DEF Held, Good
  <2> QED BY <1>2, <2>1, <2>2, <2>3
<1> QED BY <1>3, <1>4, <1>5 DEF propose

(* The slots of a request are locked where nothing else holds them. *)
LEMMA Locked ==
  ASSUME NEW st, Typed(st), Held(st), st.link_status = "awaiting_reply",
         st.link_requests = << >>, st.link_replies = << >>,
         st.locked_resources = {}, st.scheduled_resources = {},
         \A t \in Tables, s \in Slots : s > 0 => ~IsLocked(st.tables[t][s]),
         st.failed = "none", NEW proposals \in SUBSET Offers
  PROVE  LET k == lockProposedResources(st, proposals)
         IN  /\ Typed(k) /\ k.mac_id = st.mac_id
             /\ k.link_status = "awaiting_reply" /\ k.link_replies = << >>
             /\ k.failed = "none" => Held(k)
<1> DEFINE tx       == UNION {{p.channel} \X TxBursts(p.slot) : p \in proposals}
           rx       == UNION {{p.channel} \X RxBursts(p.slot) : p \in proposals}
           toLock   == tx \cup rx \cup {<<TxTable, e[2]>> : e \in tx}
           receiver(s) == {x \in RxTables : CanLock(st.tables[x][s])}
           taken    == {<<CHOOSE x \in receiver(e[2]) : TRUE, e[2]>> :
                          e \in {r \in rx : receiver(r[2]) # {}}}
           new      == [t \in Tables |-> [s \in Slots |->
                          IF <<t, s>> \in toLock THEN Res("LOCKED", st.link_id) ELSE st.tables[t][s]]]
           cannot   == \/ \E e \in toLock : \/ ~CanLock(st.tables[e[1]][e[2]])
                                            \/ LockMismatch(st.tables[e[1]][e[2]], st.link_id)
                       \/ \E e \in rx : receiver(e[2]) = {}
           failed   == IF cannot THEN "cannot_lock" ELSE st.failed
           locked   == st.locked_resources \cup toLock \cup taken
           k        == lockProposedResources(st, proposals)
<1>1. /\ st \in UserStates /\ st.link_id \in Users /\ st.tables \in TB
      /\ st.failed \in Failures /\ st.locked_resources \in SUBSET Entries
  BY DEF Typed, UserStates, TB
<1>2. k = [st EXCEPT !.tables = new, !.locked_resources = locked, !.failed = failed]
  <2>1. k = [st EXCEPT !.tables = new, !.locked_resources = @ \cup toLock \cup taken,
                       !.failed = IF cannot THEN "cannot_lock" ELSE @]
    BY DEF lockProposedResources
  <2> HIDE DEF k, new, toLock, taken, cannot
  <2> QED BY <1>1, <2>1 DEF UserStates
<1>3. tx \subseteq PP \X Slots /\ rx \subseteq PP \X Slots
  <2>1. \A p \in proposals : p.channel \in PP /\ p.slot \in Nat /\ InHorizon(p.slot)
    BY ZeroSlot DEF Offers, Proposals
  <2>2. \A p \in proposals : TxBursts(p.slot) \subseteq Slots /\ RxBursts(p.slot) \subseteq Slots
    BY <2>1, BurstSlots
  <2> QED BY <2>1, <2>2
<1> HIDE DEF tx, rx
<1>4. /\ toLock \subseteq (PP \cup {TxTable}) \X Slots /\ toLock \subseteq Entries
  <2>1. \A e \in tx : e[2] \in Slots
    BY <1>3, EntryIs
  <2>2. toLock \subseteq (PP \cup {TxTable}) \X Slots
    BY <1>3, <2>1
  <2> QED BY <2>2, Disjoint DEF Entries
<1>5. taken \subseteq Entries
  <2>1. ASSUME NEW e \in rx, receiver(e[2]) # {}
        PROVE  <<CHOOSE x \in receiver(e[2]) : TRUE, e[2]>> \in Entries
    <3> DEFINE x0 == CHOOSE x \in receiver(e[2]) : TRUE
    <3>1. x0 \in receiver(e[2])
      BY <2>1
    <3>2. x0 \in Tables
      BY <3>1, Disjoint
    <3>3. e[2] \in Slots
      BY <1>3, EntryIs
    <3> HIDE DEF x0
    <3>4. <<x0, e[2]>> \in Entries
      BY <3>2, <3>3 DEF Entries
    <3> QED BY <3>4 DEF x0
  <2> QED BY <2>1
<1>6. /\ new \in TB
      /\ \A t \in Tables, s \in Slots :
           new[t][s] = IF <<t, s>> \in toLock THEN Res("LOCKED", st.link_id) ELSE st.tables[t][s]
  <2>1. Res("LOCKED", st.link_id) \in Reservation
    BY <1>1, Pair DEF Res, Reservation, Actions
  <2> HIDE DEF toLock
  <2> QED BY <1>1, <2>1 DEF TB
<1>7. ~cannot => \A e \in toLock : CanLock(st.tables[e[1]][e[2]])
  OBVIOUS
<1>8. failed \in Failures /\ locked \in SUBSET Entries
  <2> HIDE DEF cannot, toLock, taken
  <2> QED BY <1>1, <1>4, <1>5 DEF Failures
<1>9. failed = "none" => ~cannot
  OBVIOUS
<1>10. toLock \subseteq locked
  OBVIOUS
<1> HIDE DEF k, new, locked, failed, cannot, toLock, taken
<1>11. /\ k \in UserStates /\ k.mac_id = st.mac_id /\ k.link_id = st.link_id
       /\ k.tables = new /\ k.locked_resources = locked /\ k.failed = failed
       /\ k.slot = st.slot /\ k.scheduled = st.scheduled /\ k.proposals = st.proposals
       /\ k.link_status = "awaiting_reply" /\ k.scheduled_resources = {}
       /\ k.link_requests = << >> /\ k.link_replies = << >>
  <2>1. new \in [Tables -> [Slots -> Reservation]]
    BY <1>6 DEF TB
  <2>2. k \in UserStates
    BY <1>1, <1>2, <1>8, <2>1 DEF UserStates
  <2> QED BY <1>1, <1>2, <2>2 DEF UserStates
<1>12. Typed(k)
  BY <1>11 DEF Typed
<1>13. ASSUME ~cannot PROVE Held(k)
  <2> DEFINE lock == Res("LOCKED", st.link_id)
  <2>1. lock.action = "LOCKED" /\ lock.target = st.link_id
    BY DEF Res
  <2> HIDE DEF lock
  <2>2. \A t \in Tables, s \in Slots :
          \/ <<t, s>> \notin toLock /\ new[t][s] = st.tables[t][s]
          \/ /\ <<t, s>> \in toLock /\ new[t][s] = lock
             /\ st.tables[t][s].action \in {"IDLE", "LOCKED"}
    <3> SUFFICES ASSUME NEW t \in Tables, NEW s \in Slots, <<t, s>> \in toLock
                 PROVE  new[t][s] = lock /\ st.tables[t][s].action \in {"IDLE", "LOCKED"}
      BY <1>6
    <3>1. CanLock(st.tables[t][s])
      <4> DEFINE e == <<t, s>>
      <4>1. e \in toLock /\ e[1] = t /\ e[2] = s
        OBVIOUS
      <4> HIDE DEF e
      <4> QED BY <1>7, <1>13, <4>1
    <3> QED BY <3>1, <1>6 DEF CanLock, IsIdle, IsLocked, lock
  <2>3. \A t \in Tables, s \in Slots :
          /\ IsTx(new[t][s]) <=> IsTx(st.tables[t][s])
          /\ IsBusy(new[t][s]) => IsBusy(st.tables[t][s])
    BY <2>1, <2>2 DEF IsTx, IsBusy
  <2>4. OneTx(new)
    BY <2>3, Disjoint DEF Held, Good, OneTx
  <2>5. HardwareNeverBusy(new)
    BY <2>3, Disjoint DEF Held, Good, HardwareNeverBusy
  <2>6. \A s \in Slots : new[SH][s] = st.tables[SH][s]
    <3>1. \A s \in Slots : <<SH, s>> \notin toLock
      BY <1>4, Disjoint
    <3> QED BY <3>1, <1>6, Disjoint
  <2>7. Good(k)
    <3>1. Shaped(k)
      BY <1>11 DEF Shaped, UserStates, Fields
    <3> QED BY <1>6, <1>11, <2>4, <2>5, <2>6, <3>1
            DEF Held, Good, SharedOnlyTxRx, ReservedAt
  <2>8. LocksRight(k)
    <3>1. \A t \in Tables, s \in Slots :
            s > 0 /\ IsLocked(new[t][s]) => <<t, s>> \in toLock /\ new[t][s] = lock
      BY <2>2
    <3> QED BY <1>10, <1>11, <2>1, <3>1 DEF LocksRight
  <2>9. BurstsRight(k)
    <3>1. ASSUME NEW c \in PP, NEW s \in Slots, s > 0, Burst(k, c, s) PROVE FALSE
      <4>1. new[c][s] # lock
        BY <3>1, <1>11, <2>1 DEF Burst
      <4>2. Burst(st, c, s)
        BY <3>1, <1>11, <2>2, <4>1, Disjoint DEF Burst
      <4> QED BY <3>1, <4>2 DEF Held, BurstsRight
    <3> QED BY <1>11, <3>1 DEF BurstsRight
  <2>10. QueuesRight(k)
    BY <1>11 DEF QueuesRight
  <2> QED BY <2>7, <2>8, <2>9, <2>10 DEF Held
<1> QED BY <1>9, <1>11, <1>12, <1>13 DEF k

(* What a handler makes of a user, if it does not throw *)
Result(st, st2) ==
  /\ Typed(st2) /\ st2.mac_id = st.mac_id
  /\ st2.failed = "none" => Held(st2) /\ CountRight(st2, -1)

LEMMA RequestSent ==
  ASSUME NEW f, Typed(f.st), Held(f.st), CountRight(f.st, -1),
         f.proposals \subseteq Offers, f.proposals # {} => f.expected \in Slots,
         f = [st |-> f.st, proposals |-> f.proposals, expected |-> f.expected]
  PROVE  /\ Result(f.st, Requested(f).st)
         /\ Requested(f).proposals \subseteq Offers
<1> DEFINE st == f.st
           c  == cancelLink(st)
           n  == notifyLinkRequestSent(st, f.expected)
           k  == lockProposedResources(n, f.proposals)
<1>1. CASE f.proposals = {} \/ st.failed # "none"
  <2>1. Requested(f).st = st /\ Requested(f).proposals = {}
    BY <1>1 DEF Requested
  <2> QED BY <2>1 DEF Result
<1>2. CASE ~(f.proposals = {} \/ st.failed # "none")
  <2>1. Requested(f).st = k /\ Requested(f).proposals = f.proposals
    BY <1>2 DEF Requested
  <2>2. /\ Returns(st, c) /\ c.link_status = "link_not_established"
        /\ c.locked_resources = {} /\ c.scheduled_resources = {}
        /\ c.link_requests = << >> /\ c.link_replies = << >>
    BY Cancelled
  <2>3. n = [c EXCEPT !.link_status = "awaiting_reply", !.timeout = Timeout, !.expected = f.expected]
    BY DEF notifyLinkRequestSent
  <2>4. c \in UserStates /\ f.expected \in Slots /\ Timeout \in 0 .. Timeout
    BY <1>2, <2>2, BurstsAssumption DEF Returns, Typed
  <2> HIDE DEF c, n
  <2>5. /\ n \in UserStates /\ Own(c, n) /\ SameSlots(c, n)
        /\ n.link_status = "awaiting_reply"
        /\ n.locked_resources = {} /\ n.scheduled_resources = {}
        /\ n.link_requests = << >> /\ n.link_replies = << >>
    <3>1. n \in UserStates
      BY <2>3, <2>4 DEF UserStates, Statuses
    <3> QED BY <2>2, <2>3, <2>4, <3>1 DEF UserStates, Own, SameSlots
  <2>6. QueuesRight(n) /\ \A i \in DOMAIN n.link_replies : InHorizon(n.link_replies[i].slot)
    BY <2>5 DEF QueuesRight
  <2>7. Typed(n) /\ Held(n)
    BY <2>2, <2>5, <2>6, StillHeld DEF Returns
  <2>8. \A t \in Tables, s \in Slots : s > 0 => ~IsLocked(n.tables[t][s])
    BY <2>2, <2>5 DEF Returns, Held, LocksRight, SameSlots
  <2>9. n.failed = "none" /\ n.mac_id = st.mac_id
    BY <1>2, <2>2, <2>5 DEF Returns, Own
  <2>10. /\ Typed(k) /\ k.mac_id = n.mac_id /\ k.link_status = "awaiting_reply"
         /\ k.failed = "none" => Held(k)
    BY <2>5, <2>7, <2>8, <2>9, Locked
  <2> HIDE DEF k
  <2> QED BY <2>1, <2>9, <2>10 DEF Result, CountRight
<1> QED BY <1>1, <1>2

(* The broadcast that a user sends, and its state afterwards *)
LEMMA Transmitted ==
  ASSUME NEW st, Typed(st), Held(st), CountRight(st, -1),
         NEW r \in onTransmissionReservation(st)
  PROVE  /\ Result(st, r.st) /\ Ahead(r.st)
         /\ PacketRight(r.packet)
<1> DEFINE requested == IF st.link_requests # << >>
                        THEN {Requested(f) : f \in propose(st)}
                        ELSE {[st |-> st, proposals |-> {}]}
           Sends(st1, proposals) ==
             [packet |-> Header(st1, proposals),
              st |-> [Sent(st1) EXCEPT !.failed = IF @ = "none" /\ UtilizationThrows(st1)
                                                  THEN "no_next_tx" ELSE @]]
<1>1. PICK g \in requested : \E st1 \in ScheduledNext(g.st) : r = Sends(st1, g.proposals)
  BY DEF onTransmissionReservation
<1>2. PICK st1 \in ScheduledNext(g.st) : r = Sends(st1, g.proposals)
  BY <1>1
<1>3. Result(st, g.st) /\ g.proposals \subseteq Offers
  <2>1. CASE st.link_requests # << >>
    <3>1. PICK f \in propose(st) : g = Requested(f)
      BY <1>1, <2>1
    <3>2. /\ Typed(f.st) /\ Held(f.st) /\ SameLink(st, f.st)
          /\ CountRight(st, -1) => CountRight(f.st, -1)
          /\ f.proposals \subseteq Offers
          /\ f.proposals # {} => f.expected \in Slots
          /\ f = [st |-> f.st, proposals |-> f.proposals, expected |-> f.expected]
      BY Suggested
    <3>3. Result(f.st, Requested(f).st) /\ Requested(f).proposals \subseteq Offers
      BY <3>2, RequestSent
    <3> QED BY <3>1, <3>2, <3>3 DEF Result, SameLink
  <2>2. CASE st.link_requests = << >>
    <3>1. g.st = st /\ g.proposals = {}
      BY <1>1, <2>2
    <3> QED BY <3>1 DEF Result
  <2> QED BY <2>1, <2>2
<1>4. Result(st, st1) /\ Ahead(st1)
  <2>1. CASE g.st.slot = 0 /\ g.st.failed = "none"
    <3>1. st1 \in scheduleBroadcastSlot(g.st)
      BY <1>2, <2>1 DEF ScheduledNext
    <3>2. Typed(g.st) /\ Held(g.st) /\ CountRight(g.st, -1)
      BY <1>3, <2>1 DEF Result
    <3>3. /\ Typed(st1) /\ Held(st1) /\ Ahead(st1) /\ SameLink(g.st, st1)
          /\ CountRight(g.st, -1) => CountRight(st1, -1)
      BY <3>1, <3>2, Rescheduled
    <3> QED BY <1>3, <3>2, <3>3 DEF Result, SameLink
  <2>2. CASE ~(g.st.slot = 0 /\ g.st.failed = "none")
    <3>1. st1 = g.st
      BY <1>2, <2>2 DEF ScheduledNext
    <3>2. g.st.slot \in Slots
      BY <1>3 DEF Result, Typed, UserStates
    <3>3. g.st.failed = "none" => g.st.slot > 0
      BY <2>2, <3>2, HorizonAssumption DEF Slots
    <3> QED BY <1>3, <3>1, <3>3 DEF Ahead
  <2> QED BY <2>1, <2>2
<1> HIDE DEF requested
<1>5. /\ st1 \in UserStates /\ st1.link_replies \in Seq(Replies) /\ st1.slot \in Slots
      /\ st1.failed \in Failures
      /\ \A i \in DOMAIN st1.link_replies : InHorizon(st1.link_replies[i].slot)
  BY <1>4 DEF Result, Typed, UserStates
<1>6. PacketRight(r.packet)
  <2> DEFINE reply     == IF st1.link_replies = << >> THEN NONE ELSE Head(st1.link_replies)
             proposals == findLinkProposals(st1.tables, st1.slot)
  <2>1. r.packet = [slot |-> st1.slot, requests |-> g.proposals, reply |-> reply,
                    proposals |-> proposals]
    BY <1>2 DEF Header
  <2>2. proposals \subseteq Offers
    BY <1>5, Proposed, ZeroSlot
  <2>3. reply \in Replies \cup {NONE} /\ (reply # NONE => InHorizon(reply.slot))
    <3>1. CASE st1.link_replies = << >>
      BY <3>1
    <3>2. CASE st1.link_replies # << >>
      <4>1. Head(st1.link_replies) = st1.link_replies[1] /\ 1 \in DOMAIN st1.link_replies
        BY <1>5, <3>2
      <4>2. Head(st1.link_replies) \in Replies
        BY <1>5, <3>2
      <4> QED BY <1>5, <3>2, <4>1, <4>2
    <3> QED BY <3>1, <3>2
  <2> HIDE DEF reply, proposals
  <2> QED BY <1>3, <1>5, <2>1, <2>2, <2>3 DEF PacketRight, Packets, Offers, Proposals
<1> DEFINE replies == IF st1.link_replies = << >> THEN st1.link_replies ELSE Tail(st1.link_replies)
           failed  == IF st1.failed = "none" /\ UtilizationThrows(st1) THEN "no_next_tx" ELSE st1.failed
<1>7. r.st = [st1 EXCEPT !.link_replies = replies, !.failed = failed]
  <2>1. r.st = [Sent(st1) EXCEPT !.failed = IF @ = "none" /\ UtilizationThrows(st1)
                                            THEN "no_next_tx" ELSE @]
    BY <1>2
  <2>2. Sent(st1) = [st1 EXCEPT !.link_replies = replies]
    BY DEF Sent
  <2> HIDE DEF replies
  <2> QED BY <1>5, <2>1, <2>2 DEF UserStates
<1>8. /\ replies \in Seq(Replies) /\ failed \in Failures
      /\ failed = "none" => st1.failed = "none"
      /\ \A i \in DOMAIN replies : InHorizon(replies[i].slot)
  <2>1. failed \in Failures /\ (failed = "none" => st1.failed = "none")
    BY <1>5 DEF Failures
  <2>2. CASE st1.link_replies = << >>
    BY <1>5, <2>1, <2>2
  <2>3. CASE st1.link_replies # << >>
    <3>1. replies = Tail(st1.link_replies) /\ replies \in Seq(Replies)
      BY <1>5, <2>3
    <3>2. ASSUME NEW i \in DOMAIN replies PROVE InHorizon(replies[i].slot)
      <4>1. i + 1 \in DOMAIN st1.link_replies /\ replies[i] = st1.link_replies[i + 1]
        BY <1>5, <2>3, <3>1
      <4> QED BY <1>5, <4>1
    <3> QED BY <2>1, <3>1, <3>2
  <2> QED BY <2>2, <2>3
<1>9. st1.failed = "none" => replies = << >>
  BY <1>4, <1>5 DEF Result, Held, QueuesRight
<1> HIDE DEF replies, failed
<1>10. /\ r.st \in UserStates /\ r.st.failed = failed /\ r.st.link_replies = replies
       /\ r.st.mac_id = st1.mac_id /\ r.st.link_id = st1.link_id
       /\ r.st.slot = st1.slot /\ r.st.scheduled = st1.scheduled
       /\ r.st.advertised = st1.advertised /\ r.st.proposals = st1.proposals
       /\ r.st.tables = st1.tables /\ r.st.timeout = st1.timeout
       /\ r.st.locked_resources = st1.locked_resources
       /\ r.st.scheduled_resources = st1.scheduled_resources
       /\ r.st.link_status = st1.link_status /\ r.st.link_requests = st1.link_requests
       /\ r.st.is_link_initiator = st1.is_link_initiator
  <2>1. st1 \in UserStates
    BY <1>5
  <2>2. PICK x : x = r.st
    OBVIOUS
  <2>3. x = [st1 EXCEPT !.link_replies = replies, !.failed = failed]
    BY <1>7, <2>2
  <2>4. /\ x \in UserStates /\ x.failed = failed /\ x.link_replies = replies
        /\ x.mac_id = st1.mac_id /\ x.link_id = st1.link_id
        /\ x.slot = st1.slot /\ x.scheduled = st1.scheduled
        /\ x.advertised = st1.advertised /\ x.proposals = st1.proposals
        /\ x.tables = st1.tables /\ x.timeout = st1.timeout
        /\ x.locked_resources = st1.locked_resources
        /\ x.scheduled_resources = st1.scheduled_resources
        /\ x.link_status = st1.link_status /\ x.link_requests = st1.link_requests
        /\ x.is_link_initiator = st1.is_link_initiator
    BY <1>8, <2>1, <2>3 DEF UserStates
  <2> QED BY <2>2, <2>4
<1>11. Typed(r.st)
  BY <1>4, <1>8, <1>10 DEF Typed, Result
<1>12. ASSUME failed = "none" PROVE Held(r.st) /\ CountRight(r.st, -1)
  <2>1. Typed(st1) /\ Held(st1) /\ CountRight(st1, -1) /\ st1.failed = "none" /\ replies = << >>
    BY <1>4, <1>8, <1>9, <1>12 DEF Result
  <2>2. Own(st1, r.st) /\ SameSlots(st1, r.st)
    BY <1>10, <1>12, <2>1 DEF Own, SameSlots
  <2>3. QueuesRight(r.st)
    BY <1>10, <2>1 DEF Held, QueuesRight
  <2>4. Held(r.st)
    BY <1>8, <1>10, <2>1, <2>2, <2>3, StillHeld
  <2>5. CountRight(r.st, -1)
    BY <1>10, <2>1 DEF CountRight, Ending
  <2> QED BY <2>4, <2>5
<1>13. Ahead(r.st)
  BY <1>4, <1>8, <1>10 DEF Ahead
<1> QED BY <1>4, <1>6, <1>10, <1>11, <1>12, <1>13 DEF Result

(* What the handlers that receive a broadcast make of a user *)
RightTo(st, st2, b) ==
  /\ Typed(st2) /\ st2.mac_id = st.mac_id /\ Ahead(st2)
  /\ st2.failed = "none" => Held(st2) /\ CountRight(st2, b)

Right(st, st2) == RightTo(st, st2, -1)

LEMMA RequestsProcessed ==
  ASSUME NEW st, Right(st, st), st.failed = "none",
         NEW requests \in SUBSET Offers, NEW conformant,
         NEW st2 \in processLinkRequests(st, requests, conformant)
  PROVE  Right(st, st2)
<1> DEFINE acceptable == {p \in requests :
                            /\ p.slot > st.slot
                            /\ conformant
                            /\ isLinkValid(st.tables, p.channel, p.slot, FALSE)}
           earliest   == {p \in acceptable : \A q \in acceptable : p.slot =< q.slot}
           Reply(p)   == [channel |-> p.channel, slot |-> p.slot - st.slot, due |-> st.slot,
                          dest |-> st.link_id]
<1>1. Typed(st) /\ Held(st) /\ CountRight(st, -1) /\ Ahead(st) /\ st.slot \in Slots /\ st.link_id \in Users
  <2>1. Typed(st) /\ Held(st) /\ CountRight(st, -1) /\ Ahead(st)
    BY DEF Right, RightTo
  <2> QED BY <2>1 DEF Typed, UserStates
<1>2. CASE requests = {}
  BY <1>2 DEF processLinkRequests
<1>3. CASE requests # {} /\ acceptable = {}
  <2>1. st2 = notifyOutgoing(st)
    BY <1>3 DEF processLinkRequests
  <2>2. /\ Typed(st2) /\ Held(st2) /\ Own(st, st2)
        /\ st.link_status = "link_not_established" => Returns(st, st2)
        /\ st.link_status # "link_not_established" => st2 = st
    BY <1>1, <2>1, Notified
  <2>3. CountRight(st2, -1)
    BY <1>1, <2>2 DEF Returns, CountRight
  <2> QED BY <1>1, <2>2, <2>3 DEF Right, RightTo, Own, Ahead
<1>4. CASE requests # {} /\ acceptable # {}
  <2>1. PICK p \in earliest : st2 = [acceptLink(st, p, TRUE) EXCEPT !.link_replies = Append(@, Reply(p))]
    BY <1>4 DEF processLinkRequests
  <2>2. /\ p.channel \in PP /\ p.slot \in Slots /\ InHorizon(p.slot) /\ p.slot > st.slot
    BY DEF Offers, Proposals
  <2> DEFINE a == acceptLink(st, p, TRUE)
             b == TRUE
  <2>3. /\ Accepts(st, a) /\ a.link_replies = << >>
        /\ a.is_link_initiator = FALSE
    <3>1. Accepts(st, a) /\ a.link_replies = << >> /\ a.is_link_initiator = ~TRUE
      <4>1. b \in BOOLEAN
        OBVIOUS
      <4>2. Accepts(st, acceptLink(st, p, b)) /\ acceptLink(st, p, b).link_replies = << >>
            /\ acceptLink(st, p, b).is_link_initiator = ~b
        <5> HIDE DEF b, a
        <5> QED BY <1>1, <2>2, <4>1, Accepted
      <4> QED BY <4>2
    <3> QED BY <3>1
  <2>4. Reply(p) \in Replies /\ InHorizon(Reply(p).slot) /\ Reply(p).dest = st.link_id
    <3>1. p.slot - st.slot \in Slots /\ p.slot - st.slot =< p.slot /\ st.slot \in Int
      BY <1>1, <2>2, HorizonAssumption DEF Slots
    <3>2. InHorizon(p.slot - st.slot)
      <4> DEFINE x == p.slot
                 y == p.slot - st.slot
                 last == (2 * Timeout - 1) * Increment
      <4>1. x \in Int /\ y \in Int /\ y =< x /\ Horizon \in Int
        BY <2>2, <3>1, HorizonAssumption DEF Slots
      <4>2. last \in Int
        BY BurstsAssumption
      <4>3. x + last =< Horizon
        BY <2>2 DEF InHorizon, LastBurst
      <4> HIDE DEF x, y, last
      <4>4. y + last =< Horizon
        BY <4>1, <4>2, <4>3
      <4> QED BY <4>4 DEF InHorizon, LastBurst, x, y, last
    <3> QED BY <1>1, <2>2, <3>1, <3>2 DEF Replies
  <2> HIDE DEF a, Reply
  <2> DEFINE r == Reply(p)
  <2>5. st2 = [a EXCEPT !.link_replies = << r >>]
    <3>1. st2 = [a EXCEPT !.link_replies = Append(@, r)]
      BY <2>1 DEF a
    <3>2. a \in UserStates
      BY <2>3 DEF Accepts, Typed
    <3> HIDE DEF r
    <3> QED BY <2>3, <3>1, <3>2 DEF UserStates
  <2>6. << r >> \in Seq(Replies) /\ a \in UserStates
    BY <2>3, <2>4 DEF Accepts, Typed
  <2> HIDE DEF r
  <2>7. /\ st2 \in UserStates /\ Own(a, st2) /\ SameSlots(a, st2)
        /\ st2.link_status = "link_established" /\ st2.is_link_initiator = FALSE
        /\ st2.link_requests = a.link_requests /\ st2.link_replies = << r >>
        /\ st2.timeout = a.timeout
    BY <2>3, <2>5, <2>6 DEF UserStates, Own, SameSlots, Accepts
  <2>8. QueuesRight(st2) /\ \A i \in DOMAIN st2.link_replies : InHorizon(st2.link_replies[i].slot)
    <3>1. Len(<< r >>) = 1 /\ << r >>[1] = r /\ \A i \in DOMAIN << r >> : << r >>[i] = r
      OBVIOUS
    <3>2. a.link_requests = << >> /\ st2.link_id = st.link_id
      BY <2>3, <2>7 DEF Accepts, Held, QueuesRight, Own
    <3> QED BY <2>4, <2>7, <3>1, <3>2 DEF QueuesRight, r
  <2>9. Typed(st2) /\ Held(st2)
    BY <2>3, <2>7, <2>8, StillHeld DEF Accepts
  <2>10. CountRight(st2, -1)
    <3>1. Ending(st2) = Ending(a) /\ st2.scheduled_resources = a.scheduled_resources
      BY <2>3, <2>7 DEF Ending, SameSlots
    <3> QED BY <2>3, <2>7, <3>1 DEF CountRight, Accepts
  <2>11. Ahead(st2) /\ st2.mac_id = st.mac_id
    BY <1>1, <2>3, <2>7 DEF Ahead, Accepts, Own
  <2> QED BY <2>9, <2>10, <2>11 DEF Right, RightTo
<1> QED BY <1>2, <1>3, <1>4

LEMMA ReplyProcessed ==
  ASSUME NEW st, Right(st, st), NEW reply,
         reply # NONE => reply \in Replies /\ InHorizon(reply.slot),
         NEW conformant
  PROVE  Right(st, processLinkReply(st, reply, conformant))
<1>1. CASE reply = NONE \/ reply.dest # st.mac_id \/ ~conformant \/ st.failed # "none"
  BY <1>1 DEF processLinkReply
<1>2. CASE ~(reply = NONE \/ reply.dest # st.mac_id \/ ~conformant \/ st.failed # "none")
  <2>1. Typed(st) /\ Held(st) /\ Ahead(st)
    BY <1>2 DEF Right, RightTo
  <2>2. reply.channel \in PP /\ reply.slot \in Slots /\ InHorizon(reply.slot)
    BY <1>2 DEF Replies
  <2> DEFINE b == FALSE
             a == acceptLink(st, reply, b)
             l == reply.due # 0
             x == [a EXCEPT !.late = l]
  <2>3. processLinkReply(st, reply, conformant) = x
    BY <1>2 DEF processLinkReply
  <2>4. Accepts(st, a) /\ a.link_replies = << >>
    <3>1. b \in BOOLEAN
      OBVIOUS
    <3> HIDE DEF b
    <3> QED BY <2>1, <2>2, <3>1, Accepted
  <2>5. l \in BOOLEAN /\ a \in UserStates
    BY <2>4 DEF Accepts, Typed
  <2> HIDE DEF a, l
  <2>6. /\ x \in UserStates /\ Own(a, x) /\ SameSlots(a, x)
        /\ x.link_status = a.link_status /\ x.is_link_initiator = a.is_link_initiator
        /\ x.link_requests = a.link_requests /\ x.link_replies = << >>
        /\ x.timeout = a.timeout
    BY <2>4, <2>5 DEF UserStates, Own, SameSlots
  <2> HIDE DEF x
  <2>7. QueuesRight(x) /\ \A i \in DOMAIN x.link_replies : InHorizon(x.link_replies[i].slot)
    BY <2>4, <2>6 DEF Accepts, Held, QueuesRight, Own
  <2>8. Typed(x) /\ Held(x)
    BY <2>4, <2>6, <2>7, StillHeld DEF Accepts
  <2>9. CountRight(x, -1)
    <3>1. Ending(x) = Ending(a) /\ x.scheduled_resources = a.scheduled_resources
      BY <2>4, <2>6 DEF Ending, SameSlots
    <3> QED BY <2>4, <2>6, <3>1 DEF CountRight, Accepts
  <2>10. Ahead(x) /\ x.mac_id = st.mac_id
    BY <2>1, <2>4, <2>6 DEF Ahead, Accepts, Own
  <2> QED BY <2>3, <2>8, <2>9, <2>10 DEF Right, RightTo
<1> QED BY <1>1, <1>2

(* Somebody's advertised slot is expected *)
LEMMA SlotExpected ==
  ASSUME NEW st, Right(st, st), st.failed = "none",
         NEW s \in Slots, NEW id \in UserIds, NEW st2 \in checkAdvertisedSlot(st, id, s)
  PROVE  Right(st, st2)
<1>1. Typed(st) /\ Held(st) /\ Ahead(st) /\ CountRight(st, -1) /\ Good(st)
  BY DEF Right, RightTo, Held
<1>2. Good(st2) /\ Keeps(st, st2) /\ Ahead(st2)
  BY <1>1, AdvertisedSlot
<1>3. /\ Typed(st2) /\ Held(st2) /\ SameLink(st, st2)
      /\ CountRight(st, -1) => CountRight(st2, -1)
  BY <1>1, <1>2, BroadcastChange
<1> QED BY <1>1, <1>2, <1>3 DEF Right, RightTo, SameLink

(* What the NeighborObserver notes of the peer *)
LEMMA Noted ==
  ASSUME NEW st, NEW b, RightTo(st, st, b), NEW a \in Slots \cup {NONE}, NEW proposals \in SUBSET Offers
  PROVE  /\ RightTo(st, [st EXCEPT !.advertised = a], b)
         /\ RightTo(st, [st EXCEPT !.proposals = proposals], b)
         /\ [st EXCEPT !.advertised = a].link_id = st.link_id
         /\ [st EXCEPT !.advertised = a].failed = st.failed
<1>1. st \in UserStates /\ proposals \subseteq Proposals
  BY DEF RightTo, Typed, Offers, Proposals
<1>2. ASSUME NEW x, x = [st EXCEPT !.advertised = a] \/ x = [st EXCEPT !.proposals = proposals]
      PROVE  RightTo(st, x, b) /\ x.link_id = st.link_id /\ x.failed = st.failed
  <2>1. /\ x \in UserStates /\ x.proposals \in {st.proposals, proposals}
        /\ x.mac_id = st.mac_id /\ x.link_id = st.link_id /\ x.failed = st.failed
        /\ x.slot = st.slot /\ x.scheduled = st.scheduled
        /\ x.tables = st.tables /\ x.timeout = st.timeout
        /\ x.locked_resources = st.locked_resources
        /\ x.scheduled_resources = st.scheduled_resources
        /\ x.link_status = st.link_status /\ x.is_link_initiator = st.is_link_initiator
        /\ x.link_requests = st.link_requests /\ x.link_replies = st.link_replies
    <3>1. CASE x = [st EXCEPT !.advertised = a]
      BY <1>1, <3>1 DEF UserStates
    <3>2. CASE x = [st EXCEPT !.proposals = proposals]
      BY <1>1, <3>2 DEF UserStates
    <3> QED BY <1>2, <3>1, <3>2
  <2>2. Typed(x)
    BY <2>1 DEF Typed, RightTo
  <2>3. Ahead(x)
    BY <2>1 DEF Ahead, RightTo
  <2>4. ASSUME x.failed = "none" PROVE Held(x) /\ CountRight(x, b)
    <3>1. Held(st) /\ CountRight(st, b)
      BY <2>1, <2>4 DEF RightTo
    <3>2. Good(x)
      <4>1. Shaped(x)
        BY <2>1 DEF Shaped, UserStates, Fields
      <4> QED BY <2>1, <3>1, <4>1 DEF Held, Good
    <3>3. LocksRight(x) /\ BurstsRight(x) /\ QueuesRight(x)
      BY <2>1, <3>1 DEF Held, LocksRight, BurstsRight, QueuesRight, Burst
    <3>4. CountRight(x, b)
      BY <2>1, <3>1 DEF CountRight, Ending
    <3> QED BY <3>2, <3>3, <3>4 DEF Held
  <2> QED BY <2>1, <2>2, <2>3, <2>4 DEF RightTo
<1> QED BY <1>2

LEMMA MessageProcessed ==
  ASSUME NEW st, Right(st, st), st.failed = "none", NEW p, PacketRight(p), NEW conformant,
         NEW st2 \in processBroadcastMessage(st, p, conformant)
  PROVE  Right(st, st2)
<1> DEFINE told  == [st EXCEPT !.advertised = p.slot]
           heard == checkAdvertisedSlot(told, st.link_id, p.slot)
           Rest(st1) ==
             IF st1.failed # "none"
             THEN {st1}
             ELSE {processLinkReply(st3, p.reply, conformant) :
                     st3 \in processLinkRequests(processLinkProposals(st1, p.proposals),
                                                 p.requests, conformant)}
<1>1. PICK st1 \in heard : st2 \in Rest(st1)
  BY DEF processBroadcastMessage, reportBroadcastSlotAdvertisement
<1>2. /\ p.slot \in Slots /\ p.requests \in SUBSET Offers /\ p.proposals \in SUBSET Offers
      /\ p.reply # NONE => p.reply \in Replies /\ InHorizon(p.reply.slot)
  BY DEF PacketRight, Packets
<1>3. Right(st, told) /\ told.failed = "none"
  <2>1. {} \in SUBSET Offers
    OBVIOUS
  <2> QED BY <1>2, <2>1, Noted DEF Right
<1>4. st.link_id \in UserIds
  <2>1. st.link_id \in Users
    BY DEF Right, RightTo, Typed, UserStates
  <2> QED BY <2>1, Pair
<1> HIDE DEF told
<1>5. Right(told, st1)
  <2>1. Right(told, told)
    BY <1>3 DEF Right, RightTo
  <2> QED BY <1>1, <1>2, <1>3, <1>4, <2>1, SlotExpected
<1>6. CASE st1.failed # "none"
  BY <1>1, <1>3, <1>5, <1>6 DEF Right, RightTo
<1>7. CASE st1.failed = "none"
  <2> DEFINE noted == processLinkProposals(st1, p.proposals)
  <2>1. PICK st3 \in processLinkRequests(noted, p.requests, conformant) :
          st2 = processLinkReply(st3, p.reply, conformant)
    BY <1>1, <1>7
  <2>2. Right(st1, st1)
    BY <1>5 DEF Right, RightTo
  <2>3. Right(st1, noted) /\ noted.failed = "none"
    <3>1. CASE p.proposals = {}
      BY <1>7, <2>2, <3>1 DEF processLinkProposals
    <3>2. CASE p.proposals # {}
      <4>1. noted = [st1 EXCEPT !.proposals = p.proposals]
        BY <3>2 DEF processLinkProposals, replaceAdvertisedLinkProposals
      <4>2. Right(st1, noted)
        <5> DEFINE proposals == p.proposals
        <5>1. RightTo(st1, st1, -1) /\ NONE \in Slots \cup {NONE}
          BY <2>2 DEF Right
        <5>2. proposals \in SUBSET Offers /\ noted = [st1 EXCEPT !.proposals = proposals]
          BY <1>2, <4>1
        <5> HIDE DEF proposals, noted
        <5>3. RightTo(st1, [st1 EXCEPT !.proposals = proposals], -1)
          BY <5>1, <5>2, Noted
        <5> QED BY <5>2, <5>3 DEF Right
      <4>3. noted.failed = st1.failed
        BY <2>2, <4>1 DEF Right, RightTo, Typed, UserStates
      <4> QED BY <1>7, <4>2, <4>3
    <3> QED BY <3>1, <3>2
  <2> HIDE DEF noted
  <2>4. Right(noted, st3)
    <3>1. Right(noted, noted)
      BY <2>3 DEF Right, RightTo
    <3> QED BY <1>2, <2>1, <2>3, <3>1, RequestsProcessed
  <2>5. Right(st3, st2)
    <3>1. Right(st3, st3)
      BY <2>4 DEF Right, RightTo
    <3> QED BY <1>2, <2>1, <3>1, ReplyProcessed
  <2> QED BY <1>3, <1>5, <2>3, <2>4, <2>5 DEF Right, RightTo
<1> QED BY <1>6, <1>7

LEMMA SlotEnded ==
  ASSUME NEW st, Right(st, st), st.failed = "none", NEW more \in BOOLEAN
  PROVE  RightTo(st, [onLinkSlotEnd(st, more) EXCEPT !.advertised = CountDown(@)], 0)
<1> DEFINE a == awaitReply(st)
           d == decrementTimeout(a, more)
           n == CountDown(d.advertised)
<1>1. Typed(st) /\ Held(st) /\ CountRight(st, -1) /\ Ahead(st)
  BY DEF Right, RightTo
<1>2. /\ Typed(a) /\ Held(a) /\ Own(st, a)
      /\ st.link_status # "awaiting_reply" => a = st
      /\ st.link_status = "awaiting_reply" => a.link_status # "link_established"
  BY <1>1, AwaitedReply
<1>3. CountRight(a, -1)
  <2>1. CASE st.link_status # "awaiting_reply"
    BY <1>1, <1>2, <2>1
  <2>2. CASE st.link_status = "awaiting_reply"
    BY <1>2, <2>2 DEF CountRight
  <2> QED BY <2>1, <2>2
<1>4. /\ Typed(d) /\ d.mac_id = a.mac_id
      /\ d.failed # "none" \/ (Held(d) /\ Own(a, d) /\ CountRight(d, 0))
  BY <1>2, <1>3, Decremented
<1>5. RightTo(st, d, 0)
  BY <1>1, <1>2, <1>4 DEF RightTo, Own, Ahead
<1>6. n \in Slots \cup {NONE} /\ d \in UserStates
  <2>1. d \in UserStates /\ d.advertised \in Slots \cup {NONE}
    BY <1>4 DEF Typed, UserStates
  <2>2. \A x \in Slots : x # 0 => x - 1 \in Slots
    BY HorizonAssumption DEF Slots
  <2> QED BY <2>1, <2>2 DEF CountDown
<1>7. [onLinkSlotEnd(st, more) EXCEPT !.advertised = CountDown(@)] = [d EXCEPT !.advertised = n]
  BY DEF onLinkSlotEnd
<1> HIDE DEF d, n
<1>8. RightTo(d, d, 0)
  BY <1>5 DEF RightTo
<1>9. RightTo(d, [d EXCEPT !.advertised = n], 0)
  <2>1. {} \in SUBSET Offers
    OBVIOUS
  <2> QED BY <1>6, <1>8, <2>1, Noted
<1> QED BY <1>5, <1>7, <1>9 DEF RightTo

-----------------------------------------------------------------------------
(* A time slot passes *)

LEMMA ElapsedIs ==
  ASSUME NEW proposals \in SUBSET Offers
  PROVE  Elapsed(proposals) \in SUBSET Offers
<1> SUFFICES ASSUME NEW q \in proposals, q.slot > 1
             PROVE  [q EXCEPT !.slot = @ - 1] \in Offers
  BY DEF Elapsed
<1>1. q \in Proposals /\ q.slot \in Slots /\ InHorizon(q.slot)
  BY DEF Offers, Proposals
<1>2. q.slot - 1 \in Slots
  BY <1>1, HorizonAssumption DEF Slots
<1>3. InHorizon(q.slot - 1)
  <2>1. \A x, y, z \in Int : x + y =< z => (x - 1) + y =< z
    OBVIOUS
  <2>2. (2 * Timeout - 1) * Increment \in Int
    BY BurstsAssumption
  <2>3. q.slot \in Int /\ Horizon \in Int
    BY <1>1, HorizonAssumption DEF Slots
  <2>4. q.slot + (2 * Timeout - 1) * Increment =< Horizon
    BY <1>1 DEF InHorizon, LastBurst
  <2>5. (q.slot - 1) + (2 * Timeout - 1) * Increment =< Horizon
    BY <2>1, <2>2, <2>3, <2>4
  <2> QED BY <2>5 DEF InHorizon, LastBurst
<1> DEFINE p == [q EXCEPT !.slot = @ - 1]
<1>4. p \in Proposals /\ p.slot = q.slot - 1
  BY <1>1, <1>2 DEF Proposals
<1> HIDE DEF p
<1>5. InHorizon(p.slot)
  BY <1>3, <1>4
<1> QED BY <1>4, <1>5 DEF Offers, Proposals, p

(* The fields of the state afterwards *)
LEMMA FieldsMoved ==
  ASSUME NEW st, Typed(st), Held(st), Ahead(st), st.failed = "none", NEW st2 \in onSlotStart(st)
  PROVE  LET l == ListenNow(st2)
             u == SlotBegun(st2)
         IN  /\ Good(l) /\ MovedOn(st, l)
             /\ u \in UserStates
             /\ u.tables = l.tables /\ u.slot = l.slot /\ u.scheduled = l.scheduled
             /\ u.mac_id = st.mac_id /\ u.link_id = st.link_id
             /\ u.link_status = st.link_status /\ u.is_link_initiator = st.is_link_initiator
             /\ u.timeout = st.timeout /\ u.link_requests = st.link_requests
             /\ u.locked_resources = Aged(st.locked_resources)
             /\ u.scheduled_resources = Aged(st.scheduled_resources)
             /\ u.proposals = Elapsed(st.proposals)
             /\ DOMAIN u.link_replies = DOMAIN st.link_replies
             /\ Len(u.link_replies) = Len(st.link_replies)
             /\ \A i \in DOMAIN st.link_replies :
                  /\ u.link_replies[i].dest = st.link_replies[i].dest
                  /\ u.link_replies[i].slot = st.link_replies[i].slot
<1> DEFINE l == ListenNow(st2)
           u == SlotBegun(st2)
           q == st.link_replies
           replies == Sooner(q)
<1>1. Good(l) /\ l.failed \in {"none", "no_candidate"} /\ MovedOn(st, l)
  BY SlotStarted DEF Held
<1>2. st \in UserStates /\ st.proposals \in SUBSET Offers
  BY DEF Typed
<1>3. u = [l EXCEPT !.locked_resources = Aged(@), !.scheduled_resources = Aged(@),
                    !.proposals = Elapsed(@),
                    !.link_replies = Sooner(@)]
  BY DEF SlotBegun
<1> HIDE DEF l, u
<1>4. /\ l.mac_id = st.mac_id /\ l.link_id = st.link_id
      /\ l.link_status = st.link_status /\ l.is_link_initiator = st.is_link_initiator
      /\ l.timeout = st.timeout /\ l.attempts = st.attempts
      /\ l.expected = st.expected /\ l.late = st.late /\ l.advertised = st.advertised
      /\ l.link_requests = st.link_requests /\ l.link_replies = q
      /\ l.locked_resources = st.locked_resources
      /\ l.scheduled_resources = st.scheduled_resources /\ l.proposals = st.proposals
  BY <1>1, <1>2 DEF MovedOn, UserStates, Fields
<1>5. /\ l.failed \in Failures /\ l.tables \in [Tables -> [Slots -> Reservation]]
      /\ l.slot \in Slots /\ l.scheduled \in BOOLEAN
      /\ DOMAIN l = DOMAIN st /\ l = [f \in DOMAIN l |-> l[f]]
  BY <1>1 DEF Good, Shaped, TB, MovedOn, Failures
<1>6. replies \in Seq(Replies) /\ DOMAIN replies = DOMAIN q /\ Len(replies) = Len(q)
  <2>1. q \in Seq(Replies)
    BY <1>2 DEF UserStates
  <2>2. \A i \in DOMAIN q : q[i] \in Replies
    BY <2>1
  <2>3. \A r \in Replies : [r EXCEPT !.due = @ - 1] \in Replies
    BY DEF Replies
  <2>4. DOMAIN q = 1 .. Len(q) /\ Len(q) \in Nat
    BY <2>1
  <2>5. replies \in [1 .. Len(q) -> Replies]
    BY <2>2, <2>3, <2>4 DEF Sooner
  <2> QED BY <2>4, <2>5
<1>7. \A i \in DOMAIN q : replies[i].dest = q[i].dest /\ replies[i].slot = q[i].slot
  <2>1. \A i \in DOMAIN q : q[i] \in Replies
    BY <1>2 DEF UserStates
  <2>2. \A r \in Replies : /\ [r EXCEPT !.due = @ - 1].dest = r.dest
                           /\ [r EXCEPT !.due = @ - 1].slot = r.slot
    BY DEF Replies
  <2> QED BY <2>1, <2>2 DEF Sooner
<1>8. /\ Aged(st.locked_resources) \in SUBSET Entries
      /\ Aged(st.scheduled_resources) \in SUBSET Entries
  <2>1. st.locked_resources \in SUBSET (Tables \X Slots) /\ st.scheduled_resources \in SUBSET (Tables \X Slots)
    BY <1>2 DEF UserStates, Entries
  <2> QED BY <2>1, AgedIs DEF Entries
<1>9. Elapsed(st.proposals) \in SUBSET Proposals
  BY <1>2, ElapsedIs DEF Offers, Proposals
<1>10. u = [l EXCEPT !.locked_resources = Aged(st.locked_resources),
                     !.scheduled_resources = Aged(st.scheduled_resources),
                     !.proposals = Elapsed(st.proposals), !.link_replies = replies]
  BY <1>3, <1>4
<1> HIDE DEF q, replies
<1>11. /\ u.tables = l.tables /\ u.slot = l.slot /\ u.scheduled = l.scheduled
       /\ u.failed = l.failed
       /\ u.mac_id = st.mac_id /\ u.link_id = st.link_id
       /\ u.link_status = st.link_status /\ u.is_link_initiator = st.is_link_initiator
       /\ u.timeout = st.timeout /\ u.link_requests = st.link_requests
       /\ u.attempts = st.attempts /\ u.expected = st.expected /\ u.late = st.late
       /\ u.advertised = st.advertised
       /\ u.locked_resources = Aged(st.locked_resources)
       /\ u.scheduled_resources = Aged(st.scheduled_resources)
       /\ u.proposals = Elapsed(st.proposals) /\ u.link_replies = replies
       /\ DOMAIN u = DOMAIN st /\ u = [f \in DOMAIN u |-> u[f]]
  BY <1>2, <1>4, <1>5, <1>10 DEF UserStates
<1>12. u \in UserStates
  <2>1. u = [tables |-> u.tables, failed |-> u.failed, mac_id |-> u.mac_id,
             link_id |-> u.link_id, slot |-> u.slot, scheduled |-> u.scheduled,
             link_requests |-> u.link_requests, link_replies |-> u.link_replies,
             advertised |-> u.advertised, proposals |-> u.proposals,
             link_status |-> u.link_status, is_link_initiator |-> u.is_link_initiator,
             attempts |-> u.attempts, timeout |-> u.timeout, expected |-> u.expected,
             locked_resources |-> u.locked_resources,
             scheduled_resources |-> u.scheduled_resources, late |-> u.late]
    BY <1>2, <1>11 DEF UserStates
  <2> QED BY <1>2, <1>5, <1>6, <1>8, <1>9, <1>11, <2>1 DEF UserStates
<1> QED BY <1>1, <1>6, <1>7, <1>11, <1>12 DEF l, u, q

LEMMA UserUpdated ==
  ASSUME NEW st, Typed(st), Held(st), Ahead(st), CountRight(st, 0), st.failed = "none",
         NEW st2 \in onSlotStart(st)
  PROVE  Result(st, SlotBegun(st2))
<1> DEFINE l == ListenNow(st2)
           u == SlotBegun(st2)
<1>1. /\ Good(l) /\ MovedOn(st, l)
      /\ u \in UserStates
      /\ u.tables = l.tables /\ u.slot = l.slot /\ u.scheduled = l.scheduled
      /\ u.mac_id = st.mac_id /\ u.link_id = st.link_id
      /\ u.link_status = st.link_status /\ u.is_link_initiator = st.is_link_initiator
      /\ u.timeout = st.timeout /\ u.link_requests = st.link_requests
      /\ u.locked_resources = Aged(st.locked_resources)
      /\ u.scheduled_resources = Aged(st.scheduled_resources)
      /\ u.proposals = Elapsed(st.proposals)
      /\ DOMAIN u.link_replies = DOMAIN st.link_replies
      /\ Len(u.link_replies) = Len(st.link_replies)
      /\ \A i \in DOMAIN st.link_replies :
           /\ u.link_replies[i].dest = st.link_replies[i].dest
           /\ u.link_replies[i].slot = st.link_replies[i].slot
  BY FieldsMoved
<1> HIDE DEF l, u
<1>2. Typed(u)
  <2>1. u.proposals \in SUBSET Offers
    BY <1>1, ElapsedIs DEF Typed
  <2> QED BY <1>1, <2>1 DEF Typed
<1>3. Good(u)
  <2>1. Shaped(u)
    BY <1>1 DEF Shaped, UserStates, Fields
  <2> QED BY <1>1, <2>1 DEF Good
<1>4. /\ \A t \in PP, s \in Slots :
           u.tables[t][s].action # "IDLE" => s + 1 \in Slots
      /\ \A t \in PP, s \in Slots :
           s + 1 \in Slots => u.tables[t][s] = st.tables[t][s + 1]
      /\ \A t \in Tables, s \in Slots :
           IsLocked(u.tables[t][s]) => s + 1 \in Slots /\ u.tables[t][s] = st.tables[t][s + 1]
  <2>1. st.tables \in TB
    BY DEF Held, Good
  <2> QED BY <1>1, <2>1, CellsMoved
<1>5. \A s \in Slots : s + 1 > 0
  BY ZeroSlot
<1>6. LocksRight(u)
  <2>1. st.locked_resources \in SUBSET (Tables \X Slots)
    BY DEF Typed, UserStates, Entries
  <2> SUFFICES ASSUME NEW t \in Tables, NEW s \in Slots, s > 0, IsLocked(u.tables[t][s])
               PROVE  /\ u.link_status = "awaiting_reply"
                      /\ <<t, s>> \in u.locked_resources
                      /\ u.tables[t][s].target = u.link_id
    BY DEF LocksRight
  <2>2. s + 1 \in Slots /\ u.tables[t][s] = st.tables[t][s + 1]
    BY <1>4
  <2>3. /\ st.link_status = "awaiting_reply" /\ <<t, s + 1>> \in st.locked_resources
        /\ st.tables[t][s + 1].target = st.link_id
    BY <1>5, <2>2 DEF Held, LocksRight
  <2>4. <<t, s>> \in Aged(st.locked_resources)
    BY <2>1, <2>3, AgedIs
  <2> QED BY <1>1, <2>2, <2>3, <2>4
<1>7. /\ u.scheduled_resources \in SUBSET (PP \X Slots)
      /\ \A e \in u.scheduled_resources :
           /\ <<e[1], e[2] + 1>> \in st.scheduled_resources /\ e[2] + 1 \in Slots /\ e[2] \in Slots
           /\ e[1] \in PP /\ u.tables[e[1]][e[2]] = st.tables[e[1]][e[2] + 1]
      /\ \A c : \A s \in Slots :
           <<c, s + 1>> \in st.scheduled_resources => <<c, s>> \in u.scheduled_resources
  <2>1. st.scheduled_resources \in SUBSET (PP \X Slots)
    <3>1. st.scheduled_resources \in SUBSET (Tables \X Slots)
      BY DEF Typed, UserStates, Entries
    <3>2. \A e \in st.scheduled_resources : e[1] \in PP /\ e[2] \in Slots /\ e = <<e[1], e[2]>>
      BY <3>1, EntryIs DEF Held, BurstsRight
    <3> QED BY <3>2
  <2>2. /\ u.scheduled_resources \in SUBSET (PP \X Slots)
        /\ \A c, s : <<c, s>> \in u.scheduled_resources
                       => s \in Slots /\ <<c, s + 1>> \in st.scheduled_resources
        /\ \A c : \A s \in Slots : <<c, s + 1>> \in st.scheduled_resources
                                    => <<c, s>> \in u.scheduled_resources
    <3> DEFINE held == st.scheduled_resources
    <3>1. held \in SUBSET (PP \X Slots)
      BY <2>1
    <3> HIDE DEF held
    <3>2. /\ Aged(held) \in SUBSET (PP \X Slots)
          /\ \A c, s : <<c, s>> \in Aged(held) => s \in Slots /\ <<c, s + 1>> \in held
          /\ \A c : \A s \in Slots : <<c, s + 1>> \in held => <<c, s>> \in Aged(held)
      BY <3>1, AgedIs
    <3>3. u.scheduled_resources = Aged(held)
      BY <1>1 DEF held
    <3> QED BY <3>2, <3>3 DEF held
  <2>3. ASSUME NEW e \in u.scheduled_resources
        PROVE  /\ <<e[1], e[2] + 1>> \in st.scheduled_resources /\ e[2] + 1 \in Slots /\ e[2] \in Slots
               /\ e[1] \in PP /\ u.tables[e[1]][e[2]] = st.tables[e[1]][e[2] + 1]
    <3>1. e[1] \in PP /\ e[2] \in Slots /\ e = <<e[1], e[2]>>
      BY <2>2, EntryIs
    <3>2. <<e[1], e[2] + 1>> \in st.scheduled_resources
      BY <2>2, <3>1
    <3>3. e[2] + 1 \in Slots
      BY <2>1, <3>2
    <3> QED BY <1>4, <3>1, <3>2, <3>3
  <2> QED BY <2>2, <2>3
<1>8. BurstsRight(u)
  <2>1. ASSUME NEW e \in u.scheduled_resources PROVE e[1] \in PP /\ Burst(u, e[1], e[2])
    <3> DEFINE d == <<e[1], e[2] + 1>>
    <3>1. d \in st.scheduled_resources /\ d[1] = e[1] /\ d[2] = e[2] + 1
      BY <1>7, <2>1
    <3> HIDE DEF d
    <3>2. Burst(st, e[1], e[2] + 1)
      BY <3>1 DEF Held, BurstsRight
    <3> QED BY <1>1, <1>7, <2>1, <3>2 DEF Burst
  <2>2. ASSUME NEW c \in PP, NEW s \in Slots, s > 0, Burst(u, c, s)
        PROVE  <<c, s>> \in u.scheduled_resources
    <3>1. s + 1 \in Slots /\ u.tables[c][s] = st.tables[c][s + 1]
      BY <1>4, <2>2 DEF Burst
    <3>2. Burst(st, c, s + 1)
      BY <1>1, <2>2, <3>1 DEF Burst
    <3>3. <<c, s + 1>> \in st.scheduled_resources
      BY <1>5, <3>1, <3>2 DEF Held, BurstsRight
    <3> QED BY <1>7, <3>3
  <2> QED BY <2>1, <2>2 DEF BurstsRight
<1>9. QueuesRight(u)
  <2>1. st.link_replies \in Seq(Replies) /\ u.link_replies \in Seq(Replies)
    BY <1>1 DEF Typed, UserStates
  <2>2. CASE st.link_replies = << >>
    BY <1>1, <2>1, <2>2 DEF Held, QueuesRight
  <2>3. CASE st.link_replies # << >>
    <3>1. /\ st.link_status = "link_established" /\ ~st.is_link_initiator
          /\ Len(st.link_replies) = 1 /\ st.link_replies[1].dest = st.link_id
      BY <2>3 DEF Held, QueuesRight
    <3>2. 1 \in DOMAIN st.link_replies
      BY <2>1, <3>1
    <3> QED BY <1>1, <3>1, <3>2 DEF Held, QueuesRight
  <2> QED BY <2>2, <2>3
<1>10. CountRight(u, -1)
  <2> SUFFICES ASSUME u.link_status = "link_established" PROVE CountRight(u, -1)
    BY DEF CountRight
  <2>1. /\ st.timeout > 0
        /\ \E start \in Int :
             /\ \A e \in st.scheduled_resources : e[2] =< LastBurst(start)
             /\ \A e \in Ending(st) : \E k \in 0 .. Timeout - 1 :
                  e[2] = start + (2 * k + 1) * Increment
             /\ st.timeout < Timeout =>
                  start + (2 * (Timeout - st.timeout) - 1) * Increment =< 0
    BY <1>1 DEF CountRight
  <2>2. PICK start \in Int :
          /\ \A e \in st.scheduled_resources : e[2] =< LastBurst(start)
          /\ \A e \in Ending(st) : \E k \in 0 .. Timeout - 1 :
               e[2] = start + (2 * k + 1) * Increment
          /\ st.timeout < Timeout =>
               start + (2 * (Timeout - st.timeout) - 1) * Increment =< 0
    BY <2>1
  <2>3. start - 1 \in Int /\ Increment \in Int /\ Timeout \in Int /\ st.timeout \in Int
    BY BurstsAssumption DEF Typed, UserStates
  <2>4. \A x, y, z \in Int : /\ (x + 1 =< y + z => x =< (y - 1) + z)
                            /\ (x + 1 = y + z => x = (y - 1) + z)
                            /\ (y + z =< 0 => (y - 1) + z =< -1)
    OBVIOUS
  <2>5. ASSUME NEW e \in u.scheduled_resources PROVE e[2] =< LastBurst(start - 1)
    <3> DEFINE d == <<e[1], e[2] + 1>>
    <3>1. d \in st.scheduled_resources /\ d[2] = e[2] + 1 /\ e[2] \in Int
      <4>1. d \in st.scheduled_resources /\ e[2] \in Slots
        BY <1>7
      <4>2. e[2] \in Int
        BY <4>1, HorizonAssumption DEF Slots
      <4> QED BY <4>1, <4>2
    <3> HIDE DEF d
    <3>2. e[2] + 1 =< start + (2 * Timeout - 1) * Increment
      BY <2>2, <3>1 DEF LastBurst
    <3>3. (2 * Timeout - 1) * Increment \in Int
      BY <2>3
    <3>4. e[2] =< (start - 1) + (2 * Timeout - 1) * Increment
      BY <2>4, <3>1, <3>2, <3>3
    <3> QED BY <3>4 DEF LastBurst
  <2>6. ASSUME NEW e \in Ending(u)
        PROVE  \E k \in 0 .. Timeout - 1 : e[2] = (start - 1) + (2 * k + 1) * Increment
    <3> DEFINE d == <<e[1], e[2] + 1>>
    <3>1. /\ e \in u.scheduled_resources
          /\ u.tables[e[1]][e[2]].action = IF u.is_link_initiator THEN "RX" ELSE "TX"
      BY DEF Ending
    <3>2. /\ d \in st.scheduled_resources /\ d[1] = e[1] /\ d[2] = e[2] + 1 /\ e[2] \in Int
          /\ u.tables[e[1]][e[2]] = st.tables[e[1]][e[2] + 1]
      <4>1. d \in st.scheduled_resources /\ e[2] \in Slots
        BY <1>7, <3>1
      <4>2. e[2] \in Int
        BY <4>1, HorizonAssumption DEF Slots
      <4> QED BY <1>7, <3>1, <4>1, <4>2
    <3> HIDE DEF d
    <3>3. d \in Ending(st)
      BY <1>1, <3>1, <3>2 DEF Ending
    <3>4. PICK k \in 0 .. Timeout - 1 : e[2] + 1 = start + (2 * k + 1) * Increment
      BY <2>2, <3>2, <3>3
    <3>5. (2 * k + 1) * Increment \in Int
      BY <2>3
    <3>6. e[2] = (start - 1) + (2 * k + 1) * Increment
      BY <2>4, <3>2, <3>4, <3>5
    <3> QED BY <3>6
  <2>7. u.timeout < Timeout =>
          (start - 1) + (2 * (Timeout - u.timeout) - 1) * Increment =< -1
    <3>1. (2 * (Timeout - st.timeout) - 1) * Increment \in Int
      BY <2>3
    <3>2. st.timeout < Timeout =>
            (start - 1) + (2 * (Timeout - st.timeout) - 1) * Increment =< -1
      BY <2>2, <2>4, <3>1
    <3> QED BY <1>1, <3>2
  <2>8. u.timeout > 0
    BY <1>1, <2>1
  <2>9. \E first \in Int :
          /\ \A e \in u.scheduled_resources : e[2] =< LastBurst(first)
          /\ \A e \in Ending(u) : \E k \in 0 .. Timeout - 1 :
               e[2] = first + (2 * k + 1) * Increment
          /\ u.timeout < Timeout =>
               first + (2 * (Timeout - u.timeout) - 1) * Increment =< -1
    <3>1. PICK first : first = start - 1
      OBVIOUS
    <3> QED BY <2>3, <2>5, <2>6, <2>7, <3>1
  <2> QED BY <2>8, <2>9 DEF CountRight
<1> QED BY <1>1, <1>2, <1>3, <1>6, <1>8, <1>9, <1>10 DEF Result, Held, u

-----------------------------------------------------------------------------
(* The inductive invariant *)

(* The start of the simulation: the first broadcast has been scheduled. *)
LEMMA FirstBroadcast ==
  ASSUME NEW u \in Users, NEW st \in Started(u)
  PROVE  /\ Typed(st) /\ Held(st) /\ Ahead(st) /\ st.mac_id = u
         /\ st.link_status = "link_not_established"
<1> DEFINE first ==
      [mac_id |-> u, link_id |-> Peer(u), tables |-> EmptyTables, failed |-> "none",
       slot |-> 0, scheduled |-> FALSE, link_requests |-> << >>, link_replies |-> << >>,
       advertised |-> NONE, proposals |-> {},
       link_status |-> "link_not_established", is_link_initiator |-> FALSE,
       attempts |-> 0, timeout |-> 0, expected |-> 0, locked_resources |-> {},
       scheduled_resources |-> {}, late |-> FALSE]
<1>1. st \in scheduleBroadcastSlot(first)
  BY DEF Started
<1>2. /\ EmptyTables \in [Tables -> [Slots -> Reservation]]
      /\ \A t \in Tables, s \in Slots : EmptyTables[t][s] = Idle
  BY IdleIs DEF EmptyTables
<1>3. /\ first.tables = EmptyTables /\ first.scheduled = FALSE /\ first.slot = 0
      /\ first.mac_id = u /\ first.link_id = Peer(u)
      /\ first.link_status = "link_not_established"
      /\ first.link_requests = << >> /\ first.link_replies = << >>
      /\ first.proposals = {} /\ first.locked_resources = {} /\ first.scheduled_resources = {}
  OBVIOUS
<1>4. first \in UserStates
  <2>1. u \in Users /\ Peer(u) \in Users /\ 0 \in Slots
    BY Pair, ZeroSlot
  <2>2. 0 \in 0 .. MaxAttempts /\ 0 \in 0 .. Timeout
    BY AttemptsAssumption, BurstsAssumption
  <2>3. << >> \in Seq(Users) /\ << >> \in Seq(Replies)
    OBVIOUS
  <2>4. "none" \in Failures /\ "link_not_established" \in Statuses
    BY DEF Failures, Statuses
  <2> QED BY <1>2, <2>1, <2>2, <2>3, <2>4 DEF UserStates
<1> HIDE DEF first
<1>5. Typed(first)
  BY <1>3, <1>4 DEF Typed
<1>6. Good(first)
  <2>1. Shaped(first)
    BY <1>4 DEF Shaped, UserStates, Fields
  <2>2. OneTx(first.tables) /\ HardwareNeverBusy(first.tables) /\ SharedOnlyTxRx(first.tables)
    BY <1>2, <1>3, IdleIs, Disjoint DEF OneTx, HardwareNeverBusy, SharedOnlyTxRx
  <2>3. ReservedAt(first.tables, first.scheduled, first.slot)
    BY <1>2, <1>3, IdleIs, Disjoint DEF ReservedAt
  <2> QED BY <1>2, <1>3, <2>1, <2>2, <2>3, ZeroSlot DEF Good, TB
<1>7. LocksRight(first) /\ BurstsRight(first) /\ QueuesRight(first)
  <2>1. \A t \in Tables, s \in Slots :
          ~IsLocked(first.tables[t][s]) /\ first.tables[t][s].action \notin {"TX", "RX"}
    BY <1>2, <1>3, IdleIs DEF IsIdle, IsLocked
  <2> QED BY <1>3, <2>1, Disjoint DEF LocksRight, BurstsRight, QueuesRight, Burst
<1>8. Typed(st) /\ Held(st) /\ Ahead(st) /\ SameLink(first, st)
  BY <1>1, <1>5, <1>6, <1>7, Rescheduled DEF Held
<1> QED BY <1>3, <1>8 DEF SameLink

LEMMA InitIInv == Init => IInv
<1> SUFFICES ASSUME Init PROVE IInv
  OBVIOUS
<1>1. ASSUME NEW u \in Users
      PROVE  /\ Typed(user[u]) /\ Held(user[u]) /\ Ahead(user[u]) /\ user[u].mac_id = u
             /\ user[u].link_status = "link_not_established"
  <2>1. PICK v \in Users : user[u] \in Started(v)
    BY DEF Init
  <2>2. /\ Typed(user[u]) /\ Held(user[u]) /\ Ahead(user[u]) /\ user[u].mac_id = v
        /\ user[u].link_status = "link_not_established"
    BY <2>1, FirstBroadcast
  <2>3. user[u].mac_id = u
    BY DEF Init
  <2> QED BY <2>2, <2>3
<1>2. user \in [Users -> UserStates]
  <2>1. user = [u \in Users |-> user[u]]
    BY DEF Init
  <2> QED BY <1>1, <2>1 DEF Typed
<1>3. ASSUME NEW u \in Users PROVE UserRight(u)
  BY <1>1 DEF UserRight, CountRight
<1>4. packet \in [Users -> Packets \cup {NONE}] /\ \A u \in Users : packet[u] = NONE
  BY DEF Init
<1>5. phase = "execute" /\ todo = Users
  BY DEF Init
<1> QED BY <1>1, <1>2, <1>3, <1>4, <1>5 DEF IInv

(* A user whose turn it is leaves the other where it was in its slot. *)
LEMMA TurnTaken ==
  ASSUME NEW u \in Users, todo \in SUBSET Users, phase \in {"update", "execute", "end"},
         NEW ph, Turn(u, ph), Done(u)
  PROVE  /\ u \in todo /\ phase = ph /\ NoFailureYet
         /\ todo' \in SUBSET Users /\ phase' \in {"update", "execute", "end"}
         /\ \A v \in Users \ {u} : Begun(v)' = Begun(v) /\ Counted(v)' = Counted(v)
         /\ Begun(u)' <=> ph = "update"
         /\ Counted(u)' <=> ph = "end"
<1>1. phase = ph /\ NoFailureYet /\ u \in todo
  BY DEF Turn
<1>2. CASE todo = {u}
  <2>1. todo' = Users
    BY <1>2 DEF Done
  <2>2. /\ phase = "update" => phase' = "execute"
        /\ phase = "execute" => phase' = "end"
        /\ phase = "end" => phase' = "update"
    BY <1>2 DEF Done
  <2> QED BY <1>1, <1>2, <2>1, <2>2 DEF Begun, Counted
<1>3. CASE todo # {u}
  <2>1. todo' = todo \ {u} /\ phase' = phase
    BY <1>3 DEF Done
  <2> QED BY <1>1, <2>1 DEF Begun, Counted
<1> QED BY <1>2, <1>3

(* A user takes its step in a phase. *)
LEMMA UserStep ==
  ASSUME IInv, NEW u \in Users, NEW ph, Turn(u, ph), Done(u),
         user' \in [Users -> UserStates], packet' \in [Users -> Packets \cup {NONE}],
         \A v \in Users \ {u} : user'[v] = user[v] /\ packet'[v] = packet[v],
         packet'[u] = NONE \/ PacketRight(packet'[u]),
         Typed(user'[u]), user'[u].mac_id = u,
         user'[u].failed = "none" =>
           /\ Held(user'[u])
           /\ ph # "update" => Ahead(user'[u])
           /\ CountRight(user'[u], IF ph = "end" THEN 0 ELSE -1)
  PROVE  IInv'
<1>1. /\ NoFailureYet
      /\ todo' \in SUBSET Users /\ phase' \in {"update", "execute", "end"}
      /\ \A v \in Users \ {u} : Begun(v)' = Begun(v) /\ Counted(v)' = Counted(v)
      /\ Begun(u)' <=> ph = "update"
      /\ Counted(u)' <=> ph = "end"
  BY TurnTaken DEF IInv
<1>2. ASSUME NEW v \in Users
      PROVE  /\ Typed(user'[v]) /\ user'[v].mac_id = v
             /\ packet'[v] = NONE \/ PacketRight(packet'[v])
  BY DEF IInv
<1>3. ASSUME NoFailureYet', NEW v \in Users
      PROVE  UserRight(v)'
  <2>1. CASE v = u
    <3>1. user'[u].failed = "none"
      BY <1>3 DEF NoFailureYet
    <3> QED BY <1>1, <2>1, <3>1 DEF UserRight
  <2>2. CASE v # u
    <3>1. UserRight(v) /\ user'[v] = user[v]
      BY <1>1, <2>2 DEF IInv
    <3>2. Begun(v)' = Begun(v) /\ Counted(v)' = Counted(v)
      BY <1>1, <2>2
    <3> QED BY <3>1, <3>2 DEF UserRight
  <2> QED BY <2>1, <2>2
<1> QED BY <1>1, <1>2, <1>3 DEF IInv

(* A user changes within a phase. *)
LEMMA UserChange ==
  ASSUME IInv, NoFailureYet, NEW u \in Users, NEW st, user' = [user EXCEPT ![u] = st],
         UNCHANGED << packet, phase, todo >>,
         Typed(st), st.mac_id = u, Held(st),
         Ahead(user[u]) => Ahead(st),
         \A b \in Int : CountRight(user[u], b) => CountRight(st, b)
  PROVE  IInv'
<1>1. /\ user' \in [Users -> UserStates] /\ user'[u] = st
      /\ \A v \in Users \ {u} : user'[v] = user[v]
  BY DEF IInv, Typed
<1>2. \A v \in Users : Begun(v)' = Begun(v) /\ Counted(v)' = Counted(v)
  BY DEF Begun, Counted
<1>3. ASSUME NEW v \in Users PROVE UserRight(v)'
  <2>1. UserRight(v)
    BY DEF IInv
  <2>2. CASE v = u
    <3> DEFINE b == IF Counted(u) THEN 0 ELSE -1
    <3>1. b \in Int
      OBVIOUS
    <3>2. CountRight(user[u], b)
      BY <2>1, <2>2 DEF UserRight
    <3>3. CountRight(user'[u], b)
      BY <1>1, <3>1, <3>2
    <3>4. CountRight(user'[u], IF Counted(u)' THEN 0 ELSE -1)
      BY <1>2, <3>3
    <3> QED BY <1>1, <1>2, <2>1, <2>2, <3>4 DEF UserRight
  <2>3. CASE v # u
    BY <1>1, <1>2, <2>1, <2>3 DEF UserRight
  <2> QED BY <2>2, <2>3
<1>4. ASSUME NEW v \in Users
      PROVE  /\ Typed(user'[v]) /\ user'[v].mac_id = v
             /\ packet'[v] = NONE \/ PacketRight(packet'[v])
  BY <1>1 DEF IInv
<1>5. /\ phase' \in {"update", "execute", "end"} /\ todo' \in SUBSET Users
      /\ packet' \in [Users -> Packets \cup {NONE}]
  BY DEF IInv
<1> QED BY <1>1, <1>3, <1>4, <1>5 DEF IInv

(* A reception for a link with somebody else *)
LEMMA ReceptionMarked ==
  ASSUME NEW st, Typed(st), Held(st), NEW c \in PP, NEW s \in Slots, s > 0, NEW other \in Others,
         IsRxValid(st.tables, c, s), NEW st2,
         st2 = [st EXCEPT !.tables = Mark(@, c, s, Res("RX", other))]
  PROVE  /\ Typed(st2) /\ Held(st2) /\ SameLink(st, st2)
         /\ st2.slot = st.slot /\ st2.scheduled = st.scheduled /\ st2.failed = st.failed
         /\ \A b \in Int : CountRight(st, b) => CountRight(st2, b)
<1> DEFINE r == Res("RX", other)
           m == Mark(st.tables, c, s, r)
<1>1. /\ r \in Reservation /\ r.action = "RX" /\ r.target = other /\ ~IsTx(r) /\ ~IsIdle(r) /\ ~IsLocked(r)
      /\ ~IsBusy(r)
  <2>1. other \in Ids
    BY UsersAssumption DEF Ids
  <2> QED BY <2>1 DEF Res, Reservation, Actions, IsTx, IsIdle, IsLocked, IsBusy
<1>2. /\ st.tables \in TB /\ OneTx(st.tables) /\ HardwareNeverBusy(st.tables)
      /\ SharedOnlyTxRx(st.tables) /\ ReservedAt(st.tables, st.scheduled, st.slot)
  BY DEF Held, Good
<1>3. c \in Channels /\ c # SH /\ c # TxTable /\ IsIdle(st.tables[c][s]) /\ ~IsTx(st.tables[c][s])
  BY Disjoint DEF IsRxValid, IsIdle, IsTx
<1>4. other # st.link_id
  <2>1. st.link_id \in Users
    BY DEF Typed, UserStates
  <2> QED BY <2>1 DEF Users
<1>5. OneTx(m) /\ HardwareNeverBusy(m)
  BY <1>1, <1>2, <1>3, MarkOther
<1>6. /\ m \in TB
      /\ \A d \in Channels, x \in Slots :
           m[d][x] = IF d = c /\ x = s THEN r ELSE st.tables[d][x]
      /\ \A x \in Slots : m[TxTable][x] = st.tables[TxTable][x]
      /\ \A h \in RxTables, x \in Slots : m[h][x] = st.tables[h][x] \/ m[h][x] = r
  BY <1>1, <1>2, <1>3, MarkEffect
<1>7. st2 = [st EXCEPT !.tables = m]
  OBVIOUS
<1> HIDE DEF m, r
<1>8. st2 \in UserStates
  <2>1. st \in UserStates /\ m \in [Tables -> [Slots -> Reservation]]
    BY <1>6 DEF Typed, TB
  <2> QED BY <1>7, <2>1 DEF UserStates
<1>9. /\ SameLink(st, st2) /\ st2.tables = m
      /\ st2.slot = st.slot /\ st2.scheduled = st.scheduled /\ st2.failed = st.failed
  BY <1>7 DEF Typed, UserStates, SameLink
<1>10. Typed(st2)
  BY <1>8, <1>9 DEF Typed, SameLink
<1>11. Good(st2)
  <2>1. Shaped(st2)
    BY <1>8 DEF Shaped, UserStates, Fields
  <2>2. \A x \in Slots : m[SH][x] = st.tables[SH][x]
    BY <1>3, <1>6, Disjoint
  <2>3. SharedOnlyTxRx(m) /\ ReservedAt(m, st.scheduled, st.slot)
    BY <1>2, <2>2 DEF SharedOnlyTxRx, ReservedAt
  <2> QED BY <1>5, <1>6, <1>9, <2>1, <2>3 DEF Held, Good
<1>12. \A t \in Tables, x \in Slots : IsLocked(m[t][x]) => m[t][x] = st.tables[t][x]
  <2> SUFFICES ASSUME NEW t \in Tables, NEW x \in Slots, IsLocked(m[t][x])
               PROVE  m[t][x] = st.tables[t][x]
    OBVIOUS
  <2>1. CASE t \in Channels
    BY <1>1, <1>6, <2>1
  <2>2. CASE t = TxTable
    BY <1>6, <2>2
  <2>3. CASE t \in RxTables
    BY <1>1, <1>6, <2>3
  <2> QED BY <2>1, <2>2, <2>3 DEF Tables
<1>13. LocksRight(st2)
  BY <1>9, <1>12 DEF LocksRight, Held, SameLink
<1>14. \A d \in PP, x \in Slots : Burst(st, d, x) => m[d][x] = st.tables[d][x]
  BY <1>3, <1>6, Disjoint DEF Burst, IsIdle
<1>15. \A d \in PP, x \in Slots : Burst(st2, d, x) => Burst(st, d, x)
  <2> SUFFICES ASSUME NEW d \in PP, NEW x \in Slots, Burst(st2, d, x) PROVE Burst(st, d, x)
    OBVIOUS
  <2>1. m[d][x] = st.tables[d][x] \/ m[d][x] = r
    BY <1>6, Disjoint
  <2>2. st2.tables = m /\ st2.link_id = st.link_id
    BY <1>9 DEF SameLink
  <2>3. m[d][x] # r
    BY <1>1, <1>4, <2>2 DEF Burst
  <2> QED BY <2>1, <2>2, <2>3 DEF Burst
<1>16. \A e \in st.scheduled_resources :
         e[1] \in PP /\ e[2] \in Slots /\ Burst(st, e[1], e[2]) /\ m[e[1]][e[2]] = st.tables[e[1]][e[2]]
  <2>1. st.scheduled_resources \in SUBSET (Tables \X Slots)
    BY DEF Typed, UserStates, Entries
  <2> SUFFICES ASSUME NEW e \in st.scheduled_resources
               PROVE  /\ e[1] \in PP /\ e[2] \in Slots
                      /\ Burst(st, e[1], e[2]) /\ m[e[1]][e[2]] = st.tables[e[1]][e[2]]
    OBVIOUS
  <2>2. e[1] \in PP /\ Burst(st, e[1], e[2])
    BY DEF Held, BurstsRight
  <2>3. e[2] \in Slots
    BY <2>1, EntryIs
  <2> QED BY <1>14, <2>2, <2>3
<1>17. BurstsRight(st2)
  <2>1. st2.tables = m /\ st2.scheduled_resources = st.scheduled_resources /\ st2.link_id = st.link_id
    BY <1>9 DEF SameLink
  <2>2. ASSUME NEW e \in st2.scheduled_resources PROVE e[1] \in PP /\ Burst(st2, e[1], e[2])
    BY <1>16, <2>1 DEF Burst
  <2>3. BurstsRight(st)
    BY DEF Held
  <2>4. ASSUME NEW d \in PP, NEW x \in Slots, x > 0, Burst(st2, d, x)
        PROVE  <<d, x>> \in st2.scheduled_resources
    BY <1>15, <2>1, <2>3, <2>4 DEF BurstsRight
  <2> QED BY <2>2, <2>4 DEF BurstsRight
<1>18. QueuesRight(st2)
  BY <1>9 DEF QueuesRight, Held, SameLink
<1>19. ASSUME NEW b \in Int, CountRight(st, b) PROVE CountRight(st2, b)
  <2>1. Ending(st2) = Ending(st)
    BY <1>9, <1>16 DEF Ending, SameLink
  <2> QED BY <1>9, <1>19, <2>1 DEF CountRight, SameLink
<1> QED BY <1>9, <1>10, <1>11, <1>13, <1>17, <1>18, <1>19 DEF Held

-----------------------------------------------------------------------------
(* The actions *)

LEMMA UpdateIInv ==
  ASSUME IInv, NEW u \in Users, Update(u)
  PROVE  IInv'
<1> DEFINE st == user[u]
<1>1. PICK st2 \in onSlotStart(st) : user' = [user EXCEPT ![u] = SlotBegun(st2)]
  BY DEF Update
<1>2. Turn(u, "update") /\ Done(u) /\ packet' = packet
  BY DEF Update
<1>3. /\ UserRight(u) /\ ~Begun(u) /\ Counted(u)
      /\ Typed(st) /\ st.mac_id = u /\ st.failed = "none"
  BY <1>2 DEF IInv, Turn, NoFailureYet, Begun, Counted
<1>4. Held(st) /\ Ahead(st) /\ CountRight(st, 0)
  BY <1>3 DEF UserRight
<1> DEFINE new == SlotBegun(st2)
<1>5. Result(st, new)
  <2> HIDE DEF st
  <2> QED BY <1>1, <1>3, <1>4, UserUpdated
<1> HIDE DEF st, new
<1>6. Typed(new) /\ new.mac_id = u /\ (new.failed = "none" => Held(new) /\ CountRight(new, -1))
  BY <1>3, <1>5 DEF Result
<1>7. /\ user' \in [Users -> UserStates] /\ user'[u] = new
      /\ \A v \in Users \ {u} : user'[v] = user[v]
  BY <1>1, <1>6 DEF IInv, Typed, new
<1>8. /\ packet' \in [Users -> Packets \cup {NONE}]
      /\ packet'[u] = NONE \/ PacketRight(packet'[u])
      /\ \A v \in Users \ {u} : packet'[v] = packet[v]
  BY <1>2 DEF IInv
<1>9. /\ Typed(user'[u]) /\ user'[u].mac_id = u
      /\ user'[u].failed = "none" =>
           /\ Held(user'[u])
           /\ "update" # "update" => Ahead(user'[u])
           /\ CountRight(user'[u], IF "update" = "end" THEN 0 ELSE -1)
  BY <1>6, <1>7
<1> QED BY <1>2, <1>7, <1>8, <1>9, UserStep

LEMMA ExecuteIInv ==
  ASSUME IInv, NEW u \in Users, Execute(u)
  PROVE  IInv'
<1> DEFINE st == user[u]
<1>1. Turn(u, "execute") /\ Done(u)
  BY DEF Execute
<1>2. /\ UserRight(u) /\ ~Counted(u)
      /\ Typed(st) /\ st.mac_id = u /\ st.failed = "none"
  BY <1>1 DEF IInv, Turn, NoFailureYet, Counted
<1>3. Held(st) /\ CountRight(st, -1)
  BY <1>2 DEF UserRight
<1>4. ASSUME NEW new, NEW p, user' = [user EXCEPT ![u] = new], packet' = [packet EXCEPT ![u] = p],
             Result(st, new), Ahead(new), p = NONE \/ PacketRight(p)
      PROVE  IInv'
  <2>1. Typed(new) /\ new.mac_id = u /\ (new.failed = "none" => Held(new) /\ CountRight(new, -1))
    BY <1>2, <1>4 DEF Result
  <2>2. /\ user' \in [Users -> UserStates] /\ user'[u] = new
        /\ \A v \in Users \ {u} : user'[v] = user[v]
    BY <1>4, <2>1 DEF IInv, Typed
  <2>3. p \in Packets \cup {NONE}
    BY <1>4 DEF PacketRight
  <2>4. /\ packet' \in [Users -> Packets \cup {NONE}] /\ packet'[u] = p
        /\ \A v \in Users \ {u} : packet'[v] = packet[v]
    BY <1>4, <2>3 DEF IInv
  <2>5. /\ Typed(user'[u]) /\ user'[u].mac_id = u
        /\ user'[u].failed = "none" =>
             /\ Held(user'[u])
             /\ "execute" # "update" => Ahead(user'[u])
             /\ CountRight(user'[u], IF "execute" = "end" THEN 0 ELSE -1)
    BY <1>4, <2>1, <2>2
  <2> QED BY <1>1, <1>4, <2>2, <2>4, <2>5, UserStep
<1>5. CASE IsTx(st.tables[SH][0])
  <2>1. PICK r \in onTransmissionReservation(st) :
          user' = [user EXCEPT ![u] = r.st] /\ packet' = [packet EXCEPT ![u] = r.packet]
    BY <1>5 DEF Execute
  <2>2. Result(st, r.st) /\ Ahead(r.st) /\ PacketRight(r.packet)
    BY <1>2, <1>3, Transmitted
  <2> QED BY <1>4, <2>1, <2>2
<1>6. CASE ~IsTx(st.tables[SH][0])
  <2>1. user' = user /\ packet' = [packet EXCEPT ![u] = NONE]
    BY <1>6 DEF Execute
  <2>2. user' = [user EXCEPT ![u] = st]
    BY <2>1 DEF IInv
  <2>3. Ahead(st)
    <3>1. st.scheduled => st.slot # 0
      BY <1>3, <1>6, ZeroSlot DEF Held, Good, ReservedAt
    <3>2. st.slot \in Slots
      BY <1>3 DEF Held, Good
    <3> QED BY <3>1, <3>2, HorizonAssumption DEF Ahead, Slots
  <2>4. Result(st, st)
    BY <1>2, <1>3 DEF Result
  <2> QED BY <1>4, <2>1, <2>2, <2>3, <2>4
<1> QED BY <1>5, <1>6

LEMMA SlotEndIInv ==
  ASSUME IInv, NEW u \in Users, SlotEnd(u)
  PROVE  IInv'
<1> DEFINE st == user[u]
<1>1. Turn(u, "end") /\ Done(u) /\ packet' = packet
  BY DEF SlotEnd
<1>2. PICK st2 \in Received(u), more \in BOOLEAN :
        user' = [user EXCEPT ![u] = IF st2.failed # "none" THEN st2
                   ELSE [onLinkSlotEnd(st2, more) EXCEPT !.advertised = CountDown(@)]]
  BY DEF SlotEnd
<1>3. /\ UserRight(u) /\ ~Counted(u) /\ ~Begun(u)
      /\ Typed(st) /\ st.mac_id = u /\ st.failed = "none"
  BY <1>1 DEF IInv, Turn, NoFailureYet, Counted, Begun
<1>4. Right(st, st)
  BY <1>3 DEF UserRight, Right, RightTo
<1>5. Right(st, st2)
  <2>1. CASE st2 = st
    BY <1>4, <2>1
  <2>2. CASE st2 \in onPacketReception(u)
    <3>1. /\ packet[Peer(u)] # NONE
          /\ \E c \in Conformant : st2 \in processBroadcastMessage(st, packet[Peer(u)], c)
      BY <2>2 DEF onPacketReception
    <3>2. PacketRight(packet[Peer(u)])
      BY <3>1, Pair DEF IInv
    <3> DEFINE p == packet[Peer(u)]
    <3>3. PacketRight(p) /\ \E c \in Conformant : st2 \in processBroadcastMessage(st, p, c)
      BY <3>1, <3>2
    <3> HIDE DEF p, st
    <3>4. PICK c \in Conformant : st2 \in processBroadcastMessage(st, p, c)
      BY <3>3
    <3> QED BY <1>3, <1>4, <3>3, <3>4, MessageProcessed
  <2>3. CASE \E o \in Others, s \in Claims : st2 \in checkAdvertisedSlot(st, o, s)
    <3>1. PICK o \in Others, s \in Claims : st2 \in checkAdvertisedSlot(st, o, s)
      BY <2>3
    <3>2. o \in UserIds /\ s \in Slots
      BY UsersAssumption, ClaimsAssumption
    <3> HIDE DEF st
    <3> QED BY <1>3, <1>4, <3>1, <3>2, SlotExpected
  <2> QED BY <1>2, <2>1, <2>2, <2>3 DEF Received
<1> DEFINE ended == [onLinkSlotEnd(st2, more) EXCEPT !.advertised = CountDown(@)]
           new == IF st2.failed # "none" THEN st2 ELSE ended
<1>6. RightTo(st, new, 0)
  <2>1. CASE st2.failed # "none"
    BY <1>5, <2>1 DEF Right, RightTo
  <2>2. CASE st2.failed = "none"
    <3>1. Right(st2, st2)
      BY <1>5 DEF Right, RightTo
    <3> HIDE DEF ended
    <3>2. RightTo(st2, ended, 0)
      BY <2>2, <3>1, SlotEnded DEF ended
    <3> QED BY <1>5, <2>2, <3>2 DEF Right, RightTo
  <2> QED BY <2>1, <2>2
<1>7. user' = [user EXCEPT ![u] = new]
  BY <1>2
<1> HIDE DEF new
<1>8. Typed(new) /\ new.mac_id = u /\ Ahead(new) /\ (new.failed = "none" => Held(new) /\ CountRight(new, 0))
  BY <1>3, <1>6 DEF RightTo
<1>9. /\ user' \in [Users -> UserStates] /\ user'[u] = new
      /\ \A v \in Users \ {u} : user'[v] = user[v]
  BY <1>7, <1>8 DEF IInv, Typed
<1>10. /\ packet' \in [Users -> Packets \cup {NONE}]
       /\ packet'[u] = NONE \/ PacketRight(packet'[u])
       /\ \A v \in Users \ {u} : packet'[v] = packet[v]
  BY <1>1 DEF IInv
<1>11. /\ Typed(user'[u]) /\ user'[u].mac_id = u
       /\ user'[u].failed = "none" =>
            /\ Held(user'[u])
            /\ "end" # "update" => Ahead(user'[u])
            /\ CountRight(user'[u], IF "end" = "end" THEN 0 ELSE -1)
  BY <1>8, <1>9
<1> QED BY <1>1, <1>9, <1>10, <1>11, UserStep

LEMMA NotifyIInv ==
  ASSUME IInv, NEW u \in Users, NotifyOutgoing(u)
  PROVE  IInv'
<1> DEFINE st  == user[u]
           new == notifyOutgoing(st)
<1>1. /\ NoFailureYet /\ st.link_status = "link_not_established"
      /\ user' = [user EXCEPT ![u] = new] /\ UNCHANGED << packet, phase, todo >>
  BY DEF NotifyOutgoing
<1>2. UserRight(u) /\ Typed(st) /\ st.mac_id = u
  BY <1>1 DEF IInv
<1>3. Returns(st, new)
  <2> HIDE DEF st
  <2> QED BY <1>1, <1>2, Notified DEF UserRight, st
<1> HIDE DEF new
<1>4. Typed(new) /\ Held(new) /\ new.mac_id = u
  BY <1>2, <1>3 DEF Returns, Own
<1>5. Ahead(st) => Ahead(new)
  BY <1>3 DEF Returns, Own, Ahead
<1>6. \A b \in Int : CountRight(st, b) => CountRight(new, b)
  BY <1>3 DEF Returns, CountRight
<1> QED BY <1>1, <1>4, <1>5, <1>6, UserChange

LEMMA OtherReceptionIInv ==
  ASSUME IInv, NEW u \in Users, NEW c \in PP, NEW s \in OtherSlots, NEW other \in Others,
         OtherReception(u, c, s, other)
  PROVE  IInv'
<1> DEFINE st  == user[u]
           new == [st EXCEPT !.tables = Mark(@, c, s, Res("RX", other))]
<1>1. /\ NoFailureYet /\ IsRxValid(st.tables, c, s)
      /\ user' = [user EXCEPT ![u] = new] /\ UNCHANGED << packet, phase, todo >>
  BY DEF OtherReception, IInv
<1>2. UserRight(u) /\ Typed(st) /\ st.mac_id = u
  BY <1>1 DEF IInv
<1>3. s \in Slots /\ s > 0
  BY ClaimsAssumption, HorizonAssumption DEF Slots
<1>4. /\ Typed(new) /\ Held(new) /\ SameLink(st, new)
      /\ new.slot = st.slot /\ new.scheduled = st.scheduled /\ new.failed = st.failed
      /\ \A b \in Int : CountRight(st, b) => CountRight(new, b)
  <2>1. Held(st)
    BY <1>2 DEF UserRight
  <2> HIDE DEF st, new
  <2>2. new = [st EXCEPT !.tables = Mark(@, c, s, Res("RX", other))]
    BY DEF new
  <2> QED BY <1>1, <1>2, <1>3, <2>1, <2>2, ReceptionMarked
<1> HIDE DEF new
<1>5. Typed(new) /\ Held(new) /\ new.mac_id = u /\ (Ahead(st) => Ahead(new))
  BY <1>2, <1>4 DEF SameLink, Ahead
<1> QED BY <1>1, <1>4, <1>5, UserChange

LEMMA NextIInv == IInv /\ [Next]_vars => IInv'
<1> SUFFICES ASSUME IInv, [Next]_vars PROVE IInv'
  OBVIOUS
<1>1. ASSUME NEW u \in Users, Update(u) PROVE IInv'
  BY <1>1, UpdateIInv
<1>2. ASSUME NEW u \in Users, Execute(u) PROVE IInv'
  BY <1>2, ExecuteIInv
<1>3. ASSUME NEW u \in Users, SlotEnd(u) PROVE IInv'
  BY <1>3, SlotEndIInv
<1>4. ASSUME NEW u \in Users, NotifyOutgoing(u) PROVE IInv'
  BY <1>4, NotifyIInv
<1>5. ASSUME NEW u \in Users, NEW c \in PP, NEW s \in OtherSlots, NEW other \in Others,
             OtherReception(u, c, s, other)
      PROVE  IInv'
  BY <1>5, OtherReceptionIInv
<1>6. CASE UNCHANGED vars
  BY <1>6 DEF vars, IInv, UserRight, Begun, Counted, NoFailureYet
<1> QED BY <1>1, <1>2, <1>3, <1>4, <1>5, <1>6 DEF Next

LEMMA Inductive == Spec => []IInv
BY InitIInv, NextIInv, PTL DEF Spec

-----------------------------------------------------------------------------
(* The theorems *)

(* Every variable of LinkEstablishment keeps its type, whatever the        *)
(* handlers throw: in particular a link's timeout never falls below zero,  *)
(* establishment_attempts stays under its maximum, and a user only ever    *)
(* holds slots within the planning horizon.                                *)
THEOREM TypeCorrect == Spec => []TypeOK
<1>1. IInv => TypeOK
  BY DEF IInv, TypeOK
<1> QED BY <1>1, Inductive, PTL

(* A slot that PPLinkManager has locked, on a channel or for the           *)
(* transmitter, is locked by a request that still awaits its reply and     *)
(* recorded for it, so that cancelLink will find it: no path of retries,   *)
(* crossed requests, lost broadcasts and late replies leaves a lock behind *)
THEOREM LocksAwaitReplyHolds == Spec => []LocksAwaitReply
<1>1. IInv => LocksAwaitReply
  <2> SUFFICES ASSUME IInv, NoFailureYet, NEW u \in Users, NEW t \in Tables,
                      NEW s \in Slots \ {0}, IsLocked(user[u].tables[t][s])
               PROVE  /\ user[u].link_status = "awaiting_reply"
                      /\ <<t, s>> \in user[u].locked_resources
    BY DEF LocksAwaitReply
  <2>1. LocksRight(user[u])
    BY DEF IInv, UserRight, Held
  <2>2. s \in Slots /\ s > 0
    BY HorizonAssumption DEF Slots
  <2> QED BY <2>1, <2>2 DEF LocksRight
<1> QED BY <1>1, Inductive, PTL

(* The slots that a user sends or receives in for its peer are exactly     *)
(* those that its PPLinkManager has scheduled for the present link: what a *)
(* link that was given up, refused or replaced had reserved is returned,   *)
(* and nobody takes a burst of the present one.                            *)
THEOREM BurstsOfLinkHolds == Spec => []BurstsOfLink
<1>1. IInv => BurstsOfLink
  <2> SUFFICES ASSUME IInv, NoFailureYet, NEW u \in Users, NEW c \in PP, NEW s \in Slots \ {0}
               PROVE  (/\ user[u].tables[c][s].action \in {"TX", "RX"}
                       /\ user[u].tables[c][s].target = Peer(u))
                      <=> <<c, s>> \in user[u].scheduled_resources
    BY DEF BurstsOfLink
  <2>1. BurstsRight(user[u]) /\ user[u].link_id = Peer(u)
    BY DEF IInv, UserRight, Held, Typed
  <2>2. s \in Slots /\ s > 0
    BY HorizonAssumption DEF Slots
  <2>3. <<c, s>> \in user[u].scheduled_resources => Burst(user[u], c, s)
    <3> DEFINE e == <<c, s>>
    <3>1. e[1] = c /\ e[2] = s
      OBVIOUS
    <3> HIDE DEF e
    <3> QED BY <2>1, <3>1 DEF BurstsRight, e
  <2> QED BY <2>1, <2>2, <2>3 DEF BurstsRight, Burst
<1> QED BY <1>1, Inductive, PTL

(* SHLinkManager has a reply queued only while the link it accepts is      *)
(* established, at the user who received the request, and never two: a     *)
(* link that ends or changes hands takes its reply with it.                *)
THEOREM ReplyForLinkHolds == Spec => []ReplyForLink
<1>1. IInv => ReplyForLink
  <2> SUFFICES ASSUME IInv, NoFailureYet, NEW u \in Users, user[u].link_replies # << >>
               PROVE  /\ Len(user[u].link_replies) = 1
                      /\ user[u].link_status = "link_established"
                      /\ ~user[u].is_link_initiator
    BY DEF ReplyForLink
  <2>1. QueuesRight(user[u])
    BY DEF IInv, UserRight, Held
  <2> QED BY <2>1 DEF QueuesRight
<1> QED BY <1>1, Inductive, PTL

(* A PPLinkManager that waits for its request to be generated has exactly  *)
(* one queued at the SHLinkManager, and in no other status has it one: no  *)
(* attempt is forgotten and none is made twice.                            *)
THEOREM RequestQueuedHolds == Spec => []RequestQueued
<1>1. IInv => RequestQueued
  <2> SUFFICES ASSUME IInv, NoFailureYet, NEW u \in Users
               PROVE  user[u].link_requests = IF user[u].link_status = "awaiting_request_generation"
                                              THEN << Peer(u) >> ELSE << >>
    BY DEF RequestQueued
  <2>1. user[u].link_id = Peer(u)
    BY DEF IInv, Typed
  <2>2. QueuesRight(user[u])
    BY DEF IInv, UserRight, Held
  <2> QED BY <2>1, <2>2 DEF QueuesRight
<1> QED BY <1>1, Inductive, PTL
=============================================================================
