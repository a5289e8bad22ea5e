------------------------ MODULE LinkContract_proofs ------------------------
(***************************************************************************)
(* Proofs about LinkContract: its rules alone keep the two ends of a link  *)
(* in agreement, for any channels, horizon, timeout and distance of the    *)
(* bursts.  What implements them inherits the result.                      *)
(***************************************************************************)
EXTENDS LinkContract, TLAPS

(* The phase moves on when all users have taken their step. *)
TypeInv == TypeOK /\ todo # {}

IInv == TypeInv /\ Agreement

-----------------------------------------------------------------------------
(* Lemmas about the data *)

LEMMA Monotone == ASSUME NEW x \in Nat, NEW y \in Nat, NEW z \in Nat, x =< y
                  PROVE  x * z =< y * z
BY SMT

(* All bursts of a proposal that ends within the horizon are slots. *)
LEMMA BurstsInHorizon ==
  ASSUME NEW s \in Slots, InHorizon(s)
  PROVE  TxBursts(s) \subseteq Slots /\ RxBursts(s) \subseteq Slots
<1>1. Timeout \in Nat /\ Timeout >= 1 /\ Increment \in Nat /\ Horizon \in Nat /\ s \in Nat
  BY BurstsAssumption, HorizonAssumption DEF Slots
<1>2. s + (2 * Timeout - 1) * Increment =< Horizon
  BY DEF InHorizon, LastBurst
<1>3. ASSUME NEW k \in 0 .. Timeout - 1
      PROVE  /\ 2 * k * Increment \in Nat /\ s + 2 * k * Increment =< Horizon
             /\ (2 * k + 1) * Increment \in Nat /\ s + (2 * k + 1) * Increment =< Horizon
  <2>1. 2 * k \in Nat /\ 2 * k + 1 \in Nat /\ 2 * Timeout - 1 \in Nat
        /\ 2 * k =< 2 * Timeout - 1 /\ 2 * k + 1 =< 2 * Timeout - 1
    BY <1>1
  <2>2. 2 * k * Increment =< (2 * Timeout - 1) * Increment
        /\ (2 * k + 1) * Increment =< (2 * Timeout - 1) * Increment
    BY <1>1, <2>1, Monotone
  <2>3. 2 * k * Increment \in Nat /\ (2 * k + 1) * Increment \in Nat
        /\ (2 * Timeout - 1) * Increment \in Nat
    BY <1>1, <2>1
  <2> QED  BY <1>1, <1>2, <2>2, <2>3
<1> QED  BY <1>1, <1>3 DEF TxBursts, RxBursts, Slots

LEMMA PassedEnds == ASSUME NEW e \in Ends PROVE Passed(e) \in Ends
<1>1. ASSUME NEW B \in SUBSET (PP \X Slots) PROVE Later(B) \in SUBSET (PP \X Slots)
  BY HorizonAssumption DEF Later, Slots
<1> QED  BY <1>1 DEF Passed, Ends

LEMMA ConstantEnds == NoLink \in Ends /\ Asking \in Ends
<1>1. 0 \in 0 .. Timeout
  BY BurstsAssumption
<1> QED  BY <1>1 DEF Unlinked, NoLink, Asking, Ends

LEMMA CountedEnds ==
  ASSUME NEW e \in Ends, NEW f \in Counted(e)
  PROVE  f \in Ends
<1>1. CASE f = e
  BY <1>1
<1>2. CASE e.left > 1 /\ f = [e EXCEPT !.left = @ - 1]
  <2>1. e.left \in 0 .. Timeout /\ e.left - 1 \in 0 .. Timeout
    BY <1>2, BurstsAssumption DEF Ends
  <2> QED  BY <1>2, <2>1 DEF Ends
<1>3. CASE f \in {NoLink, Asking}
  BY <1>3, ConstantEnds
<1> QED  BY <1>1, <1>2, <1>3 DEF Counted

LEMMA MirrorEnds == ASSUME NEW e \in Ends PROVE Mirror(e) \in Ends
BY DEF Mirror, Ends

LEMMA AcceptedEnds ==
  ASSUME NEW c \in PP, NEW s \in Slots, InHorizon(s)
  PROVE  Accepted(c, s) \in Ends
BY BurstsInHorizon, BurstsAssumption DEF Accepted, Ends

LEMMA PeerOf ==
  ASSUME NEW u \in Users
  PROVE  Peer(u) \in Users /\ Peer(u) # u /\ \A v \in Users : v # u => v = Peer(u)
<1>1. PICK a, b : a # b /\ Users = {a, b}
  BY UsersAssumption
<1>2. \E v \in Users : v # u
  BY <1>1
<1> QED  BY <1>1, <1>2 DEF Peer

LEMMA HeardEnds ==
  ASSUME TypeOK, NEW u \in Users, NEW h \in Heard(u)
  PROVE  h \in Ends
BY PeerOf, MirrorEnds, AcceptedEnds DEF Heard, TypeOK

-----------------------------------------------------------------------------
(* The type invariant and the turns *)

LEMMA TypeInit == Init => TypeInv
<1>1. \E u \in Users : TRUE
  BY UsersAssumption
<1> QED  BY <1>1, ConstantEnds DEF Init, TypeInv, TypeOK

LEMMA DoneType ==
  ASSUME TypeOK, NEW u \in Users, u \in todo, Done(u)
  PROVE  /\ phase' \in {"update", "execute", "end"}
         /\ todo' \in SUBSET Users /\ todo' # {}
BY DEF TypeOK, Done

LEMMA TypeNext == TypeInv /\ [Next]_vars => TypeInv'
<1> SUFFICES ASSUME TypeOK, todo # {}, [Next]_vars PROVE TypeOK' /\ todo' # {}
  BY DEF TypeInv
<1>1. CASE UNCHANGED vars
  BY <1>1 DEF TypeOK, vars
<1>2. ASSUME NEW u \in Users, Pass(u) PROVE TypeOK' /\ todo' # {}
  BY <1>2, DoneType, PassedEnds DEF TypeOK, Pass, Turn
<1>3. ASSUME NEW u \in Users, Talk(u) PROVE TypeOK' /\ todo' # {}
  BY <1>3, DoneType DEF TypeOK, Talk, Turn
<1>4. ASSUME NEW u \in Users, Close(u) PROVE TypeOK' /\ todo' # {}
  BY <1>4, DoneType, HeardEnds, CountedEnds DEF TypeOK, Close, Turn
<1>5. ASSUME NEW u \in Users, Ask(u) PROVE TypeOK' /\ todo' # {}
  BY <1>5, ConstantEnds DEF TypeOK, Ask
<1> QED  BY <1>1, <1>2, <1>3, <1>4, <1>5 DEF Next

(* The ends of the link are well-formed in every reachable state.          *)
THEOREM TypeCorrect == Spec => []TypeOK
<1>1. TypeInv => TypeOK
  BY DEF TypeInv
<1> QED  BY <1>1, TypeInit, TypeNext, PTL DEF Spec

-----------------------------------------------------------------------------
(* Agreement *)

(* What the two ends compare, whether or not the phase is over for each.   *)
Matches(u, v) ==
  /\ ~end[v].initiator
  /\ Slotted(u).tx = Slotted(v).rx
  /\ Slotted(u).rx = Slotted(v).tx
  /\ LeftAfter(u) = LeftAfter(v)

Linked(u, v) ==
  end[u].status = "linked" /\ end[u].initiator /\ end[v].status = "linked"

LEMMA AgreementIs == Agreement <=> \A u, v \in Users : u # v /\ Linked(u, v) => Matches(u, v)
BY DEF Agreement, Linked, Matches

LEMMA AgreementInit == Init => Agreement
BY DEF Init, Agreement, Unlinked, NoLink

(* The turn goes on to the next user or to the next phase. *)
LEMMA DoneCases ==
  ASSUME TypeOK, NEW w \in Users, w \in todo, Done(w)
  PROVE  \/ /\ phase' = phase /\ todo' = todo \ {w} /\ todo' # {}
         \/ /\ todo = {w} /\ todo' = Users
            /\ phase = "update" => phase' = "execute"
            /\ phase = "execute" => phase' = "end"
            /\ phase = "end" => phase' = "update"
BY DEF TypeOK, Done

LEMMA PassedIs ==
  ASSUME NEW e \in Ends
  PROVE  /\ Passed(e).status = e.status /\ Passed(e).initiator = e.initiator
         /\ Passed(e).tx = Later(e.tx) /\ Passed(e).rx = Later(e.rx)
         /\ Passed(e).left = e.left
BY DEF Passed, Ends

(* A slot passes for one user: what the ends compare is what it was, since *)
(* the other end is already taken as if the slot had passed for it.        *)
LEMMA PassKeeps ==
  ASSUME IInv, NEW w \in Users, Pass(w)
  PROVE  Agreement'
<1>1. /\ phase = "update" /\ w \in todo /\ Done(w) /\ end' = [end EXCEPT ![w] = Passed(@)]
      /\ TypeOK /\ Agreement
  BY DEF Pass, Turn, IInv, TypeInv
<1>2. end \in [Users -> Ends] /\ todo \subseteq Users
  BY <1>1 DEF TypeOK
<1>3. phase' \in {"update", "execute"} /\ (phase' = "update" => todo' = todo \ {w})
      /\ (phase' = "execute" => todo = {w})
  BY <1>1, DoneCases
<1>4. ASSUME NEW u \in Users
      PROVE  /\ end'[u].status = end[u].status /\ end'[u].initiator = end[u].initiator
             /\ end'[u].left = end[u].left
             /\ Slotted(u)'.tx = Slotted(u).tx /\ Slotted(u)'.rx = Slotted(u).rx
  <2>1. end[u] \in Ends
    BY <1>2
  <2>2. CASE u = w
    BY <1>1, <1>2, <1>3, <2>1, <2>2, PassedIs DEF Slotted
  <2>3. CASE u # w
    BY <1>1, <1>2, <1>3, <2>1, <2>3 DEF Slotted
  <2> QED  BY <2>2, <2>3
<1>5. ASSUME NEW u \in Users PROVE LeftAfter(u) = end[u].left /\ LeftAfter(u)' = end'[u].left
  BY <1>1, <1>3 DEF LeftAfter
<1> QED  BY <1>1, <1>4, <1>5 DEF Agreement

LEMMA TalkKeeps ==
  ASSUME IInv, NEW w \in Users, Talk(w)
  PROVE  Agreement'
<1>1. /\ phase = "execute" /\ w \in todo /\ Done(w) /\ end' = end /\ TypeOK /\ Agreement
  BY DEF Talk, Turn, IInv, TypeInv
<1>2. CASE phase' = phase
  BY <1>1, <1>2 DEF Agreement, Slotted, LeftAfter
<1>3. CASE phase' = "end" /\ todo' = Users
  <2>1. ASSUME NEW u \in Users
        PROVE  /\ Slotted(u)' = end[u] /\ Slotted(u) = end[u] /\ LeftAfter(u) = end[u].left
               /\ LeftAfter(u)' = IF ExchangeEnds(end[u]) THEN end[u].left - 1 ELSE end[u].left
    BY <1>1, <1>3 DEF Slotted, LeftAfter
  <2>2. ASSUME NEW u \in Users, NEW v \in Users, u # v, Linked(u, v)
        PROVE  /\ Matches(u, v)
               /\ ExchangeEnds(end[u]) <=> ExchangeEnds(end[v])
    BY <1>1, <2>1, <2>2, AgreementIs DEF ExchangeEnds, Linked, Matches
  <2> QED  BY <1>1, <2>1, <2>2 DEF Agreement, Linked, Matches
<1> QED  BY <1>1, <1>2, <1>3, DoneCases

(* What the ends compare while slots end: as soon as an exchange is counted*)
(* at one end, the other is taken as if it had counted it too.             *)
LEMMA CloseKeeps ==
  ASSUME IInv, NEW w \in Users, Close(w)
  PROVE  Agreement'
<1> DEFINE x == Peer(w)
<1>1. /\ phase = "end" /\ w \in todo /\ Done(w) /\ TypeOK /\ Agreement
      /\ end \in [Users -> Ends] /\ todo \subseteq Users
  BY DEF Close, Turn, IInv, TypeInv, TypeOK
<1>2. x \in Users /\ x # w /\ \A v \in Users : v # w => v = x
  BY PeerOf
<1>3. PICK h \in Heard(w) : \E e \in Counted(h) : end' = [end EXCEPT ![w] = e]
  BY DEF Close
<1>4. PICK e \in Counted(h) : end' = [end EXCEPT ![w] = e]
  BY <1>3
<1>5. h \in Ends /\ e \in Ends /\ end[x] \in Ends /\ end'[w] = e /\ end'[x] = end[x]
  BY <1>1, <1>2, <1>4, HeardEnds, CountedEnds
<1>6. \/ phase' = "end" /\ todo' = todo \ {w}
      \/ phase' = "update" /\ todo = {w} /\ todo' = Users
  BY <1>1, DoneCases
<1>7. /\ LeftAfter(w)' = e.left
      /\ LeftAfter(x)' = LeftAfter(x)
  BY <1>1, <1>2, <1>5, <1>6 DEF LeftAfter
<1>8. ASSUME e.status = "linked", end[x].status = "linked", e.initiator \/ end[x].initiator
      PROVE  /\ e.initiator <=> ~end[x].initiator
             /\ e.tx = end[x].rx /\ e.rx = end[x].tx /\ e.left = LeftAfter(x)
  <2>1. /\ h.status = "linked" /\ e.initiator = h.initiator /\ e.tx = h.tx /\ e.rx = h.rx
        /\ e.left = IF ExchangeEnds(h) THEN h.left - 1 ELSE h.left
    BY <1>4, <1>5, <1>8 DEF Counted, Unlinked, NoLink, Asking, Ends
  <2>2. CASE h = end[w]
    <3>1. Slotted(w) = end[w] /\ Slotted(x) = end[x]
          /\ LeftAfter(w) = IF ExchangeEnds(end[w]) THEN end[w].left - 1 ELSE end[w].left
      BY <1>1, <2>2 DEF Slotted, LeftAfter
    <3>2. e.initiator \in BOOLEAN /\ end[x].initiator \in BOOLEAN
      BY <1>5 DEF Ends
    <3>3. CASE e.initiator
      <4>1. Matches(w, x)
        BY <1>1, <1>2, <1>8, <2>1, <2>2, <3>3, AgreementIs DEF Linked
      <4> QED  BY <2>1, <2>2, <3>1, <3>3, <4>1 DEF Matches
    <3>4. CASE end[x].initiator
      <4>1. Matches(x, w)
        BY <1>1, <1>2, <1>8, <2>1, <2>2, <3>4, AgreementIs DEF Linked
      <4> QED  BY <2>1, <2>2, <3>1, <3>4, <4>1 DEF Matches
    <3> QED  BY <1>8, <3>3, <3>4
  <2>3. CASE ~end[x].initiator /\ ~Now(end[x].tx) /\ h = Mirror(end[x])
    <3>1. /\ h.initiator = ~end[x].initiator /\ h.tx = end[x].rx /\ h.rx = end[x].tx
          /\ h.left = end[x].left
      BY <1>5, <2>3 DEF Mirror, Ends
    <3>2. ~ExchangeEnds(h) /\ ~ExchangeEnds(end[x])
      BY <2>3, <3>1 DEF ExchangeEnds
    <3> QED  BY <2>1, <2>3, <3>1, <3>2 DEF LeftAfter
  <2> QED  BY <1>3, <1>8, <2>2, <2>3 DEF Heard
<1>9. CASE phase' = "end" /\ todo' = todo \ {w}
  <2> SUFFICES ASSUME NEW u \in Users, NEW v \in Users, u # v,
                      end'[u].status = "linked", end'[u].initiator, end'[v].status = "linked"
               PROVE  /\ ~end'[v].initiator
                      /\ Slotted(u)'.tx = Slotted(v)'.rx
                      /\ Slotted(u)'.rx = Slotted(v)'.tx
                      /\ LeftAfter(u)' = LeftAfter(v)'
    BY DEF Agreement
  <2>1. Slotted(w)' = e /\ Slotted(x)' = end[x]
    BY <1>5, <1>9 DEF Slotted
  <2>4. ASSUME NEW y \in Users, NEW z \in Users, y = z
        PROVE  Slotted(y)' = Slotted(z)' /\ LeftAfter(y)' = LeftAfter(z)'
    BY <2>4 DEF Slotted, LeftAfter
  <2>2. CASE u = w /\ v = x
    BY <1>2, <1>5, <1>7, <1>8, <2>1, <2>2, <2>4
  <2>3. CASE u = x /\ v = w
    BY <1>2, <1>5, <1>7, <1>8, <2>1, <2>3, <2>4
  <2> QED  BY <1>2, <2>2, <2>3
<1>10. CASE phase' = "update" /\ todo' = Users
  <2> SUFFICES ASSUME NEW u \in Users, NEW v \in Users, u # v,
                      end'[u].status = "linked", end'[u].initiator, end'[v].status = "linked"
               PROVE  /\ ~end'[v].initiator
                      /\ Slotted(u)'.tx = Slotted(v)'.rx
                      /\ Slotted(u)'.rx = Slotted(v)'.tx
                      /\ LeftAfter(u)' = LeftAfter(v)'
    BY DEF Agreement
  <2>1. Slotted(w)' = Passed(e) /\ Slotted(x)' = Passed(end[x])
    BY <1>2, <1>5, <1>10 DEF Slotted
  <2>2. /\ Passed(e).tx = Later(e.tx) /\ Passed(e).rx = Later(e.rx)
        /\ Passed(end[x]).tx = Later(end[x].tx) /\ Passed(end[x]).rx = Later(end[x].rx)
    BY <1>5, PassedIs
  <2>5. ASSUME NEW y \in Users, NEW z \in Users, y = z
        PROVE  Slotted(y)' = Slotted(z)' /\ LeftAfter(y)' = LeftAfter(z)'
    BY <2>5 DEF Slotted, LeftAfter
  <2>3. CASE u = w /\ v = x
    BY <1>2, <1>5, <1>7, <1>8, <2>1, <2>2, <2>3, <2>5
  <2>4. CASE u = x /\ v = w
    BY <1>2, <1>5, <1>7, <1>8, <2>1, <2>2, <2>4, <2>5
  <2> QED  BY <1>2, <2>3, <2>4
<1> QED  BY <1>6, <1>9, <1>10

LEMMA AskKeeps ==
  ASSUME IInv, NEW w \in Users, Ask(w)
  PROVE  Agreement'
<1>1. /\ end' = [end EXCEPT ![w] = Asking] /\ phase' = phase /\ todo' = todo
      /\ Agreement /\ end \in [Users -> Ends]
  BY DEF Ask, IInv, TypeInv, TypeOK
<1>2. ASSUME NEW u \in Users PROVE end'[u] = end[u] \/ end'[u] = Asking
  BY <1>1
<1>3. Asking.status # "linked"
  BY DEF Asking, Unlinked
<1> QED  BY <1>1, <1>2, <1>3 DEF Agreement, Slotted, LeftAfter

LEMMA Inductive == IInv /\ [Next]_vars => IInv'
<1> SUFFICES ASSUME IInv, [Next]_vars PROVE IInv'
  OBVIOUS
<1>1. TypeInv'
  BY TypeNext DEF IInv
<1>2. CASE UNCHANGED vars
  BY <1>2 DEF vars, IInv, TypeInv, Agreement, TypeOK, Slotted, LeftAfter
<1>3. CASE Next
  BY <1>1, <1>3, PassKeeps, TalkKeeps, CloseKeeps, AskKeeps DEF Next, IInv
<1> QED  BY <1>2, <1>3

(* Both ends of a link use the same slots in opposite directions and have  *)
(* the same number of exchanges left, for any timeout and horizon.         *)
THEOREM AgreementHolds == Spec => []Agreement
<1>1. Init => IInv
  BY TypeInit, AgreementInit DEF IInv
<1>2. IInv => Agreement
  BY DEF IInv
<1> QED  BY <1>1, <1>2, Inductive, PTL DEF Spec
=============================================================================
