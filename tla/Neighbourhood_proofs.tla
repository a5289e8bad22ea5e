------------------------ MODULE Neighbourhood_proofs ------------------------
(***************************************************************************)
(* Proofs about Neighbourhood: type correctness; that what a user expects  *)
(* of a neighbour it has heard is what that neighbour has reserved, so that*)
(* two of them do not send in the same slot; and that every user takes the *)
(* steps of BroadcastSlot only.  All for every number of users, receivers  *)
(* and channels and every horizon.                                         *)
(***************************************************************************)
EXTENDS Neighbourhood, SharedChannel_proofs, FiniteSetTheorems

(* Where a user is before and after its step of a stage                    *)
Before == [update |-> {"between"}, execute |-> {"started", "transmitting"},
           end |-> {"executed", "processed"}]
Behind == [update |-> "started", execute |-> "executed", end |-> "between"]

InStage ==
  \A u \in UserIds : at[u] \in IF u \in todo THEN Before[stage] ELSE {Behind[stage]}

UsersGood ==
  \A u \in UserIds :
    /\ Good(user[u])
    /\ at[u] \in {"between", "executed", "processed"} => Ahead(user[u])
    /\ at[u] = "transmitting" => IsTx(user[u].tables[SH][0])

ObserversGood ==
  \A u, v \in UserIds :
    /\ obs[u].advertised_broadcast_slots[v] \in Slots \cup {NONE}
    /\ obs[u].advertised_broadcast_slots[v] # NONE => v \in Active(obs[u])

(* A packet is on its way for the rest of the slot.  Its sender does not   *)
(* listen, so nothing moves the slot that the packet advertises.           *)
PacketsRight ==
  \A v \in UserIds :
    packet[v] # NONE =>
      /\ packet[v].dests \in {{}} \cup {{d} : d \in UserIds \ {v}}
      /\ stage # "update" /\ (v \in todo => stage = "end")
      /\ ~IsRx(user[v].tables[SH][0])
      /\ NoFailureYet => /\ user[v].scheduled /\ user[v].slot = packet[v].slot
                         /\ packet[v].slot \in 1 .. Horizon - 1

(* Where v's next broadcast lies in u's tables, which have been updated or *)
(* not for this time slot, as v's have                                     *)
Late(u) == IF stage = "update" /\ u \in todo THEN 1 ELSE 0
Position(u, v) == user[v].slot - Late(v) + Late(u)
ExpectedIn(u, v) ==
  obs[u].advertised_broadcast_slots[v] + IF at[u] = "between" THEN 1 ELSE 0

FreshRight(u, v) ==
  /\ u # v /\ user[v].scheduled
  /\ Position(u, v) \in Slots
  /\ IsRx(user[u].tables[SH][Position(u, v)])
  /\ \/ obs[u].advertised_broadcast_slots[v] = NONE
     \/ ExpectedIn(u, v) = Position(u, v)

AllFreshRight ==
  NoFailureYet => \A u, v \in UserIds : <<u, v>> \in fresh => FreshRight(u, v)

(* The inductive invariant                                                 *)
NInv == /\ TypeOK /\ InStage /\ UsersGood /\ ObserversGood
        /\ PacketsRight /\ AllFreshRight

-----------------------------------------------------------------------------
(* Lemmas about the state of a user *)

LEMMA StateType ==
  ASSUME NEW st, Good(st), DOMAIN st = Fields, st.failed \in Failures
  PROVE  st \in [tables : [Tables -> [Slots -> Reservation]], slot : Slots,
                 scheduled : BOOLEAN, failed : Failures]
<1>1. st = [f \in Fields |-> st[f]]
  BY DEF Good, Shaped
<1>2. st.tables \in TB /\ st.slot \in Slots /\ st.scheduled \in BOOLEAN
  BY DEF Good
<1> QED BY <1>1, <1>2 DEF Fields, TB

LEMMA UserFields ==
  ASSUME TypeOK, NEW u \in UserIds
  PROVE  DOMAIN user[u] = Fields
BY DEF TypeOK, Fields

(* A user's step that its methods make *)
LEMMA UserChanges ==
  ASSUME TypeOK, NEW u \in UserIds, NEW st, Good(st), DOMAIN st = Fields,
         st.failed \in Failures, user' = [user EXCEPT ![u] = st]
  PROVE  /\ user' \in [UserIds -> [tables : [Tables -> [Slots -> Reservation]], slot : Slots,
                                   scheduled : BOOLEAN, failed : Failures]]
         /\ user'[u] = st
         /\ \A w \in UserIds \ {u} : user'[w] = user[w]
<1>1. st \in [tables : [Tables -> [Slots -> Reservation]], slot : Slots,
              scheduled : BOOLEAN, failed : Failures]
  BY StateType
<1> QED BY <1>1 DEF TypeOK

LEMMA SlotsArithmetic ==
  /\ \A s \in Slots : s \in Int /\ s >= 0
  /\ \A s \in Slots : s > 0 => s - 1 \in Slots
  /\ 1 .. Horizon - 1 \subseteq Slots
  /\ NONE \notin Slots
BY HorizonAssumption, NoneAssumption DEF Slots

LEMMA DoneInStage ==
  ASSUME TypeOK, InStage, NEW u \in UserIds, NEW sg \in {"update", "execute", "end"},
         Turn(u, sg), Done(u), Goes(u, Behind[sg])
  PROVE  /\ InStage'
         /\ todo' \subseteq UserIds /\ stage' \in {"update", "execute", "end"}
         /\ at' \in [UserIds -> {"between", "started", "transmitting", "executed", "processed"}]
         /\ \A w \in UserIds \ {u} : at'[w] = at[w]
         /\ at'[u] = Behind[sg]
<1>1. at' = [at EXCEPT ![u] = Behind[sg]] /\ stage = sg /\ u \in todo
  BY DEF Turn, Goes
<1>2. /\ at' \in [UserIds -> {"between", "started", "transmitting", "executed", "processed"}]
      /\ \A w \in UserIds \ {u} : at'[w] = at[w]
      /\ at'[u] = Behind[sg]
  BY <1>1 DEF TypeOK, Behind
<1>3. todo' \subseteq UserIds /\ stage' \in {"update", "execute", "end"}
  BY <1>1 DEF Done, TypeOK
<1>4. CASE todo = {u}
  <2>1. todo' = UserIds /\ Behind[sg] \in Before[stage']
    BY <1>1, <1>4 DEF Done, Before, Behind
  <2>2. \A w \in UserIds \ {u} : at[w] = Behind[sg]
    BY <1>1, <1>4 DEF InStage
  <2> QED BY <1>2, <1>3, <2>1, <2>2 DEF InStage
<1>5. CASE todo # {u}
  <2>1. todo' = todo \ {u} /\ stage' = sg
    BY <1>1, <1>5 DEF Done
  <2> QED BY <1>1, <1>2, <1>3, <2>1 DEF InStage
<1> QED BY <1>2, <1>3, <1>4, <1>5

(* How far the tables are behind, before and after a user is done *)
LEMMA LateChanges ==
  ASSUME TypeOK, NEW u \in UserIds, NEW sg \in {"update", "execute", "end"},
         Turn(u, sg), Done(u)
  PROVE  /\ \A w \in UserIds : Late(w) \in {0, 1}
         /\ sg = "update" => Late(u) = 1 /\ \A w \in UserIds : Late(w)' = IF w = u THEN 0 ELSE Late(w)
         /\ sg = "execute" => \A w \in UserIds : Late(w)' = 0 /\ Late(w) = 0
         /\ sg = "end" => \A w \in UserIds : Late(w) = 0 /\ Late(w)' = Late(u)' /\ Late(u)' \in {0, 1}
<1>0. stage = sg /\ u \in todo
  BY DEF Turn
<1>1. CASE todo = {u}
  BY <1>0, <1>1 DEF Done, Late
<1>2. CASE todo # {u}
  BY <1>0, <1>2 DEF Done, Late
<1> QED BY <1>1, <1>2

LEMMA InitNInv == Init => NInv
<1> SUFFICES ASSUME Init PROVE NInv
  OBVIOUS
<1>1. /\ EmptyTables \in TB
      /\ \A t \in Tables, s \in Slots : EmptyTables[t][s] = Idle
  BY Reservations DEF EmptyTables, TB
<1>2. /\ OneTx(EmptyTables) /\ HardwareNeverBusy(EmptyTables)
      /\ ReservedAt(EmptyTables, FALSE, 0) /\ SharedOnlyTxRx(EmptyTables)
  BY <1>1, Reservations, Disjoint DEF OneTx, HardwareNeverBusy, ReservedAt, SharedOnlyTxRx
<1> DEFINE st == [tables |-> EmptyTables, slot |-> 0, scheduled |-> FALSE, failed |-> "none"]
<1>3. /\ DOMAIN st = Fields /\ Shaped(st) /\ st.tables = EmptyTables /\ st.slot = 0
      /\ st.scheduled = FALSE /\ st.failed = "none"
  BY DEF Shaped, Fields
<1>4. \A u \in UserIds : user[u] = st
  BY DEF Init
<1> HIDE DEF st
<1>5. Good(st) /\ Ahead(st)
  BY <1>1, <1>2, <1>3, ZeroSlot DEF Good, Ahead
<1>6. st \in [tables : [Tables -> [Slots -> Reservation]], slot : Slots,
              scheduled : BOOLEAN, failed : Failures]
  BY <1>3, <1>5, StateType DEF Failures
<1>7. NobodySeen \in Observers
  BY LastSeenAssumption DEF NobodySeen, Observers
<1>8. TypeOK
  <2>1. user = [u \in UserIds |-> st]
    BY DEF Init, st
  <2> QED BY <1>6, <1>7, <2>1 DEF Init, TypeOK
<1>9. InStage
  BY DEF Init, InStage, Before
<1>10. UsersGood
  BY <1>4, <1>5 DEF Init, UsersGood
<1>11. ObserversGood
  BY DEF Init, ObserversGood, NobodySeen
<1>12. PacketsRight /\ AllFreshRight
  BY DEF Init, PacketsRight, AllFreshRight
<1> QED BY <1>8, <1>9, <1>10, <1>11, <1>12 DEF NInv

-----------------------------------------------------------------------------
(* The invariant is inductive. *)

(* MCSOTDMA_Mac::update: what a user has after it *)
LEMMA UserSlotStarted ==
  ASSUME NInv, NEW u \in UserIds, SlotStart(u),
         NEW st \in onSlotStart(user[u])
  PROVE  LET st2 == ListenNow(st) IN
         /\ Good(user[u]) /\ Ahead(user[u]) /\ user[u].failed = "none"
         /\ Good(st2) /\ DOMAIN st2 = Fields /\ st2.failed \in {"none", "no_candidate"}
         /\ \A s \in Slots : s > 0 /\ IsRx(user[u].tables[SH][s]) => IsRx(st2.tables[SH][s - 1])
         /\ user[u].scheduled => st2.slot = user[u].slot - 1 /\ st2.scheduled
<1> DEFINE st2 == ListenNow(st)
<1>1. at[u] = "between"
  BY DEF NInv, InStage, Before, SlotStart, Turn
<1>2. Good(user[u]) /\ Ahead(user[u]) /\ user[u].failed = "none" /\ DOMAIN user[u] = Fields
  BY <1>1, UserFields DEF NInv, UsersGood, SlotStart, Turn, NoFailureYet
<1>3. /\ Good(st) /\ st.failed \in {"none", "no_candidate"}
      /\ user[u].scheduled => st.slot = user[u].slot - 1 /\ st.scheduled
  BY <1>2, SlotStartEffect
<1>4. PICK on : /\ on.tables = Shift(user[u].tables) /\ Keeps(on, st)
                /\ DOMAIN on = DOMAIN user[u]
  BY <1>2, SlotStartEffect
<1>5. /\ Good(st2) /\ Keeps(st, st2) /\ st2.failed = st.failed
      /\ st2.slot = st.slot /\ st2.scheduled = st.scheduled
  BY <1>3, Listen
<1>6. Keeps(on, st2) /\ DOMAIN st2 = Fields
  BY <1>2, <1>4, <1>5, KeepsTransitive DEF Keeps
<1>7. ASSUME NEW s \in Slots, s > 0, IsRx(user[u].tables[SH][s])
      PROVE  IsRx(st2.tables[SH][s - 1])
  <2>1. IsRx(Shift(user[u].tables)[SH][s - 1])
    BY <1>2, <1>7, ShiftEffect, Disjoint DEF Good
  <2>2. s - 1 \in Slots
    BY <1>7, SlotsArithmetic
  <2> QED BY <1>4, <1>6, <2>1, <2>2 DEF Keeps
<1> QED BY <1>2, <1>3, <1>5, <1>6, <1>7

LEMMA SlotStartNInv ==
  ASSUME NInv, NEW u \in UserIds, SlotStart(u)
  PROVE  NInv'
<1>1. PICK st \in onSlotStart(user[u]) : user' = [user EXCEPT ![u] = ListenNow(st)]
  BY DEF SlotStart
<1> DEFINE st2 == ListenNow(st)
<1>2. /\ Good(user[u]) /\ Ahead(user[u]) /\ user[u].failed = "none"
      /\ Good(st2) /\ DOMAIN st2 = Fields /\ st2.failed \in {"none", "no_candidate"}
      /\ \A s \in Slots : s > 0 /\ IsRx(user[u].tables[SH][s]) => IsRx(st2.tables[SH][s - 1])
      /\ user[u].scheduled => st2.slot = user[u].slot - 1 /\ st2.scheduled
  BY UserSlotStarted
<1> HIDE DEF st2
<1>3. TypeOK /\ InStage /\ Turn(u, "update") /\ Done(u) /\ Goes(u, Behind["update"])
  BY DEF NInv, SlotStart, Behind
<1>4. /\ InStage'
      /\ todo' \subseteq UserIds /\ stage' \in {"update", "execute", "end"}
      /\ at' \in [UserIds -> {"between", "started", "transmitting", "executed", "processed"}]
      /\ \A w \in UserIds \ {u} : at'[w] = at[w]
      /\ at'[u] = "started"
  BY <1>3, DoneInStage DEF Behind
<1>5. /\ user' \in [UserIds -> [tables : [Tables -> [Slots -> Reservation]], slot : Slots,
                                scheduled : BOOLEAN, failed : Failures]]
      /\ user'[u] = st2
      /\ \A w \in UserIds \ {u} : user'[w] = user[w]
  BY <1>1, <1>2, <1>3, UserChanges DEF Failures, st2
<1>6. UNCHANGED << obs, packet, fresh >>
  BY DEF SlotStart
<1>7. TypeOK'
  BY <1>4, <1>5, <1>6 DEF NInv, TypeOK
<1>8. UsersGood'
  BY <1>2, <1>4, <1>5 DEF NInv, UsersGood
<1>9. ObserversGood'
  BY <1>6 DEF NInv, ObserversGood
<1>10. PacketsRight'
  <2>1. \A v \in UserIds : packet[v] = NONE
    BY <1>3 DEF NInv, PacketsRight, Turn
  <2> QED BY <1>6, <2>1 DEF PacketsRight
<1>11. AllFreshRight'
  <2> SUFFICES ASSUME NEW a \in UserIds, NEW b \in UserIds, <<a, b>> \in fresh
               PROVE  FreshRight(a, b)'
    BY <1>6 DEF AllFreshRight
  <2>1. FreshRight(a, b)
    BY <1>3 DEF NInv, AllFreshRight, Turn
  <2>2. /\ Late(u) = 1 /\ \A w \in UserIds : Late(w)' = IF w = u THEN 0 ELSE Late(w)
        /\ Late(b) \in {0, 1} /\ Late(a) \in {0, 1}
    BY <1>3, LateChanges
  <2>3. user[a].slot \in Int /\ user[b].slot \in Int
    BY <1>3, SlotsArithmetic DEF TypeOK
  <2>4. CASE a = u
    <3>1. user'[b] = user[b] /\ b # u
      BY <1>5, <2>1, <2>4 DEF FreshRight
    <3>2. user[b].slot - Late(b) >= 0
      <4>1. Late(b) = 1 => at[b] = "between"
        BY <1>3 DEF Late, InStage, Before
      <4>2. Late(b) = 1 => user[b].slot > 0
        BY <1>3, <2>1, <4>1 DEF NInv, UsersGood, Ahead, FreshRight, Turn, NoFailureYet
      <4>3. user[b].slot >= 0
        BY <1>3, SlotsArithmetic DEF TypeOK
      <4> QED BY <2>2, <2>3, <4>2, <4>3
    <3>3. Position(a, b) > 0 /\ Position(a, b)' = Position(a, b) - 1
      BY <2>2, <2>3, <2>4, <3>1, <3>2 DEF Position
    <3>4. Position(a, b)' \in Slots /\ IsRx(user'[a].tables[SH][Position(a, b)'])
      <4>1. Position(a, b) \in Slots /\ IsRx(user[a].tables[SH][Position(a, b)])
        BY <2>1 DEF FreshRight
      <4>2. Position(a, b) - 1 \in Slots
        BY <3>3, <4>1, SlotsArithmetic
      <4> HIDE DEF Position
      <4> QED BY <1>2, <1>5, <2>4, <3>3, <4>1, <4>2
    <3>5. \/ obs[a].advertised_broadcast_slots[b] = NONE
          \/ ExpectedIn(a, b)' = Position(a, b)'
      <4> DEFINE x == obs[a].advertised_broadcast_slots[b]
      <4>1. at[a] = "between" /\ at'[a] = "started"
        BY <1>3, <1>4, <2>4 DEF InStage, Before, Turn
      <4>2. x = NONE \/ x \in Int
        BY <1>3, SlotsArithmetic DEF NInv, ObserversGood
      <4>3. x = NONE \/ x + 1 = Position(a, b)
        BY <2>1, <4>1 DEF FreshRight, ExpectedIn
      <4>4. ExpectedIn(a, b)' = x + 0
        BY <1>6, <4>1 DEF ExpectedIn
      <4> HIDE DEF x
      <4>5. x = NONE \/ ExpectedIn(a, b)' = Position(a, b)'
        BY <3>3, <4>2, <4>3, <4>4
      <4> QED BY <4>5 DEF x
    <3> QED BY <1>6, <2>1, <3>1, <3>4, <3>5 DEF FreshRight
  <2>5. CASE b = u
    <3>1. a # u /\ user[u].scheduled
      BY <2>1, <2>5 DEF FreshRight
    <3>2. user'[a] = user[a] /\ at'[a] = at[a] /\ user'[b].scheduled
      BY <1>2, <1>4, <1>5, <2>5, <3>1
    <3>3. user'[b].slot = user[b].slot - 1
      BY <1>2, <1>5, <2>5, <3>1
    <3>4. Position(a, b)' = Position(a, b)
      BY <2>2, <2>3, <2>5, <3>1, <3>3 DEF Position
    <3>5. ExpectedIn(a, b)' = ExpectedIn(a, b)
      BY <1>6, <3>2 DEF ExpectedIn
    <3> HIDE DEF Position, ExpectedIn
    <3> QED BY <1>6, <2>1, <3>2, <3>4, <3>5 DEF FreshRight
  <2>6. CASE a # u /\ b # u
    <3>1. user'[a] = user[a] /\ user'[b] = user[b] /\ at'[a] = at[a]
      BY <1>4, <1>5, <2>6
    <3>2. Position(a, b)' = Position(a, b)
      BY <2>2, <2>6, <3>1 DEF Position
    <3>3. ExpectedIn(a, b)' = ExpectedIn(a, b)
      BY <1>6, <3>1 DEF ExpectedIn
    <3> HIDE DEF Position, ExpectedIn
    <3> QED BY <1>6, <2>1, <3>1, <3>2, <3>3 DEF FreshRight
  <2> QED BY <2>4, <2>5, <2>6
<1> QED BY <1>4, <1>7, <1>8, <1>9, <1>10, <1>11 DEF NInv

(* What leaves a pair as it is *)
LEMMA FreshStays ==
  ASSUME NEW a, NEW b, FreshRight(a, b), user'[b].scheduled,
         Position(a, b)' = Position(a, b),
         \A s \in Slots : IsRx(user[a].tables[SH][s]) => IsRx(user'[a].tables[SH][s]),
         \/ obs'[a].advertised_broadcast_slots[b] = NONE
         \/ /\ obs[a].advertised_broadcast_slots[b] # NONE
            /\ ExpectedIn(a, b)' = ExpectedIn(a, b)
  PROVE  FreshRight(a, b)'
BY DEF FreshRight

LEMMA ExecuteNInv ==
  ASSUME NInv, NEW u \in UserIds, Execute(u)
  PROVE  NInv'
<1> DEFINE f == IF Cardinality({c \in Channels : IsRx(user[u].tables[c][0])}) > NumReceivers
                THEN "too_many_rx" ELSE "none"
           st == [user[u] EXCEPT !.failed = f]
<1>1. TypeOK /\ InStage /\ Turn(u, "execute") /\ NoFailureYet /\ u \in todo /\ stage = "execute"
  BY DEF NInv, Execute, Turn
<1>2. user' = [user EXCEPT ![u] = st] /\ UNCHANGED << obs, packet, fresh >> /\ at[u] = "started"
  BY DEF Execute
<1>3. Good(user[u]) /\ DOMAIN user[u] = Fields
  BY <1>1, UserFields DEF NInv, UsersGood
<1> HIDE DEF f
<1>4. /\ Shaped(st) /\ DOMAIN st = Fields /\ st.tables = user[u].tables
      /\ st.slot = user[u].slot /\ st.scheduled = user[u].scheduled /\ st.failed = f
  BY <1>3 DEF Good, Shaped, Fields
<1>5. f \in Failures
  BY DEF f, Failures
<1>6. Good(st)
  BY <1>3, <1>4 DEF Good
<1> HIDE DEF st
<1>7. /\ user' \in [UserIds -> [tables : [Tables -> [Slots -> Reservation]], slot : Slots,
                                scheduled : BOOLEAN, failed : Failures]]
      /\ user'[u] = st
      /\ \A w \in UserIds \ {u} : user'[w] = user[w]
  BY <1>1, <1>2, <1>4, <1>5, <1>6, UserChanges
<1>8. \A w \in UserIds : /\ user'[w].tables = user[w].tables /\ user'[w].slot = user[w].slot
                         /\ user'[w].scheduled = user[w].scheduled
  BY <1>4, <1>7
<1>9. /\ InStage'
      /\ todo' \subseteq UserIds /\ stage' \in {"execute", "end"}
      /\ at' \in [UserIds -> {"between", "started", "transmitting", "executed", "processed"}]
      /\ \A w \in UserIds \ {u} : at'[w] = at[w]
      /\ at'[u] = IF Sends(u) THEN "transmitting" ELSE "executed"
      /\ \A w \in UserIds : Late(w) = 0 /\ Late(w)' = 0
      /\ \A w \in todo' : w \in todo \/ stage' = "end"
  <2>1. CASE Sends(u)
    <3>1. /\ at' = [at EXCEPT ![u] = "transmitting"] /\ stage' = "execute" /\ todo' = todo
      BY <1>1, <2>1 DEF Execute, Goes
    <3>2. /\ at' \in [UserIds -> {"between", "started", "transmitting", "executed", "processed"}]
          /\ \A w \in UserIds \ {u} : at'[w] = at[w]
          /\ at'[u] = "transmitting"
      BY <1>1, <3>1 DEF TypeOK
    <3>3. InStage'
      BY <1>1, <3>1, <3>2 DEF InStage, Before
    <3> QED BY <1>1, <2>1, <3>1, <3>2, <3>3 DEF TypeOK, Late
  <2>2. CASE ~Sends(u)
    <3>1. Done(u) /\ Goes(u, Behind["execute"])
      BY <2>2 DEF Execute, Behind
    <3>2. \A w \in todo' : w \in todo \/ stage' = "end"
      BY <1>1, <3>1 DEF Done
    <3>3. stage' \in {"execute", "end"}
      BY <1>1, <3>1 DEF Done
    <3>4. /\ InStage'
          /\ todo' \subseteq UserIds
          /\ at' \in [UserIds -> {"between", "started", "transmitting", "executed", "processed"}]
          /\ \A w \in UserIds \ {u} : at'[w] = at[w]
          /\ at'[u] = "executed"
      BY <1>1, <3>1, DoneInStage DEF Behind
    <3>5. \A w \in UserIds : Late(w) = 0 /\ Late(w)' = 0
      BY <1>1, <3>1, LateChanges
    <3> QED BY <2>2, <3>2, <3>3, <3>4, <3>5
  <2> QED BY <2>1, <2>2
<1>10. TypeOK'
  BY <1>2, <1>7, <1>9 DEF NInv, TypeOK
<1>11. UsersGood'
  <2>1. at'[u] \in {"executed", "transmitting"} /\ (at'[u] = "transmitting" => Sends(u))
    BY <1>9
  <2>2. ~Sends(u) => Ahead(st)
    <3>1. st.slot \in Slots /\ (st.scheduled /\ st.slot = 0 => IsTx(st.tables[SH][0]))
      BY <1>6, ZeroSlot DEF Good, ReservedAt
    <3>2. st.slot \in Nat
      BY <3>1, ZeroSlot
    <3> QED BY <1>4, <3>1, <3>2 DEF Ahead, Sends
  <2> QED BY <1>6, <1>7, <1>8, <1>9, <2>1, <2>2 DEF NInv, UsersGood, Sends
<1>12. ObserversGood'
  BY <1>2 DEF NInv, ObserversGood
<1>13. PacketsRight'
  BY <1>1, <1>2, <1>8, <1>9 DEF NInv, PacketsRight
<1>14. AllFreshRight'
  <2> SUFFICES ASSUME NEW a \in UserIds, NEW b \in UserIds, <<a, b>> \in fresh
               PROVE  FreshRight(a, b)'
    BY <1>2 DEF AllFreshRight
  <2>1. FreshRight(a, b)
    BY <1>1 DEF NInv, AllFreshRight
  <2>2. Position(a, b)' = Position(a, b)
    BY <1>8, <1>9 DEF Position
  <2>3. ExpectedIn(a, b)' = ExpectedIn(a, b)
    <3>1. at'[a] = at[a] \/ (at[a] # "between" /\ at'[a] # "between")
      BY <1>2, <1>9
    <3> QED BY <1>2, <3>1 DEF ExpectedIn
  <2>4. user'[b].scheduled
    BY <1>8, <2>1 DEF FreshRight
  <2> QED BY <1>2, <1>8, <2>1, <2>2, <2>3, <2>4, FreshStays
<1> QED BY <1>9, <1>10, <1>11, <1>12, <1>13, <1>14 DEF NInv

(* SHLinkManager::onTransmissionReservation: what a user has after it *)
LEMMA Transmitted ==
  ASSUME NInv, NEW u \in UserIds, NEW dests \in Requests(u), Transmit(u, dests),
         NEW st \in scheduleBroadcastSlot(user[u])
  PROVE  /\ Good(st) /\ DOMAIN st = Fields /\ Ahead(st) /\ st.failed \in {"none", "no_candidate"}
         /\ \A s \in Slots : IsRx(user[u].tables[SH][s]) => IsRx(st.tables[SH][s])
         /\ ~IsRx(st.tables[SH][0])
         /\ st.failed = "none" => st.scheduled /\ st.slot \in 1 .. Horizon - 1
<1>1. /\ Good(user[u]) /\ DOMAIN user[u] = Fields /\ user[u].failed = "none"
      /\ IsTx(user[u].tables[SH][0])
  BY UserFields DEF NInv, UsersGood, Transmit, Turn, NoFailureYet
<1>2. DoTransmit
  BY <1>1, ZeroSlot DEF Good, ReservedAt
<1>3. /\ Good(st) /\ Keeps(user[u], st) /\ Ahead(st)
      /\ DoTransmit /\ st.failed = "none" => st.scheduled /\ st.slot \in 1 .. Horizon - 1
      /\ \A s \in Slots : IsRx(st.tables[SH][s]) => IsRx(user[u].tables[SH][s])
  BY <1>1, Schedule
<1>4. ~IsRx(st.tables[SH][0])
  BY <1>1, <1>3, ZeroSlot DEF IsTx, IsRx
<1> QED BY <1>1, <1>2, <1>3, <1>4 DEF Keeps

LEMMA TransmitNInv ==
  ASSUME NInv, NEW u \in UserIds, NEW dests \in Requests(u), Transmit(u, dests)
  PROVE  NInv'
<1>1. PICK st \in scheduleBroadcastSlot(user[u]) :
        /\ user' = [user EXCEPT ![u] = st]
        /\ packet' = [packet EXCEPT ![u] = [slot |-> st.slot, dests |-> dests]]
  BY DEF Transmit
<1>2. /\ Good(st) /\ DOMAIN st = Fields /\ Ahead(st) /\ st.failed \in {"none", "no_candidate"}
      /\ \A s \in Slots : IsRx(user[u].tables[SH][s]) => IsRx(st.tables[SH][s])
      /\ ~IsRx(st.tables[SH][0])
      /\ st.failed = "none" => st.scheduled /\ st.slot \in 1 .. Horizon - 1
  BY Transmitted
<1>3. /\ TypeOK /\ InStage /\ Turn(u, "execute") /\ NoFailureYet /\ u \in todo /\ stage = "execute"
      /\ Done(u) /\ Goes(u, Behind["execute"]) /\ at[u] = "transmitting"
  BY DEF NInv, Transmit, Turn, Behind
<1>4. /\ InStage'
      /\ todo' \subseteq UserIds /\ stage' \in {"update", "execute", "end"}
      /\ at' \in [UserIds -> {"between", "started", "transmitting", "executed", "processed"}]
      /\ \A w \in UserIds \ {u} : at'[w] = at[w]
      /\ at'[u] = "executed"
  BY <1>3, DoneInStage DEF Behind
<1>5. /\ user' \in [UserIds -> [tables : [Tables -> [Slots -> Reservation]], slot : Slots,
                                scheduled : BOOLEAN, failed : Failures]]
      /\ user'[u] = st
      /\ \A w \in UserIds \ {u} : user'[w] = user[w]
  BY <1>1, <1>2, <1>3, UserChanges DEF Failures
<1>6. obs' = obs /\ fresh' = {q \in fresh : q[2] # u}
  BY DEF Transmit
<1>7. dests \in {{}} \cup {{d} : d \in UserIds \ {u}}
  BY DEF Requests
<1>8. /\ packet' \in [UserIds -> Packets \cup {NONE}]
      /\ packet'[u].slot = st.slot /\ packet'[u].dests = dests
      /\ \A w \in UserIds \ {u} : packet'[w] = packet[w]
  <2>1. [slot |-> st.slot, dests |-> dests] \in Packets
    BY <1>2, <1>7 DEF Packets, Good
  <2> QED BY <1>1, <1>3, <2>1 DEF TypeOK
<1>9. TypeOK'
  BY <1>4, <1>5, <1>6, <1>8 DEF NInv, TypeOK
<1>10. UsersGood'
  BY <1>2, <1>4, <1>5 DEF NInv, UsersGood
<1>11. ObserversGood'
  BY <1>6 DEF NInv, ObserversGood
<1>12. PacketsRight'
  <2> SUFFICES ASSUME NEW v \in UserIds, packet'[v] # NONE
               PROVE  /\ packet'[v].dests \in {{}} \cup {{d} : d \in UserIds \ {v}}
                      /\ stage' # "update" /\ (v \in todo' => stage' = "end")
                      /\ ~IsRx(user'[v].tables[SH][0])
                      /\ NoFailureYet' => /\ user'[v].scheduled /\ user'[v].slot = packet'[v].slot
                                          /\ packet'[v].slot \in 1 .. Horizon - 1
    BY DEF PacketsRight
  <2>1. stage' # "update" /\ (v \in todo' => stage' = "end" \/ (v \in todo /\ v # u))
    BY <1>3 DEF Done
  <2>2. CASE v = u
    BY <1>2, <1>5, <1>7, <1>8, <2>1, <2>2 DEF NoFailureYet
  <2>3. CASE v # u
    BY <1>3, <1>5, <1>8, <2>1, <2>3 DEF NInv, PacketsRight
  <2> QED BY <2>2, <2>3
<1>13. AllFreshRight'
  <2> SUFFICES ASSUME NEW a \in UserIds, NEW b \in UserIds, <<a, b>> \in fresh, b # u
               PROVE  FreshRight(a, b)'
    BY <1>6 DEF AllFreshRight
  <2>1. FreshRight(a, b)
    BY <1>3 DEF NInv, AllFreshRight
  <2>2. user'[b] = user[b] /\ user'[b].scheduled
    BY <1>5, <2>1 DEF FreshRight
  <2>3. Position(a, b)' = Position(a, b)
    <3>1. Late(a) = 0 /\ Late(b) = 0 /\ Late(a)' = 0 /\ Late(b)' = 0
      BY <1>3, LateChanges
    <3> QED BY <2>2, <3>1 DEF Position
  <2>4. ExpectedIn(a, b)' = ExpectedIn(a, b)
    <3>1. at'[a] = at[a] \/ (at[a] # "between" /\ at'[a] # "between")
      BY <1>3, <1>4
    <3> QED BY <1>6, <3>1 DEF ExpectedIn
  <2>5. \A s \in Slots : IsRx(user[a].tables[SH][s]) => IsRx(user'[a].tables[SH][s])
    BY <1>2, <1>5
  <2> QED BY <1>6, <2>1, <2>2, <2>3, <2>4, <2>5, FreshStays
<1> QED BY <1>4, <1>9, <1>10, <1>11, <1>12, <1>13 DEF NInv

(* NeighborObserver: what a received broadcast changes *)
LEMMA Seen ==
  ASSUME NEW o \in Observers, NEW v \in UserIds, NEW n \in Slots
  PROVE  LET seen == reportBroadcastSlotAdvertisement(reportActivity(o, v), v, n) IN
         /\ seen \in Observers
         /\ \A w \in UserIds : seen.advertised_broadcast_slots[w]
                               = IF w = v THEN n ELSE o.advertised_broadcast_slots[w]
         /\ Active(seen) = Active(o) \cup {v}
<1> DEFINE act == reportActivity(o, v)
           seen == reportBroadcastSlotAdvertisement(act, v, n)
<1>1. /\ act = [o EXCEPT !.active_neighbors[v] = 0]
      /\ seen = [act EXCEPT !.advertised_broadcast_slots[v] = n]
  BY DEF reportActivity, reportBroadcastSlotAdvertisement
<1>2. n \in Nat /\ 0 \in 0 .. max_last_seen_val - 1 /\ NONE # 0
  BY ZeroSlot, LastSeenAssumption, NoneAssumption
<1>3. /\ seen.active_neighbors = [o.active_neighbors EXCEPT ![v] = 0]
      /\ seen.advertised_broadcast_slots = [o.advertised_broadcast_slots EXCEPT ![v] = n]
      /\ seen \in Observers
  <2> HIDE DEF seen, act
  <2>1. /\ act.active_neighbors = [o.active_neighbors EXCEPT ![v] = 0]
        /\ act.advertised_broadcast_slots = o.advertised_broadcast_slots
        /\ act \in Observers
    BY <1>1, <1>2 DEF Observers
  <2>2. /\ seen.active_neighbors = act.active_neighbors
        /\ seen.advertised_broadcast_slots = [act.advertised_broadcast_slots EXCEPT ![v] = n]
        /\ seen \in Observers
    BY <1>1, <1>2, <2>1 DEF Observers
  <2> QED BY <2>1, <2>2
<1> HIDE DEF seen, act
<1>4. \A w \in UserIds : seen.advertised_broadcast_slots[w]
                          = IF w = v THEN n ELSE o.advertised_broadcast_slots[w]
  BY <1>3 DEF Observers
<1>5. Active(seen) = Active(o) \cup {v}
  BY <1>2, <1>3 DEF Active, Observers
<1> QED BY <1>3, <1>4, <1>5 DEF seen, act

(* ... and the end of a slot *)
LEMMA Forgotten ==
  ASSUME NEW o \in Observers,
         \A v \in UserIds : /\ o.advertised_broadcast_slots[v] \in Slots \cup {NONE}
                            /\ o.advertised_broadcast_slots[v] # NONE => v \in Active(o)
  PROVE  /\ onSlotEnd(o) \in Observers
         /\ \A v \in UserIds :
              /\ onSlotEnd(o).advertised_broadcast_slots[v] =
                    IF v \in Gone(o) \/ o.advertised_broadcast_slots[v] \in {0, NONE} THEN NONE
                    ELSE o.advertised_broadcast_slots[v] - 1
              /\ onSlotEnd(o).advertised_broadcast_slots[v] \in Slots \cup {NONE}
              /\ onSlotEnd(o).advertised_broadcast_slots[v] # NONE => v \in Active(onSlotEnd(o))
<1> DEFINE adv == o.advertised_broadcast_slots
           e == onSlotEnd(o)
<1>1. /\ e.active_neighbors = LastSeen(o) /\ e.advertised_broadcast_slots = NextBroadcast(o)
      /\ e = [active_neighbors |-> LastSeen(o), advertised_broadcast_slots |-> NextBroadcast(o)]
  BY DEF onSlotEnd
<1>2. \A v \in UserIds : NextBroadcast(o)[v] = IF v \in Gone(o) \/ adv[v] \in {0, NONE} THEN NONE ELSE adv[v] - 1
  BY DEF NextBroadcast
<1>3. \A v \in UserIds : NextBroadcast(o)[v] \in Slots \cup {NONE}
  <2> SUFFICES ASSUME NEW v \in UserIds, adv[v] # NONE, adv[v] # 0
               PROVE  adv[v] - 1 \in Slots
    BY <1>2
  <2>1. adv[v] \in Slots
    OBVIOUS
  <2> HIDE DEF adv
  <2> QED BY <2>1, SlotsArithmetic
<1>4. LastSeen(o) \in [UserIds -> 0 .. max_last_seen_val - 1 \cup {NONE}]
  <2> SUFFICES ASSUME NEW v \in UserIds
               PROVE  LastSeen(o)[v] \in 0 .. max_last_seen_val - 1 \cup {NONE}
    BY DEF LastSeen
  <2> DEFINE x == o.active_neighbors[v]
  <2>1. x \in 0 .. max_last_seen_val - 1 \cup {NONE}
    BY DEF Observers
  <2>2. LastSeen(o)[v] = IF x # NONE /\ ~(x + 1 >= max_last_seen_val) THEN x + 1 ELSE NONE
    BY DEF LastSeen, Active, Gone
  <2> HIDE DEF x
  <2> QED BY <2>1, <2>2, LastSeenAssumption
<1>5. e \in Observers
  <2>1. Slots \subseteq Nat
    BY ZeroSlot
  <2>2. NextBroadcast(o) \in [UserIds -> Nat \cup {NONE}]
    BY <1>3, <2>1 DEF NextBroadcast
  <2> QED BY <1>1, <1>4, <2>2 DEF Observers
<1>6. \A v \in UserIds : NextBroadcast(o)[v] # NONE => LastSeen(o)[v] # NONE
  <2> SUFFICES ASSUME NEW v \in UserIds, NextBroadcast(o)[v] # NONE
               PROVE  LastSeen(o)[v] # NONE
    OBVIOUS
  <2> DEFINE x == o.active_neighbors[v]
  <2>1. v \notin Gone(o) /\ v \in Active(o)
    BY <1>2
  <2>2. LastSeen(o)[v] = x + 1 /\ x # NONE
    BY <2>1 DEF LastSeen, Active
  <2>3. x \in 0 .. max_last_seen_val - 1
    BY <2>2 DEF Observers
  <2> HIDE DEF x
  <2>4. x + 1 \in Nat
    BY <2>3
  <2> QED BY <2>2, <2>4, NoneAssumption
<1>7. \A v \in UserIds : NextBroadcast(o)[v] # NONE => v \in Active(e)
  BY <1>1, <1>6 DEF Active
<1> QED BY <1>1, <1>2, <1>3, <1>5, <1>7

(* processBroadcastMessage: what a user has after it *)
LEMMA Received ==
  ASSUME NInv, NEW u \in UserIds, NEW v \in UserIds \ {u}, Receive(u, v),
         NEW st \in checkAdvertisedSlot(user[u], v, packet[v].slot), NEW st2,
         \/ st2 = st
         \/ \E d \in UserIds, s \in Slots : st2 \in reportThirdPartyExpectedLinkReply(st, s, d)
  PROVE  /\ Good(user[u]) /\ Ahead(user[u]) /\ user[u].failed = "none" /\ packet[v].slot \in Slots
         /\ Good(st) /\ Ahead(st)
         /\ Good(st2) /\ DOMAIN st2 = Fields /\ Ahead(st2) /\ st2.failed \in {"none", "no_candidate"}
         /\ \A s \in Slots : IsRx(user[u].tables[SH][s]) => IsRx(st2.tables[SH][s])
         /\ IsRx(st2.tables[SH][packet[v].slot])
         /\ user[u].scheduled /\ st2.failed = "none" => st2.scheduled
<1>1. /\ Good(user[u]) /\ Ahead(user[u]) /\ user[u].failed = "none" /\ DOMAIN user[u] = Fields
  BY UserFields DEF NInv, UsersGood, Receive, Turn, NoFailureYet
<1>2. packet[v].slot \in Slots
  BY DEF NInv, TypeOK, Packets, Receive
<1>3. /\ Good(st) /\ Keeps(user[u], st) /\ Ahead(st) /\ IsRx(st.tables[SH][packet[v].slot])
      /\ user[u].scheduled /\ st.failed = "none" => st.scheduled
  BY <1>1, <1>2, AdvertisedSlot
<1>4. /\ Good(st2) /\ Keeps(st, st2) /\ Ahead(st2)
      /\ st.scheduled /\ st2.failed = "none" => st2.scheduled
  <2>1. CASE st2 = st
    BY <1>3, <2>1, KeepsReflexive
  <2>2. CASE \E d \in UserIds, s \in Slots : st2 \in reportThirdPartyExpectedLinkReply(st, s, d)
    BY <1>3, <2>2, ExpectedReply
  <2> QED BY <2>1, <2>2
<1>5. Keeps(user[u], st2)
  BY <1>3, <1>4, KeepsTransitive
<1>6. st.failed # "none" => st2.failed # "none"
  BY <1>4 DEF Keeps
<1> QED BY <1>1, <1>2, <1>3, <1>4, <1>5, <1>6 DEF Keeps

LEMMA ReceiveNInv ==
  ASSUME NInv, NEW u \in UserIds, NEW v \in UserIds \ {u}, Receive(u, v)
  PROVE  NInv'
<1> DEFINE n           == packet[v].slot
           seen        == reportBroadcastSlotAdvertisement(reportActivity(obs[u], v), v, n)
           slots       == seen.advertised_broadcast_slots
           Expected(d) == IF slots[d] # NONE THEN slots[d] ELSE slots[v]
           others      == packet[v].dests \ {u}
           After(st)   == IF st.failed # "none" \/ others = {} THEN {st}
                          ELSE UNION {reportThirdPartyExpectedLinkReply(st, Expected(d), d) : d \in others}
<1>1. PICK st \in checkAdvertisedSlot(user[u], v, n) : \E st2 \in After(st) :
        /\ user' = [user EXCEPT ![u] = st2]
        /\ fresh' = IF st2.slot = user[u].slot THEN fresh \cup {<<u, v>>}
                    ELSE {p \in fresh \cup {<<u, v>>} : p[2] # u}
  BY DEF Receive
<1>2. PICK st2 \in After(st) :
        /\ user' = [user EXCEPT ![u] = st2]
        /\ fresh' = IF st2.slot = user[u].slot THEN fresh \cup {<<u, v>>}
                    ELSE {p \in fresh \cup {<<u, v>>} : p[2] # u}
  BY <1>1
<1>3. /\ TypeOK /\ InStage /\ NoFailureYet /\ u \in todo /\ stage = "end" /\ Turn(u, "end")
      /\ at[u] = "executed" /\ packet[v] # NONE /\ Tuned(u)
      /\ obs' = [obs EXCEPT ![u] = seen] /\ at' = [at EXCEPT ![u] = "processed"]
      /\ UNCHANGED << packet, stage, todo >>
  BY DEF NInv, Receive, Turn, Goes
<1>4. n \in Slots /\ others \subseteq UserIds
  BY <1>3 DEF TypeOK, Packets
<1>5. /\ seen \in Observers
      /\ \A w \in UserIds : slots[w] = IF w = v THEN n ELSE obs[u].advertised_broadcast_slots[w]
      /\ Active(seen) = Active(obs[u]) \cup {v}
  <2>1. obs[u] \in Observers
    BY <1>3 DEF TypeOK
  <2> QED BY <1>4, <2>1, Seen
<1> HIDE DEF seen
<1>6. \A w \in UserIds : slots[w] \in Slots \cup {NONE} /\ Expected(w) \in Slots
  BY <1>4, <1>5 DEF NInv, ObserversGood
<1>7. \/ st2 = st
      \/ \E d \in UserIds, s \in Slots : st2 \in reportThirdPartyExpectedLinkReply(st, s, d)
  <2> HIDE DEF Expected, others
  <2> QED BY <1>2, <1>4, <1>6
<1> HIDE DEF After, Expected, others, slots
<1>8. /\ Good(user[u]) /\ Ahead(user[u]) /\ user[u].failed = "none"
      /\ Good(st2) /\ DOMAIN st2 = Fields /\ Ahead(st2) /\ st2.failed \in {"none", "no_candidate"}
      /\ \A s \in Slots : IsRx(user[u].tables[SH][s]) => IsRx(st2.tables[SH][s])
      /\ IsRx(st2.tables[SH][n])
      /\ user[u].scheduled /\ st2.failed = "none" => st2.scheduled
  <2>1. st \in checkAdvertisedSlot(user[u], v, packet[v].slot)
    BY <1>1
  <2>2. /\ Good(user[u]) /\ Ahead(user[u]) /\ user[u].failed = "none" /\ packet[v].slot \in Slots
        /\ Good(st) /\ Ahead(st)
        /\ Good(st2) /\ DOMAIN st2 = Fields /\ Ahead(st2) /\ st2.failed \in {"none", "no_candidate"}
        /\ \A s \in Slots : IsRx(user[u].tables[SH][s]) => IsRx(st2.tables[SH][s])
        /\ IsRx(st2.tables[SH][packet[v].slot])
        /\ user[u].scheduled /\ st2.failed = "none" => st2.scheduled
    BY <1>7, <2>1, Received, Zenon
  <2> QED BY <2>2
<1> HIDE DEF n
<1>9. /\ user' \in [UserIds -> [tables : [Tables -> [Slots -> Reservation]], slot : Slots,
                                scheduled : BOOLEAN, failed : Failures]]
      /\ user'[u] = st2
      /\ \A w \in UserIds \ {u} : user'[w] = user[w]
  BY <1>2, <1>3, <1>8, UserChanges DEF Failures
<1>10. /\ at' \in [UserIds -> {"between", "started", "transmitting", "executed", "processed"}]
       /\ at'[u] = "processed" /\ \A w \in UserIds \ {u} : at'[w] = at[w]
  BY <1>3 DEF TypeOK
<1>11. /\ obs' \in [UserIds -> Observers]
       /\ obs'[u] = seen /\ \A w \in UserIds \ {u} : obs'[w] = obs[w]
  BY <1>3, <1>5 DEF TypeOK
<1>12. TypeOK'
  BY <1>2, <1>3, <1>9, <1>10, <1>11 DEF TypeOK
<1>13. InStage'
  BY <1>3, <1>10 DEF InStage, Before
<1>14. UsersGood'
  BY <1>8, <1>9, <1>10 DEF NInv, UsersGood
<1>15. ObserversGood'
  <2> SUFFICES ASSUME NEW a \in UserIds, NEW b \in UserIds
               PROVE  /\ obs'[a].advertised_broadcast_slots[b] \in Slots \cup {NONE}
                      /\ obs'[a].advertised_broadcast_slots[b] # NONE => b \in Active(obs'[a])
    BY DEF ObserversGood
  <2>1. CASE a # u
    BY <1>11, <2>1 DEF NInv, ObserversGood
  <2>2. CASE a = u
    <3>1. slots[b] \in Slots \cup {NONE}
      BY <1>6
    <3>2. slots[b] # NONE => b \in Active(seen)
      BY <1>5 DEF NInv, ObserversGood
    <3> QED BY <1>11, <2>2, <3>1, <3>2 DEF slots
  <2> QED BY <2>1, <2>2
<1>16. packet[u] = NONE
  BY <1>3 DEF NInv, PacketsRight, Tuned
<1>17. PacketsRight'
  <2>1. NoFailureYet' => NoFailureYet
    BY <1>3
  <2> QED BY <1>3, <1>9, <1>16, <2>1 DEF NInv, PacketsRight
<1>18. AllFreshRight'
  <2> SUFFICES ASSUME NoFailureYet', NEW a \in UserIds, NEW b \in UserIds, <<a, b>> \in fresh'
               PROVE  FreshRight(a, b)'
    BY DEF AllFreshRight
  <2>0. st2.failed = "none"
    BY <1>9 DEF NoFailureYet
  <2>1. \A w \in UserIds : Late(w) = 0 /\ Late(w)' = 0
    BY <1>3 DEF Late
  <2>2. /\ <<a, b>> \in fresh \/ (a = u /\ b = v)
        /\ b = u => st2.slot = user[u].slot
    BY <1>2
  <2>3. user[b].slot \in Int /\ user'[b].slot \in Int /\ n \in Int
    BY <1>3, <1>4, <1>9, SlotsArithmetic DEF TypeOK, n
  <2>4. CASE a = u /\ b = v
    <3>1. packet[v] # NONE => user[v].scheduled /\ user[v].slot = packet[v].slot
      BY <1>3 DEF NInv, PacketsRight
    <3>2. user'[v] = user[v] /\ user[v].scheduled /\ user[v].slot = n
      BY <1>3, <1>9, <3>1 DEF n
    <3>3. Position(u, v)' = n
      BY <2>1, <2>3, <2>4, <3>2 DEF Position
    <3>4. ExpectedIn(u, v)' = n
      <4>1. ExpectedIn(u, v)' = slots[v] + 0
        BY <1>10, <1>11 DEF ExpectedIn, slots
      <4>2. slots[v] = n
        BY <1>5
      <4> QED BY <2>3, <4>1, <4>2
    <3> HIDE DEF Position, ExpectedIn
    <3> QED BY <1>4, <1>8, <1>9, <2>4, <3>2, <3>3, <3>4 DEF FreshRight, n
  <2>5. CASE <<a, b>> \in fresh /\ ~(a = u /\ b = v)
    <3>1. FreshRight(a, b)
      BY <1>3, <2>5 DEF NInv, AllFreshRight
    <3>2. user'[b].slot = user[b].slot /\ user'[b].scheduled
      BY <1>8, <1>9, <2>0, <2>2, <3>1 DEF FreshRight
    <3>3. Position(a, b)' = Position(a, b)
      BY <2>1, <3>2 DEF Position
    <3>4. \A s \in Slots : IsRx(user[a].tables[SH][s]) => IsRx(user'[a].tables[SH][s])
      BY <1>8, <1>9
    <3>5. obs'[a].advertised_broadcast_slots[b] = obs[a].advertised_broadcast_slots[b]
      BY <1>5, <1>11, <2>5 DEF slots
    <3>6. ExpectedIn(a, b)' = ExpectedIn(a, b)
      <4>1. at'[a] = at[a] \/ (at[a] # "between" /\ at'[a] # "between")
        BY <1>3, <1>10
      <4> QED BY <3>5, <4>1 DEF ExpectedIn
    <3> QED BY <3>1, <3>2, <3>3, <3>4, <3>5, <3>6, FreshStays
  <2> QED BY <2>2, <2>4, <2>5
<1> QED BY <1>12, <1>13, <1>14, <1>15, <1>17, <1>18 DEF NInv

LEMMA SlotEndNInv ==
  ASSUME NInv, NEW u \in UserIds, SlotEnd(u)
  PROVE  NInv'
<1>1. /\ TypeOK /\ InStage /\ Turn(u, "end") /\ NoFailureYet /\ u \in todo /\ stage = "end"
      /\ Done(u) /\ Goes(u, Behind["end"]) /\ UNCHANGED << user, fresh >>
      /\ obs' = [obs EXCEPT ![u] = onSlotEnd(@)]
      /\ packet' = IF todo = {u} THEN [v \in UserIds |-> NONE] ELSE packet
  BY DEF NInv, SlotEnd, Turn, Behind
<1>2. /\ InStage'
      /\ todo' \subseteq UserIds /\ stage' \in {"update", "execute", "end"}
      /\ at' \in [UserIds -> {"between", "started", "transmitting", "executed", "processed"}]
      /\ \A w \in UserIds \ {u} : at'[w] = at[w]
      /\ at'[u] = "between"
  BY <1>1, DoneInStage DEF Behind
<1> DEFINE o == obs[u]
           e == onSlotEnd(o)
<1>3. /\ o \in Observers
      /\ \A v \in UserIds : /\ o.advertised_broadcast_slots[v] \in Slots \cup {NONE}
                            /\ o.advertised_broadcast_slots[v] # NONE => v \in Active(o)
  BY <1>1 DEF NInv, ObserversGood, TypeOK
<1> HIDE DEF o
<1>4. /\ e \in Observers
      /\ \A v \in UserIds :
           /\ e.advertised_broadcast_slots[v] =
                 IF v \in Gone(o) \/ o.advertised_broadcast_slots[v] \in {0, NONE} THEN NONE
                 ELSE o.advertised_broadcast_slots[v] - 1
           /\ e.advertised_broadcast_slots[v] \in Slots \cup {NONE}
           /\ e.advertised_broadcast_slots[v] # NONE => v \in Active(e)
  BY <1>3, Forgotten
<1>5. /\ obs' \in [UserIds -> Observers]
      /\ obs'[u] = e /\ \A w \in UserIds \ {u} : obs'[w] = obs[w]
  BY <1>1, <1>4 DEF TypeOK, o
<1> HIDE DEF e
<1>6. packet' \in [UserIds -> Packets \cup {NONE}]
  BY <1>1 DEF TypeOK
<1>7. TypeOK'
  BY <1>1, <1>2, <1>5, <1>6 DEF TypeOK
<1>8. UsersGood'
  <2>1. Ahead(user[u])
    BY <1>1 DEF NInv, UsersGood, InStage, Before
  <2> QED BY <1>1, <1>2, <2>1 DEF NInv, UsersGood
<1>9. ObserversGood'
  BY <1>4, <1>5 DEF NInv, ObserversGood
<1>10. PacketsRight'
  <2>1. todo # {u} => stage' = "end"
    BY <1>1 DEF Done
  <2>2. NoFailureYet' <=> NoFailureYet
    BY <1>1 DEF NoFailureYet
  <2> QED BY <1>1, <2>1, <2>2 DEF NInv, PacketsRight
<1>11. AllFreshRight'
  <2> SUFFICES ASSUME NEW a \in UserIds, NEW b \in UserIds, <<a, b>> \in fresh
               PROVE  FreshRight(a, b)'
    BY <1>1 DEF AllFreshRight
  <2>1. FreshRight(a, b) /\ user'[b].scheduled
    BY <1>1 DEF NInv, AllFreshRight, FreshRight
  <2>2. Position(a, b)' = Position(a, b)
    <3>1. /\ Late(a) = 0 /\ Late(b) = 0 /\ Late(a)' = Late(u)' /\ Late(b)' = Late(u)'
          /\ Late(u)' \in {0, 1}
      BY <1>1, LateChanges
    <3>2. user[b].slot \in Int /\ user'[b].slot = user[b].slot
      BY <1>1, SlotsArithmetic DEF TypeOK
    <3> QED BY <3>1, <3>2 DEF Position
  <2>3. CASE a # u
    <3>1. ExpectedIn(a, b)' = ExpectedIn(a, b) /\ obs'[a] = obs[a]
      BY <1>2, <1>5, <2>3 DEF ExpectedIn
    <3> QED BY <1>1, <2>1, <2>2, <3>1, FreshStays DEF FreshRight
  <2>4. CASE a = u
    <3> DEFINE x == o.advertised_broadcast_slots[b]
               y == e.advertised_broadcast_slots[b]
    <3>1. y = NONE \/ (x # NONE /\ y = x - 1)
      BY <1>4
    <3>2. x # NONE => x \in Int
      BY <1>3, SlotsArithmetic
    <3>3. at[u] # "between"
      BY <1>1 DEF InStage, Before
    <3>4. ExpectedIn(a, b) = x + 0 /\ ExpectedIn(a, b)' = y + 1
      BY <1>2, <1>5, <2>4, <3>3 DEF ExpectedIn, o
    <3>5. obs[a].advertised_broadcast_slots[b] = x /\ obs'[a].advertised_broadcast_slots[b] = y
      BY <1>5, <2>4 DEF o
    <3> HIDE DEF x, y
    <3>6. y = NONE \/ (x # NONE /\ ExpectedIn(a, b)' = ExpectedIn(a, b))
      BY <3>1, <3>2, <3>4
    <3> QED BY <1>1, <2>1, <2>2, <3>5, <3>6, FreshStays
  <2> QED BY <2>3, <2>4
<1> QED BY <1>2, <1>7, <1>8, <1>9, <1>10, <1>11 DEF NInv

LEMMA NextNInv == NInv /\ [Next]_vars => NInv'
<1> SUFFICES ASSUME NInv, [Next]_vars PROVE NInv'
  OBVIOUS
<1>1. CASE Next
  BY <1>1, SlotStartNInv, ExecuteNInv, TransmitNInv, ReceiveNInv, SlotEndNInv DEF Next
<1>2. CASE UNCHANGED vars
  <2>1. /\ user' = user /\ obs' = obs /\ at' = at /\ packet' = packet
        /\ fresh' = fresh /\ stage' = stage /\ todo' = todo
    BY <1>2 DEF vars
  <2>2. TypeOK' /\ InStage' /\ UsersGood'
    BY <2>1 DEF NInv, TypeOK, InStage, UsersGood
  <2>4. NoFailureYet' <=> NoFailureYet
    BY <2>1 DEF NoFailureYet
  <2>3. ObserversGood' /\ PacketsRight'
    <3>1. ObserversGood'
      BY <2>1 DEF NInv, ObserversGood
    <3>2. PacketsRight'
      <4> SUFFICES ASSUME NEW v \in UserIds, packet[v] # NONE
                   PROVE  /\ packet[v].dests \in {{}} \cup {{d} : d \in UserIds \ {v}}
                          /\ stage # "update" /\ (v \in todo => stage = "end")
                          /\ ~IsRx(user[v].tables[SH][0])
                          /\ NoFailureYet => /\ user[v].scheduled /\ user[v].slot = packet[v].slot
                                             /\ packet[v].slot \in 1 .. Horizon - 1
        BY <2>1, <2>4 DEF PacketsRight
      <4> QED BY DEF NInv, PacketsRight
    <3> QED BY <3>1, <3>2
  <2>5. \A u, v \in UserIds : FreshRight(u, v)' <=> FreshRight(u, v)
    BY <2>1 DEF FreshRight, Position, ExpectedIn, Late
  <2>6. AllFreshRight'
    BY <2>1, <2>4, <2>5 DEF NInv, AllFreshRight
  <2> QED BY <2>2, <2>3, <2>6 DEF NInv
<1> QED BY <1>1, <1>2

LEMMA Inductive == Spec => []NInv
BY InitNInv, NextNInv, PTL DEF Spec

-----------------------------------------------------------------------------
(* The methods of SharedChannel are the same in BroadcastSlot. *)

LEMMA SameTables ==
  ASSUME NEW u
  PROVE  /\ Of(u)!EmptyTables = EmptyTables
         /\ \A tb, t, s, r : Of(u)!Mark(tb, t, s, r) = Mark(tb, t, s, r)
         /\ \A tb, t, s, r : Of(u)!CanMark(tb, t, s, r) = CanMark(tb, t, s, r)
         /\ \A tb : Of(u)!Shift(tb) = Shift(tb)
         /\ \A tb, n, m : Of(u)!SHCandidates(tb, n, m) = SHCandidates(tb, n, m)
         /\ \A a, id : Of(u)!Res(a, id) = Res(a, id)
         /\ \A r : Of(u)!IsTx(r) = IsTx(r) /\ Of(u)!IsRx(r) = IsRx(r)
         /\ \A r : Of(u)!IsIdle(r) = IsIdle(r) /\ Of(u)!IsBusy(r) = IsBusy(r)
         /\ Of(u)!Idle = Idle /\ Of(u)!OwnBroadcast = OwnBroadcast
<1>1. Of(u)!EmptyTables = EmptyTables
  BY DEF Of!EmptyTables, EmptyTables, Of!Tables, Tables, Of!Channels, Channels,
         Of!Slots, Slots, Of!Idle, Idle, Of!Res, Res
<1>2. /\ \A r : Of(u)!IsTx(r) = IsTx(r) /\ Of(u)!IsRx(r) = IsRx(r)
      /\ \A r : Of(u)!IsIdle(r) = IsIdle(r) /\ Of(u)!IsBusy(r) = IsBusy(r)
      /\ \A r : Of(u)!IsLocked(r) = IsLocked(r)
      /\ \A a, id : Of(u)!Res(a, id) = Res(a, id)
  BY DEF Of!IsIdle, IsIdle, Of!IsTx, IsTx, Of!IsRx, IsRx, Of!IsLocked, IsLocked,
         Of!IsBusy, IsBusy, Of!Res, Res
<1>3. Of(u)!Idle = Idle /\ Of(u)!OwnBroadcast = OwnBroadcast
  BY DEF Of!Idle, Idle, Of!OwnBroadcast, OwnBroadcast, Of!Res, Res
<1>4. \A tb, t, s, r : Of(u)!Mark(tb, t, s, r) = Mark(tb, t, s, r)
  BY DEF Of!Mark, Mark, Of!Tables, Tables, Of!Channels, Channels,
         Of!ForwardedTx, ForwardedTx, Of!ForwardedRx, ForwardedRx,
         Of!IdleReceivers, IdleReceivers, Of!IsIdle, IsIdle, Of!IsTx, IsTx, Of!IsRx, IsRx
<1>5. \A tb, t, s, r : Of(u)!CanMark(tb, t, s, r) = CanMark(tb, t, s, r)
  BY <1>2 DEF Of!CanMark, CanMark, Of!Channels, Channels
<1>6. \A tb : Of(u)!Shift(tb) = Shift(tb)
  BY DEF Of!Shift, Shift, Of!Tables, Tables, Of!Channels, Channels, Of!Slots, Slots,
         Of!Idle, Idle, Of!Res, Res
<1>7. \A tb, n, m : Of(u)!SHCandidates(tb, n, m) = SHCandidates(tb, n, m)
  BY DEF Of!SHCandidates, SHCandidates, Of!IsTxValid, IsTxValid, Of!IsIdle, IsIdle,
         Of!Cardinality, Cardinality
<1> QED BY <1>1, <1>2, <1>3, <1>4, <1>5, <1>6, <1>7

LEMMA SameMethods ==
  ASSUME NEW u, NEW st
  PROVE  /\ Of(u)!scheduleBroadcastSlot(st) = scheduleBroadcastSlot(st)
         /\ Of(u)!onSlotStart(st) = onSlotStart(st)
         /\ Of(u)!ListenNow(st) = ListenNow(st)
         /\ \A n, s : Of(u)!checkAdvertisedSlot(st, n, s) = checkAdvertisedSlot(st, n, s)
         /\ \A n, s : Of(u)!reportThirdPartyExpectedLinkReply(st, s, n)
                        = reportThirdPartyExpectedLinkReply(st, s, n)
<1>1. \A x : Of(u)!unscheduleBroadcastSlot(x) = unscheduleBroadcastSlot(x)
  <2> TAKE x
  <2>1. Of(u)!Mark(x.tables, SH, x.slot, Of(u)!Idle) = Mark(x.tables, SH, x.slot, Idle)
    BY SameTables
  <2> QED BY <2>1, Zenon DEF Of!unscheduleBroadcastSlot, unscheduleBroadcastSlot
<1>2. \A x, s : Of(u)!ScheduledAt(x, s) = ScheduledAt(x, s)
  <2> TAKE x, s
  <2>1. /\ Of(u)!Mark(x.tables, SH, s, Of(u)!OwnBroadcast) = Mark(x.tables, SH, s, OwnBroadcast)
        /\ Of(u)!CanMark(x.tables, SH, s, Of(u)!OwnBroadcast) = CanMark(x.tables, SH, s, OwnBroadcast)
    BY SameTables
  <2> QED BY <2>1, Zenon DEF Of!ScheduledAt, ScheduledAt
<1>3. \A x : Of(u)!scheduleBroadcastSlot(x) = scheduleBroadcastSlot(x)
  BY <1>1, <1>2, SameTables DEF Of!scheduleBroadcastSlot, scheduleBroadcastSlot
<1>4. \A x, n : Of(u)!broadcastCollisionDetected(x, n) = broadcastCollisionDetected(x, n)
  BY <1>1, <1>3, SameTables DEF Of!broadcastCollisionDetected, broadcastCollisionDetected
<1>5. \A n, s : Of(u)!reportThirdPartyExpectedLinkReply(st, s, n)
                  = reportThirdPartyExpectedLinkReply(st, s, n)
  BY <1>4, SameTables DEF Of!reportThirdPartyExpectedLinkReply, reportThirdPartyExpectedLinkReply
<1>6. \A n, s : Of(u)!checkAdvertisedSlot(st, n, s) = checkAdvertisedSlot(st, n, s)
  BY <1>4, SameTables DEF Of!checkAdvertisedSlot, checkAdvertisedSlot
<1>7. Of(u)!ListenNow(st) = ListenNow(st)
  BY SameTables DEF Of!ListenNow, ListenNow
<1>8. \A x, s : Of(u)!SlotPassed(x, s) = SlotPassed(x, s)
  BY SameTables DEF Of!SlotPassed, SlotPassed
<1>9. Of(u)!onSlotStart(st) = onSlotStart(st)
  BY <1>3, <1>8, SameTables DEF Of!onSlotStart, onSlotStart
<1> QED BY <1>3, <1>5, <1>6, <1>7, <1>9

LEMMA SameCardinality == \A u, S : Of(u)!Cardinality(S) = Cardinality(S)
BY DEF Of!Cardinality, Cardinality

LEMMA OfCurrent ==
  ASSUME TypeOK, NEW u \in UserIds
  PROVE  Of(u)!Current = user[u]
BY DEF TypeOK, Of!Current

(* A user becomes what its methods return. *)
LEMMA OfBecome ==
  ASSUME NEW u \in UserIds, NEW st, user'[u] = st
  PROVE  Of(u)!Become(st)
BY DEF Of!Become

-----------------------------------------------------------------------------
(* Every step of a user is one of BroadcastSlot. *)

LEMMA SlotStartImplements ==
  ASSUME NInv, NEW u \in UserIds, SlotStart(u)
  PROVE  Of(u)!SlotStart
<1>1. PICK st \in onSlotStart(user[u]) : user' = [user EXCEPT ![u] = ListenNow(st)]
  BY DEF SlotStart
<1>2. user'[u] = ListenNow(st) /\ at'[u] = "started" /\ obs'[u] = obs[u] /\ at[u] = "between"
  BY <1>1 DEF NInv, TypeOK, SlotStart, Goes, InStage, Before, Turn
<1>3. st \in Of(u)!onSlotStart(Of(u)!Current) /\ Of(u)!Become(Of(u)!ListenNow(st))
  BY <1>2, OfCurrent, OfBecome, SameMethods DEF NInv
<1> QED BY <1>2, <1>3 DEF Of!SlotStart

LEMMA ExecuteImplements ==
  ASSUME NInv, NEW u \in UserIds, Execute(u)
  PROVE  Of(u)!Execute
<1> DEFINE tx == {c \in Channels : IsTx(user[u].tables[c][0])}
           rx == {c \in Channels : IsRx(user[u].tables[c][0])}
<1>1. Of(u)!CurrentTx = tx /\ Of(u)!CurrentRx = rx
  BY DEF Of!CurrentTx, Of!CurrentRx, Of!Channels, Channels, Of!IsTx, IsTx, Of!IsRx, IsRx
<1>2. ~(Cardinality(tx) > 1)
  <2>1. \A c, d \in tx : c = d
    BY ZeroSlot DEF NInv, UsersGood, Good, OneTx
  <2>2. CASE tx = {}
    BY <2>2, FS_EmptySet
  <2>3. CASE tx # {}
    <3>1. PICK c \in tx : TRUE
      BY <2>3
    <3> HIDE DEF tx
    <3>2. tx = {c}
      BY <2>1, <3>1
    <3>3. Cardinality(tx) = 1
      BY <3>2, FS_Singleton
    <3> QED BY <3>3
  <2> QED BY <2>2, <2>3
<1>3. Sends(u) <=> SH \in tx
  BY Disjoint DEF Sends
<1> DEFINE f == IF Cardinality(rx) > NumReceivers THEN "too_many_rx" ELSE "none"
<1>4. user' = [user EXCEPT ![u] = [user[u] EXCEPT !.failed = f]]
  BY DEF Execute
<1> HIDE DEF tx, rx, f
<1>5. /\ user'[u].failed = f /\ user'[u].tables = user[u].tables
      /\ user'[u].slot = user[u].slot /\ user'[u].scheduled = user[u].scheduled
  BY <1>4 DEF NInv, TypeOK
<1>6. /\ at[u] = "started" /\ obs'[u] = obs[u]
      /\ at'[u] = IF Sends(u) THEN "transmitting" ELSE "executed"
  BY DEF NInv, TypeOK, Execute, Goes
<1>7. f = IF Of(u)!Cardinality(Of(u)!CurrentTx) > 1 THEN "too_many_tx"
          ELSE IF Of(u)!Cardinality(Of(u)!CurrentRx) > NumReceivers THEN "too_many_rx" ELSE "none"
  BY <1>1, <1>2, SameCardinality DEF f
<1> QED BY <1>1, <1>3, <1>5, <1>6, <1>7 DEF Of!Execute

LEMMA TransmitImplements ==
  ASSUME NInv, NEW u \in UserIds, NEW dests \in Requests(u), Transmit(u, dests)
  PROVE  Of(u)!Transmit
<1>1. PICK st \in scheduleBroadcastSlot(user[u]) : user' = [user EXCEPT ![u] = st]
  BY DEF Transmit
<1>2. /\ user'[u] = st /\ at'[u] = "executed" /\ obs'[u] = obs[u] /\ at[u] = "transmitting"
  BY <1>1 DEF NInv, TypeOK, Transmit, Goes
<1>3. user[u].slot = 0
  BY <1>2, ZeroSlot DEF NInv, UsersGood, Good, ReservedAt
<1>4. st \in Of(u)!scheduleBroadcastSlot(Of(u)!Current) /\ Of(u)!Become(st)
  BY <1>2, OfCurrent, OfBecome, SameMethods DEF NInv
<1> QED BY <1>2, <1>3, <1>4 DEF Of!Transmit

LEMMA ReceiveImplements ==
  ASSUME NInv, NEW u \in UserIds, NEW v \in UserIds \ {u}, Receive(u, v)
  PROVE  \E n \in 1 .. Horizon - 1 : \E dests \in {{}} \cup {{d} : d \in UserIds \ {v}} :
            Of(u)!ProcessBroadcast(v, n, dests)
<1>1. PICK n : n = packet[v].slot
  OBVIOUS
<1>2. PICK others : others = packet[v].dests \ {u}
  OBVIOUS
<1> DEFINE seen        == reportBroadcastSlotAdvertisement(reportActivity(obs[u], v), v, n)
           slots       == seen.advertised_broadcast_slots
           adv         == [obs[u].advertised_broadcast_slots EXCEPT ![v] = n]
           reply(st, d) == reportThirdPartyExpectedLinkReply(st, IF adv[d] # NONE THEN adv[d] ELSE adv[v], d)
           After(st)   == IF st.failed # "none" \/ others = {} THEN {st}
                          ELSE UNION {reply(st, d) : d \in others}
<1>3. /\ n \in 1 .. Horizon - 1
      /\ packet[v].dests \in {{}} \cup {{d} : d \in UserIds \ {v}}
  <2>1. packet[v] # NONE /\ NoFailureYet
    BY DEF Receive, Turn
  <2> QED BY <1>1, <2>1 DEF NInv, PacketsRight
<1>4. others \in {{}} \cup {{d} : d \in UserIds \ {v}}
  BY <1>3, <1>2
<1>5. slots = adv
  <2>1. obs[u] \in Observers
    BY DEF NInv, TypeOK
  <2> QED BY <2>1 DEF reportBroadcastSlotAdvertisement, reportActivity, Observers
<1>6. \E st \in checkAdvertisedSlot(user[u], v, n) : \E st2 \in After(st) : user' = [user EXCEPT ![u] = st2]
  <2> DEFINE Later(st) == IF st.failed # "none" \/ others = {} THEN {st}
                          ELSE UNION {reportThirdPartyExpectedLinkReply(st,
                                        IF slots[d] # NONE THEN slots[d] ELSE slots[v], d) : d \in others}
  <2>1. \E st \in checkAdvertisedSlot(user[u], v, n) : \E st2 \in Later(st) : user' = [user EXCEPT ![u] = st2]
    <3> DEFINE m == packet[v].slot
               o == packet[v].dests \ {u}
               heard == reportBroadcastSlotAdvertisement(reportActivity(obs[u], v), v, m)
               sl == heard.advertised_broadcast_slots
               Then(st) == IF st.failed # "none" \/ o = {} THEN {st}
                           ELSE UNION {reportThirdPartyExpectedLinkReply(st,
                                         IF sl[d] # NONE THEN sl[d] ELSE sl[v], d) : d \in o}
    <3>1. \E st \in checkAdvertisedSlot(user[u], v, m) :
            \E st2 \in Then(st) : user' = [user EXCEPT ![u] = st2]
      BY Zenon DEF Receive
    <3>2. sl = slots /\ m = n /\ o = others
      BY <1>1, <1>2
    <3> HIDE DEF m, o, sl, heard, seen, slots
    <3>3. \A st : Then(st) = Later(st)
      BY <3>2
    <3>4. checkAdvertisedSlot(user[u], v, m) = checkAdvertisedSlot(user[u], v, n)
      BY <3>2
    <3> HIDE DEF Then, Later
    <3> QED BY <3>1, <3>3, <3>4
  <2>2. \A st : Later(st) = After(st)
    <3> HIDE DEF slots, adv
    <3> QED BY <1>5
  <2> HIDE DEF Later, After
  <2> QED BY <2>1, <2>2
<1>7. PICK st \in checkAdvertisedSlot(user[u], v, n) :
             \E st2 \in After(st) : user' = [user EXCEPT ![u] = st2]
  BY <1>6
<1>8. PICK st2 \in After(st) : user' = [user EXCEPT ![u] = st2]
  BY <1>7
<1>9. user'[u] = st2
  BY <1>8 DEF NInv, TypeOK
<1>10. /\ at[u] = "executed" /\ Goes(u, "processed") /\ Tuned(u)
       /\ obs' = [obs EXCEPT ![u] = seen]
  BY <1>1 DEF Receive
<1>11. at'[u] = "processed" /\ obs'[u] = seen
  BY <1>10 DEF NInv, TypeOK, Goes
<1>12. /\ user'[u] = st2 /\ at[u] = "executed" /\ at'[u] = "processed"
      /\ obs'[u].advertised_broadcast_slots = adv /\ IsRx(user[u].tables[SH][0])
  BY <1>5, <1>9, <1>10, <1>11 DEF Tuned
<1> HIDE DEF adv, seen, slots
<1>13. st \in Of(u)!checkAdvertisedSlot(Of(u)!Current, v, n) /\ Of(u)!Become(st2)
  <2>1. Of(u)!Current = user[u]
    BY OfCurrent DEF NInv
  <2>2. Of(u)!checkAdvertisedSlot(user[u], v, n) = checkAdvertisedSlot(user[u], v, n)
    BY SameMethods
  <2>3. st \in checkAdvertisedSlot(user[u], v, n)
    BY <1>7
  <2> QED BY <1>9, <2>1, <2>2, <2>3, OfBecome
<1>14. st2 \in IF st.failed # "none" \/ others = {} THEN {st}
              ELSE UNION {Of(u)!reportThirdPartyExpectedLinkReply(st,
                            IF adv[d] # NONE THEN adv[d] ELSE adv[v], d) : d \in others}
  <2>1. \A s, d : Of(u)!reportThirdPartyExpectedLinkReply(st, s, d)
                   = reportThirdPartyExpectedLinkReply(st, s, d)
    BY SameMethods
  <2>2. st2 \in After(st)
    BY <1>8
  <2> QED BY <2>1, <2>2
<1>15. Of(u)!IsRx(user[u].tables[SH][0])
  BY <1>12, SameTables
<1>16. Of(u)!ProcessBroadcast(v, n, others)
  BY <1>12, <1>13, <1>14, <1>15 DEF Of!ProcessBroadcast, adv
<1> QED BY <1>3, <1>4, <1>16

LEMMA SlotEndImplements ==
  ASSUME NInv, NEW u \in UserIds, SlotEnd(u)
  PROVE  Gone(obs[u]) \in SUBSET UserIds /\ Of(u)!SlotEnd(Gone(obs[u]))
<1> DEFINE o == obs[u]
<1>1. /\ o \in Observers
      /\ \A v \in UserIds : /\ o.advertised_broadcast_slots[v] \in Slots \cup {NONE}
                            /\ o.advertised_broadcast_slots[v] # NONE => v \in Active(o)
  BY DEF NInv, ObserversGood, TypeOK
<1>2. /\ obs'[u] = onSlotEnd(o) /\ user'[u] = user[u] /\ at'[u] = "between"
      /\ at[u] \in {"executed", "processed"}
  BY DEF NInv, TypeOK, SlotEnd, Goes, InStage, Before, Turn
<1>3. Gone(o) \in SUBSET UserIds
  BY DEF Gone, Active
<1> HIDE DEF o
<1>4. onSlotEnd(o).advertised_broadcast_slots =
        [n \in UserIds |-> IF n \in Gone(o) \/ o.advertised_broadcast_slots[n] \in {0, NONE}
                          THEN NONE ELSE o.advertised_broadcast_slots[n] - 1]
  <2>1. onSlotEnd(o).advertised_broadcast_slots = NextBroadcast(o)
    BY DEF onSlotEnd
  <2>2. \A v \in UserIds :
          NextBroadcast(o)[v] = IF v \in Gone(o) \/ o.advertised_broadcast_slots[v] \in {0, NONE}
                                THEN NONE ELSE o.advertised_broadcast_slots[v] - 1
    BY <1>1 DEF NextBroadcast
  <2>3. NextBroadcast(o) = [v \in UserIds |-> NextBroadcast(o)[v]]
    BY DEF NextBroadcast
  <2> QED BY <2>1, <2>2, <2>3
<1> QED BY <1>2, <1>3, <1>4 DEF Of!SlotEnd, o

LEMMA StepImplements ==
  ASSUME NInv, [Next]_vars, NEW w \in UserIds
  PROVE  UNCHANGED Of(w)!vars \/ Of(w)!Next
<1>1. TypeOK
  BY DEF NInv
<1>2. CASE UNCHANGED vars
  BY <1>2 DEF vars, Of!vars
<1>3. ASSUME NEW u \in UserIds, u # w,
             user'[w] = user[w], obs'[w] = obs[w], at'[w] = at[w]
      PROVE  UNCHANGED Of(w)!vars
  BY <1>3 DEF Of!vars
<1>4. ASSUME NoFailureYet, Of(w)!BroadcastStep
      PROVE  Of(w)!Next
  BY <1>4 DEF Of!Next, NoFailureYet
<1>5. ASSUME NEW u \in UserIds, SlotStart(u)
      PROVE  UNCHANGED Of(w)!vars \/ Of(w)!Next
  <2>1. CASE u = w
    BY <1>4, <1>5, <2>1, SlotStartImplements DEF Of!BroadcastStep, SlotStart, Turn
  <2>2. CASE u # w
    BY <1>1, <1>3, <1>5, <2>2 DEF TypeOK, SlotStart, Goes
  <2> QED BY <2>1, <2>2
<1>6. ASSUME NEW u \in UserIds, Execute(u)
      PROVE  UNCHANGED Of(w)!vars \/ Of(w)!Next
  <2>1. CASE u = w
    BY <1>4, <1>6, <2>1, ExecuteImplements DEF Of!BroadcastStep, Execute, Turn
  <2>2. CASE u # w
    BY <1>1, <1>3, <1>6, <2>2 DEF TypeOK, Execute, Goes
  <2> QED BY <2>1, <2>2
<1>7. ASSUME NEW u \in UserIds, NEW dests \in Requests(u), Transmit(u, dests)
      PROVE  UNCHANGED Of(w)!vars \/ Of(w)!Next
  <2>1. CASE u = w
    BY <1>4, <1>7, <2>1, TransmitImplements DEF Of!BroadcastStep, Transmit, Turn
  <2>2. CASE u # w
    BY <1>1, <1>3, <1>7, <2>2 DEF TypeOK, Transmit, Goes
  <2> QED BY <2>1, <2>2
<1>8. ASSUME NEW u \in UserIds, NEW v \in UserIds \ {u}, Receive(u, v)
      PROVE  UNCHANGED Of(w)!vars \/ Of(w)!Next
  <2>1. CASE u = w
    <3>1. \E n \in 1 .. Horizon - 1 : \E dests \in {{}} \cup {{d} : d \in UserIds \ {v}} :
            Of(u)!ProcessBroadcast(v, n, dests)
      BY <1>8, ReceiveImplements
    <3>2. v \in UserIds
      OBVIOUS
    <3>3. Of(u)!BroadcastStep
      BY <3>1, <3>2 DEF Of!BroadcastStep
    <3>4. Of(w)!BroadcastStep
      BY <2>1, <3>3
    <3>5. NoFailureYet
      BY <1>8 DEF Receive, Turn
    <3> QED BY <1>4, <3>4, <3>5
  <2>2. CASE u # w
    BY <1>1, <1>3, <1>8, <2>2 DEF TypeOK, Receive, Goes
  <2> QED BY <2>1, <2>2
<1>9. ASSUME NEW u \in UserIds, SlotEnd(u)
      PROVE  UNCHANGED Of(w)!vars \/ Of(w)!Next
  <2>1. CASE u = w
    BY <1>4, <1>9, <2>1, SlotEndImplements DEF Of!BroadcastStep, SlotEnd, Turn
  <2>2. CASE u # w
    BY <1>1, <1>3, <1>9, <2>2 DEF TypeOK, SlotEnd, Goes
  <2> QED BY <2>1, <2>2
<1> QED BY <1>2, <1>5, <1>6, <1>7, <1>8, <1>9 DEF Next

LEMMA InitImplements ==
  ASSUME Init, NEW u \in UserIds
  PROVE  Of(u)!Init
BY SameTables DEF Of!Init, Init, NobodySeen

-----------------------------------------------------------------------------
(* The theorems *)

(* Every variable of Neighbourhood keeps its type: the countdowns of both  *)
(* SHLinkManager and NeighborObserver never leave the planning horizon, and*)
(* no counter of NeighborObserver reaches max_last_seen_val.               *)
THEOREM TypeCorrect == Spec => []TypeOK
<1>1. NInv => TypeOK
  BY DEF NInv
<1> QED BY <1>1, Inductive, PTL

(* NeighborObserver keeps an advertised slot only of a neighbour that is   *)
(* active.                                                                 *)
THEOREM KnownAreActiveHolds == Spec => []KnownAreActive
<1>1. NInv => KnownAreActive
  BY DEF NInv, ObserversGood, KnownAreActive
<1> QED BY <1>1, Inductive, PTL

(* What NeighborObserver counts down to is the slot that SHLinkManager of  *)
(* the neighbour counts down to.                                           *)
THEOREM ExpectedRightHolds == Spec => []ExpectedRight
<1>1. NInv => ExpectedRight
  <2> SUFFICES ASSUME NInv, NEW u \in UserIds, NEW v \in UserIds, NoFailureYet,
                      <<u, v>> \in fresh, todo = UserIds, stage = "execute",
                      obs[u].advertised_broadcast_slots[v] # NONE
               PROVE  obs[u].advertised_broadcast_slots[v] = user[v].slot
    BY DEF ExpectedRight
  <2>1. ExpectedIn(u, v) = Position(u, v)
    BY DEF NInv, AllFreshRight, FreshRight
  <2>2. ExpectedIn(u, v) = obs[u].advertised_broadcast_slots[v] + 0
    BY DEF NInv, InStage, Before, ExpectedIn
  <2>3. Position(u, v) = user[v].slot - 0 + 0
    BY DEF Position, Late
  <2>4. obs[u].advertised_broadcast_slots[v] \in Int /\ user[v].slot \in Int
    BY SlotsArithmetic DEF NInv, ObserversGood, TypeOK
  <2> DEFINE a == obs[u].advertised_broadcast_slots[v]
             b == user[v].slot
  <2> HIDE DEF a, b
  <2>5. a \in Int /\ b \in Int /\ a + 0 = b - 0 + 0
    BY <2>1, <2>2, <2>3, <2>4 DEF a, b
  <2>6. a = b
    BY <2>5
  <2> QED BY <2>6 DEF a, b
<1> QED BY <1>1, Inductive, PTL

(* Two users send in the same slot only if neither has heard the other's   *)
(* latest broadcast: a user keeps the reception it has reserved for the    *)
(* neighbour's next one, even after it has forgotten the neighbour.        *)
THEOREM HeardNeverCollideHolds == Spec => []HeardNeverCollide
<1>1. NInv => HeardNeverCollide
  <2> SUFFICES ASSUME NInv, NEW u \in UserIds, NEW v \in UserIds, NoFailureYet,
                      <<u, v>> \in fresh, user[u].scheduled, todo = UserIds
               PROVE  user[u].slot # user[v].slot
    BY DEF HeardNeverCollide
  <2>1. IsRx(user[u].tables[SH][Position(u, v)])
    BY DEF NInv, AllFreshRight, FreshRight
  <2>2. Position(u, v) = user[v].slot
    <3>1. Late(u) = Late(v) /\ Late(v) \in {0, 1}
      BY DEF Late
    <3>2. user[v].slot \in Int
      BY SlotsArithmetic DEF NInv, TypeOK
    <3> QED BY <3>1, <3>2 DEF Position
  <2>3. IsTx(user[u].tables[SH][user[u].slot])
    BY DEF NInv, UsersGood, Good, ReservedAt
  <2> QED BY <2>1, <2>2, <2>3 DEF IsTx, IsRx
<1> QED BY <1>1, Inductive, PTL

(* Whatever the others do, each user takes the steps of BroadcastSlot only:*)
(* what is proved there of one user among any neighbours holds for each of *)
(* these.                                                                  *)
THEOREM Implementation == Spec => ImplementsBroadcastSlot
<1>1. Init => \A u \in UserIds : Of(u)!Init
  BY InitImplements
<1>2. NInv /\ [Next]_vars => [\A u \in UserIds : UNCHANGED Of(u)!vars \/ Of(u)!Next]_vars
  BY StepImplements
<1> QED BY <1>1, <1>2, Inductive, PTL DEF Spec, ImplementsBroadcastSlot
=============================================================================
