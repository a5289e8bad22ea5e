------------------------ MODULE BroadcastSlot_proofs ------------------------
(***************************************************************************)
(* Proofs about BroadcastSlot: type correctness, that a slot is promised   *)
(* to one transmission only, that the countdown of SHLinkManager and the   *)
(* tables agree, that the own broadcast is never in a slot in which a      *)
(* neighbour's is expected, and that no check of the handlers throws, for  *)
(* every number of channels, receivers, neighbours and every horizon.      *)
(***************************************************************************)
EXTENDS BroadcastSlot, SharedChannel_proofs, FiniteSetTheorems

(* The receptions of the links in a slot, and the receivers that hold one: *)
(* there is a receiver for every reception.                                *)
LinkRx(tb, s) == {c \in PP : IsRx(tb[c][s])}
HwRx(tb, s)   == {x \in RxTables : IsRx(tb[x][s])}

ReceiversSuffice(tb) ==
  \A s \in Slots : /\ IsFiniteSet(LinkRx(tb, s))
                   /\ Cardinality(LinkRx(tb, s)) =< Cardinality(HwRx(tb, s))

(* One receiver serves the shared channel, the others have a table.        *)
EnoughReceivers == IsFiniteSet(RxTables) /\ NumReceivers > Cardinality(RxTables)

(* Wherever a neighbour's broadcast is expected, the shared channel has a  *)
(* reception.                                                              *)
AdvertisedKept ==
  \A n \in UserIds :
    advertised_broadcast_slots[n] # NONE =>
      ExpectedAt(n) \in Slots /\ IsRx(tables[SH][ExpectedAt(n)])

(* The inductive invariant                                                 *)
IInv ==
  /\ Good(Current)
  /\ advertised_broadcast_slots \in [UserIds -> Slots \cup {NONE}]
  /\ phase \in Phases
  /\ failed \in {"none", "no_candidate", "too_many_rx"}
  /\ phase \in {"between", "executed", "processed"} => Ahead(Current)
  /\ AdvertisedKept
  /\ EnoughReceivers => ReceiversSuffice(tables) /\ failed # "too_many_rx"

-----------------------------------------------------------------------------
(* Lemmas about the receivers *)

LEMMA FewerReceptions ==
  ASSUME NEW tb, NEW tb2, IsFiniteSet(RxTables), ReceiversSuffice(tb),
         \A s \in Slots : LinkRx(tb2, s) \subseteq LinkRx(tb, s) /\ HwRx(tb2, s) = HwRx(tb, s)
  PROVE  ReceiversSuffice(tb2)
<1> SUFFICES ASSUME NEW s \in Slots
             PROVE  /\ IsFiniteSet(LinkRx(tb2, s))
                    /\ Cardinality(LinkRx(tb2, s)) =< Cardinality(HwRx(tb2, s))
  BY DEF ReceiversSuffice
<1>1. /\ IsFiniteSet(LinkRx(tb, s))
      /\ Cardinality(LinkRx(tb, s)) =< Cardinality(HwRx(tb, s))
  BY DEF ReceiversSuffice
<1>2. /\ IsFiniteSet(LinkRx(tb2, s))
      /\ Cardinality(LinkRx(tb2, s)) =< Cardinality(LinkRx(tb, s))
  BY <1>1, FS_Subset
<1>3. IsFiniteSet(HwRx(tb, s))
  <2>1. HwRx(tb, s) \subseteq RxTables
    BY DEF HwRx
  <2> QED BY <2>1, FS_Subset
<1>4. /\ Cardinality(LinkRx(tb2, s)) \in Nat /\ Cardinality(LinkRx(tb, s)) \in Nat
      /\ Cardinality(HwRx(tb, s)) \in Nat
  BY <1>1, <1>2, <1>3, FS_CardinalityType
<1> QED BY <1>1, <1>2, <1>4

(* What mark on a link's channel does to the receivers *)
LEMMA MarkReceivers ==
  ASSUME NEW tb \in TB, NEW c \in PP, NEW s \in Slots, NEW r \in Reservation,
         IsFiniteSet(RxTables), ReceiversSuffice(tb),
         ~IsRx(r) \/ (~IsRx(tb[c][s]) /\ IdleReceivers(tb, s) # {}),
         IsIdle(r) => r = Idle
  PROVE  ReceiversSuffice(Mark(tb, c, s, r))
<1> DEFINE m == Mark(tb, c, s, r)
           F == ForwardedRx(tb, c, s, r)
<1>1. CASE tb[c][s] = r
  BY <1>1 DEF Mark
<1>2. CASE tb[c][s] # r
  <2>1. \A t \in PP \cup RxTables : m[t] = IF t \in {c} \cup F THEN [tb[t] EXCEPT ![s] = r] ELSE tb[t]
    <3>1. m = [x \in Tables |-> IF x \in {c} \cup ForwardedTx(tb, c, s, r) \cup F
                               THEN [tb[x] EXCEPT ![s] = r] ELSE tb[x]]
      BY <1>2 DEF Mark
    <3>2. \A t \in PP \cup RxTables : t \in Tables /\ t \notin ForwardedTx(tb, c, s, r)
      BY Disjoint DEF ForwardedTx
    <3> HIDE DEF m, F
    <3> QED BY <3>1, <3>2
  <2>2. F \subseteq IdleReceivers(tb, s) /\ IdleReceivers(tb, s) \subseteq RxTables
    BY DEF ForwardedRx, IdleReceivers
  <2>3. \A d \in PP, x \in Slots : m[d][x] = IF d = c /\ x = s THEN r ELSE tb[d][x]
    <3>1. \A d \in PP : d \notin F /\ d \in Tables /\ tb[d] \in [Slots -> Reservation]
      BY <2>2, Disjoint DEF TB
    <3> HIDE DEF m, F
    <3> QED BY <2>1, <3>1
  <2>4. \A h \in RxTables, x \in Slots : m[h][x] = IF h \in F /\ x = s THEN r ELSE tb[h][x]
    <3>1. \A h \in RxTables : h # c /\ h \in Tables /\ tb[h] \in [Slots -> Reservation]
      BY Disjoint DEF TB
    <3> HIDE DEF m, F
    <3> QED BY <2>1, <3>1
  <2>5. CASE ~IsRx(r)
    <3>1. \A x \in Slots : LinkRx(m, x) \subseteq LinkRx(tb, x)
      BY <2>3, <2>5 DEF LinkRx
    <3>2. F # {} => IsIdle(r)
      BY <2>5 DEF ForwardedRx
    <3>3. \A h \in F : IsRx(tb[h][s]) = FALSE
      BY <2>2 DEF IdleReceivers, IsIdle, IsRx
    <3>4. \A h \in RxTables, x \in Slots : IsRx(m[h][x]) <=> IsRx(tb[h][x])
      BY <2>4, <2>5, <3>3
    <3>5. \A x \in Slots : HwRx(m, x) = HwRx(tb, x)
      BY <3>4 DEF HwRx
    <3> HIDE DEF m
    <3> QED BY <3>1, <3>5, FewerReceptions DEF m
  <2>6. CASE IsRx(r)
    <3>1. PICK h \in IdleReceivers(tb, s) : F = {h}
      BY <2>6 DEF ForwardedRx
    <3>2. h \in RxTables /\ ~IsRx(tb[h][s])
      BY DEF IdleReceivers, IsIdle, IsRx
    <3> HIDE DEF m, F
    <3> SUFFICES ASSUME NEW x \in Slots
                 PROVE  /\ IsFiniteSet(LinkRx(m, x))
                        /\ Cardinality(LinkRx(m, x)) =< Cardinality(HwRx(m, x))
      BY DEF ReceiversSuffice, m
    <3>3. /\ IsFiniteSet(LinkRx(tb, x))
          /\ Cardinality(LinkRx(tb, x)) =< Cardinality(HwRx(tb, x))
      BY DEF ReceiversSuffice
    <3>4. CASE x # s
      <4>1. LinkRx(m, x) = LinkRx(tb, x) /\ HwRx(m, x) = HwRx(tb, x)
        BY <2>3, <2>4, <3>4 DEF LinkRx, HwRx
      <4> QED BY <3>3, <4>1
    <3>5. CASE x = s
      <4>1. LinkRx(m, x) = LinkRx(tb, x) \cup {c} /\ c \notin LinkRx(tb, x)
        BY <2>3, <2>6, <3>5 DEF LinkRx
      <4>2. HwRx(m, x) = HwRx(tb, x) \cup {h} /\ h \notin HwRx(tb, x)
        BY <2>4, <2>6, <3>1, <3>2, <3>5 DEF HwRx
      <4>3. IsFiniteSet(HwRx(tb, x))
        <5>1. HwRx(tb, x) \subseteq RxTables
          BY DEF HwRx
        <5> QED BY <5>1, FS_Subset
      <4>4. /\ IsFiniteSet(LinkRx(m, x))
            /\ Cardinality(LinkRx(m, x)) = Cardinality(LinkRx(tb, x)) + 1
            /\ Cardinality(HwRx(m, x)) = Cardinality(HwRx(tb, x)) + 1
        BY <3>3, <4>1, <4>2, <4>3, FS_AddElement
      <4>5. Cardinality(LinkRx(tb, x)) \in Nat /\ Cardinality(HwRx(tb, x)) \in Nat
        BY <3>3, <4>3, FS_CardinalityType
      <4> QED BY <3>3, <4>4, <4>5
    <3> QED BY <3>4, <3>5
  <2> QED BY <2>5, <2>6
<1> QED BY <1>1, <1>2

(* Other changes of single slots that receive neither before nor after     *)
LEMMA OtherReceivers ==
  ASSUME NEW tb, NEW tb2, IsFiniteSet(RxTables), ReceiversSuffice(tb),
         \A t \in PP \cup RxTables, s \in Slots : IsRx(tb2[t][s]) <=> IsRx(tb[t][s])
  PROVE  ReceiversSuffice(tb2)
<1>1. \A s \in Slots : LinkRx(tb2, s) = LinkRx(tb, s) /\ HwRx(tb2, s) = HwRx(tb, s)
  BY DEF LinkRx, HwRx
<1> QED BY <1>1, FewerReceptions

LEMMA ShiftReceivers ==
  ASSUME NEW tb \in TB, IsFiniteSet(RxTables), ReceiversSuffice(tb)
  PROVE  ReceiversSuffice(Shift(tb))
<1> SUFFICES ASSUME NEW s \in Slots
             PROVE  /\ IsFiniteSet(LinkRx(Shift(tb), s))
                    /\ Cardinality(LinkRx(Shift(tb), s)) =< Cardinality(HwRx(Shift(tb), s))
  BY DEF ReceiversSuffice
<1>1. \A t \in PP \cup RxTables : Shift(tb)[t][s] = IF s = Horizon THEN Idle ELSE tb[t][s + 1]
  BY Disjoint DEF Shift
<1>2. CASE s = Horizon
  <2>1. LinkRx(Shift(tb), s) = {} /\ HwRx(Shift(tb), s) = {}
    BY <1>1, <1>2, Reservations DEF LinkRx, HwRx
  <2> QED BY <2>1, FS_EmptySet
<1>3. CASE s # Horizon
  <2>1. s + 1 \in Slots
    BY <1>3, HorizonAssumption DEF Slots
  <2>2. LinkRx(Shift(tb), s) = LinkRx(tb, s + 1) /\ HwRx(Shift(tb), s) = HwRx(tb, s + 1)
    BY <1>1, <1>3 DEF LinkRx, HwRx
  <2> QED BY <2>1, <2>2 DEF ReceiversSuffice
<1> QED BY <1>2, <1>3

-----------------------------------------------------------------------------
(* Lemmas about steps *)

LEMMA CurrentFields ==
  /\ Current.tables = tables /\ Current.slot = next_broadcast_slot
  /\ Current.scheduled = next_broadcast_scheduled /\ Current.failed = failed
  /\ DOMAIN Current = Fields
BY DEF Current, Fields

LEMMA BecomeCurrent ==
  ASSUME NEW st, Good(st), DOMAIN st = Fields, Become(st)
  PROVE  Current' = st
<1>1. st = [f \in Fields |-> st[f]]
  BY DEF Good, Shaped
<1>2. st = [tables |-> st.tables, slot |-> st.slot,
            scheduled |-> st.scheduled, failed |-> st.failed]
  BY <1>1 DEF Fields
<1> QED BY <1>2 DEF Become, Current

(* A change of the shared channel that keeps its receptions *)
LEMMA BroadcastChange ==
  ASSUME IInv, failed = "none",
         NEW st, Good(st), Keeps(Current, st), Become(st),
         NEW p \in Phases, phase' = p,
         p = "between" <=> phase = "between",
         p \in {"between", "executed", "processed"} => Ahead(st),
         UNCHANGED advertised_broadcast_slots
  PROVE  IInv'
<1>1. Current' = st
  BY BecomeCurrent, CurrentFields DEF Keeps
<1>2. failed' \in {"none", "no_candidate"}
  BY CurrentFields DEF Keeps, Become
<1>3. /\ tables' = st.tables /\ SameLinks(tables, tables')
      /\ \A s \in Slots : IsRx(tables[SH][s]) => IsRx(tables'[SH][s])
  BY CurrentFields DEF Keeps, Become
<1>4. AdvertisedKept'
  <2>1. \A n \in UserIds : ExpectedAt(n)' = ExpectedAt(n)
    BY DEF ExpectedAt
  <2> QED BY <1>3, <2>1 DEF IInv, AdvertisedKept
<1>5. EnoughReceivers => ReceiversSuffice(tables')
  <2>1. \A t \in PP \cup RxTables, s \in Slots : IsRx(tables'[t][s]) <=> IsRx(tables[t][s])
    BY <1>3 DEF SameLinks
  <2> QED BY <2>1, OtherReceivers DEF IInv, EnoughReceivers
<1> QED BY <1>1, <1>2, <1>4, <1>5 DEF IInv, EnoughReceivers

(* A link's change of the tables that leaves the shared channel alone *)
LEMMA LinkChange ==
  ASSUME IInv, NEW tb \in TB, OneTx(tb), HardwareNeverBusy(tb),
         \A s \in Slots : tb[SH][s] = tables[SH][s],
         EnoughReceivers => ReceiversSuffice(tb),
         OnlyTables(tb)
  PROVE  IInv'
<1>1. /\ Current'.tables = tb /\ Current'.slot = next_broadcast_slot
      /\ Current'.scheduled = next_broadcast_scheduled /\ Current'.failed = failed
      /\ Shaped(Current')
  BY DEF OnlyTables, Current, Shaped, Fields
<1>2. Good(Current')
  BY <1>1, CurrentFields DEF IInv, Good, ReservedAt, SharedOnlyTxRx
<1>3. Ahead(Current) => Ahead(Current')
  BY <1>1, CurrentFields DEF Ahead
<1>4. AdvertisedKept'
  <2>1. \A n \in UserIds : ExpectedAt(n)' = ExpectedAt(n)
    BY DEF ExpectedAt, OnlyTables
  <2> QED BY <2>1 DEF IInv, AdvertisedKept, OnlyTables
<1> QED BY <1>2, <1>3, <1>4 DEF IInv, OnlyTables, EnoughReceivers

(* MCSOTDMA_Mac::execute never finds two transmissions. *)
LEMMA AtMostOneTx ==
  ASSUME IInv
  PROVE  ~(Cardinality(CurrentTx) > 1)
<1>1. \A c, d \in CurrentTx : c = d
  BY ZeroSlot DEF IInv, Good, Current, OneTx, CurrentTx
<1>2. CASE CurrentTx = {}
  BY <1>2, FS_EmptySet
<1>3. CASE CurrentTx # {}
  <2>1. PICK c \in CurrentTx : TRUE
    BY <1>3
  <2>2. CurrentTx = {c}
    BY <1>1, <2>1
  <2>3. Cardinality(CurrentTx) = 1
    BY <2>2, FS_Singleton
  <2> QED BY <2>3
<1> QED BY <1>2, <1>3

(* Nor more receptions than it has receivers. *)
LEMMA ReceptionsFit ==
  ASSUME IInv, EnoughReceivers
  PROVE  ~(Cardinality(CurrentRx) > NumReceivers)
<1>1. /\ IsFiniteSet(LinkRx(tables, 0))
      /\ Cardinality(LinkRx(tables, 0)) =< Cardinality(HwRx(tables, 0))
  BY ZeroSlot DEF IInv, ReceiversSuffice
<1>2. /\ HwRx(tables, 0) \subseteq RxTables
      /\ Cardinality(HwRx(tables, 0)) =< Cardinality(RxTables)
      /\ IsFiniteSet(HwRx(tables, 0))
  BY FS_Subset DEF HwRx, EnoughReceivers
<1>3. CurrentRx \subseteq LinkRx(tables, 0) \cup {SH}
  BY DEF CurrentRx, LinkRx, Channels
<1>4. SH \notin LinkRx(tables, 0)
  BY Disjoint DEF LinkRx
<1>5. /\ IsFiniteSet(LinkRx(tables, 0) \cup {SH})
      /\ Cardinality(LinkRx(tables, 0) \cup {SH}) = Cardinality(LinkRx(tables, 0)) + 1
  BY <1>1, <1>4, FS_AddElement
<1>6. /\ IsFiniteSet(CurrentRx)
      /\ Cardinality(CurrentRx) =< Cardinality(LinkRx(tables, 0) \cup {SH})
  BY <1>3, <1>5, FS_Subset
<1>7. /\ Cardinality(CurrentRx) \in Nat /\ Cardinality(LinkRx(tables, 0)) \in Nat
      /\ Cardinality(RxTables) \in Nat /\ Cardinality(HwRx(tables, 0)) \in Nat
  BY <1>1, <1>2, <1>6, FS_CardinalityType DEF EnoughReceivers
<1> QED BY <1>1, <1>2, <1>5, <1>6, <1>7, ReceiversAssumption DEF EnoughReceivers

-----------------------------------------------------------------------------
(* The invariant is inductive. *)

LEMMA InitIInv == Init => IInv
<1> SUFFICES ASSUME Init PROVE IInv
  OBVIOUS
<1>1. /\ EmptyTables \in TB
      /\ \A t \in Tables, s \in Slots : EmptyTables[t][s] = Idle
  BY Reservations DEF EmptyTables, TB
<1>2. Shaped(Current)
  BY DEF Current, Shaped, Fields
<1>3. /\ OneTx(EmptyTables) /\ HardwareNeverBusy(EmptyTables)
      /\ ReservedAt(EmptyTables, FALSE, 0) /\ SharedOnlyTxRx(EmptyTables)
  BY <1>1, Reservations, Disjoint DEF OneTx, HardwareNeverBusy, ReservedAt, SharedOnlyTxRx
<1>4. Good(Current) /\ Ahead(Current)
  BY <1>1, <1>2, <1>3, CurrentFields, ZeroSlot DEF Init, Good, Ahead
<1>5. EnoughReceivers => ReceiversSuffice(EmptyTables)
  <2>1. \A s \in Slots : LinkRx(EmptyTables, s) = {} /\ HwRx(EmptyTables, s) = {}
    BY <1>1, Reservations, Disjoint DEF LinkRx, HwRx
  <2> QED BY <2>1, FS_EmptySet DEF ReceiversSuffice
<1> QED BY <1>4, <1>5 DEF Init, IInv, Phases, AdvertisedKept

LEMMA SlotStartIInv ==
  ASSUME IInv, failed = "none", SlotStart
  PROVE  IInv'
<1>1. PICK st \in onSlotStart(Current) : Become(ListenNow(st))
  BY DEF SlotStart
<1>2. Good(Current) /\ Ahead(Current) /\ Current.failed = "none"
  BY CurrentFields DEF IInv, SlotStart
<1>3. /\ Good(st) /\ st.failed \in {"none", "no_candidate"}
      /\ \E on : /\ on.tables = Shift(tables) /\ Keeps(on, st)
                 /\ DOMAIN on = Fields
  BY <1>2, SlotStartEffect, CurrentFields
<1>4. PICK on : on.tables = Shift(tables) /\ Keeps(on, st) /\ DOMAIN on = Fields
  BY <1>3
<1>5. Good(ListenNow(st)) /\ Keeps(st, ListenNow(st)) /\ ListenNow(st).failed = st.failed
  BY <1>3, Listen
<1> DEFINE st2 == ListenNow(st)
<1> HIDE DEF st2
<1>6. Keeps(on, st2) /\ DOMAIN st2 = Fields
  BY <1>4, <1>5, KeepsTransitive DEF Keeps, st2
<1>7. Current' = st2 /\ tables' = st2.tables /\ failed' \in {"none", "no_candidate"}
  BY <1>1, <1>3, <1>5, <1>6, BecomeCurrent DEF Become, st2
<1>8. /\ tables \in TB /\ OneTx(tables) /\ HardwareNeverBusy(tables)
  BY <1>2, CurrentFields DEF Good
<1>9. AdvertisedKept'
  <2> SUFFICES ASSUME NEW n \in UserIds, advertised_broadcast_slots'[n] # NONE
               PROVE  ExpectedAt(n)' \in Slots /\ IsRx(tables'[SH][ExpectedAt(n)'])
    BY DEF AdvertisedKept
  <2> DEFINE a == advertised_broadcast_slots[n]
  <2>1. a \in Slots /\ ExpectedAt(n) = a + 1 /\ ExpectedAt(n)' = a + 0
    BY DEF IInv, SlotStart, ExpectedAt
  <2>2. a + 1 \in Slots /\ IsRx(tables[SH][a + 1])
    BY <2>1 DEF IInv, AdvertisedKept, SlotStart
  <2>3. a + 1 > 0 /\ (a + 1) - 1 = a /\ a + 0 = a
    <3>1. a \in Nat
      BY <2>1, ZeroSlot
    <3> HIDE DEF a
    <3> QED BY <3>1
  <2>4. IsRx(Shift(tables)[SH][a])
    BY <1>8, <2>2, <2>3, ShiftEffect, Disjoint
  <2> QED BY <1>4, <1>6, <1>7, <2>1, <2>3, <2>4 DEF Keeps
<1>10. EnoughReceivers => ReceiversSuffice(tables')
  <2>1. EnoughReceivers => ReceiversSuffice(Shift(tables))
    BY <1>8, ShiftReceivers DEF IInv, EnoughReceivers
  <2>2. \A t \in PP \cup RxTables, s \in Slots : IsRx(tables'[t][s]) <=> IsRx(Shift(tables)[t][s])
    BY <1>4, <1>6, <1>7 DEF Keeps, SameLinks
  <2> QED BY <2>1, <2>2, OtherReceivers DEF EnoughReceivers
<1>11. Good(Current')
  BY <1>5, <1>7 DEF st2
<1> QED BY <1>7, <1>9, <1>10, <1>11 DEF IInv, SlotStart, Phases, EnoughReceivers

LEMMA ExecuteIInv ==
  ASSUME IInv, failed = "none", Execute
  PROVE  IInv'
<1>1. failed' \in {"none", "too_many_rx"} /\ (EnoughReceivers => failed' # "too_many_rx")
  BY AtMostOneTx, ReceptionsFit DEF Execute
<1>2. /\ Current'.tables = tables /\ Current'.slot = next_broadcast_slot
      /\ Current'.scheduled = next_broadcast_scheduled /\ Current'.failed = failed'
      /\ Shaped(Current')
  BY DEF Execute, Current, Shaped, Fields
<1>3. Good(Current')
  BY <1>2, CurrentFields DEF IInv, Good
<1>4. phase' = "executed" => Ahead(Current')
  <2>1. ReservedAt(tables, next_broadcast_scheduled, next_broadcast_slot) /\ next_broadcast_slot \in Slots
    BY CurrentFields DEF IInv, Good
  <2>2. SH \notin CurrentTx => ~(next_broadcast_scheduled /\ 0 = next_broadcast_slot)
    BY <2>1, ZeroSlot, Disjoint DEF ReservedAt, CurrentTx
  <2> QED BY <1>2, <2>1, <2>2, ZeroSlot DEF Execute, Ahead
<1>5. AdvertisedKept'
  <2>1. \A n \in UserIds : ExpectedAt(n)' = ExpectedAt(n)
    BY DEF ExpectedAt, Execute
  <2> QED BY <2>1 DEF IInv, AdvertisedKept, Execute
<1> QED BY <1>1, <1>3, <1>4, <1>5 DEF IInv, Execute, Phases, EnoughReceivers

LEMMA ProcessBroadcastIInv ==
  ASSUME IInv, failed = "none",
         NEW src \in UserIds, NEW offset \in 1 .. Horizon - 1,
         NEW dests \in {{}} \cup {{d} : d \in UserIds \ {src}},
         ProcessBroadcast(src, offset, dests)
  PROVE  IInv'
<1> DEFINE adv == [advertised_broadcast_slots EXCEPT ![src] = offset]
           Expected(d) == IF adv[d] # NONE THEN adv[d] ELSE adv[src]
           After(st) == IF st.failed # "none" \/ dests = {} THEN {st}
                        ELSE UNION {reportThirdPartyExpectedLinkReply(st, Expected(d), d) : d \in dests}
<1>1. offset \in Slots /\ dests \subseteq UserIds
  BY HorizonAssumption DEF Slots
<1>2. adv \in [UserIds -> Slots \cup {NONE}] /\ adv[src] = offset
  BY <1>1 DEF IInv
<1>3. offset # NONE
  BY <1>1, ZeroSlot, NoneAssumption
<1>4. \A d \in UserIds : Expected(d) \in Slots
  BY <1>1, <1>2
<1>5. PICK st \in checkAdvertisedSlot(Current, src, offset) : \E st2 \in After(st) : Become(st2)
  BY DEF ProcessBroadcast
<1>6. PICK st2 \in After(st) : Become(st2)
  BY <1>5
<1>7. Good(Current) /\ Ahead(Current)
  BY DEF IInv, ProcessBroadcast
<1>8. Good(st) /\ Keeps(Current, st) /\ Ahead(st) /\ IsRx(st.tables[SH][offset])
  BY <1>1, <1>7, AdvertisedSlot
<1> HIDE DEF Expected
<1>9. Good(st2) /\ Keeps(st, st2) /\ Ahead(st2)
  <2>1. CASE st2 = st
    BY <1>8, <2>1, KeepsReflexive
  <2>2. CASE \E d \in dests : st2 \in reportThirdPartyExpectedLinkReply(st, Expected(d), d)
    <3>1. PICK d \in dests : st2 \in reportThirdPartyExpectedLinkReply(st, Expected(d), d)
      BY <2>2
    <3>2. d \in UserIds /\ Expected(d) \in Slots
      BY <1>1, <1>4
    <3> QED BY <1>8, <3>1, <3>2, ExpectedReply
  <2> QED BY <1>6, <2>1, <2>2
<1>10. Keeps(Current, st2) /\ DOMAIN st2 = Fields
  BY <1>8, <1>9, KeepsTransitive, CurrentFields DEF Keeps
<1>11. /\ Current' = st2 /\ tables' = st2.tables /\ failed' \in {"none", "no_candidate"}
  BY <1>6, <1>9, <1>10, BecomeCurrent, CurrentFields DEF Become, Keeps
<1>12. advertised_broadcast_slots' = adv /\ phase' = "processed" /\ phase = "executed"
  BY DEF ProcessBroadcast
<1>13. AdvertisedKept'
  <2> SUFFICES ASSUME NEW n \in UserIds, adv[n] # NONE
               PROVE  ExpectedAt(n)' \in Slots /\ IsRx(tables'[SH][ExpectedAt(n)'])
    BY <1>12 DEF AdvertisedKept
  <2>0. ExpectedAt(n)' = adv[n] /\ adv[n] \in Slots
    <3> HIDE DEF adv
    <3>1. ExpectedAt(n)' = adv[n] + 0 /\ adv[n] \in Slots
      BY <1>2, <1>12 DEF ExpectedAt
    <3>2. adv[n] \in Nat
      BY <3>1, ZeroSlot
    <3> QED BY <3>1, <3>2
  <2>1. CASE n = src
    BY <1>1, <1>2, <1>8, <1>9, <1>11, <2>0, <2>1 DEF Keeps
  <2>2. CASE n # src
    <3>1. adv[n] = advertised_broadcast_slots[n]
      BY <2>2 DEF IInv
    <3>2. ExpectedAt(n) = ExpectedAt(n)'
      BY <1>12, <3>1 DEF ExpectedAt
    <3>3. IsRx(tables[SH][adv[n]])
      BY <2>0, <3>1, <3>2 DEF IInv, AdvertisedKept
    <3> QED BY <1>10, <1>11, <2>0, <3>3, CurrentFields DEF Keeps
  <2> QED BY <2>1, <2>2
<1>14. EnoughReceivers => ReceiversSuffice(tables')
  <2>1. \A t \in PP \cup RxTables, s \in Slots : IsRx(tables'[t][s]) <=> IsRx(tables[t][s])
    BY <1>10, <1>11, CurrentFields DEF Keeps, SameLinks
  <2> QED BY <2>1, OtherReceivers DEF IInv, EnoughReceivers
<1> QED BY <1>2, <1>9, <1>11, <1>12, <1>13, <1>14 DEF IInv, Phases, EnoughReceivers

LEMMA SlotEndIInv ==
  ASSUME IInv, NEW gone \in SUBSET UserIds, SlotEnd(gone)
  PROVE  IInv'
<1>1. Current' = Current /\ Ahead(Current)
  BY DEF SlotEnd, Current, IInv
<1>2. \A n \in Slots \ {0} : n - 1 \in Slots
  BY HorizonAssumption DEF Slots
<1>3. advertised_broadcast_slots' \in [UserIds -> Slots \cup {NONE}]
  BY <1>2 DEF SlotEnd, IInv
<1>4. AdvertisedKept'
  <2> SUFFICES ASSUME NEW n \in UserIds, advertised_broadcast_slots'[n] # NONE
               PROVE  ExpectedAt(n)' \in Slots /\ IsRx(tables'[SH][ExpectedAt(n)'])
    BY DEF AdvertisedKept
  <2> DEFINE a == advertised_broadcast_slots[n]
  <2>1. a # NONE /\ a \in Slots /\ advertised_broadcast_slots'[n] = a - 1
    BY DEF SlotEnd, IInv
  <2>2. ExpectedAt(n)' = (a - 1) + 1 /\ ExpectedAt(n) = a + 0
    BY <2>1 DEF ExpectedAt, SlotEnd
  <2>3. ExpectedAt(n)' = ExpectedAt(n)
    <3>1. a \in Nat
      BY <2>1, ZeroSlot
    <3> HIDE DEF a
    <3> QED BY <2>2, <3>1
  <2> QED BY <2>1, <2>3 DEF IInv, AdvertisedKept, SlotEnd
<1> QED BY <1>1, <1>3, <1>4 DEF IInv, SlotEnd, Phases, EnoughReceivers

LEMMA BroadcastStepIInv ==
  ASSUME IInv, failed = "none", BroadcastStep
  PROVE  IInv'
<1>0. Good(Current)
  BY DEF IInv
<1>1. CASE SlotStart
  BY <1>1, SlotStartIInv
<1>2. CASE Execute
  BY <1>2, ExecuteIInv
<1>3. ASSUME NEW dest \in UserIds, ProposeLocalLinks(dest) PROVE IInv'
  <2>1. PICK st \in scheduleBroadcastSlot(Current) : Become(st)
    BY <1>3 DEF ProposeLocalLinks
  <2>2. Good(st) /\ Keeps(Current, st)
    BY <1>0, Schedule
  <2>3. "transmitting" \in Phases /\ phase' = "transmitting" /\ phase = "transmitting"
    BY <1>3 DEF ProposeLocalLinks, Phases
  <2> QED BY <1>3, <2>1, <2>2, <2>3, BroadcastChange DEF ProposeLocalLinks
<1>4. CASE Transmit
  <2>0. "executed" \in Phases /\ phase' = "executed" /\ phase = "transmitting"
    BY <1>4 DEF Transmit, Phases
  <2>1. CASE \E st \in scheduleBroadcastSlot(Current) : Become(st)
    <3>1. PICK st \in scheduleBroadcastSlot(Current) : Become(st)
      BY <2>1
    <3>2. Good(st) /\ Keeps(Current, st) /\ Ahead(st)
      BY <1>0, Schedule
    <3> QED BY <1>4, <2>0, <3>1, <3>2, BroadcastChange DEF Transmit
  <2>2. CASE /\ next_broadcast_slot # 0
             /\ UNCHANGED << tables, next_broadcast_slot, next_broadcast_scheduled, failed >>
    <3>1. Become(Current)
      BY <2>2, CurrentFields DEF Become
    <3>2. Ahead(Current)
      <4>1. Current.slot \in Slots
        BY <1>0 DEF Good
      <4>2. next_broadcast_slot \in Nat
        BY <4>1, ZeroSlot, CurrentFields
      <4> QED BY <2>2, <4>2, CurrentFields DEF Ahead
    <3> QED BY <1>0, <1>4, <2>0, <3>1, <3>2, BroadcastChange, KeepsReflexive DEF Transmit
  <2> QED BY <1>4, <2>1, <2>2 DEF Transmit
<1>5. ASSUME NEW src \in UserIds, NEW offset \in 1 .. Horizon - 1,
             NEW dests \in {{}} \cup {{d} : d \in UserIds \ {src}},
             ProcessBroadcast(src, offset, dests)
      PROVE  IInv'
  BY <1>5, ProcessBroadcastIInv
<1>6. ASSUME NEW gone \in SUBSET UserIds, SlotEnd(gone) PROVE IInv'
  BY <1>6, SlotEndIInv
<1>7. CASE NotifyOutgoing
  <2>1. PICK st \in scheduleBroadcastSlot(Current) : Become(st)
    BY <1>7 DEF NotifyOutgoing
  <2>2. Good(st) /\ Keeps(Current, st) /\ Ahead(st)
    BY <1>0, Schedule
  <2>3. phase \in Phases /\ phase' = phase
    BY <1>7 DEF NotifyOutgoing, IInv
  <2> QED BY <1>7, <2>1, <2>2, <2>3, BroadcastChange DEF NotifyOutgoing
<1> QED BY <1>1, <1>2, <1>3, <1>4, <1>5, <1>6, <1>7 DEF BroadcastStep

LEMMA LinkStepIInv ==
  ASSUME IInv, failed = "none", LinkStep
  PROVE  IInv'
<1>0. /\ tables \in TB /\ OneTx(tables) /\ HardwareNeverBusy(tables)
  BY CurrentFields DEF IInv, Good
<1>1. PICK c \in PP, s \in Slots :
        \/ \E id \in UserIds :
             \/ \E action \in {"TX", "RX"} : s > 0 /\ ScheduleBurst(c, s, id, action)
             \/ s > 0 /\ LockTxBurst(c, s, id)
             \/ s > 0 /\ LockBurst(c, s, id)
             \/ ThirdPartyBusy(c, s, id)
        \/ UnscheduleBurst(c, s)
        \/ \E w \in BOOLEAN : UnlockBurst(c, s, w)
        \/ ThirdPartyFree(c, s)
  BY DEF LinkStep
<1>2. c \in Channels /\ c \in Tables /\ c # SH /\ c # TxTable /\ c \notin RxTables /\ SH \in Tables
  BY Disjoint
(* a mark on this channel leaves the shared channel alone *)
<1>3. ASSUME NEW r \in Reservation
      PROVE  /\ Mark(tables, c, s, r) \in TB
             /\ \A x \in Slots : Mark(tables, c, s, r)[SH][x] = tables[SH][x]
  BY <1>0, <1>2, MarkEffect, Disjoint
<1>4. ASSUME OnlyTables(Mark(tables, c, s, Idle))
      PROVE  IInv'
  <2>1. OneTx(Mark(tables, c, s, Idle)) /\ HardwareNeverBusy(Mark(tables, c, s, Idle))
    BY <1>0, <1>2, MarkIdle
  <2>2. EnoughReceivers => ReceiversSuffice(Mark(tables, c, s, Idle))
    BY <1>0, Reservations, MarkReceivers DEF IInv, EnoughReceivers
  <2> QED BY <1>3, <1>4, <2>1, <2>2, LinkChange, Reservations
<1>5. ASSUME NEW id \in UserIds, NEW action \in {"TX", "RX"}, ScheduleBurst(c, s, id, action)
      PROVE  IInv'
  <2> DEFINE r == Res(action, id)
             m == Mark(tables, c, s, r)
  <2>1. r \in Reservation /\ r.action = action
    BY Reservations DEF Ids, Actions
  <2>2. CanUse(tables[c][s], id) /\ ~IsTx(tables[c][s])
    BY <1>5 DEF ScheduleBurst, CanUse, IsIdle, IsBusy, IsTx
  <2>3. \E hw \in IF action = "TX" THEN {TxTable} ELSE RxTables : IsIdle(tables[hw][s])
    BY <1>0, <1>5 DEF ScheduleBurst, Available, CanUse, HardwareNeverBusy
  <2>4. CanMark(tables, c, s, r)
    BY <2>1, <2>3 DEF CanMark, IsTx, IsRx
  <2>5. OnlyTables(m)
    BY <1>5, <2>4 DEF ScheduleBurst, OnlyTables
  <2>6. OneTx(m) /\ HardwareNeverBusy(m)
    <3>1. CASE action = "TX"
      <4>1. IsTx(r) /\ ~IsTx(tables[TxTable][s])
        BY <2>1, <2>3, <3>1 DEF IsTx, IsIdle
      <4> QED BY <1>0, <1>2, <2>1, <4>1, MarkTransmission
    <3>2. CASE action # "TX"
      <4>1. ~IsTx(r)
        BY <2>1, <3>2 DEF IsTx
      <4> QED BY <1>0, <1>2, <2>1, <2>2, <4>1, MarkOther
    <3> QED BY <3>1, <3>2
  <2>7. EnoughReceivers => ReceiversSuffice(m)
    <3>1. ~IsRx(r) \/ (~IsRx(tables[c][s]) /\ IdleReceivers(tables, s) # {})
      BY <2>1, <2>2, <2>3 DEF CanUse, IdleReceivers, IsIdle, IsBusy, IsRx
    <3>2. ~IsIdle(r)
      BY <2>1 DEF IsIdle
    <3> HIDE DEF r
    <3> QED BY <1>0, <2>1, <3>1, <3>2, MarkReceivers DEF IInv, EnoughReceivers
  <2> QED BY <1>3, <2>1, <2>5, <2>6, <2>7, LinkChange
<1>6. ASSUME NEW id \in UserIds, LockTxBurst(c, s, id)
      PROVE  IInv'
  <2> DEFINE r == Res("LOCKED", id)
             m == Lock(Lock(tables, c, s, id), TxTable, s, id)
  <2>1. r \in Reservation /\ ~IsTx(r) /\ ~IsBusy(r) /\ ~IsRx(r)
    BY Reservations DEF Ids, Actions, IsTx, IsBusy, IsRx
  <2>2. \A t \in {c, TxTable} : ~IsTx(tables[t][s]) /\ ~IsRx(tables[t][s])
    BY <1>6 DEF LockTxBurst, CanLock, IsIdle, IsLocked, IsTx, IsRx
  <2>3. m \in TB /\ OnlyTables(m)
    BY <1>0, <1>2, <1>6, <2>1, Disjoint DEF LockTxBurst, Lock, TB
  <2>4. \A t \in Tables, x \in Slots :
          m[t][x] = IF t \in {c, TxTable} /\ x = s THEN r ELSE tables[t][x]
    BY <1>0, <1>2, Disjoint DEF Lock, TB
  <2> HIDE DEF m, r
  <2>5. \A t \in Tables, x \in Slots :
          /\ IsTx(m[t][x]) <=> IsTx(tables[t][x])
          /\ IsRx(m[t][x]) <=> IsRx(tables[t][x])
          /\ IsBusy(m[t][x]) => IsBusy(tables[t][x])
    BY <2>1, <2>2, <2>4
  <2>6. OneTx(m) /\ HardwareNeverBusy(m)
    BY <1>0, <2>5, Disjoint DEF OneTx, HardwareNeverBusy
  <2>7. EnoughReceivers => ReceiversSuffice(m)
    BY <2>5, Disjoint, OtherReceivers DEF IInv, EnoughReceivers
  <2>8. \A x \in Slots : m[SH][x] = tables[SH][x]
    BY <1>2, <2>4, Disjoint
  <2> QED BY <2>3, <2>6, <2>7, <2>8, LinkChange
<1>7. ASSUME NEW id \in UserIds, LockBurst(c, s, id)
      PROVE  IInv'
  <2> DEFINE r == Res("LOCKED", id)
             m == Lock(tables, c, s, id)
  <2>1. r \in Reservation /\ ~IsTx(r) /\ ~IsBusy(r) /\ ~IsRx(r)
    BY Reservations DEF Ids, Actions, IsTx, IsBusy, IsRx
  <2>2. ~IsTx(tables[c][s]) /\ ~IsRx(tables[c][s])
    BY <1>7 DEF LockBurst, IsIdle, IsTx, IsRx
  <2>3. m \in TB /\ OnlyTables(m)
    BY <1>0, <1>2, <1>7, <2>1 DEF LockBurst, Lock, TB
  <2>4. \A t \in Tables, x \in Slots :
          m[t][x] = IF t = c /\ x = s THEN r ELSE tables[t][x]
    BY <1>0, <1>2 DEF Lock, TB
  <2> HIDE DEF m, r
  <2>5. \A t \in Tables, x \in Slots :
          /\ IsTx(m[t][x]) <=> IsTx(tables[t][x])
          /\ IsRx(m[t][x]) <=> IsRx(tables[t][x])
          /\ IsBusy(m[t][x]) => IsBusy(tables[t][x])
    BY <2>1, <2>2, <2>4
  <2>6. OneTx(m) /\ HardwareNeverBusy(m)
    BY <1>0, <2>5, Disjoint DEF OneTx, HardwareNeverBusy
  <2>7. EnoughReceivers => ReceiversSuffice(m)
    BY <2>5, Disjoint, OtherReceivers DEF IInv, EnoughReceivers
  <2>8. \A x \in Slots : m[SH][x] = tables[SH][x]
    BY <1>2, <2>4, Disjoint
  <2> QED BY <2>3, <2>6, <2>7, <2>8, LinkChange
<1>8. ASSUME NEW id \in UserIds, ThirdPartyBusy(c, s, id)
      PROVE  IInv'
  <2> DEFINE r == Res("BUSY", id)
  <2>1. /\ r \in Reservation /\ ~IsTx(r) /\ ~IsRx(r) /\ ~IsIdle(r)
        /\ ~IsTx(tables[c][s])
    BY <1>8, Reservations DEF ThirdPartyBusy, IsIdle, IsTx, IsRx, Ids, Actions
  <2>2. OnlyTables(Mark(tables, c, s, r))
    BY <1>8 DEF ThirdPartyBusy
  <2> HIDE DEF r
  <2>3. OneTx(Mark(tables, c, s, r)) /\ HardwareNeverBusy(Mark(tables, c, s, r))
    BY <1>0, <1>2, <2>1, MarkOther
  <2>4. EnoughReceivers => ReceiversSuffice(Mark(tables, c, s, r))
    BY <1>0, <2>1, MarkReceivers DEF IInv, EnoughReceivers
  <2> QED BY <1>3, <2>1, <2>2, <2>3, <2>4, LinkChange
<1>9. ASSUME NEW w \in BOOLEAN, UnlockBurst(c, s, w)
      PROVE  IInv'
  <2> DEFINE entries == {<<t, s>> : t \in {c} \cup (IF w THEN {TxTable} ELSE {})}
             m == UnlockAll(tables, entries, {tables[c][s].target})
  <2>1. OnlyTables(m)
    BY <1>9 DEF UnlockBurst
  <2>2. m \in TB
    BY <1>0, Reservations DEF UnlockAll, TB
  <2>3. \A t \in Tables, x \in Slots :
          m[t][x] = tables[t][x] \/ (m[t][x] = Idle /\ CanLock(tables[t][x]))
    BY DEF UnlockAll, CanUnlock
  <2> HIDE DEF m
  <2>4. \A t \in Tables, x \in Slots :
          /\ IsTx(m[t][x]) <=> IsTx(tables[t][x])
          /\ IsRx(m[t][x]) <=> IsRx(tables[t][x])
          /\ IsBusy(m[t][x]) => IsBusy(tables[t][x])
    <3>1. \A t \in Tables, x \in Slots :
            CanLock(tables[t][x]) => ~IsTx(tables[t][x]) /\ ~IsRx(tables[t][x])
      BY DEF CanLock, IsIdle, IsLocked, IsTx, IsRx
    <3> QED BY <2>3, <3>1, Reservations
  <2>5. OneTx(m) /\ HardwareNeverBusy(m)
    BY <1>0, <2>4, Disjoint DEF OneTx, HardwareNeverBusy
  <2>6. EnoughReceivers => ReceiversSuffice(m)
    BY <2>4, Disjoint, OtherReceivers DEF IInv, EnoughReceivers
  <2>7. \A x \in Slots : m[SH][x] = tables[SH][x]
    <3>1. \A x \in Slots : <<SH, x>> \notin entries
      BY <1>2, Disjoint
    <3> QED BY <1>2, <3>1 DEF UnlockAll, m
  <2> QED BY <2>1, <2>2, <2>5, <2>6, <2>7, LinkChange
<1>10. CASE UnscheduleBurst(c, s)
  BY <1>4, <1>10 DEF UnscheduleBurst
<1>11. CASE ThirdPartyFree(c, s)
  BY <1>4, <1>11 DEF ThirdPartyFree
<1> QED BY <1>1, <1>5, <1>6, <1>7, <1>8, <1>9, <1>10, <1>11

LEMMA NextIInv == IInv /\ [Next]_vars => IInv'
<1> SUFFICES ASSUME IInv, [Next]_vars PROVE IInv'
  OBVIOUS
<1>1. CASE Next
  BY <1>1, BroadcastStepIInv, LinkStepIInv DEF Next
<1>2. CASE UNCHANGED vars
  BY <1>2 DEF vars, IInv, Current, AdvertisedKept, ExpectedAt
<1> QED BY <1>1, <1>2

LEMMA Inductive == Spec => []IInv
BY InitIInv, NextIInv, PTL DEF Spec

-----------------------------------------------------------------------------
(* The theorems *)

(* Every variable of BroadcastSlot keeps its type: in particular, the      *)
(* countdowns of SHLinkManager and NeighborObserver stay within the        *)
(* planning horizon and never become negative.                             *)
THEOREM TypeCorrect == Spec => []TypeOK
<1>1. IInv => TypeOK
  BY CurrentFields DEF IInv, TypeOK, Good, TB, Failures
<1> QED BY <1>1, Inductive, PTL

(* Whatever the broadcast and the links reserve and return in whatever     *)
(* order, a slot is promised to at most one transmission, and the          *)
(* transmitter's table (ReservationTable::mark) knows exactly these slots. *)
THEOREM OneTransmissionHolds == Spec => []OneTransmission
<1>1. IInv => OneTransmission
  BY CurrentFields DEF IInv, OneTransmission, Good, OneTx
<1> QED BY <1>1, Inductive, PTL

(* SHLinkManager's countdown always points at its own TX in the shared     *)
(* table, and lies ahead between two slots: onSlotStart never throws.      *)
THEOREM BroadcastReservedHolds == Spec => []BroadcastReserved
<1>1. IInv => BroadcastReserved
  BY CurrentFields DEF IInv, BroadcastReserved, Good, ReservedAt, Ahead
<1> QED BY <1>1, Inductive, PTL

(* The user never holds its own broadcast in the slot in which it expects  *)
(* a neighbour's: wherever NeighborObserver expects one, the shared table  *)
(* keeps the reception that processBroadcastMessage entered, through every *)
(* collision and every new schedule.                                       *)
THEOREM NeverOnAdvertisedHolds == Spec => []NeverOnAdvertised
<1>1. IInv => NeverOnAdvertised
  <2> SUFFICES ASSUME IInv, NEW n \in UserIds, next_broadcast_scheduled,
                      advertised_broadcast_slots[n] # NONE
               PROVE  next_broadcast_slot # ExpectedAt(n)
    BY DEF NeverOnAdvertised
  <2>1. IsRx(tables[SH][ExpectedAt(n)])
    BY DEF IInv, AdvertisedKept
  <2>2. IsTx(tables[SH][next_broadcast_slot])
    BY CurrentFields DEF IInv, Good, ReservedAt
  <2> QED BY <2>1, <2>2 DEF IsTx, IsRx
<1> QED BY <1>1, Inductive, PTL

(* With a receiver for the shared channel besides those that have a table  *)
(* (MCSOTDMA_Mac::num_receivers is 2, MCSOTDMA_Phy has one table), none of *)
(* the checks of the handlers ever throws: no underflow, no invalid table, *)
(* no transmitter taken twice, no reception without a receiver.            *)
THEOREM NoFailureHolds ==
  ASSUME IsFiniteSet(RxTables), NumReceivers > Cardinality(RxTables)
  PROVE  Spec => []NoFailure
<1>1. IInv => NoFailure
  BY DEF IInv, NoFailure, EnoughReceivers
<1> QED BY <1>1, Inductive, PTL
=============================================================================
