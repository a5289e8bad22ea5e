--------------------------- MODULE BroadcastSlot ---------------------------
(***************************************************************************)
(* One user's broadcast slot: how SHLinkManager reserves the slot of its   *)
(* next broadcast, counts down to it, transmits in it, and gives it up     *)
(* when a neighbour claims it, while the links of the same user take and   *)
(* return bursts in the tables it shares with them.                        *)
(*                                                                         *)
(* A time slot is the three calls of the simulator: update, execute and    *)
(* onSlotEnd of MCSOTDMA_Mac.  An exception ends the run; "failed" is the  *)
(* first one that was thrown.                                              *)
(***************************************************************************)
EXTENDS SharedChannel

CONSTANTS
  NONE,          \* no advertised slot is known
  NumReceivers,  \* MCSOTDMA_Mac::num_receivers
  MaxBursts      \* bound: reserved slots on the point-to-point channels

ASSUME NoneAssumption      == NONE \notin Nat
ASSUME ReceiversAssumption == NumReceivers \in Nat

VARIABLES
  tables,                      \* the reservation tables of this user
  next_broadcast_slot,         \* SHLinkManager::next_broadcast_slot
  next_broadcast_scheduled,    \* SHLinkManager::next_broadcast_scheduled
  advertised_broadcast_slots,  \* NeighborObserver::advertised_broadcast_slots
  phase,                       \* how far the current time slot has come
  failed                       \* the exception that ended the run, or "none"

vars == << tables, next_broadcast_slot, next_broadcast_scheduled,
           advertised_broadcast_slots, phase, failed >>

(* "between": after onSlotEnd; "started": after update; "transmitting":    *)
(* inside SHLinkManager::onTransmissionReservation; "executed": after      *)
(* execute; "processed": a broadcast was processed in onSlotEnd.           *)
Phases   == {"between", "started", "transmitting", "executed", "processed"}
Failures == {"none", "no_candidate", "no_tx_available", "underflow",
             "invalid_table", "too_many_tx", "too_many_rx"}

TypeOK ==
  /\ tables \in [Tables -> [Slots -> Reservation]]
  /\ next_broadcast_slot \in Slots
  /\ next_broadcast_scheduled \in BOOLEAN
  /\ advertised_broadcast_slots \in [UserIds -> Slots \cup {NONE}]
  /\ phase \in Phases
  /\ failed \in Failures

Init ==
  /\ tables = EmptyTables
  /\ next_broadcast_slot = 0
  /\ next_broadcast_scheduled = FALSE
  /\ advertised_broadcast_slots = [n \in UserIds |-> NONE]
  /\ phase = "between"
  /\ failed = "none"

-----------------------------------------------------------------------------
(* The state that the methods of SharedChannel read and write *)

Current == [tables |-> tables, slot |-> next_broadcast_slot,
            scheduled |-> next_broadcast_scheduled, failed |-> failed]

Become(st) ==
  /\ tables' = st.tables
  /\ next_broadcast_slot' = st.slot
  /\ next_broadcast_scheduled' = st.scheduled
  /\ failed' = st.failed

-----------------------------------------------------------------------------
(* The time slot *)

SlotStart ==
  /\ phase = "between"
  /\ \E st \in onSlotStart(Current) : Become(ListenNow(st))
  /\ phase' = "started"
  /\ UNCHANGED advertised_broadcast_slots

CurrentTx == {c \in Channels : IsTx(tables[c][0])}
CurrentRx == {c \in Channels : IsRx(tables[c][0])}

(* MCSOTDMA_Mac::execute.  It has one transmitter. *)
Execute ==
  /\ phase = "started"
  /\ failed' = IF Cardinality(CurrentTx) > 1 THEN "too_many_tx"
               ELSE IF Cardinality(CurrentRx) > NumReceivers THEN "too_many_rx"
               ELSE "none"
  /\ phase' = IF SH \in CurrentTx THEN "transmitting" ELSE "executed"
  /\ UNCHANGED << tables, next_broadcast_slot, next_broadcast_scheduled,
                  advertised_broadcast_slots >>

(* Within onTransmissionReservation: links are proposed to a user whose    *)
(* next broadcast is unknown, relative to the own next broadcast, which is *)
(* scheduled for that.                                                     *)
ProposeLocalLinks(dest) ==
  /\ phase = "transmitting"
  /\ advertised_broadcast_slots[dest] = NONE
  /\ next_broadcast_slot = 0
  /\ \E st \in scheduleBroadcastSlot(Current) : Become(st)
  /\ UNCHANGED << advertised_broadcast_slots, phase >>

(* The rest of onTransmissionReservation: schedule the next broadcast      *)
(* unless that has happened.                                               *)
Transmit ==
  /\ phase = "transmitting"
  /\ \/ next_broadcast_slot = 0
        /\ \E st \in scheduleBroadcastSlot(Current) : Become(st)
     \/ next_broadcast_slot # 0
        /\ UNCHANGED << tables, next_broadcast_slot, next_broadcast_scheduled,
                        failed >>
  /\ phase' = "executed"
  /\ UNCHANGED advertised_broadcast_slots

(* processBroadcastMessage: a broadcast of src that advertises src's next  *)
(* one in offset slots and requests a link with some users in dests (bound:*)
(* at most one).  The reply is expected in that user's advertised slot,    *)
(* else in src's.                                                          *)
ProcessBroadcast(src, offset, dests) ==
  LET adv         == [advertised_broadcast_slots EXCEPT ![src] = offset]
      Expected(d) == IF adv[d] # NONE THEN adv[d] ELSE adv[src]
      After(st)   ==
        IF st.failed # "none" \/ dests = {}
        THEN {st}
        ELSE UNION {reportThirdPartyExpectedLinkReply(st, Expected(d), d) : d \in dests}
  IN  /\ phase = "executed"
      /\ IsRx(tables[SH][0])
      /\ \E st \in checkAdvertisedSlot(Current, src, offset) :
            \E st2 \in After(st) : Become(st2)
      /\ advertised_broadcast_slots' = adv
      /\ phase' = "processed"

(* Mutant of SlotEnd: a broadcast that is due is not forgotten. *)
SlotEndKeepsDue(gone) ==
  /\ phase \in {"executed", "processed"}
  /\ advertised_broadcast_slots' =
       [n \in UserIds |->
          IF n \in gone \/ advertised_broadcast_slots[n] = NONE
          THEN NONE ELSE advertised_broadcast_slots[n] - 1]
  /\ phase' = "between"
  /\ UNCHANGED << tables, next_broadcast_slot, next_broadcast_scheduled, failed >>

(* NeighborObserver::onSlotEnd.  Which neighbours have not been heard of   *)
(* for too long is left open (gone).                                       *)
SlotEnd(gone) ==
  /\ phase \in {"executed", "processed"}
  /\ advertised_broadcast_slots' =
       [n \in UserIds |->
          IF n \in gone \/ advertised_broadcast_slots[n] \in {0, NONE}
          THEN NONE ELSE advertised_broadcast_slots[n] - 1]
  /\ phase' = "between"
  /\ UNCHANGED << tables, next_broadcast_slot, next_broadcast_scheduled, failed >>

(* notifyOutgoing: the upper layer, or a link that needs a request sent *)
NotifyOutgoing ==
  /\ phase # "transmitting"
  /\ ~next_broadcast_scheduled
  /\ \E st \in scheduleBroadcastSlot(Current) : Become(st)
  /\ UNCHANGED << advertised_broadcast_slots, phase >>

-----------------------------------------------------------------------------
(* What the links of this user do to single slots of the shared tables.    *)
(* Their own state is not modelled here: any slot may be taken or returned *)
(* that the code's checks allow.                                           *)

Bursts == {b \in PP \X Slots : ~IsIdle(tables[b[1]][b[2]])}

InHandler == phase \in {"transmitting", "executed", "processed"}
Room      == Cardinality(Bursts) < MaxBursts

OnlyTables(tb) ==
  /\ tables' = tb
  /\ UNCHANGED << next_broadcast_slot, next_broadcast_scheduled,
                  advertised_broadcast_slots, phase, failed >>

ScheduleBurst(c, s, peer, action) ==
  LET own == tables[c][s]
      r   == Res(action, peer)
  IN  /\ phase = "processed"
      /\ Room
      /\ CanUse(own, peer)
      /\ \E hw \in IF action = "TX" THEN {TxTable} ELSE RxTables :
            Available(own, tables[hw][s], peer)
      /\ tables' = IF CanMark(tables, c, s, r) THEN Mark(tables, c, s, r) ELSE tables
      /\ failed' = IF CanMark(tables, c, s, r) THEN "none" ELSE "no_tx_available"
      /\ UNCHANGED << next_broadcast_slot, next_broadcast_scheduled,
                      advertised_broadcast_slots, phase >>

(* PPLinkManager::cancelLink, ReservationMap::unschedule *)
UnscheduleBurst(c, s) ==
  /\ InHandler
  /\ IsTx(tables[c][s]) \/ IsRx(tables[c][s])
  /\ OnlyTables(Mark(tables, c, s, Idle))

(* PPLinkManager::lockProposedResources for a slot to transmit in, which   *)
(* also locks the transmitter                                              *)
LockTxBurst(c, s, peer) ==
  /\ phase = "transmitting"
  /\ Room
  /\ \A t \in {c, TxTable} : CanLock(tables[t][s]) /\ ~LockMismatch(tables[t][s], peer)
  /\ OnlyTables(Lock(Lock(tables, c, s, peer), TxTable, s, peer))

(* A slot to receive in, or a slot of somebody else's proposed link        *)
(* (ThirdPartyLink::lockIfPossible): the channel's table only              *)
LockBurst(c, s, peer) ==
  /\ InHandler
  /\ Room
  /\ IsIdle(tables[c][s])
  /\ OnlyTables(Lock(tables, c, s, peer))

(* ReservationMap::unlock_either_id for one slot, of the channel's table   *)
(* alone or with the transmitter's                                         *)
UnlockBurst(c, s, withTransmitter) ==
  /\ InHandler
  /\ s > 0
  /\ IsLocked(tables[c][s])
  /\ withTransmitter => tables[TxTable][s] = tables[c][s]
  /\ OnlyTables(UnlockAll(tables,
       {<<t, s>> : t \in {c} \cup (IF withTransmitter THEN {TxTable} ELSE {})},
       {tables[c][s].target}))

(* ThirdPartyLink::scheduleIfPossible and the unschedule of its reset *)
ThirdPartyBusy(c, s, id) ==
  /\ phase \in {"executed", "processed"}
  /\ Room
  /\ IsIdle(tables[c][s])
  /\ OnlyTables(Mark(tables, c, s, Res("BUSY", id)))

ThirdPartyFree(c, s) ==
  /\ phase \in {"executed", "processed"}
  /\ IsBusy(tables[c][s])
  /\ OnlyTables(Mark(tables, c, s, Idle))

-----------------------------------------------------------------------------
BroadcastStep ==
  \/ SlotStart
  \/ Execute
  \/ \E dest \in UserIds : ProposeLocalLinks(dest)
  \/ Transmit
  \/ \E src \in UserIds, offset \in 1 .. Horizon - 1 :
        \E dests \in {{}} \cup {{d} : d \in UserIds \ {src}} :
           ProcessBroadcast(src, offset, dests)
  \/ \E gone \in SUBSET UserIds : SlotEnd(gone)
  \/ NotifyOutgoing

LinkStep ==
  \E c \in PP, s \in Slots :
    \/ \E id \in UserIds :
         \/ \E action \in {"TX", "RX"} : s > 0 /\ ScheduleBurst(c, s, id, action)
         \/ s > 0 /\ LockTxBurst(c, s, id)
         \/ s > 0 /\ LockBurst(c, s, id)
         \/ ThirdPartyBusy(c, s, id)
    \/ UnscheduleBurst(c, s)
    \/ \E w \in BOOLEAN : UnlockBurst(c, s, w)
    \/ ThirdPartyFree(c, s)

Next == failed = "none" /\ (BroadcastStep \/ LinkStep)

Spec == Init /\ [][Next]_vars

-----------------------------------------------------------------------------
(* Properties *)

(* A slot is promised to at most one channel's transmission, and the       *)
(* transmitter's table knows exactly the promised slots, although the      *)
(* broadcast and the links reserve and return slots independently.         *)
OneTransmission ==
  \A s \in Slots :
    /\ \A c, d \in Channels : IsTx(tables[c][s]) /\ IsTx(tables[d][s]) => c = d
    /\ IsTx(tables[TxTable][s]) <=> \E c \in Channels : IsTx(tables[c][s])

(* The countdown and the tables agree: a scheduled broadcast is the one TX *)
(* of the shared channel.  Between two slots the broadcast lies ahead, so  *)
(* onSlotStart neither underflows nor finds an invalid table.              *)
BroadcastReserved ==
  failed = "none" =>
    /\ \A s \in Slots : IsTx(tables[SH][s]) <=> next_broadcast_scheduled /\ s = next_broadcast_slot
    /\ phase \in {"between", "executed", "processed"} /\ next_broadcast_scheduled
         => next_broadcast_slot > 0

(* No sequence of legal calls makes any of the checks of these handlers    *)
(* throw; only the horizon may turn out to be full.                        *)
NoFailure == failed \in {"none", "no_candidate"}

(* Where the advertised slot of neighbour n lies in the tables: the        *)
(* NeighborObserver counts down at the end of a slot, they at the start.   *)
ExpectedAt(n) == advertised_broadcast_slots[n] + IF phase = "between" THEN 1 ELSE 0

(* The user never holds its own broadcast in a slot in which it expects a  *)
(* neighbour's, however often either side moves its slot.                  *)
NeverOnAdvertised ==
  \A n \in UserIds :
    failed = "none" /\ next_broadcast_scheduled /\ advertised_broadcast_slots[n] # NONE
      => next_broadcast_slot # ExpectedAt(n)

(* A receiver is taken only by a reception that is reserved somewhere: what*)
(* mark is meant to ensure when it frees the receiver ("same for receiver  *)
(* reservation tables").                                                   *)
ReceiverHeld ==
  \A x \in RxTables, s \in Slots :
    IsRx(tables[x][s]) => \E c \in PP : IsRx(tables[c][s])
=============================================================================
