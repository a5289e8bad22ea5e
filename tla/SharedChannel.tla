--------------------------- MODULE SharedChannel ---------------------------
(***************************************************************************)
(* The methods of SHLinkManager with which a user reserves the slot of its *)
(* next broadcast on the shared channel, gives it up, and expects those of *)
(* its neighbours.  They act on a record st that has at least the fields   *)
(*   tables     the reservation tables of the user                         *)
(*   slot       SHLinkManager::next_broadcast_slot                         *)
(*   scheduled  SHLinkManager::next_broadcast_scheduled                    *)
(*   failed     the exception that was thrown, or "none"                   *)
(* and those that choose a slot at random yield the set of possible results*)
(***************************************************************************)
EXTENDS ReservationTable

CONSTANTS
  DoTransmit,     \* SHLinkManager::do_transmit
  NumCandidates,  \* getNumCandidateSlots()
  MinOffsets      \* the minimum offsets the duty cycle may ask for

ASSUME DoTransmitAssumption == DoTransmit \in BOOLEAN
ASSUME CandidatesAssumption == NumCandidates \in Nat \ {0}
ASSUME MinOffsetsAssumption == MinOffsets \subseteq Nat \ {0}

OwnBroadcast == Res("TX", BROADCAST_ID)

(* Mutant of unscheduleBroadcastSlot: the table keeps the transmission. *)
unscheduleKeepsTransmission(st) ==
  IF st.scheduled THEN [st EXCEPT !.slot = 0, !.scheduled = FALSE] ELSE st

unscheduleBroadcastSlot(st) ==
  IF st.scheduled
  THEN [st EXCEPT !.tables = Mark(@, SH, st.slot, Idle),
                  !.slot = 0, !.scheduled = FALSE]
  ELSE st

(* next_broadcast_slot and the flag are set before mark may throw *)
ScheduledAt(st, s) ==
  IF CanMark(st.tables, SH, s, OwnBroadcast)
  THEN [st EXCEPT !.tables = Mark(@, SH, s, OwnBroadcast),
                  !.slot = s, !.scheduled = TRUE]
  ELSE [st EXCEPT !.slot = s, !.scheduled = TRUE, !.failed = "no_tx_available"]

(* broadcastSlotSelection: any of the candidates from some minimum offset  *)
(* on; without a candidate it throws.                                      *)
scheduleBroadcastSlot(st) ==
  IF ~DoTransmit
  THEN {st}
  ELSE LET free    == unscheduleBroadcastSlot(st)
           From(m) == SHCandidates(free.tables, NumCandidates, m)
       IN  {ScheduledAt(free, s) : s \in UNION {From(m) : m \in MinOffsets}}
           \cup (IF \E m \in MinOffsets : From(m) = {}
                 THEN {[free EXCEPT !.failed = "no_candidate"]} ELSE {})

(* Mutant of broadcastCollisionDetected: looks for a new slot before the   *)
(* collider's is marked.                                                   *)
collisionMarksTooLate(st, collider) ==
  LET free == unscheduleBroadcastSlot(st)
  IN  {IF IsIdle(new.tables[SH][st.slot])
       THEN [new EXCEPT !.tables = Mark(@, SH, st.slot, Res("RX", collider))]
       ELSE new : new \in scheduleBroadcastSlot(free)}

(* The slot is marked as the collider's reception before a new one is      *)
(* looked for, so it is not chosen again.                                  *)
broadcastCollisionDetected(st, collider) ==
  LET free == unscheduleBroadcastSlot(st)
  IN  scheduleBroadcastSlot(
        [free EXCEPT !.tables = Mark(@, SH, st.slot, Res("RX", collider))])

reportThirdPartyExpectedLinkReply(st, s, sender) ==
  IF IsTx(st.tables[SH][s])
  THEN broadcastCollisionDetected(st, sender)
  ELSE {[st EXCEPT !.tables = Mark(@, SH, s, Res("RX", sender))]}

(* processBroadcastMessage: the advertised next slot of the sender *)
checkAdvertisedSlot(st, src, s) ==
  IF IsIdle(st.tables[SH][s])
  THEN {[st EXCEPT !.tables = Mark(@, SH, s, Res("RX", src))]}
  ELSE IF IsTx(st.tables[SH][s])
  THEN broadcastCollisionDetected(st, src)
  ELSE {st}

(* mark reception if there is nothing else to do *)
ListenNow(st) ==
  IF st.failed = "none" /\ (IsIdle(st.tables[SH][0]) \/ IsBusy(st.tables[SH][0]))
  THEN [st EXCEPT !.tables = Mark(@, SH, 0, Res("RX", BROADCAST_ID))]
  ELSE st

(* MCSOTDMA_Mac::update: the tables move on, then SHLinkManager::onSlotStart *)
SlotPassed(st, slot) == [st EXCEPT !.tables = Shift(@), !.slot = slot]

(* Mutant of onSlotStart: a scheduled broadcast is scheduled anew. *)
onSlotStartAlwaysSchedules(st) ==
  scheduleBroadcastSlot(SlotPassed(st, IF st.slot = 0 THEN 0 ELSE st.slot - 1))

onSlotStart(st) ==
  IF ~st.scheduled
  THEN scheduleBroadcastSlot(SlotPassed(st, 0))
  ELSE IF st.slot = 0
  THEN {[SlotPassed(st, 0) EXCEPT !.failed = "underflow"]}
  ELSE LET on == SlotPassed(st, st.slot - 1)
       IN  IF /\ IsTx(on.tables[TxTable][st.slot - 1])
              /\ IsTx(on.tables[SH][st.slot - 1])
           THEN {on}
           ELSE {[on EXCEPT !.failed = "invalid_table"]}
=============================================================================
