-------------------------- MODULE ReservationTable --------------------------
(***************************************************************************)
(* The reservation tables of one user and the operations on them           *)
(* (ReservationTable.cpp, ReservationManager.cpp, ReservationMap.hpp).     *)
(*                                                                         *)
(* All tables of a user are one value tb \in [Tables -> [Slots -> ...]]:   *)
(* the broadcast table SH, the point-to-point tables PP, the table of the  *)
(* single transmitter TxTable and those of the receivers RxTables.  A slot *)
(* is named by its offset to the current time slot, as in the code, so     *)
(* time passes by shifting the tables.  The past half of the code's vector *)
(* is left out: nothing but the test code reads it.                        *)
(***************************************************************************)
EXTENDS Integers, FiniteSets

CONSTANTS
  SH,           \* ReservationManager::broadcast_reservation_table
  PP,           \* ReservationManager::p2p_reservation_tables
  TxTable,      \* ReservationManager::hardware_tx_table
  RxTables,     \* ReservationManager::hardware_rx_tables
  Horizon,      \* planning_horizon
  UserIds,      \* MacIds of users
  UNSET_ID,     \* SYMBOLIC_ID_UNSET
  BROADCAST_ID  \* SYMBOLIC_LINK_ID_BROADCAST

(* The tables are pairwise different objects, and the two symbolic IDs are *)
(* no user's.                                                              *)
ASSUME TablesAssumption ==
  /\ SH \notin PP \cup RxTables \cup {TxTable}
  /\ TxTable \notin PP \cup RxTables
  /\ PP \cap RxTables = {}
ASSUME HorizonAssumption == Horizon \in Nat \ {0}
ASSUME IdsAssumption ==
  /\ UNSET_ID \notin UserIds
  /\ BROADCAST_ID \notin UserIds
  /\ UNSET_ID # BROADCAST_ID

Slots    == 0 .. Horizon
Channels == PP \cup {SH}
Tables   == Channels \cup RxTables \cup {TxTable}

(* Reservation::Action without the two beacon actions, which no code marks. *)
Actions     == {"IDLE", "BUSY", "RX", "TX", "LOCKED"}
Ids         == UserIds \cup {UNSET_ID, BROADCAST_ID}
Reservation == [action : Actions, target : Ids]

Res(a, id) == [action |-> a, target |-> id]
Idle       == Res("IDLE", UNSET_ID)    \* Reservation()

IsIdle(r)   == r.action = "IDLE"
IsBusy(r)   == r.action = "BUSY"
IsTx(r)     == r.action = "TX"
IsRx(r)     == r.action = "RX"
IsLocked(r) == r.action = "LOCKED"

EmptyTables == [t \in Tables |-> [s \in Slots |-> Idle]]

-----------------------------------------------------------------------------
(* mark *)

(* A TX on any channel must find the transmitter idle or locked, an RX on  *)
(* a point-to-point channel some receiver; only these are linked to the    *)
(* receivers.  Otherwise mark throws no_tx_available / no_rx_available.    *)
CanMark(tb, t, s, r) ==
  \/ tb[t][s] = r
  \/ /\ IsTx(r) /\ t \in Channels =>
          IsIdle(tb[TxTable][s]) \/ IsLocked(tb[TxTable][s])
     /\ IsRx(r) /\ t \in PP =>
          \E x \in RxTables : IsIdle(tb[x][s]) \/ IsLocked(tb[x][s])

IdleReceivers(tb, s) == {x \in RxTables : IsIdle(tb[x][s])}

(* Mutant of ForwardedTx: the transmitter is not told of a TX that ends. *)
ForwardedTxNeverFreed(tb, t, s, r) ==
  IF t \in Channels /\ IsTx(r) THEN {TxTable} ELSE {}

(* The hardware tables a mark is passed on to.  The transmitter is told of *)
(* every TX and of every TX that becomes idle.  The receivers are asked    *)
(* for an idle one in both cases, so an RX that becomes idle reaches no    *)
(* receiver that holds it; which of several idle receivers is taken makes  *)
(* no difference.                                                          *)
ForwardedTx(tb, t, s, r) ==
  IF t \in Channels /\ (IsTx(r) \/ (IsIdle(r) /\ IsTx(tb[t][s])))
  THEN {TxTable} ELSE {}

ForwardedRx(tb, t, s, r) ==
  IF /\ t \in PP
     /\ IsRx(r) \/ (IsIdle(r) /\ IsRx(tb[t][s]))
     /\ IdleReceivers(tb, s) # {}
  THEN {CHOOSE x \in IdleReceivers(tb, s) : TRUE} ELSE {}

Mark(tb, t, s, r) ==
  IF tb[t][s] = r
  THEN tb
  ELSE [x \in Tables |->
          IF x \in {t} \cup ForwardedTx(tb, t, s, r) \cup ForwardedRx(tb, t, s, r)
          THEN [tb[x] EXCEPT ![s] = r]
          ELSE tb[x]]

-----------------------------------------------------------------------------
(* lock and unlock: these touch one table only *)

CanLock(r) == IsIdle(r) \/ IsLocked(r)

(* lock throws id_mismatch for a slot locked to somebody else *)
LockMismatch(r, id) == IsLocked(r) /\ r.target # id

Lock(tb, t, s, id) == [tb EXCEPT ![t][s] = Res("LOCKED", id)]

(* unlock accepts an idle slot, and a lock that one of the ids holds *)
CanUnlock(r, ids) == CanLock(r) /\ r.target \in ids \cup {UNSET_ID}

(* ReservationMap::unlock_either_id: the entries whose slot is not in the  *)
(* future are skipped, those that cannot be unlocked are left as they are. *)
UnlockAll(tb, entries, ids) ==
  [t \in Tables |-> [s \in Slots |->
     IF <<t, s>> \in entries /\ s > 0 /\ CanUnlock(tb[t][s], ids)
     THEN Idle ELSE tb[t][s]]]

(* ReservationMap::unschedule marks every entry idle, and throws when an   *)
(* entry does not have one of the expected actions.                        *)
UnscheduleThrows(tb, entries, expected) ==
  \E e \in entries : tb[e[1]][e[2]].action \notin expected

UnscheduleAll(tb, entries) ==
  [t \in Tables |-> [s \in Slots |->
     IF \/ <<t, s>> \in entries
        \/ t = TxTable /\ \E c \in Channels : <<c, s>> \in entries /\ IsTx(tb[c][s])
     THEN Idle ELSE tb[t][s]]]

-----------------------------------------------------------------------------
(* isTxValid, isRxValid, and what findEarliestIdleSlotsBC accepts *)

IsTxValid(tb, t, s) == IsIdle(tb[t][s]) /\ IsIdle(tb[TxTable][s])
IsRxValid(tb, t, s) == IsIdle(tb[t][s]) /\ IdleReceivers(tb, s) # {}

(* ReservationManager::scheduleBursts, one slot: it is idle, or busy       *)
(* because of the peer, and so is the hardware.                            *)
CanUse(r, peer) == IsIdle(r) \/ (IsBusy(r) /\ r.target = peer)

(* Mutant of Available: the hardware is not asked. *)
AvailableOnChannel(own, hw, peer) == CanUse(own, peer)

Available(own, hw, peer) ==
  IF IsIdle(own) THEN IsIdle(hw) ELSE CanUse(hw, peer)

(* findSHCandidates: the first num idle slots from min_offset on, strictly *)
(* inside the horizon.                                                     *)
SHCandidates(tb, num, min_offset) ==
  {s \in min_offset .. Horizon - 1 :
     /\ IsTxValid(tb, SH, s)
     /\ Cardinality({x \in min_offset .. s : IsTxValid(tb, SH, x)}) =< num}

(* update: a slot passes, and the new last slot is idle *)
Shift(tb) ==
  [t \in Tables |-> [s \in Slots |-> IF s = Horizon THEN Idle ELSE tb[t][s + 1]]]

(* Mutant of Aged: the past is kept. *)
AgedKeepsPast(entries) == {<<e[1], e[2] - 1>> : e \in entries}

(* The entries of a ReservationMap, aged by a slot.  The code keeps the    *)
(* offset at insertion and subtracts the slots since; entries in the past  *)
(* have no effect anywhere and are dropped.                                *)
Aged(entries) == {<<e[1], e[2] - 1>> : e \in {d \in entries : d[2] > 0}}
=============================================================================
