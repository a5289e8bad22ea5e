----------------------------- MODULE LinkBursts -----------------------------
(***************************************************************************)
(* The slots of a point-to-point link and the operations that look for,    *)
(* test and reserve them (SlotCalculator, LinkProposalFinder,              *)
(* ReservationTable::isLinkValid, ReservationManager::scheduleBursts).     *)
(* Every link has one forward and one reverse burst per exchange, as the   *)
(* code's callers always ask for, and a fixed period.                      *)
(***************************************************************************)
EXTENDS ReservationTable, FiniteSetsExt

CONSTANTS
  Timeout,    \* getDefaultPPLinkTimeout(): exchanges of a link
  Increment   \* slots between two bursts, 5 * 2^period

ASSUME BurstsAssumption == Timeout \in Nat \ {0} /\ Increment \in Nat \ {0}

(* calculateAlternatingBursts: the initiator sends in every other burst.   *)
TxBursts(start) == {start + 2 * k * Increment : k \in 0 .. Timeout - 1} \cap Nat
RxBursts(start) == {start + (2 * k + 1) * Increment : k \in 0 .. Timeout - 1} \cap Nat

LastBurst(start) == start + (2 * Timeout - 1) * Increment

isLinkValid(tb, c, start, initiator) ==
  LET tx == IF initiator THEN TxBursts(start) ELSE RxBursts(start)
      rx == IF initiator THEN RxBursts(start) ELSE TxBursts(start)
  IN  (\A s \in tx : IsTxValid(tb, c, s)) /\ (\A s \in rx : IsRxValid(tb, c, s))

(* LinkProposalFinder::findLinkProposals: on every channel the earliest    *)
(* start slot from min_offset on that suits an initiator.  (The number of  *)
(* channels the code asks for is at least Cardinality(PP).)  A burst after *)
(* the last slot of the tables ends the search on its channel.             *)
InHorizon(start) == LastBurst(start) =< Horizon

ValidStarts(tb, c, min_offset) ==
  {s \in min_offset .. Horizon - 1 : InHorizon(s) /\ isLinkValid(tb, c, s, TRUE)}

findLinkProposals(tb, min_offset) ==
  {[channel |-> c, slot |-> Min(ValidStarts(tb, c, min_offset))] :
     c \in {d \in PP : ValidStarts(tb, d, min_offset) # {}}}

(* scheduleBursts: those bursts are marked whose slot and hardware are     *)
(* available; the others are left out silently.  Marking one of them       *)
(* touches no slot but its own.                                            *)
Usable(tb, c, s, peer, action) ==
  /\ CanUse(tb[c][s], peer)
  /\ \E hw \in IF action = "TX" THEN {TxTable} ELSE RxTables :
        Available(tb[c][s], tb[hw][s], peer)

scheduleBursts(tb, c, start, peer, initiator) ==
  LET Action(s) == IF (s \in TxBursts(start)) <=> initiator THEN "TX" ELSE "RX"
      usable    == {s \in TxBursts(start) \cup RxBursts(start) : Usable(tb, c, s, peer, Action(s))}
      marked    == [s \in usable |-> Mark(tb, c, s, Res(Action(s), peer))]
  IN  [tables    |-> [t \in Tables |-> [s \in Slots |->
                        IF s \in usable THEN marked[s][t][s] ELSE tb[t][s]]],
       scheduled |-> {<<c, s>> : s \in usable},
       throws    |-> {Action(s) : s \in usable} # {"TX", "RX"}]
=============================================================================
