-------------------------- MODULE NeighborObserver --------------------------
(***************************************************************************)
(* What a user keeps of its neighbours.  The methods act on a record obs   *)
(* with the fields                                                         *)
(*   active_neighbors            for each neighbour that was heard of      *)
(*                               lately, how many slots ago                *)
(*   advertised_broadcast_slots  in how many slots it broadcasts next      *)
(* both of them functions on Neighbours, with NONE for the keys that are   *)
(* not in the map.  The averages of the gaps are a statistic and left out. *)
(***************************************************************************)
EXTENDS Integers

CONSTANTS
  Neighbours,
  NONE,
  max_last_seen_val   \* after so many slots a neighbour is not active any more

Observers ==
  [active_neighbors           : [Neighbours -> 0 .. max_last_seen_val - 1 \cup {NONE}],
   advertised_broadcast_slots : [Neighbours -> Nat \cup {NONE}]]

NobodySeen ==
  [active_neighbors           |-> [n \in Neighbours |-> NONE],
   advertised_broadcast_slots |-> [n \in Neighbours |-> NONE]]

Active(obs) == {n \in Neighbours : obs.active_neighbors[n] # NONE}

(* The MAC reports a packet's sender and so does processBroadcastMessage;  *)
(* the second report finds a counter of zero.                              *)
reportActivity(obs, n) == [obs EXCEPT !.active_neighbors[n] = 0]

reportBroadcastSlotAdvertisement(obs, n, offset) ==
  [obs EXCEPT !.advertised_broadcast_slots[n] = offset]

Gone(obs) == {n \in Active(obs) : obs.active_neighbors[n] + 1 >= max_last_seen_val}

(* Mutants of LastSeen: only the advertisement of a neighbour that is gone *)
(* is erased, or a neighbour stays one slot longer.                        *)
keepsCounter(obs) ==
  [n \in Neighbours |->
     IF n \in Active(obs) \ Gone(obs) THEN obs.active_neighbors[n] + 1
     ELSE obs.active_neighbors[n]]

keepsOneSlotMore(obs) ==
  [n \in Neighbours |->
     IF n \in Active(obs) THEN obs.active_neighbors[n] + 1 ELSE NONE]

(* onSlotEnd: the counters of when the neighbours were heard, and what     *)
(* they advertised.                                                        *)
LastSeen(obs) ==
  [n \in Neighbours |->
     IF n \in Active(obs) \ Gone(obs) THEN obs.active_neighbors[n] + 1 ELSE NONE]

(* Mutants of NextBroadcast: the advertisement of a neighbour that is gone *)
(* is kept, or a neighbour heard in this slot is not counted down.         *)
keptWhenGone(obs) ==
  LET slot == obs.advertised_broadcast_slots
  IN  [n \in Neighbours |->
         IF n \notin Active(obs) THEN slot[n]
         ELSE IF slot[n] \in {0, NONE} THEN NONE ELSE slot[n] - 1]

notWhenJustHeard(obs) ==
  LET slot == obs.advertised_broadcast_slots
  IN  [n \in Neighbours |->
         IF n \notin Active(obs) \/ obs.active_neighbors[n] = 0 THEN slot[n]
         ELSE IF n \in Gone(obs) \/ slot[n] \in {0, NONE} THEN NONE ELSE slot[n] - 1]

NextBroadcast(obs) ==
  LET slot == obs.advertised_broadcast_slots
  IN  [n \in Neighbours |->
         IF n \notin Active(obs) THEN slot[n]
         ELSE IF n \in Gone(obs) \/ slot[n] \in {0, NONE} THEN NONE ELSE slot[n] - 1]

onSlotEnd(obs) ==
  [active_neighbors |-> LastSeen(obs), advertised_broadcast_slots |-> NextBroadcast(obs)]
=============================================================================
