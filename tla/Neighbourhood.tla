--------------------------- MODULE Neighbourhood ---------------------------
(***************************************************************************)
(* Users that share the shared channel: each has its broadcast slot        *)
(* (SharedChannel) and its NeighborObserver, and hears the others'         *)
(* broadcasts, each of which advertises the sender's next slot and may     *)
(* request a link from somebody.  A user that sends does not listen.  Of   *)
(* several broadcasts in a slot the strongest is processed, or none; a     *)
(* single one may be out of range or suffer a channel error.  There are no *)
(* links here.                                                             *)
(*                                                                         *)
(* Within one of the stages of a time slot a user's step touches only its  *)
(* own state, so the order of the users is fixed.                          *)
(***************************************************************************)
EXTENDS SharedChannel

CONSTANTS
  NONE,
  NumReceivers,       \* MCSOTDMA_Mac::num_receivers
  max_last_seen_val,  \* after so many slots a neighbour is not active any more
  Askers              \* bound: the users that send link requests

ASSUME NoneAssumption     == NONE \notin Nat \cup [slot : Slots, dests : SUBSET UserIds]
ASSUME LastSeenAssumption == max_last_seen_val \in Nat \ {0}
ASSUME AskersAssumption   == Askers \subseteq UserIds

INSTANCE NeighborObserver WITH Neighbours <- UserIds

VARIABLES
  user,    \* each user's tables and broadcast slot, for SharedChannel
  obs,     \* its NeighborObserver
  at,      \* how far it has come in the time slot, as in BroadcastSlot
  packet,  \* the broadcast it sent in this slot, or NONE
  fresh,   \* not in the code: <<u, v>> if u has heard v's latest broadcast
           \* and v has not been displaced since
  stage,   \* "update", "execute" or "end"
  todo     \* the users that have to take their step in this stage

vars == << user, obs, at, packet, fresh, stage, todo >>

Failures == {"none", "no_candidate", "no_tx_available", "underflow",
             "invalid_table", "too_many_tx", "too_many_rx"}
Packets  == [slot : Slots, dests : SUBSET UserIds]

TypeOK ==
  /\ user \in [UserIds -> [tables : [Tables -> [Slots -> Reservation]], slot : Slots,
                           scheduled : BOOLEAN, failed : Failures]]
  /\ obs \in [UserIds -> Observers]
  /\ at \in [UserIds -> {"between", "started", "transmitting", "executed", "processed"}]
  /\ packet \in [UserIds -> Packets \cup {NONE}]
  /\ fresh \subseteq UserIds \X UserIds
  /\ stage \in {"update", "execute", "end"}
  /\ todo \subseteq UserIds

Init ==
  /\ user = [u \in UserIds |-> [tables |-> EmptyTables, slot |-> 0,
                                scheduled |-> FALSE, failed |-> "none"]]
  /\ obs = [u \in UserIds |-> NobodySeen]
  /\ at = [u \in UserIds |-> "between"]
  /\ packet = [u \in UserIds |-> NONE]
  /\ fresh = {}
  /\ stage = "update"
  /\ todo = UserIds

-----------------------------------------------------------------------------
NoFailureYet == \A u \in UserIds : user[u].failed = "none"

Turn(u, sg) ==
  /\ NoFailureYet
  /\ stage = sg
  /\ u \in todo /\ u = CHOOSE x \in todo : TRUE

Done(u) ==
  /\ todo' = IF todo = {u} THEN UserIds ELSE todo \ {u}
  /\ stage' = IF todo # {u} THEN stage
              ELSE CASE stage = "update" -> "execute"
                     [] stage = "execute" -> "end"
                     [] stage = "end" -> "update"

Goes(u, to) == at' = [at EXCEPT ![u] = to]

(* MCSOTDMA_Mac::update *)
SlotStart(u) ==
  /\ Turn(u, "update")
  /\ \E st \in onSlotStart(user[u]) : user' = [user EXCEPT ![u] = ListenNow(st)]
  /\ Goes(u, "started")
  /\ Done(u)
  /\ UNCHANGED << obs, packet, fresh >>

(* MCSOTDMA_Mac::execute: whether the user sends or listens *)
Sends(u) == IsTx(user[u].tables[SH][0])

Execute(u) ==
  /\ Turn(u, "execute") /\ at[u] = "started"
  /\ user' = [user EXCEPT ![u].failed =
                IF Cardinality({c \in Channels : IsRx(user[u].tables[c][0])}) > NumReceivers
                THEN "too_many_rx" ELSE "none"]
  /\ Goes(u, IF Sends(u) THEN "transmitting" ELSE "executed")
  /\ IF Sends(u) THEN UNCHANGED << stage, todo >> ELSE Done(u)
  /\ UNCHANGED << obs, packet, fresh >>

(* SHLinkManager::onTransmissionReservation with link requests for dests   *)
(* (bound: at most one)                                                    *)
Requests(u) == {{}} \cup IF u \in Askers THEN {{d} : d \in UserIds \ {u}} ELSE {}

Transmit(u, dests) ==
  /\ Turn(u, "execute") /\ at[u] = "transmitting"
  /\ \E st \in scheduleBroadcastSlot(user[u]) :
        /\ user' = [user EXCEPT ![u] = st]
        /\ packet' = [packet EXCEPT ![u] = [slot |-> st.slot, dests |-> dests]]
  /\ fresh' = {p \in fresh : p[2] # u}
  /\ Goes(u, "executed")
  /\ Done(u)
  /\ UNCHANGED obs

(* Mutant of Tuned: receives on any channel at any time. *)
alwaysTuned(u) == TRUE

(* MCSOTDMA_Phy::onReception: a receiver was tuned to the shared channel. *)
Tuned(u) == IsRx(user[u].tables[SH][0])

(* MCSOTDMA_Mac::onSlotEnd: the broadcast of v is processed.  The reply to *)
(* a request is expected in the slot its destination advertised, else in   *)
(* v's.                                                                    *)
Receive(u, v) ==
  LET seen        == reportBroadcastSlotAdvertisement(reportActivity(obs[u], v), v, packet[v].slot)
      slots       == seen.advertised_broadcast_slots
      Expected(d) == IF slots[d] # NONE THEN slots[d] ELSE slots[v]
      others      == packet[v].dests \ {u}
      After(st)   == IF st.failed # "none" \/ others = {} THEN {st}
                     ELSE UNION {reportThirdPartyExpectedLinkReply(st, Expected(d), d) : d \in others}
  IN  /\ Turn(u, "end") /\ at[u] = "executed"
      /\ Tuned(u) /\ packet[v] # NONE
      /\ \E st \in checkAdvertisedSlot(user[u], v, packet[v].slot) : \E st2 \in After(st) :
            /\ user' = [user EXCEPT ![u] = st2]
            /\ fresh' = IF st2.slot = user[u].slot THEN fresh \cup {<<u, v>>}
                        ELSE {p \in fresh \cup {<<u, v>>} : p[2] # u}
      /\ obs' = [obs EXCEPT ![u] = seen]
      /\ Goes(u, "processed")
      /\ UNCHANGED << packet, stage, todo >>

SlotEnd(u) ==
  /\ Turn(u, "end")
  /\ obs' = [obs EXCEPT ![u] = onSlotEnd(@)]
  /\ Goes(u, "between")
  /\ Done(u)
  /\ packet' = IF todo = {u} THEN [v \in UserIds |-> NONE] ELSE packet
  /\ UNCHANGED << user, fresh >>

Next ==
  \E u \in UserIds :
    \/ SlotStart(u)
    \/ Execute(u)
    \/ \E dests \in Requests(u) : Transmit(u, dests)
    \/ \E v \in UserIds \ {u} : Receive(u, v)
    \/ SlotEnd(u)

Spec == Init /\ [][Next]_vars

(* The simulator goes on; the one whose turn it is is always enabled until *)
(* a handler throws, and only these steps let a user be done with a stage. *)
Clock == \E u \in UserIds : Turn(u, stage) /\ Done(u)

FairSpec == Spec /\ WF_<<stage, todo>>(Clock)

-----------------------------------------------------------------------------
(* Properties *)

(* Nobody is where it knows a neighbour to be: two users send in the same  *)
(* slot only if neither has heard the other's latest broadcast, or that    *)
(* other was displaced by somebody else since.                             *)
HeardNeverCollide ==
  \A u, v \in UserIds :
    NoFailureYet /\ <<u, v>> \in fresh /\ user[u].scheduled /\ user[v].scheduled
      /\ todo = UserIds
      => user[u].slot # user[v].slot

(* What a user expects of a neighbour is what that neighbour has reserved, *)
(* although the two count down on their own and at different calls.        *)
ExpectedRight ==
  \A u, v \in UserIds :
    NoFailureYet /\ <<u, v>> \in fresh /\ todo = UserIds /\ stage = "execute"
      => obs[u].advertised_broadcast_slots[v] \in {user[v].slot, NONE}

(* An advertised slot is only remembered of a neighbour that is active.    *)
KnownAreActive ==
  \A u, v \in UserIds :
    obs[u].advertised_broadcast_slots[v] # NONE => v \in Active(obs[u])

(* Each user, whatever the others do, takes the steps of BroadcastSlot     *)
(* only: what that module lets a neighbour do is what real ones can do,    *)
(* and what is proved of one user there holds for every user here.         *)
Of(u) == INSTANCE BroadcastSlot WITH
           MaxBursts <- 0,
           tables <- user[u].tables,
           next_broadcast_slot <- user[u].slot,
           next_broadcast_scheduled <- user[u].scheduled,
           advertised_broadcast_slots <- obs[u].advertised_broadcast_slots,
           phase <- at[u],
           failed <- user[u].failed

ImplementsBroadcastSlot ==
  /\ \A u \in UserIds : Of(u)!Init
  /\ [][\A u \in UserIds : UNCHANGED Of(u)!vars \/ Of(u)!Next]_vars

(* A neighbour that is not heard any more is forgotten, with the slot it   *)
(* advertised last.                                                        *)
SilentForgotten ==
  \A u, v \in UserIds :
    <>[](obs[u].active_neighbors[v] # 0)
      => <>[](v \notin Active(obs[u])) \/ <>~NoFailureYet
(* Every user keeps broadcasting unless the others claim its slot for ever. *)
Displaced(u) == at[u] = "executed" /\ at'[u] = "processed" /\ user'[u].slot # user[u].slot

BroadcastsGoOn ==
  \A u \in UserIds :
    []<>(packet[u] # NONE) \/ []<><<Displaced(u)>>_vars \/ <>~NoFailureYet
=============================================================================
