------------------------- MODULE LinkEstablishment -------------------------
(***************************************************************************)
(* Two users that establish point-to-point links with each other: the      *)
(* PPLinkManager that each has for the other, the link requests and link   *)
(* replies that its SHLinkManager attaches to its broadcasts, and what its *)
(* NeighborObserver knows of the other.  A broadcast is lost when both     *)
(* users send, and may be lost on the channel.                             *)
(*                                                                         *)
(* In a time slot every user's MAC is updated, then executed, then told    *)
(* that the slot ends, where it processes what it received.  The users'    *)
(* steps in one of these phases touch their own state only, so the order   *)
(* in which the simulator takes them is fixed here.                        *)
(***************************************************************************)
EXTENDS SHLinkManager, UserPair

CONSTANTS
  Conformant,   \* what isPPLinkDutyCycleConformant may answer
  Claims,       \* the offsets at which other users claim their next broadcast
  MaxOthers,    \* bound: receptions of a user that are for links with others,
  OtherSlots    \* and the offsets at which they are taken

ASSUME ConformAssumption   == Conformant \subseteq BOOLEAN
ASSUME TransmitAssumption  == DoTransmit
ASSUME ClaimsAssumption    == Claims \subseteq Slots \ {0} /\ OtherSlots \subseteq Slots \ {0}
(* num_proposals_unadvertised_link_requests, num_proposals: all channels   *)
ASSUME ProposalsAssumption == Cardinality(PP) =< 3

VARIABLES
  user,    \* the state of each user's MAC
  packet,  \* the broadcast each user sent in this slot, or NONE
  phase,   \* "update", "execute" or "end" of a time slot
  todo     \* the users that still have to take their step in this phase

vars == << user, packet, phase, todo >>

Failures == {"none", "no_candidate", "no_tx_available", "underflow", "invalid_table",
             "cannot_lock", "not_scheduled", "faulty_link", "no_exchange_left",
             "no_next_tx"}

(* "due" is not in the code: in how many slots the broadcast was scheduled *)
(* that the reply's offset counts from.                                    *)
Replies   == [channel : PP, slot : Slots, due : Int, dest : Users]
Packets   == [slot : Slots, requests : SUBSET Proposals,
              reply : Replies \cup {NONE}, proposals : SUBSET Proposals]

UserStates ==
  [tables    : [Tables -> [Slots -> Reservation]],
   failed    : Failures,
   mac_id    : Users,           \* the user
   link_id   : Users,           \* its peer
   \* SHLinkManager
   slot      : Slots,           \* next_broadcast_slot
   scheduled : BOOLEAN,         \* next_broadcast_scheduled
   link_requests : Seq(Users),
   link_replies  : Seq(Replies),
   \* NeighborObserver, for the peer
   advertised : Slots \cup {NONE},    \* its next broadcast
   proposals  : SUBSET Proposals,     \* its link proposals
   \* PPLinkManager for the peer
   link_status          : Statuses,
   is_link_initiator    : BOOLEAN,
   attempts             : 0 .. MaxAttempts,  \* establishment_attempts
   timeout              : 0 .. Timeout,
   expected             : Slots,             \* expected_link_request_confirmation_slot
   locked_resources     : SUBSET Entries,
   scheduled_resources  : SUBSET Entries,
   \* not in the code: the link's reply was not sent when it was due
   late                 : BOOLEAN]

TypeOK ==
  /\ user \in [Users -> UserStates]
  /\ packet \in [Users -> Packets \cup {NONE}]
  /\ phase \in {"update", "execute", "end"}
  /\ todo \in SUBSET Users

(* A user after its first update: its first broadcast has been scheduled. *)
Started(u) ==
  scheduleBroadcastSlot(
    [mac_id |-> u, link_id |-> Peer(u), tables |-> EmptyTables, failed |-> "none",
     slot |-> 0, scheduled |-> FALSE, link_requests |-> << >>, link_replies |-> << >>,
     advertised |-> NONE, proposals |-> {},
     link_status |-> "link_not_established", is_link_initiator |-> FALSE,
     attempts |-> 0, timeout |-> 0, expected |-> 0, locked_resources |-> {},
     scheduled_resources |-> {}, late |-> FALSE])

Init ==
  /\ user \in {f \in [Users -> UNION {Started(u) : u \in Users}] :
                \A u \in Users : f[u].mac_id = u /\ f[u].failed = "none"}
  /\ packet = [u \in Users |-> NONE]
  /\ phase = "execute"
  /\ todo = Users

-----------------------------------------------------------------------------
(* Actions *)

NoFailureYet == \A u \in Users : user[u].failed = "none"

Turn(u, ph) ==
  /\ NoFailureYet
  /\ phase = ph
  /\ todo # {} /\ u = CHOOSE x \in todo : TRUE

Done(u) ==
  /\ todo' = IF todo = {u} THEN Users ELSE todo \ {u}
  /\ phase' = IF todo # {u} THEN phase
              ELSE CASE phase = "update" -> "execute"
                     [] phase = "execute" -> "end"
                     [] phase = "end" -> "update"

(* Not in the code: the slots until the broadcast a reply was offset for. *)
Sooner(replies) == [i \in DOMAIN replies |-> [replies[i] EXCEPT !.due = @ - 1]]

(* The expected slot of the advertised proposals and the ReservationMap    *)
(* move with the time.                                                     *)
SlotBegun(st) ==
  [ListenNow(st) EXCEPT
     !.locked_resources = Aged(@), !.scheduled_resources = Aged(@),
     !.proposals = Elapsed(@), !.link_replies = Sooner(@)]

(* MCSOTDMA_Mac::update *)
Update(u) ==
  /\ Turn(u, "update")
  /\ \E st \in onSlotStart(user[u]) : user' = [user EXCEPT ![u] = SlotBegun(st)]
  /\ Done(u)
  /\ UNCHANGED packet

(* SHLinkManager::onTransmissionReservation with the peer as the only user *)
(* to whom there may be a request: the new states, each with its packet.   *)
onTransmissionReservation(st) ==
  LET requested == IF st.link_requests # << >>
                   THEN {Requested(f) : f \in propose(st)}
                   ELSE {[st |-> st, proposals |-> {}]}
      Result(st1, proposals) ==
        [packet |-> Header(st1, proposals),
         st |-> [Sent(st1) EXCEPT !.failed = IF @ = "none" /\ UtilizationThrows(st1)
                                             THEN "no_next_tx" ELSE @]]
  IN  UNION {{Result(st1, f.proposals) : st1 \in ScheduledNext(f.st)} : f \in requested}

(* MCSOTDMA_Mac::execute *)
Execute(u) ==
  /\ Turn(u, "execute")
  /\ IF IsTx(user[u].tables[SH][0])
     THEN \E r \in onTransmissionReservation(user[u]) :
             user' = [user EXCEPT ![u] = r.st] /\ packet' = [packet EXCEPT ![u] = r.packet]
     ELSE user' = user /\ packet' = [packet EXCEPT ![u] = NONE]
  /\ Done(u)

(* LinkManager::onPacketReception of the peer's broadcast *)
onPacketReception(u) ==
  IF packet[Peer(u)] = NONE
  THEN {}
  ELSE UNION {processBroadcastMessage(user[u], packet[Peer(u)], c) : c \in Conformant}

(* MCSOTDMA_Mac::onSlotEnd: what was received is processed, the link       *)
(* manager and the NeighborObserver count down.  A user that sends does    *)
(* not listen; another one receives nothing, or its peer's broadcast, or   *)
(* that of somebody else, who claims a slot for the next one.              *)
Received(u) ==
  {user[u]} \cup
  (IF packet[u] # NONE THEN {}
   ELSE onPacketReception(u) \cup
        UNION {checkAdvertisedSlot(user[u], o, s) : o \in Others, s \in Claims})

CountDown(n) == IF n \in {0, NONE} THEN NONE ELSE n - 1

SlotEnd(u) ==
  /\ Turn(u, "end")
  /\ \E st \in Received(u), more \in BOOLEAN :
        user' = [user EXCEPT ![u] =
                   IF st.failed # "none" THEN st
                   ELSE [onLinkSlotEnd(st, more) EXCEPT !.advertised = CountDown(@)]]
  /\ Done(u)
  /\ UNCHANGED packet

(* The upper layer has data for the peer. *)
NotifyOutgoing(u) ==
  /\ NoFailureYet
  /\ todo = Users
  /\ user[u].link_status = "link_not_established"
  /\ user' = [user EXCEPT ![u] = notifyOutgoing(@)]
  /\ UNCHANGED << packet, phase, todo >>

(* A link of this user with somebody else takes a reception on some        *)
(* channel, where it finds the slot and a receiver idle.                   *)
OtherReception(u, c, s, other) ==
  /\ NoFailureYet
  /\ phase = "update" /\ todo = Users
  /\ Cardinality({e \in PP \X Slots : user[u].tables[e[1]][e[2]].target \in Others}) < MaxOthers
  /\ IsRxValid(user[u].tables, c, s)
  /\ user' = [user EXCEPT ![u].tables = Mark(@, c, s, Res("RX", other))]
  /\ UNCHANGED << packet, phase, todo >>

Next ==
  \E u \in Users :
    \/ Update(u)
    \/ Execute(u)
    \/ SlotEnd(u)
    \/ NotifyOutgoing(u)
    \/ \E c \in PP, s \in OtherSlots, other \in Others : OtherReception(u, c, s, other)

Spec == Init /\ [][Next]_vars

(* The simulator goes on.  Only Update, Execute and SlotEnd let a user be  *)
(* done with a phase, and the one whose turn it is is always enabled until *)
(* a handler throws.                                                       *)
Clock == \E u \in Users : Turn(u, phase) /\ Done(u)

FairSpec == Spec /\ WF_<<phase, todo>>(Clock)

-----------------------------------------------------------------------------
(* Properties *)

NoFailure == NoFailureYet

(* A slot that is locked for the link is locked by a request that still    *)
(* awaits its reply, on the channel or for the transmitter: no path of     *)
(* retries, crossed requests and late replies leaves a lock behind.        *)
LocksAwaitReply ==
  \A u \in Users, t \in Tables, s \in Slots \ {0} :
    NoFailureYet /\ IsLocked(user[u].tables[t][s])
      => /\ user[u].link_status = "awaiting_reply"
         /\ <<t, s>> \in user[u].locked_resources

(* A burst is reserved exactly when it belongs to the established link:    *)
(* what an earlier link reserved was returned when a new one was accepted. *)
BurstsOfLink ==
  \A u \in Users, c \in PP, s \in Slots \ {0} :
    NoFailureYet =>
      (/\ user[u].tables[c][s].action \in {"TX", "RX"}
       /\ user[u].tables[c][s].target = Peer(u))
      <=> <<c, s>> \in user[u].scheduled_resources

(* A reply is only sent by the recipient of an established link.           *)
ReplyForLink ==
  \A u \in Users :
    NoFailureYet /\ user[u].link_replies # << >>
      => /\ Len(user[u].link_replies) = 1
         /\ user[u].link_status = "link_established"
         /\ ~user[u].is_link_initiator

(* The receiver that is needed for the peer's bursts is still there while  *)
(* the reply is awaited ("remember locked resources locally, for the       *)
(* transmitter, and for the receiver"): no other link has taken it.        *)
ReceiverStaysLocked ==
  \A u \in Users : \A e \in user[u].locked_resources :
    NoFailureYet /\ e[1] \in RxTables /\ e[2] > 0
      => user[u].tables[e[1]][e[2]].target \notin Others

(* A user that waits to send a request has it queued, and no other does.   *)
RequestQueued ==
  \A u \in Users :
    NoFailureYet =>
      user[u].link_requests = IF user[u].link_status = "awaiting_request_generation"
                              THEN << Peer(u) >> ELSE << >>

Bursts(u, action) ==
  {e \in user[u].scheduled_resources : user[u].tables[e[1]][e[2]].action = action}

Linked(u, v) ==
  /\ user[u].link_status = "link_established" /\ user[u].is_link_initiator
  /\ user[v].link_status = "link_established"

Agree(u, v) ==
  /\ ~user[v].is_link_initiator
  /\ Bursts(u, "TX") = Bursts(v, "RX")
  /\ Bursts(u, "RX") = Bursts(v, "TX")
  /\ user[u].timeout = user[v].timeout

(* Both ends of a link use the same slots in opposite directions and count *)
(* the same exchanges ("the timeouts between two users match and are       *)
(* correctly decremented"): compared between the phases of a slot.         *)
BothEndsAgree ==
  \A u \in Users : NoFailureYet /\ todo = Users /\ Linked(u, Peer(u)) => Agree(u, Peer(u))

(* ... unless the reply was not sent in the slot its offset counts from.   *)
AgreeUnlessLate ==
  \A u \in Users :
    NoFailureYet /\ todo = Users /\ Linked(u, Peer(u)) /\ ~user[u].late
      => Agree(u, Peer(u))

(* Two users alone keep the promises of LinkContract: what is between the  *)
(* request and the link - proposals, locks, broadcasts that are lost or    *)
(* cross, retries - shows in nothing but these steps.  In particular no    *)
(* path abandons an established link, leaves one of its bursts out, or     *)
(* accepts a link that the peer has given up.                              *)
EndOf(u) ==
  LET linked == user[u].link_status = "link_established"
  IN  [status    |-> IF linked THEN "linked"
                     ELSE IF user[u].link_status = "link_not_established" THEN "idle"
                     ELSE "asking",
       initiator |-> linked /\ user[u].is_link_initiator,
       tx        |-> Bursts(u, "TX"),
       rx        |-> Bursts(u, "RX"),
       left      |-> IF linked THEN user[u].timeout ELSE 0]

Contract == INSTANCE LinkContract WITH end <- [u \in Users |-> EndOf(u)]

ImplementsContract == Contract!Spec

(* Every attempt to establish a link ends, with the link or without it:    *)
(* lost requests and lost replies are retried, but not for ever.  A peer   *)
(* that keeps advertising the slot this user has just chosen may keep it   *)
(* from sending at all, which the random choice of slots excludes.         *)
AttemptEnds ==
  \A u \in Users :
    []<>(packet[u] # NONE)
      => (user[u].link_status \in {"awaiting_request_generation", "awaiting_reply"}
            ~> user[u].link_status \in {"link_established", "link_not_established"})

(* When nobody asks for a link any more, both ends give up what they have: *)
(* established, half-established after a lost reply, or still waiting for  *)
(* one, and every slot on the point-to-point channels is free again.       *)
LinksExpire ==
  <>[](\A u \in Users : user[u].link_requests = << >>)
    => <>[](\A u \in Users :
              /\ user[u].link_status = "link_not_established"
              /\ \A c \in PP, s \in Slots : IsIdle(user[u].tables[c][s]))
=============================================================================
