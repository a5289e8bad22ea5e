---------------------------- MODULE LinkRequests ----------------------------
(***************************************************************************)
(* One user that establishes links with several peers at once: one         *)
(* PPLinkManager per peer, and the queues of link requests and of link     *)
(* replies that they share in the SHLinkManager.  What the peers broadcast *)
(* is any packet that this user might receive.  The managers are visited   *)
(* in a fixed order (the code iterates over a std::map).                   *)
(***************************************************************************)
EXTENDS SHLinkManager, SequencesExt

CONSTANTS
  Me,           \* this user
  Peers,        \* those it has links with
  Conformant,   \* what isPPLinkDutyCycleConformant may answer
  Claims,       \* the offsets at which peers claim their next broadcast
  StartSlots    \* the offsets at which they propose a link

ASSUME PeersAssumption ==
  /\ Peers \subseteq UserIds /\ Me \in UserIds \ Peers
  /\ IsFiniteSet(Peers) /\ Cardinality(Peers) >= 2
ASSUME TransmitAssumption == DoTransmit
ASSUME OffsetsAssumption  ==
  /\ Claims \cup StartSlots \subseteq Slots \ {0}
  /\ \A s \in StartSlots : InHorizon(s)

VARIABLES
  own,     \* what all managers of the user share
  link,    \* for each peer: its PPLinkManager and what is known of it
  offered, \* not in the code: the proposals in the request that a peer has to answer
  sent,    \* the user broadcasts in this slot
  phase    \* "update", "execute" or "end" of a time slot

vars == << own, link, offered, sent, phase >>

Failures == {"none", "no_candidate", "no_tx_available", "underflow", "invalid_table",
             "cannot_lock", "not_scheduled", "faulty_link", "no_exchange_left",
             "no_next_tx"}

Replies == [channel : PP, slot : Slots, due : Int, dest : Peers]

OwnStates ==
  [mac_id : {Me}, tables : [Tables -> [Slots -> Reservation]],
   failed : Failures, slot : Slots, scheduled : BOOLEAN,
   link_requests : Seq(Peers), link_replies : Seq(Replies)]

LinkStates(p) ==
  [link_id : {p}, advertised : Slots \cup {NONE}, proposals : SUBSET Proposals,
   link_status : Statuses, is_link_initiator : BOOLEAN, attempts : 0 .. MaxAttempts,
   timeout : 0 .. Timeout, expected : Slots,
   locked_resources : SUBSET Entries, scheduled_resources : SUBSET Entries,
   late : BOOLEAN]

TypeOK ==
  /\ own \in OwnStates
  /\ DOMAIN link = Peers /\ \A p \in Peers : link[p] \in LinkStates(p)
  /\ offered \in [Peers -> SUBSET Proposals]
  /\ sent \in BOOLEAN
  /\ phase \in {"update", "execute", "end"}

(* A method of a manager acts on the fields of both.                       *)
At(o, k) ==
  [mac_id |-> o.mac_id, tables |-> o.tables, failed |-> o.failed,
   slot |-> o.slot, scheduled |-> o.scheduled,
   link_requests |-> o.link_requests, link_replies |-> o.link_replies,
   link_id |-> k.link_id, advertised |-> k.advertised, proposals |-> k.proposals,
   link_status |-> k.link_status, is_link_initiator |-> k.is_link_initiator,
   attempts |-> k.attempts, timeout |-> k.timeout, expected |-> k.expected,
   locked_resources |-> k.locked_resources,
   scheduled_resources |-> k.scheduled_resources, late |-> k.late]

OwnPart(st) ==
  [mac_id |-> st.mac_id, tables |-> st.tables, failed |-> st.failed,
   slot |-> st.slot, scheduled |-> st.scheduled,
   link_requests |-> st.link_requests, link_replies |-> st.link_replies]

LinkPart(st) ==
  [link_id |-> st.link_id, advertised |-> st.advertised, proposals |-> st.proposals,
   link_status |-> st.link_status, is_link_initiator |-> st.is_link_initiator,
   attempts |-> st.attempts, timeout |-> st.timeout, expected |-> st.expected,
   locked_resources |-> st.locked_resources,
   scheduled_resources |-> st.scheduled_resources, late |-> st.late]

NewLink(p) ==
  [link_id |-> p, advertised |-> NONE, proposals |-> {},
   link_status |-> "link_not_established", is_link_initiator |-> FALSE,
   attempts |-> 0, timeout |-> 0, expected |-> 0, locked_resources |-> {},
   scheduled_resources |-> {}, late |-> FALSE]

Init ==
  /\ own \in scheduleBroadcastSlot(
       [mac_id |-> Me, tables |-> EmptyTables, failed |-> "none", slot |-> 0,
        scheduled |-> FALSE, link_requests |-> << >>, link_replies |-> << >>])
  /\ own.failed = "none"
  /\ link = [p \in Peers |-> NewLink(p)]
  /\ offered = [p \in Peers |-> {}]
  /\ sent = FALSE
  /\ phase = "execute"

-----------------------------------------------------------------------------
(* The loop over link_requests.  It reads the memory of the vector from    *)
(* its first to its former last element while the calls in its body erase  *)
(* from it.  That is undefined; what a build does is to move the elements  *)
(* behind an erased one to the left and leave the last where it was.       *)

AfterErase(memory, requests) ==
  requests \o SubSeq(memory, Len(requests) + 1, Len(memory))

(* a: the shared state, the links, the header's requests and the memory    *)
AddRequest(a, i) ==
  LET p == a.memory[i]
      After(r) == [own |-> OwnPart(r.st), link |-> [a.link EXCEPT ![p] = LinkPart(r.st)],
                   requests |-> [a.requests EXCEPT ![p] = @ \cup r.proposals],
                   memory |-> AfterErase(a.memory, r.st.link_requests)]
  IN  IF a.own.failed # "none"
      THEN {a}
      ELSE {After(Requested(f)) : f \in propose(At(a.own, a.link[p]))}

(* Mutant of AddRequests: one request per broadcast, as with the replies.  *)
AddFirstRequest(o, l) ==
  LET a == [own |-> o, link |-> l, requests |-> [p \in Peers |-> {}],
            memory |-> o.link_requests]
  IN  IF o.link_requests = << >> THEN {a} ELSE AddRequest(a, 1)

AddRequests(o, l) ==
  LET start == [own |-> o, link |-> l, requests |-> [p \in Peers |-> {}],
                memory |-> o.link_requests]
      added[n \in 0 .. Len(o.link_requests)] ==
        IF n = 0 THEN {start} ELSE UNION {AddRequest(a, n) : a \in added[n - 1]}
  IN  added[Len(o.link_requests)]

(* Mutant of CancelSent: also what could not be proposed is cancelled. *)
CancelAll(a) == [a.own EXCEPT !.link_requests = << >>]

(* Then the requests that are in the header are cancelled. *)
CancelSent(a) ==
  LET queue == a.own.link_requests
  IN  [a.own EXCEPT !.link_requests =
                      Erased(queue, {i \in DOMAIN queue : a.requests[queue[i]] # {}})]

-----------------------------------------------------------------------------
(* Actions *)

NoFailureYet == own.failed = "none"

StepTo(from, to) == NoFailureYet /\ phase = from /\ phase' = to

StillOffered(l, offers) ==
  [p \in Peers |-> IF l[p].link_status = "awaiting_reply" THEN offers[p] ELSE {}]

(* Not in the code: the slots until the broadcast a reply was offset for. *)
Sooner(replies) == [i \in DOMAIN replies |-> [replies[i] EXCEPT !.due = @ - 1]]

(* The ReservationMap of a link and the expected slots of the advertised   *)
(* proposals move with the time.                                           *)
LinkBegun(k) ==
  [k EXCEPT !.locked_resources = Aged(@), !.scheduled_resources = Aged(@),
            !.proposals = Elapsed(@)]

(* MCSOTDMA_Mac::update *)
Update ==
  /\ StepTo("update", "execute")
  /\ \E st \in onSlotStart(own) : own' = [ListenNow(st) EXCEPT !.link_replies = Sooner(@)]
  /\ link' = [p \in Peers |-> LinkBegun(link[p])]
  /\ offered' = [p \in Peers |-> Elapsed(offered[p])]
  /\ UNCHANGED sent

(* MCSOTDMA_Mac::execute: SHLinkManager::onTransmissionReservation *)
Execute ==
  /\ StepTo("execute", "end")
  /\ sent' = IsTx(own.tables[SH][0])
  /\ IF ~IsTx(own.tables[SH][0])
     THEN UNCHANGED << own, link, offered >>
     ELSE \E a \in AddRequests(own, link) : \E st \in ScheduledNext(CancelSent(a)) :
             /\ own' = [Sent(st) EXCEPT !.failed =
                          IF @ = "none" /\ \E p \in Peers : UtilizationThrows(At(st, a.link[p]))
                          THEN "no_next_tx" ELSE @]
             /\ link' = a.link
             /\ offered' = StillOffered(a.link,
                  [p \in Peers |-> IF a.requests[p] = {} THEN offered[p] ELSE a.requests[p]])

(* The packets a peer may send: it claims a slot for its next broadcast,   *)
(* and carries one thing besides: a request, the reply to the request it   *)
(* has to answer, or an advertised link.  (A reply that comes later than   *)
(* its request is awaited is a subject of LinkEstablishment.)              *)
PacketsOf(p) ==
  LET Packet(s, rq, rp, ad) == [slot |-> s, requests |-> rq, reply |-> rp, proposals |-> ad]
      Links == [channel : PP, slot : StartSlots]
      Reply(q) == [channel |-> q.channel, slot |-> q.slot, due |-> 0, dest |-> Me]
  IN  UNION {{Packet(s, {}, NONE, {})}
             \cup {Packet(s, {q}, NONE, {}) : q \in Links}
             \cup {Packet(s, {}, NONE, {q}) : q \in Links}
             \cup {Packet(s, {}, Reply(q), {}) : q \in offered[p]} : s \in Claims}

(* What the shared and the peer's state may be after the reception. *)
Received ==
  {[own |-> own, link |-> link]} \cup
  (IF sent THEN {}
   ELSE UNION {{[own |-> OwnPart(st), link |-> [link EXCEPT ![p] = LinkPart(st)]] :
                  st \in UNION {processBroadcastMessage(At(own, link[p]), k, c) :
                                  k \in PacketsOf(p), c \in Conformant}} : p \in Peers})

CountDown(n) == IF n \in {0, NONE} THEN NONE ELSE n - 1

(* PPLinkManager::onSlotEnd and what the NeighborObserver counts down for  *)
(* its peer.  A link that expires may be asked for again (more).           *)
ManagerSlotEnd(r, p, more) ==
  LET st == onLinkSlotEnd(At(r.own, r.link[p]), more)
  IN  IF r.own.failed # "none"
      THEN r
      ELSE [own |-> OwnPart(st),
            link |-> [r.link EXCEPT ![p] = LinkPart([st EXCEPT !.advertised = CountDown(@)])]]

(* MCSOTDMA_Mac::onSlotEnd: one manager after the other.                   *)
ManagersSlotEnd(r, more) ==
  LET order == SetToSeq(Peers)
      ended[n \in 0 .. Cardinality(Peers)] ==
        IF n = 0 THEN r ELSE ManagerSlotEnd(ended[n - 1], order[n], order[n] \in more)
  IN  ended[Cardinality(Peers)]

SlotEnd ==
  /\ StepTo("end", "update")
  /\ \E r \in Received, more \in SUBSET Peers :
        LET after == ManagersSlotEnd(r, more)
        IN  /\ own' = after.own
            /\ link' = after.link
            /\ offered' = StillOffered(after.link, offered)
  /\ sent' = FALSE

(* The upper layer has data for a peer. *)
NotifyOutgoing(p) ==
  /\ NoFailureYet
  /\ link[p].link_status = "link_not_established"
  /\ LET st == notifyOutgoing(At(own, link[p]))
     IN  own' = OwnPart(st) /\ link' = [link EXCEPT ![p] = LinkPart(st)]
  /\ UNCHANGED << offered, sent, phase >>

Next ==
  \/ Update
  \/ Execute
  \/ SlotEnd
  \/ \E p \in Peers : NotifyOutgoing(p)

Spec == Init /\ [][Next]_vars

-----------------------------------------------------------------------------
(* Properties *)

NoFailure == NoFailureYet

BurstEntries(q) == {<<q.channel, s>> : s \in TxBursts(q.slot) \cup RxBursts(q.slot)}
                     \cup {<<TxTable, s>> : s \in TxBursts(q.slot)}

(* Every link that a request offers stays locked for that peer until it is *)
(* answered or given up, whatever the other peers' requests, replies and   *)
(* links do meanwhile (notifyLinkRequestSent "resets the locked resource   *)
(* map so must be called before lockProposedResources").                   *)
OffersHeld ==
  \A p \in Peers : \A q \in offered[p] : \A e \in BurstEntries(q) :
    NoFailureYet /\ e[2] > 0 => own.tables[e[1]][e[2]] = Res("LOCKED", p)

(* The links of one user never share a slot, and no burst or lock is left  *)
(* on the point-to-point channels that no link knows of.                   *)
SlotsOfLinks ==
  \A c \in PP, s \in Slots \ {0}, p \in Peers :
    NoFailureYet /\ own.tables[c][s].target = p
      => <<c, s>> \in IF IsLocked(own.tables[c][s]) THEN link[p].locked_resources
                      ELSE link[p].scheduled_resources

(* Exactly those peers are in the queue, once, for whom a request is still *)
(* to be generated, and no reply is queued for a peer without a link or    *)
(* twice for one.                                                          *)
QueuesOfLinks ==
  NoFailureYet =>
    /\ IsInjective(own.link_requests)
    /\ \A p \in Peers : Contains(own.link_requests, p)
                          <=> link[p].link_status = "awaiting_request_generation"
    /\ \A i, j \in DOMAIN own.link_replies :
         i # j => own.link_replies[i].dest # own.link_replies[j].dest
    /\ \A i \in DOMAIN own.link_replies :
         /\ link[own.link_replies[i].dest].link_status = "link_established"
         /\ ~link[own.link_replies[i].dest].is_link_initiator

EarliestReply(o, l) == IF l.advertised = NONE THEN o.slot ELSE l.advertised + 1

(* A broadcast carries every request for which a link can be proposed      *)
(* ("link requests that should be broadcast as soon as possible"): what is *)
(* still queued after it could not be proposed in any slot.                *)
RequestsAttached ==
  [][sent' /\ ~sent /\ own'.failed = "none" =>
       \A p \in ToSet(own'.link_requests), c \in PP :
         ValidStarts(own'.tables, c, EarliestReply(own', link'[p])) = {}]_vars
=============================================================================
