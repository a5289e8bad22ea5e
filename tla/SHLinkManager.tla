--------------------------- MODULE SHLinkManager ---------------------------
(***************************************************************************)
(* The methods of SHLinkManager that put link requests, link replies and   *)
(* link proposals into a broadcast and process those of a neighbour's, and *)
(* what the NeighborObserver keeps of that neighbour.  They act on the     *)
(* record st of PPLinkManager and SharedChannel for the manager of one     *)
(* peer, st.link_id, with the fields that the NeighborObserver keeps:      *)
(*   advertised  in how many slots the peer broadcasts next, or NONE       *)
(*   proposals   the links it advertised, with their present offsets       *)
(***************************************************************************)
EXTENDS PPLinkManager, SharedChannel

CONSTANT NONE

ASSUME NoneAssumption == NONE \notin [slot : Slots] \cup Slots

-----------------------------------------------------------------------------
(* SHLinkManager::onTransmissionReservation *)

(* What is proposed, from which the reply is expected: a set of records    *)
(* with the state, which has changed if a broadcast was scheduled for it.  *)
Found(st, min_offset) ==
  [st |-> st,
   proposals |-> findLinkProposals(st.tables, min_offset),
   expected |-> min_offset]

(* The duty cycle leaves room at once (getPeriodicityPP's offset is 0). *)
proposeLocalLinks(st) ==
  IF st.advertised # NONE
  THEN {Found(st, st.advertised + 1)}
  ELSE {Found(next, next.slot) :
          next \in IF st.slot = 0 THEN scheduleBroadcastSlot(st) ELSE {st}}

proposeRemoteLinks(st) ==
  LET valid == {p \in st.proposals : isLinkValid(st.tables, p.channel, p.slot, TRUE)}
  IN  {[st |-> st, proposals |-> {p}, expected |-> st.advertised] :
         p \in {q \in valid : \A r \in valid : q.slot =< r.slot}}

propose(st) ==
  IF st.advertised # NONE /\ proposeRemoteLinks(st) # {}
  THEN proposeRemoteLinks(st)
  ELSE proposeLocalLinks(st)

(* Mutant of Requested: the manager is told of the request after the locks. *)
requestedAfterLocks(f) ==
  IF f.proposals = {} \/ f.st.failed # "none"
  THEN [f EXCEPT !.proposals = {}]
  ELSE [f EXCEPT !.st = notifyLinkRequestSent(lockProposedResources(@, f.proposals), f.expected)]

(* A request without proposals stays for the next broadcast. *)
Requested(f) ==
  IF f.proposals = {} \/ f.st.failed # "none"
  THEN [f EXCEPT !.proposals = {}]
  ELSE [f EXCEPT !.st = lockProposedResources(notifyLinkRequestSent(@, f.expected), f.proposals)]

(* The next broadcast is scheduled unless a proposal already needed it.    *)
ScheduledNext(st) ==
  IF st.slot = 0 /\ st.failed = "none" THEN scheduleBroadcastSlot(st) ELSE {st}

(* The rest of the header: one reply, and what other users may propose.    *)
Header(st, requests) ==
  [slot |-> st.slot, requests |-> requests,
   reply |-> IF st.link_replies = << >> THEN NONE ELSE Head(st.link_replies),
   proposals |-> findLinkProposals(st.tables, st.slot)]

Sent(st) == [st EXCEPT !.link_replies = IF @ = << >> THEN @ ELSE Tail(@)]

-----------------------------------------------------------------------------
(* What the NeighborObserver keeps of the peer: its next broadcast, and    *)
(* the link proposals it advertised last, at their present offsets as long *)
(* as they lie ahead.                                                      *)

reportBroadcastSlotAdvertisement(st, offset) == [st EXCEPT !.advertised = offset]

replaceAdvertisedLinkProposals(st, proposals) == [st EXCEPT !.proposals = proposals]

Elapsed(proposals) == {[p EXCEPT !.slot = @ - 1] : p \in {q \in proposals : q.slot > 1}}

-----------------------------------------------------------------------------
(* SHLinkManager::processBroadcastMessage *)

processLinkProposals(st, proposals) ==
  IF proposals = {} THEN st ELSE replaceAdvertisedLinkProposals(st, proposals)

(* Mutant of processLinkRequests: the offset in the reply is not that from *)
(* the broadcast that carries it.                                          *)
replyNotNormalized(st, requests, conformant) ==
  LET acceptable == {p \in requests :
                       /\ p.slot > st.slot
                       /\ conformant
                       /\ isLinkValid(st.tables, p.channel, p.slot, FALSE)}
      Reply(p)   == [channel |-> p.channel, slot |-> p.slot, due |-> st.slot,
                      dest |-> st.link_id]
  IN  IF requests = {}
      THEN {st}
      ELSE IF acceptable = {}
      THEN {notifyOutgoing(st)}
      ELSE {[acceptLink(st, p, TRUE) EXCEPT !.link_replies = Append(@, Reply(p))] : p \in acceptable}

(* Those proposals that leave time for the reply and suit this user; the   *)
(* earliest is accepted, and the reply's offset counts from the next       *)
(* broadcast.  Without one the user asks for a link itself.                *)
processLinkRequests(st, requests, conformant) ==
  LET acceptable == {p \in requests :
                       /\ p.slot > st.slot
                       /\ conformant
                       /\ isLinkValid(st.tables, p.channel, p.slot, FALSE)}
      earliest   == {p \in acceptable : \A q \in acceptable : p.slot =< q.slot}
      Reply(p)   == [channel |-> p.channel, slot |-> p.slot - st.slot, due |-> st.slot,
                      dest |-> st.link_id]
  IN  IF requests = {}
      THEN {st}
      ELSE IF acceptable = {}
      THEN {notifyOutgoing(st)}
      ELSE {[acceptLink(st, p, TRUE) EXCEPT !.link_replies = Append(@, Reply(p))] : p \in earliest}

(* A reply is accepted in any status. *)
processLinkReply(st, reply, conformant) ==
  IF reply = NONE \/ reply.dest # st.mac_id \/ ~conformant \/ st.failed # "none"
  THEN st
  ELSE [acceptLink(st, reply, FALSE) EXCEPT !.late = (reply.due # 0)]

processBroadcastMessage(st, p, conformant) ==
  LET heard    == checkAdvertisedSlot(reportBroadcastSlotAdvertisement(st, p.slot), st.link_id, p.slot)
      Rest(st1) ==
        IF st1.failed # "none"
        THEN {st1}
        ELSE {processLinkReply(st2, p.reply, conformant) :
                st2 \in processLinkRequests(processLinkProposals(st1, p.proposals),
                                            p.requests, conformant)}
  IN  UNION {Rest(st1) : st1 \in heard}
=============================================================================
