--------------------------- MODULE ThirdPartyLink ---------------------------
(***************************************************************************)
(* The links between other users as one user sees them (ThirdPartyLink,    *)
(* kept in MCSOTDMA_Mac::third_party_links): the resources a link request  *)
(* proposes are locked, those a link reply selects are marked BUSY, and    *)
(* all of it is given back when the reply does not come, when the link     *)
(* expires, or when a new request of the same pair is heard.               *)
(*                                                                         *)
(* A link is named by its unordered pair of users; which of them is the    *)
(* initiator is fixed when the link is first heard of.  One broadcast is   *)
(* received per time slot.  The expected reply's mark on the shared        *)
(* channel is part of BroadcastSlot.                                       *)
(***************************************************************************)
EXTENDS LinkBursts, Sequences, Functions

CONSTANTS
  Talks,         \* bound: <<a, b>> if a may send requests and replies to b
  UNSET,         \* ThirdPartyLink::UNSET
  StartSlots,    \* the start slots that proposals and replies name
  ReplyOffsets,  \* when a reply may be expected
  MaxProposals,  \* bound: proposals in one request
  OwnUses,       \* bound: peers and actions of the user's own bursts
  MaxOwnBursts   \* bound: their number

ASSUME TalksAssumption ==
  /\ \A t \in Talks : t \in UserIds \X UserIds /\ t[1] # t[2]
  /\ IsFiniteSet(Talks)
ASSUME UnsetAssumption == UNSET \notin Nat
ASSUME OwnUsesAssumption == OwnUses \subseteq UserIds \X {"TX", "RX"}
ASSUME ProposalsAssumption == MaxProposals \in Nat \ {0}
(* the senders keep their links inside the planning horizon *)
ASSUME StartSlotsAssumption ==
  /\ \A s \in StartSlots : s \in Nat \ {0} /\ InHorizon(s)
  /\ ReplyOffsets \subseteq Slots

(* A link is the unordered pair of its users. *)
Links == {{t[1], t[2]} : t \in Talks}

VARIABLES
  tables,   \* the reservation tables of this user
  links,    \* third_party_links
  phase,    \* "between" time slots, "started", or a broadcast was "received"
  failed,   \* the exception that ended the run, or "none"
  history   \* not in the code: which of Irregular has happened

vars == << tables, links, phase, failed, history >>

Proposals == [channel : PP, slot : StartSlots]
NoProposal == UNSET

Statuses == {"uninitialized", "received_request_awaiting_reply",
             "received_reply_link_established"}

(* The three ReservationMaps hold <<table, offset>>.  An offset is kept    *)
(* normalised to the current slot; one that lies in the past has no effect *)
(* anywhere and is dropped.                                                *)
Entries == PP \X Slots

ThirdPartyLinks ==
  [status          : Statuses,
   initiator       : UserIds \cup {UNSET_ID},  \* UNSET_ID: not in the map yet
   recipient       : UserIds \cup {UNSET_ID},
   locks_initiator : SUBSET Entries,
   locks_recipient : SUBSET Entries,
   scheduled       : SUBSET Entries,
   until_reply     : Slots \cup {UNSET},  \* num_slots_until_expected_link_reply
   expiry          : Slots \cup {UNSET},  \* link_expiry_offset
   normalization   : Nat \cup {UNSET},    \* normalization_offset
   \* link_description: the proposal, and who selected it
   proposal        : Proposals \cup {NoProposal},
   selected_for    : UserIds \cup {UNSET_ID}]

(* Late locks and late busy slots are made for a link when another one is  *)
(* reset, some slots after its request or reply came.  What a link holds   *)
(* busy is replaced when it schedules again.  A busy slot is overwritten   *)
(* by the user's own link with one of the two.                             *)
Irregular == {"late_locks", "late_busy", "replaced", "overwritten"}

TypeOK ==
  /\ tables \in [Tables -> [Slots -> Reservation]]
  /\ links \in [Links -> ThirdPartyLinks]
  /\ phase \in {"between", "started", "received"}
  /\ failed \in {"none", "reply_past_zero", "expiry_past_zero", "not_busy"}
  /\ history \subseteq Irregular

Fresh ==
  [status |-> "uninitialized", initiator |-> UNSET_ID, recipient |-> UNSET_ID,
   locks_initiator |-> {}, locks_recipient |-> {}, scheduled |-> {},
   until_reply |-> UNSET, expiry |-> UNSET, normalization |-> UNSET,
   proposal |-> NoProposal, selected_for |-> UNSET_ID]

Init ==
  /\ tables = EmptyTables
  /\ links = [l \in Links |-> Fresh]
  /\ phase = "between"
  /\ failed = "none"
  /\ history = {}

-----------------------------------------------------------------------------
(* The methods of ThirdPartyLink on a record st of the variables but phase *)

Current == [tables |-> tables, links |-> links, failed |-> failed, history |-> history]

Become(st) ==
  /\ tables' = st.tables
  /\ links' = st.links
  /\ failed' = st.failed
  /\ history' = st.history

Noted(st, what) == [st EXCEPT !.history = @ \cup {what}]

Normalized(channel, slots, age) == {<<channel, s - age>> : s \in {x \in slots : x > age}}

(* The age of both lock maps is the normalization offset: they are reset   *)
(* when the request arrives.  A slot found idle is locked and remembered   *)
(* under its present offset, from which its map will subtract the age.     *)
lockIfPossible(st, l) ==
  LET link  == st.links[l]
      c     == link.proposal.channel
      start == link.proposal.slot - link.normalization
      Free(slots) == {s \in slots : IsIdle(st.tables[c][s])}
      tx    == Free(TxBursts(start))
      rx    == Free(RxBursts(start))
  IN  [st EXCEPT
         !.tables[c] = [s \in Slots |->
                          IF s \in tx THEN Res("LOCKED", link.initiator)
                          ELSE IF s \in rx THEN Res("LOCKED", link.recipient)
                          ELSE @[s]],
         !.links[l].locks_initiator = @ \cup Normalized(c, tx, link.normalization),
         !.links[l].locks_recipient = @ \cup Normalized(c, rx, link.normalization)]

(* getRemainingLinkReservations and scheduleIfPossible: the idle ones of   *)
(* the link's bursts become BUSY, and their map replaces the old one.  The *)
(* first burst is the one of the reply, however long ago that came.        *)
scheduleIfPossible(st, l) ==
  LET link == st.links[l]
      c    == link.proposal.channel
      Free(slots) == {s \in slots : IsIdle(st.tables[c][s])}
      tx   == Free(TxBursts(link.proposal.slot))
      rx   == Free(RxBursts(link.proposal.slot))
      peer == CHOOSE id \in l : id # link.selected_for
  IN  [st EXCEPT
         !.tables[c] = [s \in Slots |->
                          IF s \in tx THEN Res("BUSY", link.selected_for)
                          ELSE IF s \in rx THEN Res("BUSY", peer)
                          ELSE @[s]],
         !.links[l].scheduled = {<<c, s>> : s \in tx \cup rx},
         !.history = IF link.scheduled = {} THEN @ ELSE @ \cup {"replaced"}]

Unlocked(st, l) ==
  LET link == st.links[l]
  IN  UnlockAll(st.tables, link.locks_initiator \cup link.locks_recipient, l)

(* Mutant of reset: only the locks are returned. *)
resetKeepsBusy(st, l) ==
  LET link == st.links[l]
  IN  [st EXCEPT !.tables = Unlocked(st, l),
                 !.links[l] = [Fresh EXCEPT !.initiator = link.initiator,
                                            !.recipient = link.recipient]]

reset(st, l) ==
  LET link     == st.links[l]
      unlocked == Unlocked(st, l)
  IN  [tables |-> UnscheduleAll(unlocked, link.scheduled),
       links  |-> [st.links EXCEPT ![l] = [Fresh EXCEPT !.initiator = link.initiator,
                                                        !.recipient = link.recipient]],
       failed |-> IF UnscheduleThrows(unlocked, link.scheduled, {"BUSY"})
                  THEN "not_busy" ELSE st.failed,
       history |-> st.history]

(* getThirdPartyLink(id1, id2): either order finds the link; the first one *)
(* to be heard stays.                                                      *)
getThirdPartyLink(st, id1, id2) ==
  IF st.links[{id1, id2}].initiator = UNSET_ID
  THEN [st EXCEPT !.links[{id1, id2}].initiator = id1,
                  !.links[{id1, id2}].recipient = id2]
  ELSE st

processLinkRequestMessage(st, l, proposal, reply) ==
  lockIfPossible(
    [st EXCEPT !.links[l] =
       [@ EXCEPT !.status = "received_request_awaiting_reply",
                 !.until_reply = reply,
                 !.proposal = proposal,
                 !.normalization = 0]], l)

Established(link, selected, initiator) ==
  [link EXCEPT !.locks_initiator = {},
               !.locks_recipient = {},
               !.status = "received_reply_link_established",
               !.normalization = 0,
               !.proposal = selected,
               !.selected_for = initiator,
               !.until_reply = UNSET,
               !.expiry = LastBurst(selected.slot)]

(* Mutant of processLinkReplyMessage: the locks are forgotten, not undone. *)
replyForgetsLocks(st, l, proposal, initiator) ==
  scheduleIfPossible(
    [st EXCEPT !.links[l] = Established(@, proposal, initiator)], l)

(* Mutant of processLinkReplyMessage: the link expires a burst too early. *)
replyExpiresEarly(st, l, proposal, initiator) ==
  scheduleIfPossible(
    [st EXCEPT !.tables = Unlocked(st, l),
               !.links[l] = [Established(@, proposal, initiator) EXCEPT !.expiry = @ - Increment]], l)

processLinkReplyMessage(st, l, proposal, initiator) ==
  scheduleIfPossible(
    [st EXCEPT !.tables = Unlocked(st, l),
               !.links[l] = Established(@, proposal, initiator)], l)

onAnotherThirdLinkReset(st, l) ==
  LET late == st.links[l].normalization # 0
  IN  CASE st.links[l].status = "uninitialized" -> st
        [] st.links[l].status = "received_request_awaiting_reply" ->
             lockIfPossible(IF late THEN Noted(st, "late_locks") ELSE st, l)
        [] st.links[l].status = "received_reply_link_established" ->
             scheduleIfPossible(IF late THEN Noted(st, "late_busy") ELSE st, l)

(* onSlotEnd, with the order in which the MAC visits its links: a reset    *)
(* lets every other link take what was given back.                         *)
ResetAndNotify(st, l, order) ==
  LET told[n \in 0 .. Len(order)] ==
        IF n = 0 THEN reset(st, l)
        ELSE IF order[n] = l THEN told[n - 1]
        ELSE onAnotherThirdLinkReset(told[n - 1], order[n])
  IN  told[Len(order)]

(* Mutant of onSlotEnd: only a missed reply ends a link. *)
onSlotEndNeverExpires(st, l, order) ==
  IF st.links[l].until_reply = 0 THEN ResetAndNotify(st, l, order) ELSE st

onSlotEnd(st, l, order) ==
  LET missed == IF st.links[l].until_reply = 0 THEN ResetAndNotify(st, l, order) ELSE st
  IN  IF missed.links[l].expiry = 0 THEN ResetAndNotify(missed, l, order) ELSE missed

CountedDown(n) == IF n = UNSET THEN UNSET ELSE n - 1

(* Mutant of onLinkSlotStart: only established links count. *)
onLinkSlotStartOnlyEstablished(link) ==
  [link EXCEPT !.locks_initiator = Aged(@),
               !.locks_recipient = Aged(@),
               !.scheduled = Aged(@),
               !.expiry = IF @ = 0 THEN 0 ELSE CountedDown(@)]

onLinkSlotStart(link) ==
  [link EXCEPT !.locks_initiator = Aged(@),
               !.locks_recipient = Aged(@),
               !.scheduled = Aged(@),
               !.until_reply = IF @ = 0 THEN 0 ELSE CountedDown(@),
               !.expiry = IF @ = 0 THEN 0 ELSE CountedDown(@),
               !.normalization = IF @ = UNSET THEN UNSET ELSE @ + 1]

-----------------------------------------------------------------------------
(* Actions *)

SlotStart ==
  /\ phase = "between"
  /\ tables' = Shift(tables)
  /\ links' = [l \in Links |-> onLinkSlotStart(links[l])]
  /\ failed' = IF \E l \in Links : links[l].until_reply = 0 THEN "reply_past_zero"
               ELSE IF \E l \in Links : links[l].expiry = 0 THEN "expiry_past_zero"
               ELSE "none"
  /\ phase' = "started"
  /\ UNCHANGED history

(* SHLinkManager::processBroadcastMessage for the link requests of src to  *)
(* one other user: the first resets the link, each is then processed.      *)
ReceiveRequest(src, dest, proposals, reply) ==
  LET l == {src, dest}
      parsed[n \in 0 .. Len(proposals)] ==
        IF n = 0 THEN reset(getThirdPartyLink(Current, src, dest), l)
        ELSE IF parsed[n - 1].failed # "none" THEN parsed[n - 1]
        ELSE processLinkRequestMessage(parsed[n - 1], l, proposals[n], reply)
  IN  /\ phase = "started"
      /\ Become(parsed[Len(proposals)])
      /\ phase' = "received"

(* ... and for the link reply of src to dest, who asked for the link *)
ReceiveReply(src, dest, proposal) ==
  /\ phase = "started"
  /\ Become(processLinkReplyMessage(getThirdPartyLink(Current, src, dest),
                                    {src, dest}, proposal, dest))
  /\ phase' = "received"

(* The user's own links use slots that are idle or busy because of their   *)
(* peer (ReservationManager::scheduleBursts, one slot of it), and return   *)
(* them.                                                                   *)
OwnBursts == {b \in Entries : tables[b[1]][b[2]].action \in {"TX", "RX"}}

ReserveOwn(c, s, peer, action) ==
  /\ phase = "received"
  /\ Cardinality(OwnBursts) < MaxOwnBursts
  /\ Usable(tables, c, s, peer, action)
  /\ tables' = Mark(tables, c, s, Res(action, peer))
  /\ history' = IF IsBusy(tables[c][s]) THEN history \cup {"overwritten"} ELSE history
  /\ UNCHANGED << links, phase, failed >>

ReleaseOwn(c, s) ==
  /\ phase = "received"
  /\ IsTx(tables[c][s]) \/ IsRx(tables[c][s])
  /\ tables' = Mark(tables, c, s, Idle)
  /\ UNCHANGED << links, phase, failed, history >>

(* MCSOTDMA_Mac::onSlotEnd.  The map's order depends on which user of each *)
(* pair was heard first: any order is possible.                            *)
Visited(order) ==
  LET visited[n \in 0 .. Len(order)] ==
        IF n = 0 THEN Current ELSE onSlotEnd(visited[n - 1], order[n], order)
  IN  visited[Len(order)]

KnownLinks == {l \in Links : links[l].initiator # UNSET_ID}

SlotEnd ==
  /\ phase \in {"started", "received"}
  /\ \E st \in {Visited(order) : order \in Bijection(1 .. Cardinality(KnownLinks), KnownLinks)} :
        Become(st)
  /\ phase' = "between"

Heard ==
  \E t \in Talks :
    \/ \E n \in 1 .. MaxProposals, reply \in ReplyOffsets :
         \E proposals \in [1 .. n -> Proposals] :
            ReceiveRequest(t[1], t[2], proposals, reply)
    \/ \E proposal \in Proposals : ReceiveReply(t[1], t[2], proposal)

OwnLinks ==
  \E c \in PP, s \in Slots :
    \/ \E use \in OwnUses : s > 0 /\ ReserveOwn(c, s, use[1], use[2])
    \/ ReleaseOwn(c, s)

Next == failed = "none" /\ (SlotStart \/ Heard \/ OwnLinks \/ SlotEnd)

Spec == Init /\ [][Next]_vars

(* The simulator keeps calling update and onSlotEnd.  Only SlotStart and   *)
(* SlotEnd change the phase like this, and one of them is always enabled   *)
(* until a handler throws.                                                 *)
Clock ==
  /\ failed = "none"
  /\ phase' = IF phase = "between" THEN "started" ELSE "between"

FairSpec == Spec /\ WF_phase(Clock)

-----------------------------------------------------------------------------
(* Properties *)

Remembered ==
  UNION {links[l].locks_initiator \cup links[l].locks_recipient : l \in Links}

(* Every lock in the tables is remembered by a link that will unlock it:   *)
(* across requests, replies, missed replies and new requests, unless it    *)
(* was made late.  (The lock of the current slot is gone with the slot.)   *)
NoOrphanLock ==
  "late_locks" \notin history =>
    \A e \in Entries : e[2] > 0 /\ IsLocked(tables[e[1]][e[2]]) => e \in Remembered

(* Every slot that is BUSY because of other users' links is held by a link *)
(* that will return it, unless one has replaced its map of busy slots.     *)
NoOrphanBusy ==
  "replaced" \notin history =>
    \A e \in Entries :
      e[2] > 0 /\ IsBusy(tables[e[1]][e[2]]) => \E l \in Links : e \in links[l].scheduled

(* No countdown passes zero, and what is unscheduled is still BUSY unless  *)
(* the user's own link has overwritten it.                                 *)
NoFailure == failed = "none" \/ (failed = "not_busy" /\ "overwritten" \in history)

(* What an established link holds as BUSY lies within its lifetime: its    *)
(* last burst is in the slot in which it expires.                          *)
BusyInLifetime ==
  \A l \in Links :
    links[l].status = "received_reply_link_established"
      => \A e \in links[l].scheduled : e[2] =< links[l].expiry

BusyWithinLifetime == "late_busy" \notin history => BusyInLifetime

(* A link that is heard of no more is given up: nothing stays reserved for *)
(* others for ever.                                                        *)
HeardOf(l) ==
  /\ phase = "started" /\ phase' = "received"
  /\ links'[l] # links[l]
LinksEnd ==
  \A l \in Links :
    \/ []<>(links[l].status = "uninitialized")
    \/ []<><<HeardOf(l)>>_vars
    \/ <>(failed # "none")
=============================================================================
