--------------------------- MODULE PPLinkManager ---------------------------
(***************************************************************************)
(* The methods of a PPLinkManager, which one user keeps for each of its    *)
(* peers.  They act on a record st that has at least the fields            *)
(*   tables     the reservation tables of the user                         *)
(*   failed     the exception that was thrown, or "none"                   *)
(*   mac_id     the user                                                   *)
(*   link_requests, link_replies  the queues of its SHLinkManager          *)
(* and the manager's own: link_id, link_status, is_link_initiator,         *)
(* attempts (establishment_attempts), timeout, expected                    *)
(* (expected_link_request_confirmation_slot), and locked_resources and     *)
(* scheduled_resources of its ReservationMap.                              *)
(* "late" is not in the code: the link's reply was not sent when it was    *)
(* due.                                                                    *)
(***************************************************************************)
EXTENDS LinkBursts, Sequences

CONSTANTS
  MaxAttempts   \* max_establishment_attempts

ASSUME AttemptsAssumption == MaxAttempts \in Nat \ {0}

Statuses == {"link_not_established", "awaiting_request_generation",
             "awaiting_reply", "link_established"}

Proposals == [channel : PP, slot : Slots]
Entries   == Tables \X Slots

(* SHLinkManager::cancelLinkRequest, cancelLinkReply: the loop that erases *)
(* those of one user (SelectSeq as a function that proofs can unfold).     *)
Erased(queue, positions) ==
  LET kept[n \in 0 .. Len(queue)] ==
        IF n = 0 THEN << >>
        ELSE IF n \in positions THEN kept[n - 1]
        ELSE Append(kept[n - 1], queue[n])
  IN  kept[Len(queue)]

Without(requests, id) ==
  Erased(requests, {i \in DOMAIN requests : requests[i] = id})
WithoutReplies(replies, id) ==
  Erased(replies, {i \in DOMAIN replies : replies[i].dest = id})

(* Mutants of cancelLink: one thing that a cancelled link holds is kept. *)
cancelKeepsLocks(st) ==
  [st EXCEPT !.tables = UnscheduleAll(@, st.scheduled_resources),
             !.link_status = "link_not_established",
             !.locked_resources = {}, !.scheduled_resources = {},
             !.link_requests = Without(@, st.link_id),
             !.link_replies = WithoutReplies(@, st.link_id)]

cancelKeepsBursts(st) ==
  [st EXCEPT !.tables = UnlockAll(@, st.locked_resources, {st.mac_id, st.link_id}),
             !.link_status = "link_not_established",
             !.locked_resources = {}, !.scheduled_resources = {},
             !.link_requests = Without(@, st.link_id),
             !.link_replies = WithoutReplies(@, st.link_id)]

cancelKeepsRequest(st) ==
  LET unlocked == UnlockAll(st.tables, st.locked_resources, {st.mac_id, st.link_id})
  IN  [st EXCEPT !.tables = UnscheduleAll(unlocked, st.scheduled_resources),
                 !.link_status = "link_not_established",
                 !.locked_resources = {}, !.scheduled_resources = {},
                 !.link_replies = WithoutReplies(@, st.link_id)]

cancelKeepsReplies(st) ==
  LET unlocked == UnlockAll(st.tables, st.locked_resources, {st.mac_id, st.link_id})
  IN  [st EXCEPT !.tables = UnscheduleAll(unlocked, st.scheduled_resources),
                 !.link_status = "link_not_established",
                 !.locked_resources = {}, !.scheduled_resources = {},
                 !.link_requests = Without(@, st.link_id)]

cancelLink(st) ==
  LET unlocked == UnlockAll(st.tables, st.locked_resources, {st.mac_id, st.link_id})
  IN  [st EXCEPT !.tables = UnscheduleAll(unlocked, st.scheduled_resources),
                 !.failed = IF UnscheduleThrows(unlocked, st.scheduled_resources, {"TX", "RX"})
                            THEN "not_scheduled" ELSE @,
                 !.link_status = "link_not_established",
                 !.locked_resources = {}, !.scheduled_resources = {},
                 !.link_requests = Without(@, st.link_id),
                 !.link_replies = WithoutReplies(@, st.link_id)]

(* The peer is added to the requests.  A broadcast is always scheduled, so *)
(* SHLinkManager::notifyOutgoing has nothing to do.                        *)
establishLink(st) ==
  IF st.attempts + 1 >= MaxAttempts
  THEN [cancelLink(st) EXCEPT !.attempts = 0]
  ELSE IF st.link_status = "link_established"
  THEN [st EXCEPT !.attempts = @ + 1]
  ELSE [st EXCEPT !.attempts = @ + 1, !.link_requests = Append(@, st.link_id),
                  !.link_status = "awaiting_request_generation"]

notifyOutgoing(st) ==
  IF st.link_status = "link_not_established"
  THEN establishLink([st EXCEPT !.attempts = 0])
  ELSE st

notifyLinkRequestSent(st, expected) ==
  [cancelLink(st) EXCEPT !.link_status = "awaiting_reply", !.timeout = Timeout,
                         !.expected = expected]

(* For every proposal: the slots to send in are locked in the channel's    *)
(* table and in the transmitter's, those to receive in only in the         *)
(* channel's; the lock map names a receiver's table that was never locked. *)
(* What one proposal locks keeps no other of the same link from its locks. *)
lockProposedResources(st, proposals) ==
  LET tx       == UNION {{p.channel} \X TxBursts(p.slot) : p \in proposals}
      rx       == UNION {{p.channel} \X RxBursts(p.slot) : p \in proposals}
      toLock   == tx \cup rx \cup {<<TxTable, e[2]>> : e \in tx}
      receiver(s) == {x \in RxTables : CanLock(st.tables[x][s])}
  IN  [st EXCEPT
         !.tables = [t \in Tables |-> [s \in Slots |->
                       IF <<t, s>> \in toLock THEN Res("LOCKED", st.link_id) ELSE st.tables[t][s]]],
         !.locked_resources = @ \cup toLock
            \cup {<<CHOOSE x \in receiver(e[2]) : TRUE, e[2]>> :
                     e \in {r \in rx : receiver(r[2]) # {}}},
         !.failed = IF \/ \E e \in toLock : \/ ~CanLock(st.tables[e[1]][e[2]])
                                            \/ LockMismatch(st.tables[e[1]][e[2]], st.link_id)
                       \/ \E e \in rx : receiver(e[2]) = {}
                    THEN "cannot_lock" ELSE @]

(* Mutant of acceptLink: the resources of an earlier link or request are   *)
(* not handed back.                                                        *)
acceptKeepsOldLink(st, p, through_request) ==
  LET bursts == scheduleBursts(st.tables, p.channel, p.slot, st.link_id, ~through_request)
  IN  [st EXCEPT !.tables = bursts.tables,
                 !.scheduled_resources = bursts.scheduled,
                 !.failed = IF @ = "none" /\ bursts.throws THEN "faulty_link" ELSE @,
                 !.is_link_initiator = ~through_request,
                 !.link_status = "link_established",
                 !.timeout = Timeout, !.attempts = 0, !.late = FALSE]

acceptLink(st, p, through_request) ==
  LET free   == cancelLink(st)
      bursts == scheduleBursts(free.tables, p.channel, p.slot, st.link_id, ~through_request)
  IN  [free EXCEPT !.tables = bursts.tables,
                   !.scheduled_resources = bursts.scheduled,
                   !.failed = IF @ = "none" /\ bursts.throws THEN "faulty_link" ELSE @,
                   !.is_link_initiator = ~through_request,
                   !.link_status = "link_established",
                   !.timeout = Timeout,
                   !.attempts = 0,
                   !.late = FALSE]

(* A link expires: its resources are forgotten, not unscheduled. *)
onTimeoutExpiry(st, more) ==
  LET expired == [cancelLink([st EXCEPT !.locked_resources = {}, !.scheduled_resources = {}])
                    EXCEPT !.attempts = 0]
  IN  IF more THEN notifyOutgoing(expired) ELSE expired

(* Mutant of awaitReply: the expected slot may pass without an answer. *)
awaitReplyForEver(st) ==
  IF st.link_status # "awaiting_reply" \/ st.expected = 0
  THEN st ELSE [st EXCEPT !.expected = @ - 1]

awaitReply(st) ==
  IF st.link_status # "awaiting_reply"
  THEN st
  ELSE IF st.expected = 0
  THEN establishLink(cancelLink(st))
  ELSE [st EXCEPT !.expected = @ - 1]

(* Mutant of decrementTimeout: either end counts its own transmissions. *)
decrementCountsTransmissions(st, more) ==
  LET ahead == {e \in st.scheduled_resources : IsTx(st.tables[e[1]][e[2]])}
      left  == IF \E e \in ahead : e[2] = 0 THEN st.timeout - 1 ELSE st.timeout
  IN  IF st.link_status # "link_established"
      THEN st
      ELSE IF left = 0
      THEN onTimeoutExpiry([st EXCEPT !.timeout = 0], more)
      ELSE [st EXCEPT !.timeout = left]

(* Mutant of decrementTimeout: both ends give the link up an exchange      *)
(* early, with bursts still ahead.                                         *)
decrementExpiresEarly(st, more) ==
  LET last  == IF st.is_link_initiator THEN "RX" ELSE "TX"
      ahead == {e \in st.scheduled_resources : st.tables[e[1]][e[2]].action = last}
      left  == IF \E e \in ahead : e[2] = 0 THEN st.timeout - 1 ELSE st.timeout
  IN  IF st.link_status # "link_established"
      THEN st
      ELSE IF left =< 1 /\ left # st.timeout
      THEN onTimeoutExpiry([st EXCEPT !.timeout = 0], more)
      ELSE [st EXCEPT !.timeout = left]

(* decrementTimeout: an exchange ends with the initiator's reception.      *)
decrementTimeout(st, more) ==
  LET last  == IF st.is_link_initiator THEN "RX" ELSE "TX"
      ahead == {e \in st.scheduled_resources : st.tables[e[1]][e[2]].action = last}
      left  == IF \E e \in ahead : e[2] = 0 THEN st.timeout - 1 ELSE st.timeout
  IN  IF st.link_status # "link_established"
      THEN st
      ELSE IF ahead = {}
      THEN [st EXCEPT !.failed = "no_exchange_left"]
      ELSE IF left = 0
      THEN onTimeoutExpiry([st EXCEPT !.timeout = 0], more)
      ELSE [st EXCEPT !.timeout = left]

onLinkSlotEnd(st, more) == decrementTimeout(awaitReply(st), more)

(* getUtilization: a link with more than one exchange left must have a     *)
(* next slot to send in.                                                   *)
UtilizationThrows(st) ==
  /\ st.link_status = "link_established"
  /\ st.timeout > 1
  /\ ~\E e \in st.scheduled_resources : IsTx(st.tables[e[1]][e[2]])
=============================================================================
