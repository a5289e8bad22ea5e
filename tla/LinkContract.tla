---------------------------- MODULE LinkContract ----------------------------
(***************************************************************************)
(* What two users promise each other about the link between them, without  *)
(* the broadcasts, tables, locks, queues and retries that keep the promise:*)
(*   - a link is only accepted from a peer that is asking for one;         *)
(*   - it is only confirmed by taking the peer's slots, mirrored;          *)
(*   - an end of a link counts its exchanges, gives the link up with the   *)
(*     last of them, and never before.                                     *)
(* The users take their steps in the phases of a time slot one after the   *)
(* other, so between two steps the ends of a link may differ by a slot or  *)
(* by an exchange.                                                         *)
(***************************************************************************)
EXTENDS LinkBursts, UserPair

VARIABLES
  end,    \* the end of the link at each user
  phase,  \* "update", "execute" or "end" of a time slot
  todo    \* the users that still have to take their step in this phase

vars == << end, phase, todo >>

(* Slots to send in, slots to receive in, and the exchanges left *)
Ends == [status    : {"idle", "asking", "linked"},
         initiator : BOOLEAN,
         tx        : SUBSET (PP \X Slots),
         rx        : SUBSET (PP \X Slots),
         left      : 0 .. Timeout]

Unlinked(status) ==
  [status |-> status, initiator |-> FALSE, tx |-> {}, rx |-> {}, left |-> 0]

NoLink == Unlinked("idle")
Asking == Unlinked("asking")

TypeOK ==
  /\ end \in [Users -> Ends]
  /\ phase \in {"update", "execute", "end"}
  /\ todo \in SUBSET Users

Init ==
  /\ end = [u \in Users |-> NoLink]
  /\ phase = "execute"
  /\ todo = Users

-----------------------------------------------------------------------------
Turn(u, ph) == phase = ph /\ u \in todo

Done(u) ==
  /\ todo' = IF todo = {u} THEN Users ELSE todo \ {u}
  /\ phase' = IF todo # {u} THEN phase
              ELSE CASE phase = "update" -> "execute"
                     [] phase = "execute" -> "end"
                     [] phase = "end" -> "update"

Later(bursts) == {<<b[1], b[2] - 1>> : b \in {d \in bursts : d[2] > 0}}

Passed(e) == [e EXCEPT !.tx = Later(@), !.rx = Later(@)]

(* A slot passes. *)
Pass(u) ==
  /\ Turn(u, "update")
  /\ end' = [end EXCEPT ![u] = Passed(@)]
  /\ Done(u)

(* The user sends; what it promises in a broadcast it has promised before. *)
Talk(u) ==
  /\ Turn(u, "execute")
  /\ Done(u)
  /\ UNCHANGED end

(* The link of a request whose first burst lies at start, at its recipient *)
Accepted(c, start) ==
  [status |-> "linked", initiator |-> FALSE,
   tx |-> {c} \X RxBursts(start), rx |-> {c} \X TxBursts(start), left |-> Timeout]

Mirror(e) == [e EXCEPT !.initiator = ~@, !.tx = e.rx, !.rx = e.tx]

Now(bursts) == \E b \in bursts : b[2] = 0

(* An exchange ends with the initiator's reception. *)
ExchangeEnds(e) ==
  e.status = "linked" /\ Now(IF e.initiator THEN e.rx ELSE e.tx)

(* A user that broadcasts does not send in its link. *)
Heard(u) ==
  LET v == Peer(u)
  IN  {end[u]}
      \cup (IF end[v].status = "asking"
            THEN {Accepted(c, s) : c \in PP, s \in {x \in Slots \ {0} : InHorizon(x)}} ELSE {})
      \cup (IF end[v].status = "linked" /\ ~end[v].initiator /\ ~Now(end[v].tx)
            THEN {Mirror(end[v])} ELSE {})

(* The slot ends for an end of the link: an exchange is counted, the link  *)
(* is over after its last one, and a user may start or stop asking.        *)
Counted(e) ==
  IF e.status = "linked"
  THEN IF ~ExchangeEnds(e) THEN {e}
       ELSE IF e.left > 1 THEN {[e EXCEPT !.left = @ - 1]}
       ELSE {NoLink, Asking}
  ELSE {NoLink, Asking}

Close(u) ==
  /\ Turn(u, "end")
  /\ \E e \in UNION {Counted(h) : h \in Heard(u)} : end' = [end EXCEPT ![u] = e]
  /\ Done(u)

(* The upper layer has data for the peer. *)
Ask(u) ==
  /\ todo = Users
  /\ end[u].status = "idle"
  /\ end' = [end EXCEPT ![u] = Asking]
  /\ UNCHANGED << phase, todo >>

Next == \E u \in Users : Pass(u) \/ Talk(u) \/ Close(u) \/ Ask(u)

Spec == Init /\ [][Next]_vars

-----------------------------------------------------------------------------
(* Properties *)

(* An end of the link once the phase is over for every user *)
Slotted(u) == IF phase = "update" /\ u \in todo THEN Passed(end[u]) ELSE end[u]

LeftAfter(u) ==
  IF phase = "end" /\ u \in todo /\ ExchangeEnds(end[u]) THEN end[u].left - 1 ELSE end[u].left

(* Both ends of a link use the same slots in opposite directions and have  *)
(* the same number of exchanges left, in every phase of every slot: what   *)
(* the rules of this module are for.                                       *)
Agreement ==
  \A u, v \in Users :
    /\ u # v
    /\ end[u].status = "linked" /\ end[u].initiator
    /\ end[v].status = "linked"
    => /\ ~end[v].initiator
       /\ Slotted(u).tx = Slotted(v).rx
       /\ Slotted(u).rx = Slotted(v).tx
       /\ LeftAfter(u) = LeftAfter(v)
=============================================================================
