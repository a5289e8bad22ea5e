------------------------------ MODULE DutyCycle ------------------------------
(***************************************************************************)
(* The duty-cycle budget of one user: how much of its airtime the point-   *)
(* to-point links take, what is left to the shared channel, how far apart  *)
(* broadcasts must be and which period a new link may have (DutyCycle, and *)
(* its callers in SHLinkManager and MCSOTDMA_Mac).                         *)
(*                                                                         *)
(* A budget, a double in the code, is a number of units: One units are a   *)
(* transmission in every slot.  Only at equality can the rounding of the   *)
(* doubles change an answer; getOffsetSH and MinPeriods, where it does, are*)
(* the sets of both answers.                                               *)
(***************************************************************************)
EXTENDS Integers, FiniteSetsExt

CONSTANTS
  One,            \* the budget 1.0
  MaxDuty,        \* max_duty_cycle
  MinBudget,      \* the literal 0.01
  MinLinks,       \* min_num_supported_pp_links
  Peers,          \* MacIds of possible peers; link_managers is ordered by them
  Timeout,        \* getDefaultPPLinkTimeout()
  NumCandidates,  \* candidate slots a broadcast is chosen from
  Horizon         \* planning_horizon

VARIABLES
  strategy,       \* DutyCycleBudgetStrategy, a setting of the simulation
  links,          \* period and remaining timeout, zero for no link, per peer
  next_broadcast, \* next_broadcast_slot
  failed          \* an exception was thrown

vars == <<strategy, links, next_broadcast, failed>>

Periods   == 0 .. 5
FairShare == MaxDuty \div (MinLinks + 1)

(* The spacing of a link of period p is 10 * 2^p slots.                    *)
Spacing(p) == 10 * 2^p

ASSUME DutyCycleAssumption ==
  /\ {One, MaxDuty, MinBudget, MinLinks, Timeout, NumCandidates, Horizon} \subseteq Nat \ {0}
  /\ Peers \subseteq Nat \ {0} /\ IsFiniteSet(Peers) /\ Peers # {}
  /\ MaxDuty % (MinLinks + 1) = 0 /\ FairShare > MinBudget
  /\ One = 100 * MinBudget /\ \A p \in Periods : One % Spacing(p) = 0
------------------------------------------------------------------------------
Link   == [period : Periods, timeout : 0 .. Timeout]
NoLink == [period |-> 0, timeout |-> 0]

(* PPLinkManager::isActive *)
Active == {i \in Peers : links[i] # NoLink}
NumActive == Cardinality(Active)

(* getNumTxPerTimeSlot of a link                                           *)
LinkBudget(p) == One \div Spacing(p)

(* getUsedPPDutyCycleBudget: one entry per active link.                    *)
Used == MapThenSumSet(LAMBDA i : LinkBudget(links[i].period), Active)

(* getSHBudget: with links still to come, a share is held back for the     *)
(* next of them.                                                           *)
SHBudgetThrows == strategy = "DYNAMIC" /\ MaxDuty - Used =< MinBudget

getSHBudget ==
  IF strategy = "STATIC" THEN FairShare
  ELSE MaxDuty - Used - (IF NumActive < MinLinks THEN FairShare ELSE 0)

(* The reciprocal, rounded down by the conversion to int.  When it is a    *)
(* whole number it depends on the error of the doubles whether it counts   *)
(* as a bit less.                                                          *)
getOffsetSH ==
  LET d == One \div getSHBudget
  IN  {Max({1, o}) : o \in {d} \cup {c \in {d - 1} : One = d * getSHBudget}}

\* Mutant: rounded down.
MinPeriodsRoundedDown(budget) == {CHOOSE p \in Periods :
  One >= Spacing(p) * budget /\ One < Spacing(p + 1) * budget}

(* log2 of the reciprocal, rounded up.  When it is a whole number it       *)
(* depends on the error of the doubles whether it counts as a bit more.    *)
MinPeriods(budget) ==
  LET p == Min({q \in Periods : One =< Spacing(q) * budget})
  IN  {p} \cup {q \in {p + 1} : One = Spacing(p) * budget}

(* What getPeriodicityPP_DYNAMIC has for a new link at present: the shared *)
(* channel is granted its share if the last supported link is to come.     *)
Available ==
  LET fair == NumActive >= MinLinks - 1 /\ getSHBudget < FairShare
  IN  MaxDuty - (IF fair THEN FairShare ELSE getSHBudget) - Used

(* The budgets that become free, soonest first, and among equals in the    *)
(* order of the vectors: links by id, the next broadcast last.             *)
Entries(sh_offset) ==
  {[timeout |-> links[i].timeout, at |-> i, budget |-> LinkBudget(links[i].period)] : i \in Active}
    \cup {[timeout |-> sh_offset, at |-> Max(Peers) + 1, budget |-> getSHBudget]}

NotAfter(e, f) == e.timeout < f.timeout \/ (e.timeout = f.timeout /\ e.at =< f.at)

FreeBy(entries, e) ==
  Available + MapThenSumSet(LAMBDA f : f.budget, {f \in entries : NotAfter(f, e)})

Suffices(sh_offset) == {e \in Entries(sh_offset) : FreeBy(Entries(sh_offset), e) >= MinBudget}

(* getPeriodicityPP: the offsets and periods it may return, none where it  *)
(* throws no_duty_cycle_budget_left_error.                                 *)
getPeriodicityPP(sh_offset) ==
  CASE strategy = "STATIC" -> {0} \X MinPeriods(FairShare)
    [] strategy = "DYNAMIC" /\ Available >= MinBudget -> {0} \X MinPeriods(Available)
    [] OTHER ->
         UNION {{e.timeout + 1} \X MinPeriods(FreeBy(Entries(sh_offset), e)) :
                  e \in {f \in Suffices(sh_offset) : \A g \in Suffices(sh_offset) : NotAfter(f, g)}}

(* getPPMinOffsetAndPeriod, with its two exceptions.                       *)
CanOffer(sh_offset) == ~ SHBudgetThrows /\ getPeriodicityPP(sh_offset) # {}

\* Mutants: the shared channel is not counted; nor are the other links.
conformantWithoutSH(p) == Used + LinkBudget(p) =< MaxDuty

conformantAlone(p) == getSHBudget + LinkBudget(p) =< MaxDuty

isPPLinkDutyCycleConformant(p) == getSHBudget + Used + LinkBudget(p) =< MaxDuty

------------------------------------------------------------------------------
Init ==
  /\ strategy \in {"STATIC", "DYNAMIC"}
  /\ links = [i \in Peers |-> NoLink]
  /\ next_broadcast = 0
  /\ failed = FALSE

(* SHLinkManager::onSlotStart *)
SlotStart ==
  /\ ~ failed /\ next_broadcast > 0
  /\ next_broadcast' = next_broadcast - 1
  /\ UNCHANGED <<strategy, links, failed>>

(* onTransmissionReservation: periods for the pending requests, if any,    *)
(* then the next broadcast, then a period for the advertised proposals.    *)
BroadcastThrows(requests) ==
  \/ SHBudgetThrows
  \/ requests /\ ~ CanOffer(0)
  \/ \E offset \in getOffsetSH : offset > Horizon

Broadcast ==
  /\ ~ failed /\ next_broadcast = 0
  /\ \E requests \in BOOLEAN, offset \in getOffsetSH : \E next \in offset .. offset + NumCandidates - 1 :
       IF BroadcastThrows(requests) \/ ~ CanOffer(next)
       THEN failed' = TRUE /\ UNCHANGED next_broadcast
       ELSE next_broadcast' = next /\ UNCHANGED failed
  /\ UNCHANGED <<strategy, links>>

(* A link request or reply with a proposal of period p arrives from a      *)
(* peer; if the link conforms, acceptLink replaces what there was.         *)
ReceiveProposal(i, p) ==
  /\ ~ failed
  /\ IF SHBudgetThrows
     THEN failed' = TRUE /\ UNCHANGED links
     ELSE /\ isPPLinkDutyCycleConformant(p)
          /\ links' = [links EXCEPT ![i] = [period |-> p, timeout |-> Timeout]]
          /\ UNCHANGED failed
  /\ UNCHANGED <<strategy, next_broadcast>>

\* Mutant: an expired link stays active.
EndExchangeKeepsLink(i) ==
  /\ ~ failed /\ i \in Active
  /\ links' = [links EXCEPT ![i].timeout = @ - 1]
  /\ UNCHANGED <<strategy, next_broadcast, failed>>

(* decrementTimeout and onTimeoutExpiry of a link                          *)
EndExchange(i) ==
  /\ ~ failed /\ i \in Active
  /\ links' = [links EXCEPT ![i] = IF @.timeout = 1 THEN NoLink
                                  ELSE [period |-> @.period, timeout |-> @.timeout - 1]]
  /\ UNCHANGED <<strategy, next_broadcast, failed>>

Next ==
  \/ SlotStart
  \/ Broadcast
  \/ \E i \in Peers, p \in Periods : ReceiveProposal(i, p)
  \/ \E i \in Peers : EndExchange(i)

Spec == Init /\ [][Next]_vars
------------------------------------------------------------------------------
(* Every active link has an exchange left, and the countdown fits the      *)
(* tables.                                                                 *)
TypeOK ==
  /\ strategy \in {"STATIC", "DYNAMIC"}
  /\ links \in [Peers -> Link]
  /\ next_broadcast \in 0 .. Horizon + NumCandidates
  /\ failed \in BOOLEAN
  /\ \A i \in Active : links[i].timeout > 0

(* However links are requested, replaced and expire: a budget is found at  *)
(* every broadcast for the broadcasts and for the links it offers, and the *)
(* next one lies within the horizon (none of the exceptions of DutyCycle   *)
(* and scheduleBroadcastSlot is thrown).                                   *)
NoFailure == ~ failed

(* The links together never take the airtime of which the shared channel   *)
(* was promised its share, although each is accepted on its own and with a *)
(* period its peer chose (isPPLinkDutyCycleConformant).                    *)
FairShareKept == Used + FairShare =< MaxDuty

(* A user accepts what it offers: as long as it has fewer links than it    *)
(* must support, none greedier than a share, the period computed for its   *)
(* requests passes the test it applies to the reply, whenever that comes   *)
(* (getPeriodicityPP against isPPLinkDutyCycleConformant).                 *)
OfferFits ==
  NumActive < MinLinks /\ (\A i \in Active : LinkBudget(links[i].period) =< FairShare)
    => \A offer \in getPeriodicityPP(next_broadcast) : isPPLinkDutyCycleConformant(offer[2])
==============================================================================
