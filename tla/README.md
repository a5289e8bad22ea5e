# MCSOTDMA in TLA+

A specification of the MAC layer in this repository (Multi-Channel
Self-Organized TDMA for the LDACS air-air mode): how a user reserves its
broadcast slot, how two users negotiate point-to-point links over their
broadcasts, and how a third user keeps out of the way of the links it hears of.
TLC checks small instances of every module. TLAPS proves, for all values of the
constants, the safety properties of the broadcast slot, of several users that
hear each other (each of which implements the specification of one), of the
links of third parties, of the duty cycle and of the bookkeeping of a link's two
ends, and that the contract between these keeps them in agreement.

## 1. The system

One object tree per user; the simulator drives it with three calls per time
slot: `MCSOTDMA_Mac::update` (time moves on), `execute` (reservations of the
current slot are carried out, packets are sent) and `onSlotEnd` (received
packets are processed, timers are counted). There are no threads: the hard part
is the *order* of these callbacks, the bookkeeping that several components keep
about the same slots relative to a moving origin, lost and colliding packets,
and two peers whose views of a link must match without any further message.

| Component | State | Operations | Interacts with | What makes it correct |
|---|---|---|---|---|
| Reservation tables (`ReservationTable`, `Reservation`, `ReservationMap`) | one action and user per slot, for the shared channel, each point-to-point channel, the transmitter and each receiver; maps of what a component has locked or scheduled | `mark` (forwards to the hardware tables), `lock`, `unlock_either_id`, `unschedule`, `update`, searches | every component below shares them | one transmission per slot; hardware tables agree with the channels; whatever is taken is given back |
| Reservation manager, burst computation (`ReservationManager`, `SlotCalculator`, `LinkProposalFinder`) | the set of tables | `scheduleBursts`, `isLinkValid`, `findLinkProposals` | tables | proposals are usable by both ends; both ends compute the same bursts |
| Shared-channel link manager (`SHLinkManager`) | countdown to the next broadcast, queues of link requests and replies | `onSlotStart`, `onTransmissionReservation`, `processBroadcastMessage`, collision handling | tables, neighbour observer, point-to-point managers, third-party links | the countdown and the tables agree; never in a neighbour's slot; broadcasts go on |
| Point-to-point link manager (`PPLinkManager`) | status, attempts, timeout, locked and scheduled slots | `notifyOutgoing`, `establishLink`, `acceptLink`, `cancelLink`, `onSlotEnd` | shared-channel manager (requests, replies), tables | locks only while a reply is awaited; both ends agree; every attempt ends; all slots are returned |
| Third-party links (`ThirdPartyLink`) | status, two lock maps, busy map, two countdowns, the proposal | request, reply, `onAnotherThirdLinkReset`, `reset`, `onSlotEnd` | tables, each other through the MAC | nothing locked or busy that nobody will give back; no countdown passes zero |
| MAC (`MCSOTDMA_Mac`), physical layer (`MCSOTDMA_Phy`) | link managers, packets received in this slot | `update`, `execute`, `onSlotEnd` | all | at most one transmission per slot, no more receptions than receivers |
| Neighbour observer (`NeighborObserver`) | advertised broadcast slots and proposals, last-seen counters and averages | reports, `onSlotEnd` | shared-channel manager | what it says of a neighbour is current |
| Duty cycle (`DutyCycle`) | strategy; the budgets in use are those of the active links | `getSHBudget`, `getOffsetSH`, `getPeriodicityPP`; callers accept a link or not | managers | the shared channel keeps its share; a budget is always found; a user accepts what it offers |
| Moving average, frequency channels, positions, beacon payload | plain data | | | |
| `OldPPLinkManager` | legacy, not named in `CMakeLists.txt` | | | |

The behaviours that are hard to test are listed as `hazards` in `PROJECT.json`,
each at its line.

## 2. Modules

```
ReservationTable                tables of one user and the operations on them
 |- SharedChannel               methods of SHLinkManager for the broadcast slot
 |   |- SharedChannel_proofs    lemmas about these, about tables and about loops
 |   |- BroadcastSlot           one user, its neighbours, its links' bursts
 |   |    |- BroadcastSlot_proofs
 |   |    |- MCBroadcastSlot
 |   |- Neighbourhood           several users that hear each other's broadcasts
 |        |                     (with NeighborObserver; implements BroadcastSlot)
 |        |- Neighbourhood_proofs
 |        |- MCNeighbourhood
 |- LinkBursts                  bursts, validity, proposals, scheduleBursts
 |   |- ThirdPartyLink          links of others, as one user sees them
 |   |    |- ThirdPartyLink_proofs
 |   |    |- MCThirdPartyLink
 |   |- PPLinkManager           methods of the manager of one link
 |        |- SHLinkManager      methods for requests and replies (with SharedChannel)
 |             |- LinkEstablishment   two users and their link (with UserPair)
 |             |    |- LinkEstablishment_proofs
 |             |    |- MCLinkEstablishment
 |             |- LinkRequests        one user and several peers
 |                  |- LinkRequests_proofs
 |                  |- MCLinkRequests
 |- UserPair                    the two users of a link
      |- LinkContract           what the two ends promise (with LinkBursts);
           |                    LinkEstablishment implements it
           |- LinkContract_proofs
DutyCycle                       budgets of one user's links and broadcasts
 |- DutyCycle_proofs
 |- MCDutyCycle
```

**Conventions.** A slot is named by its offset to the current one, as in the
code; time passes by shifting the tables. All tables of a user are one function
`tables \in [Tables -> [Slots -> Reservation]]`. An exception ends the
simulation, so `failed` records the first one and no step follows; the runs that
can reach one say `CHECK_DEADLOCK FALSE`. A `ReservationMap` is a set of
`<<table, offset>>`; an entry whose slot has passed has no effect in the code
and is dropped. Methods that choose at random return the set of their results.
The methods of a class are operators on a record of the fields they use, so that
different state machines share them. Variables that the code does not have
(`fresh`, `history`, `offered`, `due`, `late`) are marked; they influence nothing.

**ReservationTable.** `Mark` follows `ReservationTable::mark` with the
forwarding to the hardware: every `TX`, and every `TX` that becomes idle,
reaches the transmitter's table; for receivers the code looks for an *idle* one
in both cases. `CanMark` is false where it throws. `Lock`, `UnlockAll`,
`UnscheduleAll` act on single tables as the code does. The past half of the
table and the idle-slot counter are left out.

**SharedChannel** holds the methods on a record of tables, countdown, flag and
exception; **BroadcastSlot** is the state machine of one user. `SlotStart`,
`Execute`, `ProposeLocalLinks`, `Transmit`, `ProcessBroadcast` and `SlotEnd` are
the handlers in the order of the MAC; `NotifyOutgoing` is the upper layer. The
point-to-point links of the same user are represented by what they do to single
slots (`ScheduleBurst`, `UnscheduleBurst`, `LockTxBurst`, `LockBurst`,
`UnlockBurst`, `ThirdPartyBusy`, `ThirdPartyFree`), with the checks of the code
as guards but in any order: a superset of what they do. Neighbours may advertise
anything.

**Neighbourhood** puts real users in the place of these neighbours: each has the
methods of `SharedChannel` and those of **NeighborObserver**, and the stages
`update`, `execute` and `onSlotEnd` are taken by every user in each slot. What a
user advertises in `Transmit` is what others hear in `Receive`, if they were
tuned to the channel (`Tuned`), and if this packet of those sent in the slot
reached them. Of two broadcasts in a slot the physical layer processes the
strongest or none, which is the choice of `v` and whether to receive. There are
no links; requests for them occur, because whoever overhears one expects the
reply in a slot (`reportThirdPartyExpectedLinkReply`). For every user the module
implements `BroadcastSlot` (`Of(u)`): the neighbours assumed there can do
everything that real ones do, and what is proved there holds for each user here.

**LinkBursts.** A link has one forward and one reverse burst per exchange (all
callers ask for that) and `Timeout` exchanges, `Increment` slots between bursts.
A proposal whose bursts would leave the horizon is rejected, as in the code,
where the table refuses the query.

**ThirdPartyLink.** One record per unordered pair, with the three maps, the two
countdowns and the normalisation offset. `ReceiveRequest` resets the link and
then processes every proposal; `ReceiveReply` unlocks, schedules and sets the
expiry; `SlotEnd` visits the links in any order (the code iterates over a map)
and a reset lets the others take what it gave back. `ReserveOwn` is one slot of
the user's own `scheduleBursts`, which may take what is idle and also what is
`BUSY` because of the peer it is for; `ReleaseOwn` returns one. `history` notes
the four irregular things that the properties are conditional on (section 3).

**PPLinkManager** and **SHLinkManager** are the methods around a link: requests
with proposals, locks, acceptance, replies, timeouts and expiry, and how
`processBroadcastMessage` reads a packet. Two state machines use them.

**LinkEstablishment.** Two users with everything that takes part in a link:
tables, broadcast slot, request and reply queues, what is known of the peer, and
its manager. `Update`, `Execute` and `SlotEnd` are taken by every user in
each time slot; within a phase a user touches its own state only, so the order
of users is fixed. A packet is lost when both send, or at random. Others may
claim broadcast slots (`Claims`) or take receptions (`OtherReception`).
The duty cycle's verdict on a link is left open (`Conformant`); the offset it
gives for a new one is zero.

**LinkContract** is what the two ends promise each other, with nothing of how:
a link is accepted only from a peer that is asking, confirmed only by mirroring
the peer's slots, and given up with its last exchange and not before. An end is
`idle`, `asking` or `linked`. `LinkEstablishment` of two users alone implements
it (`ImplementsContract`): `EndOf` reads an end from the manager's status, the
bursts in the tables and the timeout.

**LinkRequests.** One user with several peers: one manager for each, one queue
of requests, one of replies. What peers send is any packet that could reach the
user: a claim, and besides a request, the reply to what was `offered`, or an
advertised link. The loop of `SHLinkManager.cpp:48` iterates over
`link_requests` while its body erases from it, which is undefined behaviour. The
model keeps what the builds do: `std::vector::erase` moves the elements behind
the erased one to the left and leaves the last where it was, and the loop reads
the same memory up to its old end (`AddRequest`, `AfterErase`).

**DutyCycle.** Both strategies, for the links and broadcasts of one user. Budgets
are integers: `One` units are a transmission in every slot, so that shares and
the budgets of all periods are whole numbers. The code's doubles can differ from
them only at equality. No comparison of budgets is ever between equal numbers
with the constants chosen (the links' budgets are multiples of 15 units; the
share, 160, the minimum, 48, and what is left of the limit with them are not),
but quotients can be whole: `getOffsetSH` and `MinPeriods` allow both results
then (0.0125, what one of four links frees, gives period 4 in doubles, 0.05
gives 1). `links` holds period and timeout of each
active link; `ReceiveProposal` is the reception of a request or a reply with any
period, `EndExchange` counts an exchange of a link, `Broadcast` asks for periods
and the distance to the next broadcast in the order of
`onTransmissionReservation`. The loop of `getPeriodicityPP_DYNAMIC` that frees
budgets one by one is written as the first entry, in the loop's order, by which
enough is free. The measured duty cycle, fixed periods and
`shouldConsiderDutyCycle() == false` are left out.

## 3. What the runs check

| Run | Question | Answer |
|---|---|---|
| `broadcast_links` | Can broadcast and links, taking and returning slots independently, promise a slot twice, lose the reserved broadcast or make a check throw? Can the broadcast stay in an advertised slot? | no |
| `broadcast_receiver` | Is a receiver taken only by a reception that exists? | **violated**: a cancelled reception keeps its receiver (`ReservationTable.cpp:94`) |
| `neighbourhood` | Three users whose broadcasts are lost, collide and displace each other: can two send in one slot although one knows the other to be there? Is what a user expects of a neighbour what that neighbour has reserved? Are silent neighbours forgotten, and does everybody go on broadcasting? Is each user one of `BroadcastSlot`? | no; yes, unless displaced for ever |
| `third_party` | Two pairs with a common user and the user's own links compete: is every lock and every busy slot remembered by who returns it, does nothing stay busy after the last burst, can a countdown or an unscheduling throw, is every link given up? | yes, but for the irregular cases below |
| `third_party_lifetime` | Does nothing stay busy after the last burst, whatever happens? | **violated**: scheduled from the offset of an earlier slot (`ThirdPartyLink.cpp:278`) |
| `establishment_pair` | Two users alone: can a check throw, can the two ends differ in slots, directions or timeout, can a burst be left over? Does every attempt end, does every link expire? Are these the steps of `LinkContract`? | no; yes |
| `establishment_others` | With third users: locks only while a reply is awaited, replies only for a link, requests queued exactly while waiting, ends agree unless the reply was late | yes |
| `establishment_late` | Do the ends agree if third users claim slots? | **violated**: the offset in a queued reply is not corrected when the broadcast moves (`SHLinkManager.cpp:615`) |
| `establishment_receiver` | Is the receiver that a request needs kept for it? | **violated**: the channel's table is locked twice, the receiver's never (`PPLinkManager.cpp:259`) |
| `link_requests` | One user, two peers: is what was offered to one kept for it whatever the other does, do links share no slot, do queues and managers match, does a broadcast carry every request it can? | yes |
| `link_requests_repeated` | ... with three peers: is what was offered kept? | **violated**: the loop reads behind what it erased, asks one peer twice and undoes the locks of its offer (`SHLinkManager.cpp:48`) |
| `duty_cycle` | Whatever links are requested, replaced and expire: does the shared channel keep its share, is a budget always found, does a user accept what it offers? | yes |

`BothEndsAgree`, `NoFailure` and `ImplementsContract` of `establishment_pair` are
claims about two users alone. With third users the first fails
(`establishment_late`) and the weaker `AgreeUnlessLate` is what remains.

**What `third_party` is conditional on.** Four of its invariants are not true
without exception, and each names the one cause that breaks it, in `history`:

- `NoOrphanLock`, unless `late_locks`: locks made when *another* link was reset,
  some slots after the request, are remembered under an offset that is
  normalised twice (`ThirdPartyLink.cpp:270`).
- `BusyWithinLifetime`, unless `late_busy`: the same for the bursts of an
  established link (`ThirdPartyLink.cpp:278`); `third_party_lifetime` shows the
  trace.
- `NoOrphanBusy`, unless `replaced`: a second `scheduleIfPossible` without a
  reset in between replaces the map of busy slots
  (`ThirdPartyLink.cpp:250`, `:278`), and the first ones are not returned.
- `NoFailure`, unless `overwritten`: the user's own link took a slot that was
  `BUSY` because of its peer, and the third-party link finds no `BUSY` there when
  it unschedules (`ThirdPartyLink.cpp:79`); `unschedule` throws then. No
  countdown ever passes zero, overwritten or not.

`link_requests` has two peers because with two the erased loop happens to do the
right thing: what it finds behind the erased end is a copy of the one element it
has not processed yet. With three it finds the last one twice and skips one.

**Bounds.** The horizon is 3 to 7 slots where the code has 2048 or so: what the
properties need is room for a whole link (first to last burst), its request and
its reply, and slots beside them. `establishment_pair` has two exchanges per
link (`Timeout = 2`), so a timeout is decremented more than once, and a horizon
of 7 leaves several start slots; the other instances have one exchange and the
smallest horizon in which two links can collide. `link_requests_repeated` needs
a horizon of 7 for three offers at once on one channel. `MaxAttempts` is 2 or 3
(5 in the code): with 2 the first repetition gives up, with 3 one is sent.
`MaxBursts`, `MaxOthers` and `MaxOwnBursts` bound slots taken by links that are
not modelled; two channels and one receiver are the least for which bursts
compete for the hardware. `NumCandidates` (a probability computation in the
code) is 1 to 3; from 2 on the choice is real. `MinOffsets` stands for the duty
cycle. `Claims`, `StartSlots`, `ReplyOffsets` and `MaxProposals` bound what the
packets of others say. `third_party` has slots for a request with two proposals
that overlap, and one own burst, so that all of `Irregular` occurs.
`neighbourhood` has three users, the least for which one can displace another
behind a third's back, four slots, and forgets a neighbour after three
(`max_last_seen_val`, 50 000 slots in the code), so that neighbours are forgotten while
their advertisement still counts down; one user asks for links (`Askers`).
`duty_cycle` has the code's 10 % and 1 % and two links to support (four in the
default), with four peers, so that the static strategy passes the number to
support; all periods that the budgets can ask for occur, and two exchanges per
link let timeouts be equal and different.

**Fairness.** Only the clock is fair: the simulator calls `update`, `execute`
and `onSlotEnd` of every user for ever, and the handlers return. `Neighbourhood`,
`LinkEstablishment` and `ThirdPartyLink` state it (`FairSpec`) by what those
actions do to `phase` or `stage` (and `todo`), which no other action does,
because TLC computes ENABLED of whole handlers slowly. It says the same as
fairness of the actions, since a handler is always enabled when its turn comes.
Nothing is assumed of the channel or of neighbours: packets may be lost
for ever. `AttemptEnds` assumes that a user gets to send again and again: a peer
could advertise, each time, the slot this user has just chosen; the random choice
among candidates makes that improbable for ever, and a nondeterministic model
cannot say so. `BroadcastsGoOn` states the same exception as a disjunct.
`LinksExpire` assumes that requests eventually stop; a user with endless data
re-establishes its link. `SilentForgotten` assumes that the neighbour is not
heard any more from some time on.

## 4. What is proved

All theorems hold for any sets of channels, receivers and users, any horizon, and
any values of the other constants that satisfy the named assumptions of the
modules; where one needs more, its statement says so. Every safety theorem comes
from an inductive invariant that TLC checked on the run's instance first.

| Module | Theorems `Spec => []P` for P = |
|---|---|
| `BroadcastSlot_proofs` | `TypeOK`, `OneTransmission`, `BroadcastReserved`, `NeverOnAdvertised`, `NoFailure` |
| `Neighbourhood_proofs` | `TypeOK`, `KnownAreActive`, `ExpectedRight`, `HeardNeverCollide`; and `Spec => ImplementsBroadcastSlot` |
| `ThirdPartyLink_proofs` | `TypeOK`, `NoOrphanLock`, `NoOrphanBusy`, `BusyWithinLifetime`, `NoFailure` |
| `LinkEstablishment_proofs` | `TypeOK`, `LocksAwaitReply`, `BurstsOfLink`, `ReplyForLink`, `RequestQueued` |
| `LinkRequests_proofs` | `TypeOK`, `SlotsOfLinks`, `QueuesOfLinks`; with two peers `OffersHeld`, `RequestsAttached` |
| `LinkContract_proofs` | `TypeOK`, `Agreement` |
| `DutyCycle_proofs` | `TypeOK`, `FairShareKept`, `NoFailure`, `OfferFits` |

**Tables and loops** (`SharedChannel_proofs`). What
`Mark` does to the channels and to the hardware (`MarkEffect`), and that the three
kinds of mark that occur (to idle, a transmission into a free slot, anything else)
keep `OneTx`: hardware and channels record the same transmissions. Then one lemma
per method of `SharedChannel` (`Unschedule`, `Schedule`, `Collision`,
`ExpectedReply`, `AdvertisedSlot`, `SlotStartEffect`, `Listen`), stated for a
record with any further fields, so that the states of `BroadcastSlot`,
`Neighbourhood` and `LinkEstablishment` can all use them.
The loops of the code are recursive functions in the modules. A recursive
definition is a `CHOOSE`, so it must be shown to exist, and what it computes is
shown by induction. The library's induction theorems take an operator; here
induction is derived for *sets* (`NatSets`) from the well-foundedness of `<`, and
from it that a loop's function exists (`Iteration`, `LoopExists`) and that what
each turn keeps holds in the end (`LoopKeeps`).

**One user's broadcast slot.** `BroadcastReserved` is not inductive: that the
broadcast keeps its slot needs the transmitter's table to record exactly the
promised slots, or a link's burst could be marked on top of it; and that a link's
`mark` never throws half-way needs hardware tables that are never `BUSY`. `IInv`
adds these. For `NeverOnAdvertised` it says what the two countdowns, of which one
moves at the start of a slot and the other at its end, have to do with the tables:
where a neighbour is expected, the shared channel is marked for reception, so
nothing else is chosen there. `NoFailure` has two assumptions of its own:
`IsFiniteSet(RxTables)` and `NumReceivers > Cardinality(RxTables)`.
`MCSOTDMA_Mac` has two receivers (`MCSOTDMA_Mac.hpp:272`) and the physical layer
one receiver table (`MCSOTDMA_Phy.cpp:26`): the shared channel is listened to
without one. The invariant for it counts: in each slot there are no more link
receptions than receiver tables that record one.

**Users among each other.** `HeardNeverCollide` holds at the end of each phase,
while the users step one after the other. The invariant (`NInv`) says where the
slot that a user advertised lies in the tables of another, depending on which of
the two has been updated yet (`Position`), and that the other has that slot marked
(`FreshRight`). A packet counts as heard until its sender moves; that its sender
cannot move while the packet is on its way needs `PacketsRight`: it does not
listen in the slot in which it sends. `Implementation` maps every step of every
user to a step of `BroadcastSlot` for it, or to a stutter (`StepImplements`, from
one lemma per action), so the theorems of `BroadcastSlot_proofs` hold for each
user among real neighbours as well.

**Links of others.** The invariant is one predicate on a record of the variables
(`Sound`), which each method of `ThirdPartyLink` keeps, so that it can be carried
through the loop over the links (`NotifySound`, `VisitedSound`) whatever the
order. It needs what the fields of a link have to do with its status (`Shape`);
that locks carry the name of a user of the pair, without which `unlock_either_id`
would leave them; and, for `NoFailure`, that no two links hold the same slot busy
(`BusyHeld`). During a reply or a reset the lifetimes are wrong until the link has
scheduled anew, so they are kept apart (`Ordered`, `LivesTo`). Between two time
slots no countdown is at zero (`Due`), which is why none passes it.

**The two ends of a link.** `LinkEstablishment_proofs` has one lemma per method of
`PPLinkManager` and `SHLinkManager`, in the order in which they call each other,
on the state of one user (`Held`, of which `Good` is that of the broadcast slot):
`LocksRight`, `BurstsRight` and `QueuesRight` say that tables, remembered slots,
queues and status agree. That is not enough: `onTimeoutExpiry` forgets a link's
reservations instead of returning them, so `BurstsOfLink` needs that every burst
lies in the past when the timeout reaches zero. `CountRight` says so: there is a
start of the link such that all its bursts lie where `calculateAlternatingBursts`
puts them, and the exchanges that have been counted are over. Each end counts
another event, hence `Ending`. This holds whatever the other end does and whatever
is lost, for any timeout and increment. Typing holds always (`Typed`); the rest as
long as no handler has thrown, since a method that throws half-way leaves what it
had begun, and the program ends.

**Several links of one user.** The managers of `LinkRequests` share the tables of
their user, and each keeps its own map of what it has locked and scheduled.
`SlotsOfLinks` says that the maps and the tables agree, for any number of peers. What
carries it is that a manager leaves the others' slots alone (`Leaves`): every method
of `PPLinkManager` changes only slots that are idle or its own, so what was shown of
one manager stays true of the others while it works (`Held` for one, `AllRight` for
all). Lemmas follow the calls from `findLinkProposals` to the four phases of a time
slot; the loops over the managers and over `link_requests` are handled as above. The
second loop advances by index while `notifyLinkRequestSent` (`SHLinkManager.cpp:106`)
cancels the link and with it the request in the queue (`PPLinkManager.cpp:270`, `:363`),
so what a turn starts from is not what the turn before left at that index, and the
invariant of the loop (`AfterTurns`) speaks of a queue that may have become shorter
than the memory it is read from.
`OffersHeld` assumes two peers because it is false for three: the loop then passes over
a request, or reads past the end of the queue, and a stale offer can be sent
(`link_requests_repeated` shows it). With two peers the loop either finishes or has removed the only other
element, and what is offered is what the manager holds locked (`OInv`).
`RequestsAttached`, for two peers too, is about one step, the broadcast, but about the
whole loop in it: a peer found no slot in its turn, and then another manager cancels,
locks and schedules before the broadcast is sent. It rests on a second invariant of
the loop (`LoopAttached`: who is still queued is still to be read, or fits nowhere) and
on the tables only getting narrower meanwhile (`Narrower`). That is not obvious, since
every request begins by cancelling the link (`PPLinkManager.cpp:270`): it holds because
a manager in the queue holds neither locks nor bursts that could become free (`Tidy`),
and because the slot for the next broadcast is only sought when the last one has passed.

**The contract.** In the middle of a phase the two ends differ by a slot or by an
exchange, because the users step one after the other. `Agreement` therefore
compares the ends as they will be when the phase is over (`Slotted`, `LeftAfter`),
which makes it inductive together with the type invariant. The burden is in
`Close` (`CloseKeeps`): one end counts an exchange or ends while the other has yet
to, and a confirmation mirrors an end that has already counted or not. What the
code's users have to do with the contract is `ImplementsContract`, checked by TLC.

**The duty cycle.** `FairShareKept` is not inductive: that the links leave the
shared channel its share does not say that a budget is left for the next broadcast
while links are still to come. With the dynamic strategy the check of a new link
(`isPPLinkDutyCycleConformant`) passes only below `MinLinks` links, because what
remains is all counted for the shared channel, and only for a link that takes no
more than a share, because one is held back for it. Hence `LinksModest`: at most
`MinLinks` links, none greedier than a share, so that a share always remains for
the broadcasts (`SharedBudget`, `Offsets`). Budgets
in use are a sum over the active links; `MapThenSumSet` is unfolded to a recursive
sum that is shown to exist and to be unique, by induction on finite sets derived
as above (`FiniteSets`), and then to be monotone, to change by one term when a link
comes or goes, and to be bounded by the number of its terms. `OffersFound` shows
that the loop that frees links until one more fits always ends with an offer.
`NoFailure` assumes `One \div FairShare =< Horizon`: broadcasts as rare as a share
asks for must fit the planning horizon, which the code throws about otherwise. The
budgets are those of the named assumption: a share is a whole number of units and
more than the least budget, and the spacings divide `One`. Comparisons are exact
here; where budgets are equal the code's doubles may decide either way, which
section 2 rules out only for the constants of the run.

**Model-checked only.** The liveness properties (`BroadcastsGoOn`,
`SilentForgotten`, `LinksEnd`, `AttemptEnds`, `LinksExpire`), because liveness and
`ENABLED` are out of the prover's reach. Of `LinkEstablishment`, what relates the
two ends: `BothEndsAgree`, `AgreeUnlessLate`, `ImplementsContract`. These are claims
about the runs' bounds. We do not expect a proof for every value of the constants: a
user that had to give up a reception keeps it marked in its receiver's table
(`ReservationTable.cpp:94` returns only what the table of the link says), so after many
links the proposed start of the next can lie after the requester's next
broadcast, and a reply to it would be late, as in `establishment_late`. `NoFailure` of
`LinkEstablishment` and `LinkRequests`: `scheduleBursts` throws when a link does not
fit and a broadcast throws when it finds no candidate, so these hold only as long as
the tables have room.

## 5. Not modelled

- The idle-slot counter of a table (`ReservationTable.cpp:293`) and the order of
  the channels by it: it decides only in which order channels are searched and
  proposed, on which no property depends.
- The composition of `DutyCycle` with the broadcast slot and the links, where its
  answers are constants (`MinOffsets`, `Conformant`). Two of its traits are known
  and not stated as properties: at capacity the offered offset is computed from
  timeouts in exchanges, though `DutyCycle.hpp:79` says slots, and the offer can
  fail the test for a reply; and the distance between broadcasts is rounded down.
- The peers' own state in `LinkRequests`: they may send any packet, but no reply
  that is late (that is `LinkEstablishment`) and one thing per packet.
- The data of bursts, its ARQ and acknowledgements, DME, positions, and everything
  that is counted or averaged and never read by a decision: `MovingAverage`, the
  averages in `NeighborObserver`, link utilisations reported to peers, statistics. A link's bursts are modelled as slots that are
  taken and returned.
- `NeighborObserver::isActive` (`NeighborObserver.cpp:116`): it compares with `==` and so
  answers the opposite of what it is named for, but nothing in the repository calls it.
- `OldPPLinkManager`, which is not built.

## 6. Plan

Done: `ReservationTable`, `SharedChannel`, `BroadcastSlot` and its proofs;
`LinkBursts` and `ThirdPartyLink` with own links; `PPLinkManager`,
`SHLinkManager`, `LinkEstablishment`; `LinkContract`, its proofs and the
refinement; `NeighborObserver` and `Neighbourhood` with the refinement of
`BroadcastSlot`; `LinkRequests`; `DutyCycle`.

The proofs that section 4 lists are done. Next, proofs:

1. `BothEndsAgree` of `LinkEstablishment`, with an assumption on the horizon and the
   number of links that keeps every start before the requester's next broadcast.

Next, modelling:

1. `DutyCycle` with the slots of its links and broadcasts, to compare what is
   sent in a window with the limit; a run for offers at capacity.
2. The idle-slot counter, which `lock` and `unlock` do not move although `update`
   counts locked slots that pass, so that it drifts above the number of idle slots.

## 7. Running

`tlc -config MCBroadcastSlot_links.cfg MCBroadcastSlot` (and so on for each
`.cfg`); `tlapm` on each `*_proofs.tla` (`LinkEstablishment_proofs` and
`LinkRequests_proofs` take the longest, some minutes). Each property has a mutant: an operator defined before the one it varies, which states
a plausible mistake in that piece of code; with it in place TLC finds the
property violated.
