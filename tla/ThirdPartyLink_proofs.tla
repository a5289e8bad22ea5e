----------------------- MODULE ThirdPartyLink_proofs -----------------------
(***************************************************************************)
(* Proofs about ThirdPartyLink, for any pairs of users, channels, horizon, *)
(* and any start slots and bursts within it: what is locked or busy for    *)
(* others is remembered by the link that will return it, and no countdown  *)
(* passes zero, whatever the order in which the links are told of a reset. *)
(***************************************************************************)
EXTENDS ThirdPartyLink, SharedChannel_proofs, FiniteSetTheorems

States ==
  [tables : TB, links : [Links -> ThirdPartyLinks],
   failed : {"none", "reply_past_zero", "expiry_past_zero", "not_busy"},
   history : SUBSET Irregular]

Locks(k) == k.locks_initiator \cup k.locks_recipient
Due(k)   == k.until_reply = 0 \/ k.expiry = 0

(* The fields of a link agree with its status. *)
Shape(l, k) ==
  /\ k.initiator # UNSET_ID => k.initiator \in l /\ k.recipient \in l
  /\ k.initiator = UNSET_ID =>
       k.status = "uninitialized" /\ k.until_reply = UNSET /\ k.expiry = UNSET
  /\ k.status # "uninitialized" => k.normalization \in Nat /\ k.proposal \in Proposals
  /\ k.status = "received_reply_link_established" =>
       /\ k.selected_for \in l /\ k.expiry \in Slots
       /\ k.normalization = 0 => k.expiry = LastBurst(k.proposal.slot)

(* A lock is remembered by a link that may undo it. *)
LocksRemembered(st) ==
  "late_locks" \notin st.history =>
    \A c \in PP, s \in Slots :
      s > 0 /\ IsLocked(st.tables[c][s]) =>
        \E l \in Links : <<c, s>> \in Locks(st.links[l]) /\ st.tables[c][s].target \in l

BusyRemembered(st) ==
  "replaced" \notin st.history =>
    \A c \in PP, s \in Slots :
      s > 0 /\ IsBusy(st.tables[c][s]) => \E l \in Links : <<c, s>> \in st.links[l].scheduled

(* What a link holds busy is busy, and because of that link alone. *)
BusyHeld(st) ==
  "overwritten" \notin st.history =>
    \A l \in Links : \A e \in st.links[l].scheduled :
      /\ IsBusy(st.tables[e[1]][e[2]])
      /\ \A k \in Links \ {l} : e \notin st.links[k].scheduled

LivesTo(k) == k.status = "received_reply_link_established" =>
                \A e \in k.scheduled : e[2] =< k.expiry

FailedRight(st) ==
  st.failed = "none" \/ (st.failed = "not_busy" /\ "overwritten" \in st.history)

(* All but the lifetimes, which a link breaks until it has scheduled anew *)
Ordered(st) ==
  /\ st \in States
  /\ \A l \in Links : Shape(l, st.links[l])
  /\ LocksRemembered(st) /\ BusyRemembered(st) /\ BusyHeld(st)

Sound(st) ==
  /\ Ordered(st) /\ FailedRight(st)
  /\ "late_busy" \notin st.history => \A l \in Links : LivesTo(st.links[l])

(* The inductive invariant *)
IInv ==
  /\ Sound(Current)
  /\ phase \in {"between", "started", "received"}
  /\ phase = "between" /\ failed = "none" => \A l \in Links : ~Due(links[l])

-----------------------------------------------------------------------------
(* Lemmas about the data *)

(* The bursts of a proposal that ends within the horizon are slots no later*)
(* than its last burst, and stay so when the proposal gets older.          *)
LEMMA Bursts ==
  ASSUME NEW s \in Nat, InHorizon(s), NEW age \in Nat
  PROVE  /\ LastBurst(s) \in Slots
         /\ \A x \in TxBursts(s - age) \cup RxBursts(s - age) : x \in Slots /\ x =< LastBurst(s)
<1>1. Timeout \in Nat /\ Timeout >= 1 /\ Increment \in Nat /\ Horizon \in Nat
  BY BurstsAssumption, HorizonAssumption
<1> DEFINE last == (2 * Timeout - 1) * Increment
           At(k) == k * Increment
<1>2. 2 * Timeout - 1 \in Nat
  BY <1>1
<1>3. last \in Nat
  BY <1>1, <1>2
<1>4. s + last =< Horizon /\ LastBurst(s) = s + last
  BY DEF InHorizon, LastBurst
<1>5. ASSUME NEW k \in Nat, k =< 2 * Timeout - 1 PROVE At(k) \in Nat /\ At(k) =< last
  BY <1>1, <1>2, <1>5, Monotone
<1>6. ASSUME NEW k \in 0 .. Timeout - 1
      PROVE  /\ 2 * k \in Nat /\ 2 * k =< 2 * Timeout - 1
             /\ 2 * k + 1 \in Nat /\ 2 * k + 1 =< 2 * Timeout - 1
  BY <1>1
<1> HIDE DEF last
<1>7. ASSUME NEW x \in TxBursts(s - age) \cup RxBursts(s - age)
      PROVE  x \in Slots /\ x =< LastBurst(s)
  <2>1. PICK k \in 0 .. Timeout - 1 :
          x = s - age + At(2 * k) \/ x = s - age + At(2 * k + 1)
    BY DEF TxBursts, RxBursts
  <2>2. x \in Nat
    BY DEF TxBursts, RxBursts
  <2>3. PICK a \in Nat : a =< last /\ x = s - age + a
    BY <1>5, <1>6, <2>1
  <2> QED BY <1>1, <1>3, <1>4, <2>2, <2>3 DEF Slots
<1> QED BY <1>1, <1>3, <1>4, <1>7 DEF Slots

LEMMA LinkIs ==
  ASSUME NEW l \in Links
  PROVE  /\ l \subseteq UserIds /\ UNSET_ID \notin l /\ l \subseteq Ids
         /\ \A id : (CHOOSE x \in l : x # id) \in l
BY TalksAssumption, IdsAssumption DEF Links, Ids

LEMMA ProposalIs ==
  ASSUME NEW p \in Proposals
  PROVE  /\ p.channel \in PP /\ p.channel \in Tables
         /\ p.slot \in Nat \ {0} /\ InHorizon(p.slot)
BY StartSlotsAssumption, Disjoint DEF Proposals
-----------------------------------------------------------------------------
(* What the methods do to the tables and to the links *)

(* All that a method on link l leaves as it was *)
SameBut(st, m, l) ==
  /\ \A k \in Links \ {l} : m.links[k] = st.links[k]
  /\ m.links[l].initiator = st.links[l].initiator
  /\ m.links[l].recipient = st.links[l].recipient

SameDescription(j, k) ==
  /\ k.status = j.status /\ k.until_reply = j.until_reply /\ k.expiry = j.expiry
  /\ k.normalization = j.normalization /\ k.proposal = j.proposal
  /\ k.selected_for = j.selected_for

LEMMA LockEffect ==
  ASSUME NEW st \in States, NEW l \in Links,
         st.links[l].proposal \in Proposals, st.links[l].normalization \in Nat,
         st.links[l].initiator \in l, st.links[l].recipient \in l
  PROVE  LET m   == lockIfPossible(st, l)
             old == st.links[l]
             new == m.links[l]
         IN  /\ m \in States /\ m.failed = st.failed /\ m.history = st.history
             /\ SameBut(st, m, l) /\ SameDescription(old, new)
             /\ new.scheduled = old.scheduled /\ Locks(old) \subseteq Locks(new)
             /\ \A t \in Tables, s \in Slots :
                  \/ m.tables[t][s] = st.tables[t][s]
                  \/ /\ IsIdle(st.tables[t][s]) /\ IsLocked(m.tables[t][s])
                     /\ m.tables[t][s].target \in l
                     /\ old.normalization = 0 /\ s > 0 => <<t, s>> \in Locks(new)
<1> DEFINE m     == lockIfPossible(st, l)
           old   == st.links[l]
           c     == old.proposal.channel
           start == old.proposal.slot - old.normalization
           tx    == {s \in TxBursts(start) : IsIdle(st.tables[c][s])}
           rx    == {s \in RxBursts(start) : IsIdle(st.tables[c][s])}
           tb    == [st.tables EXCEPT ![c] = [s \in Slots |->
                       IF s \in tx THEN Res("LOCKED", old.initiator)
                       ELSE IF s \in rx THEN Res("LOCKED", old.recipient)
                       ELSE @[s]]]
           new   == [old EXCEPT
                       !.locks_initiator = @ \cup Normalized(c, tx, old.normalization),
                       !.locks_recipient = @ \cup Normalized(c, rx, old.normalization)]
<1>1. m = [st EXCEPT !.tables = tb, !.links = [@ EXCEPT ![l] = new]]
  <2> DEFINE initiators == Normalized(c, tx, old.normalization)
             recipients == Normalized(c, rx, old.normalization)
  <2>1. m = [st EXCEPT !.tables[c] = [s \in Slots |->
                           IF s \in tx THEN Res("LOCKED", old.initiator)
                           ELSE IF s \in rx THEN Res("LOCKED", old.recipient)
                           ELSE @[s]],
                       !.links[l].locks_initiator = @ \cup initiators,
                       !.links[l].locks_recipient = @ \cup recipients]
    BY DEF lockIfPossible
  <2>2. new = [old EXCEPT !.locks_initiator = @ \cup initiators,
                          !.locks_recipient = @ \cup recipients]
    OBVIOUS
  <2> HIDE DEF m, tx, rx, c, initiators, recipients, new
  <2> QED BY <2>1, <2>2 DEF States, ThirdPartyLinks
<1>2. c \in PP /\ c \in Tables /\ tx \subseteq Slots /\ rx \subseteq Slots
  <2>0. old.proposal \in Proposals /\ old.normalization \in Nat
    OBVIOUS
  <2>1. \A s \in TxBursts(start) \cup RxBursts(start) : s \in Slots
    <3>1. old.proposal.slot \in Nat /\ InHorizon(old.proposal.slot)
      BY <2>0, ProposalIs
    <3> HIDE DEF old
    <3> QED BY <2>0, <3>1, Bursts
  <2>2. c \in PP /\ c \in Tables
    BY <2>0, ProposalIs
  <2> HIDE DEF start, c
  <2> QED BY <2>1, <2>2
<1>3. old \in ThirdPartyLinks /\ st.tables \in TB
  BY DEF States
<1>4. Res("LOCKED", old.initiator) \in Reservation /\ Res("LOCKED", old.recipient) \in Reservation
  BY LinkIs DEF Res, Reservation, Actions
<1>5. /\ tb \in TB
      /\ \A t \in Tables, s \in Slots :
           tb[t][s] = IF t # c THEN st.tables[t][s]
                      ELSE IF s \in tx THEN Res("LOCKED", old.initiator)
                      ELSE IF s \in rx THEN Res("LOCKED", old.recipient)
                      ELSE st.tables[t][s]
  <2> HIDE DEF tx, rx, c, old
  <2> QED BY <1>2, <1>3, <1>4 DEF TB
<1>6. \A slots \in SUBSET Slots :
        /\ Normalized(c, slots, old.normalization) \in SUBSET Entries
        /\ old.normalization = 0 => \A s \in slots : s > 0 => <<c, s>> \in Normalized(c, slots, old.normalization)
  <2> DEFINE age == old.normalization
  <2>1. age \in Nat /\ Horizon \in Nat
    BY HorizonAssumption
  <2> HIDE DEF age, c
  <2>2. \A slots \in SUBSET Slots :
        /\ Normalized(c, slots, age) \in SUBSET Entries
        /\ age = 0 => \A s \in slots : s > 0 => <<c, s>> \in Normalized(c, slots, age)
    BY <1>2, <2>1 DEF Normalized, Entries, Slots
  <2> QED BY <2>2 DEF age
<1>7. /\ new \in ThirdPartyLinks
      /\ new.locks_initiator = old.locks_initiator \cup Normalized(c, tx, old.normalization)
      /\ new.locks_recipient = old.locks_recipient \cup Normalized(c, rx, old.normalization)
      /\ new.initiator = old.initiator /\ new.recipient = old.recipient
      /\ new.scheduled = old.scheduled /\ SameDescription(old, new)
  <2> HIDE DEF old, tx, rx, c
  <2> QED BY <1>2, <1>3, <1>6 DEF ThirdPartyLinks, SameDescription
<1> HIDE DEF new, tb
<1>8. /\ m \in States /\ m.tables = tb /\ m.links[l] = new
      /\ m.failed = st.failed /\ m.history = st.history
      /\ \A k \in Links \ {l} : m.links[k] = st.links[k]
  <2> HIDE DEF m
  <2> QED BY <1>1, <1>5, <1>7 DEF States
<1>9. ASSUME NEW t \in Tables, NEW s \in Slots, tb[t][s] # st.tables[t][s]
      PROVE  /\ IsIdle(st.tables[t][s]) /\ IsLocked(tb[t][s])
             /\ tb[t][s].target \in l
             /\ old.normalization = 0 /\ s > 0 => <<t, s>> \in Locks(new)
  <2>1. t = c /\ (s \in tx \/ s \in rx)
    BY <1>5, <1>9
  <2>2. IsIdle(st.tables[t][s])
    BY <2>1
  <2>3. tb[t][s] \in {Res("LOCKED", old.initiator), Res("LOCKED", old.recipient)}
    BY <1>5, <2>1
  <2>4. IsLocked(tb[t][s]) /\ tb[t][s].target \in l
    BY <2>3 DEF Res, IsLocked
  <2>5. old.normalization = 0 /\ s > 0 => <<t, s>> \in Locks(new)
    <3> HIDE DEF tx, rx, c, old
    <3> QED BY <1>2, <1>6, <1>7, <2>1 DEF Locks
  <2> QED BY <2>2, <2>4, <2>5
<1> HIDE DEF m
<1> QED BY <1>7, <1>8, <1>9 DEF SameBut, Locks, m, old

LEMMA ScheduleEffect ==
  ASSUME NEW st \in States, NEW l \in Links,
         st.links[l].proposal \in Proposals, st.links[l].selected_for \in l
  PROVE  LET m   == scheduleIfPossible(st, l)
             old == st.links[l]
             new == m.links[l]
         IN  /\ m \in States /\ m.failed = st.failed
             /\ m.history = IF old.scheduled = {} THEN st.history
                            ELSE st.history \cup {"replaced"}
             /\ SameBut(st, m, l) /\ SameDescription(old, new) /\ Locks(new) = Locks(old)
             /\ \A e \in new.scheduled : e[2] =< LastBurst(old.proposal.slot)
             /\ \A t \in Tables, s \in Slots :
                  \/ m.tables[t][s] = st.tables[t][s] /\ <<t, s>> \notin new.scheduled
                  \/ /\ IsIdle(st.tables[t][s]) /\ IsBusy(m.tables[t][s])
                     /\ <<t, s>> \in new.scheduled
<1> DEFINE m     == scheduleIfPossible(st, l)
           old   == st.links[l]
           c     == old.proposal.channel
           start == old.proposal.slot
           tx    == {s \in TxBursts(start) : IsIdle(st.tables[c][s])}
           rx    == {s \in RxBursts(start) : IsIdle(st.tables[c][s])}
           peer  == CHOOSE id \in l : id # old.selected_for
           held  == {<<c, s>> : s \in tx \cup rx}
           tb    == [st.tables EXCEPT ![c] = [s \in Slots |->
                       IF s \in tx THEN Res("BUSY", old.selected_for)
                       ELSE IF s \in rx THEN Res("BUSY", peer)
                       ELSE @[s]]]
           new   == [old EXCEPT !.scheduled = held]
           past  == IF old.scheduled = {} THEN st.history ELSE st.history \cup {"replaced"}
<1>1. m = [st EXCEPT !.tables = tb, !.links = [@ EXCEPT ![l] = new], !.history = past]
  BY DEF scheduleIfPossible, States, ThirdPartyLinks
<1>2. /\ c \in PP /\ c \in Tables /\ tx \subseteq Slots /\ rx \subseteq Slots
      /\ \A s \in tx \cup rx : s =< LastBurst(start)
  <2>1. start \in Nat /\ InHorizon(start) /\ start - 0 = start
    BY ProposalIs
  <2>2. \A s \in TxBursts(start) \cup RxBursts(start) : s \in Slots /\ s =< LastBurst(start)
    <3> HIDE DEF start
    <3>1. \A s \in TxBursts(start - 0) \cup RxBursts(start - 0) : s \in Slots /\ s =< LastBurst(start)
      BY <2>1, Bursts
    <3> QED BY <2>1, <3>1
  <2> QED BY <2>2, ProposalIs
<1>3. old \in ThirdPartyLinks /\ st.tables \in TB
  BY DEF States
<1>4. Res("BUSY", old.selected_for) \in Reservation /\ Res("BUSY", peer) \in Reservation
  <2>1. l \subseteq Ids /\ old.selected_for \in l
    BY LinkIs
  <2>2. \A id : (CHOOSE x \in l : x # id) \in l
    BY LinkIs
  <2>3. peer \in l
    BY <2>2
  <2> HIDE DEF old, peer
  <2> QED BY <2>1, <2>3 DEF Res, Reservation, Actions
<1>5. /\ tb \in TB
      /\ \A t \in Tables, s \in Slots :
           tb[t][s] = IF t # c THEN st.tables[t][s]
                      ELSE IF s \in tx THEN Res("BUSY", old.selected_for)
                      ELSE IF s \in rx THEN Res("BUSY", peer)
                      ELSE st.tables[t][s]
  <2> HIDE DEF tx, rx, c, old, peer
  <2> QED BY <1>2, <1>3, <1>4 DEF TB
<1>6. /\ held \in SUBSET Entries
      /\ \A e \in held : e[2] =< LastBurst(start)
      /\ \A t, s : <<t, s>> \in held <=> t = c /\ s \in tx \cup rx
  <2> HIDE DEF tx, rx, c
  <2> QED BY <1>2 DEF Entries
<1>7. /\ new \in ThirdPartyLinks /\ new.scheduled = held
      /\ new.initiator = old.initiator /\ new.recipient = old.recipient
      /\ Locks(new) = Locks(old) /\ SameDescription(old, new)
  <2> HIDE DEF old, held
  <2> QED BY <1>3, <1>6 DEF ThirdPartyLinks, SameDescription, Locks
<1>8. past \in SUBSET Irregular
  BY DEF States, Irregular
<1> HIDE DEF new, tb, past
<1>9. /\ m \in States /\ m.tables = tb /\ m.links[l] = new
      /\ m.failed = st.failed /\ m.history = past
      /\ \A k \in Links \ {l} : m.links[k] = st.links[k]
  <2> HIDE DEF m
  <2> QED BY <1>1, <1>5, <1>7, <1>8 DEF States
<1>10. ASSUME NEW t \in Tables, NEW s \in Slots
       PROVE  \/ tb[t][s] = st.tables[t][s] /\ <<t, s>> \notin held
              \/ IsIdle(st.tables[t][s]) /\ IsBusy(tb[t][s]) /\ <<t, s>> \in held
  <2>1. CASE <<t, s>> \in held
    <3>1. t = c /\ s \in tx \cup rx
      BY <1>6, <2>1
    <3>2. IsIdle(st.tables[t][s])
      BY <3>1
    <3> HIDE DEF tx, rx, c, peer, old, held
    <3>3. tb[t][s] \in {Res("BUSY", old.selected_for), Res("BUSY", peer)}
      BY <1>5, <3>1
    <3>4. IsBusy(tb[t][s])
      BY <3>3 DEF Res, IsBusy
    <3> QED BY <2>1, <3>2, <3>4
  <2>2. CASE <<t, s>> \notin held
    <3> HIDE DEF tx, rx, held
    <3> QED BY <1>5, <1>6, <2>2
  <2> QED BY <2>1, <2>2
<1> HIDE DEF m
<1> QED BY <1>6, <1>7, <1>9, <1>10 DEF SameBut, Locks, m, old, past

LEMMA UnlockedEffect ==
  ASSUME NEW st \in States, NEW l \in Links
  PROVE  /\ Unlocked(st, l) \in TB
         /\ \A t \in Tables, s \in Slots :
              \/ Unlocked(st, l)[t][s] = st.tables[t][s]
              \/ Unlocked(st, l)[t][s] = Idle /\ ~IsBusy(st.tables[t][s])
         /\ \A c \in PP, s \in Slots :
              /\ s > 0 /\ IsLocked(st.tables[c][s])
              /\ <<c, s>> \in Locks(st.links[l]) /\ st.tables[c][s].target \in l
              => Unlocked(st, l)[c][s] = Idle
<1> DEFINE free  == Unlocked(st, l)
           locks == Locks(st.links[l])
<1>1. st.tables \in TB
  BY DEF States
<1>2. free = UnlockAll(st.tables, locks, l)
  BY DEF Unlocked, Locks
<1> HIDE DEF free, locks
<1>3. /\ free \in TB
      /\ \A t \in Tables, s \in Slots :
           free[t][s] = IF <<t, s>> \in locks /\ s > 0 /\ CanUnlock(st.tables[t][s], l)
                        THEN Idle ELSE st.tables[t][s]
  BY <1>1, <1>2, IdleIs DEF UnlockAll, TB
<1>4. ASSUME NEW t \in Tables, NEW s \in Slots, CanUnlock(st.tables[t][s], l)
      PROVE  ~IsBusy(st.tables[t][s])
  BY <1>4 DEF CanUnlock, CanLock, IsIdle, IsLocked, IsBusy
<1>5. ASSUME NEW c \in PP, NEW s \in Slots, s > 0, IsLocked(st.tables[c][s]),
             <<c, s>> \in locks, st.tables[c][s].target \in l
      PROVE  free[c][s] = Idle
  <2>1. c \in Tables /\ CanUnlock(st.tables[c][s], l)
    BY <1>5, Disjoint DEF CanUnlock, CanLock
  <2> QED BY <1>3, <1>5, <2>1
<1> QED BY <1>3, <1>4, <1>5 DEF free, locks

LEMMA ResetEffect ==
  ASSUME NEW st \in States, NEW l \in Links
  PROVE  LET m   == reset(st, l)
             old == st.links[l]
         IN  /\ m \in States /\ m.history = st.history /\ SameBut(st, m, l)
             /\ m.links[l] = [Fresh EXCEPT !.initiator = old.initiator, !.recipient = old.recipient]
             /\ \/ m.failed = st.failed
                \/ /\ m.failed = "not_busy"
                   /\ \E e \in old.scheduled : ~IsBusy(st.tables[e[1]][e[2]])
             /\ \A t \in Tables, s \in Slots :
                  /\ m.tables[t][s] = st.tables[t][s] \/ m.tables[t][s] = Idle
                  /\ <<t, s>> \in old.scheduled => m.tables[t][s] = Idle
             /\ \A c \in PP, s \in Slots :
                  /\ IsBusy(st.tables[c][s]) /\ <<c, s>> \notin old.scheduled
                     => m.tables[c][s] = st.tables[c][s]
                  /\ /\ s > 0 /\ IsLocked(st.tables[c][s])
                     /\ <<c, s>> \in Locks(old) /\ st.tables[c][s].target \in l
                     => m.tables[c][s] = Idle
<1> DEFINE m        == reset(st, l)
           old      == st.links[l]
           new      == [Fresh EXCEPT !.initiator = old.initiator, !.recipient = old.recipient]
           unlocked == Unlocked(st, l)
           tb       == UnscheduleAll(unlocked, old.scheduled)
           f        == IF UnscheduleThrows(unlocked, old.scheduled, {"BUSY"})
                       THEN "not_busy" ELSE st.failed
<1>1. m = [tables |-> tb, links |-> [st.links EXCEPT ![l] = new], failed |-> f,
           history |-> st.history]
  BY DEF reset
<1>2. /\ old \in ThirdPartyLinks /\ st.tables \in TB
      /\ st.failed \in {"none", "reply_past_zero", "expiry_past_zero", "not_busy"}
      /\ st.history \subseteq Irregular /\ st.links \in [Links -> ThirdPartyLinks]
  BY DEF States
<1>3. /\ new \in ThirdPartyLinks
      /\ new.initiator = old.initiator /\ new.recipient = old.recipient
  <2> HIDE DEF old
  <2> QED BY <1>2 DEF Fresh, ThirdPartyLinks, Statuses, NoProposal
<1>4. old.scheduled \subseteq Entries
  BY <1>2 DEF ThirdPartyLinks
<1>5. /\ unlocked \in TB
      /\ \A t \in Tables, s \in Slots :
           \/ unlocked[t][s] = st.tables[t][s]
           \/ unlocked[t][s] = Idle /\ ~IsBusy(st.tables[t][s])
      /\ \A c \in PP, s \in Slots :
           /\ s > 0 /\ IsLocked(st.tables[c][s])
           /\ <<c, s>> \in Locks(old) /\ st.tables[c][s].target \in l
           => unlocked[c][s] = Idle
  BY UnlockedEffect
<1> HIDE DEF unlocked
<1>6. /\ tb \in TB
      /\ \A t \in Tables, s \in Slots :
           /\ tb[t][s] = unlocked[t][s] \/ tb[t][s] = Idle
           /\ <<t, s>> \in old.scheduled => tb[t][s] = Idle
      /\ \A c \in PP, s \in Slots : <<c, s>> \notin old.scheduled => tb[c][s] = unlocked[c][s]
  <2> HIDE DEF old
  <2> QED BY <1>5, IdleIs, Disjoint DEF TB, UnscheduleAll
<1>7. \/ f = st.failed
      \/ f = "not_busy" /\ \E e \in old.scheduled : ~IsBusy(st.tables[e[1]][e[2]])
  <2>1. ASSUME NEW e \in old.scheduled, IsBusy(st.tables[e[1]][e[2]])
        PROVE  unlocked[e[1]][e[2]].action = "BUSY"
    <3>1. e[1] \in Tables /\ e[2] \in Slots
      BY <1>4, Disjoint DEF Entries
    <3>2. \/ unlocked[e[1]][e[2]] = st.tables[e[1]][e[2]]
          \/ ~IsBusy(st.tables[e[1]][e[2]])
      BY <1>5, <3>1
    <3> QED BY <2>1, <3>2 DEF IsBusy
  <2> QED BY <2>1 DEF UnscheduleThrows
<1>8. f \in {"none", "reply_past_zero", "expiry_past_zero", "not_busy"}
  BY <1>2
<1> HIDE DEF f, tb, new, old
<1>9. /\ m \in States /\ m.tables = tb /\ m.links[l] = new /\ m.failed = f
      /\ m.history = st.history /\ \A k \in Links \ {l} : m.links[k] = st.links[k]
  <2> HIDE DEF m
  <2> QED BY <1>1, <1>2, <1>3, <1>6, <1>8 DEF States
<1>10. \A c \in PP : c \in Tables
  BY Disjoint
<1> HIDE DEF m
<1>11. SameBut(st, m, l)
  BY <1>3, <1>9 DEF SameBut, old
<1>12. \A t \in Tables, s \in Slots :
         /\ m.tables[t][s] = st.tables[t][s] \/ m.tables[t][s] = Idle
         /\ <<t, s>> \in old.scheduled => m.tables[t][s] = Idle
  <2> SUFFICES ASSUME NEW t \in Tables, NEW s \in Slots
               PROVE  /\ tb[t][s] = st.tables[t][s] \/ tb[t][s] = Idle
                      /\ <<t, s>> \in old.scheduled => tb[t][s] = Idle
    BY <1>9
  <2>1. unlocked[t][s] = st.tables[t][s] \/ unlocked[t][s] = Idle
    BY <1>5
  <2> QED BY <1>6, <2>1
<1>13. ASSUME NEW c \in PP, NEW s \in Slots
       PROVE  /\ IsBusy(st.tables[c][s]) /\ <<c, s>> \notin old.scheduled
                   => m.tables[c][s] = st.tables[c][s]
              /\ /\ s > 0 /\ IsLocked(st.tables[c][s])
                 /\ <<c, s>> \in Locks(old) /\ st.tables[c][s].target \in l
                 => m.tables[c][s] = Idle
  <2>1. c \in Tables
    BY <1>10
  <2>2. /\ tb[c][s] = unlocked[c][s] \/ tb[c][s] = Idle
        /\ <<c, s>> \notin old.scheduled => tb[c][s] = unlocked[c][s]
    BY <1>6, <2>1
  <2> QED BY <1>5, <1>9, <2>1, <2>2
<1> QED BY <1>7, <1>9, <1>11, <1>12, <1>13 DEF m, new, old

-----------------------------------------------------------------------------
(* The methods keep the links sound. *)

SameDue(st, m) ==
  \A k \in Links : /\ m.links[k].until_reply = st.links[k].until_reply
                   /\ m.links[k].expiry = st.links[k].expiry

LEMMA ShapeKept ==
  ASSUME NEW st, NEW m, NEW l \in Links, \A k \in Links : Shape(k, st.links[k]),
         SameBut(st, m, l), SameDescription(st.links[l], m.links[l])
  PROVE  /\ \A k \in Links : Shape(k, m.links[k])
         /\ SameDue(st, m)
<1>1. \A k \in Links : k # l => m.links[k] = st.links[k]
  BY DEF SameBut
<1>2. Shape(l, m.links[l])
  BY DEF Shape, SameBut, SameDescription
<1> QED BY <1>1, <1>2 DEF SameDue, SameDescription

LEMMA LockSound ==
  ASSUME NEW st, Sound(st), NEW l \in Links,
         st.links[l].status = "received_request_awaiting_reply",
         st.links[l].normalization = 0 \/ "late_locks" \in st.history
  PROVE  Sound(lockIfPossible(st, l)) /\ SameDue(st, lockIfPossible(st, l))
<1> DEFINE m   == lockIfPossible(st, l)
           old == st.links[l]
           new == m.links[l]
<1>1. st \in States /\ Ordered(st) /\ \A k \in Links : Shape(k, st.links[k])
  BY DEF Sound, Ordered
<1>2. /\ old.proposal \in Proposals /\ old.normalization \in Nat
      /\ old.initiator \in l /\ old.recipient \in l
  BY <1>1 DEF Shape
<1>3. /\ m \in States /\ m.failed = st.failed /\ m.history = st.history
      /\ SameBut(st, m, l) /\ SameDescription(old, new)
      /\ new.scheduled = old.scheduled /\ Locks(old) \subseteq Locks(new)
      /\ \A t \in Tables, s \in Slots :
           \/ m.tables[t][s] = st.tables[t][s]
           \/ /\ IsIdle(st.tables[t][s]) /\ IsLocked(m.tables[t][s])
              /\ m.tables[t][s].target \in l
              /\ old.normalization = 0 /\ s > 0 => <<t, s>> \in Locks(new)
  BY <1>1, <1>2, LockEffect
<1> HIDE DEF m
<1>4. (\A k \in Links : Shape(k, m.links[k])) /\ SameDue(st, m)
  BY <1>1, <1>3, ShapeKept
<1>5. \A k \in Links : /\ m.links[k].scheduled = st.links[k].scheduled
                       /\ Locks(st.links[k]) \subseteq Locks(m.links[k])
  BY <1>3 DEF SameBut
<1>6. LocksRemembered(m)
  <2> SUFFICES ASSUME "late_locks" \notin m.history, NEW c \in PP, NEW s \in Slots,
                      s > 0, IsLocked(m.tables[c][s])
               PROVE  \E k \in Links : <<c, s>> \in Locks(m.links[k]) /\ m.tables[c][s].target \in k
    BY DEF LocksRemembered
  <2>1. CASE m.tables[c][s] = st.tables[c][s]
    <3>1. PICK k \in Links : <<c, s>> \in Locks(st.links[k]) /\ st.tables[c][s].target \in k
      BY <1>1, <1>3, <2>1 DEF Ordered, LocksRemembered
    <3> QED BY <1>5, <2>1, <3>1
  <2>2. CASE m.tables[c][s] # st.tables[c][s]
    BY <1>3, <2>2, Disjoint
  <2> QED BY <2>1, <2>2
<1>7. \A c \in PP, s \in Slots : IsBusy(m.tables[c][s]) <=> IsBusy(st.tables[c][s])
  BY <1>3, Disjoint DEF IsBusy, IsIdle, IsLocked
<1>8. BusyRemembered(m)
  BY <1>1, <1>3, <1>5, <1>7 DEF Ordered, BusyRemembered
<1>9. BusyHeld(m)
  <2>1. \A k \in Links : st.links[k].scheduled \subseteq PP \X Slots
    BY <1>1 DEF States, ThirdPartyLinks, Entries
  <2> QED BY <1>1, <1>3, <1>5, <1>7, <2>1 DEF Ordered, BusyHeld
<1>10. \A k \in Links : LivesTo(st.links[k]) => LivesTo(m.links[k])
  BY <1>3, <1>5 DEF LivesTo, SameBut, SameDescription
<1> QED BY <1>3, <1>4, <1>6, <1>8, <1>9, <1>10 DEF Sound, Ordered, FailedRight, m

(* What is due may be scheduled at a state that only the lifetime of l is  *)
(* not sound in.                                                           *)
LEMMA ScheduleSound ==
  ASSUME NEW st, Ordered(st), FailedRight(st), NEW l \in Links,
         "late_busy" \notin st.history => \A k \in Links \ {l} : LivesTo(st.links[k]),
         st.links[l].status = "received_reply_link_established",
         st.links[l].normalization = 0 \/ "late_busy" \in st.history
  PROVE  Sound(scheduleIfPossible(st, l)) /\ SameDue(st, scheduleIfPossible(st, l))
<1> DEFINE m   == scheduleIfPossible(st, l)
           old == st.links[l]
           new == m.links[l]
<1>1. st \in States /\ \A k \in Links : Shape(k, st.links[k])
  BY DEF Ordered
<1>2. /\ old.proposal \in Proposals /\ old.selected_for \in l
      /\ old.normalization = 0 => old.expiry = LastBurst(old.proposal.slot)
  BY <1>1 DEF Shape
<1>3. /\ m \in States /\ m.failed = st.failed
      /\ m.history = IF old.scheduled = {} THEN st.history
                     ELSE st.history \cup {"replaced"}
      /\ SameBut(st, m, l) /\ SameDescription(old, new) /\ Locks(new) = Locks(old)
      /\ \A e \in new.scheduled : e[2] =< LastBurst(old.proposal.slot)
      /\ \A t \in Tables, s \in Slots :
           \/ m.tables[t][s] = st.tables[t][s] /\ <<t, s>> \notin new.scheduled
           \/ /\ IsIdle(st.tables[t][s]) /\ IsBusy(m.tables[t][s])
              /\ <<t, s>> \in new.scheduled
  BY <1>1, <1>2, ScheduleEffect
<1> HIDE DEF m
<1>4. (\A k \in Links : Shape(k, m.links[k])) /\ SameDue(st, m)
  BY <1>1, <1>3, ShapeKept
<1>5. /\ \A k \in Links : Locks(m.links[k]) = Locks(st.links[k])
      /\ \A k \in Links \ {l} : m.links[k] = st.links[k]
  BY <1>3 DEF SameBut
<1>6. LocksRemembered(m)
  <2> SUFFICES ASSUME "late_locks" \notin m.history, NEW c \in PP, NEW s \in Slots,
                      s > 0, IsLocked(m.tables[c][s])
               PROVE  \E k \in Links : <<c, s>> \in Locks(m.links[k]) /\ m.tables[c][s].target \in k
    BY DEF LocksRemembered
  <2>1. m.tables[c][s] = st.tables[c][s]
    BY <1>3, Disjoint DEF IsLocked, IsBusy
  <2> QED BY <1>3, <1>5, <2>1 DEF Ordered, LocksRemembered
<1>7. BusyRemembered(m)
  <2> SUFFICES ASSUME "replaced" \notin m.history, NEW c \in PP, NEW s \in Slots,
                      s > 0, IsBusy(m.tables[c][s])
               PROVE  \E k \in Links : <<c, s>> \in m.links[k].scheduled
    BY DEF BusyRemembered
  <2>1. old.scheduled = {} /\ "replaced" \notin st.history
    BY <1>3
  <2>2. CASE <<c, s>> \in new.scheduled
    BY <2>2
  <2>3. CASE <<c, s>> \notin new.scheduled
    <3>1. IsBusy(st.tables[c][s])
      BY <1>3, <2>3, Disjoint
    <3>2. PICK k \in Links : <<c, s>> \in st.links[k].scheduled
      BY <2>1, <3>1 DEF Ordered, BusyRemembered
    <3> QED BY <1>5, <2>1, <3>2
  <2> QED BY <2>2, <2>3
<1>8. BusyHeld(m)
  <2> SUFFICES ASSUME "overwritten" \notin m.history
               PROVE  \A k \in Links : \A e \in m.links[k].scheduled :
                         /\ IsBusy(m.tables[e[1]][e[2]])
                         /\ \A j \in Links \ {k} : e \notin m.links[j].scheduled
    BY DEF BusyHeld
  <2>1. \A k \in Links : \A e \in st.links[k].scheduled :
           /\ IsBusy(st.tables[e[1]][e[2]])
           /\ \A j \in Links \ {k} : e \notin st.links[j].scheduled
    BY <1>3 DEF Ordered, BusyHeld
  <2>2. /\ \A k \in Links : \A e \in m.links[k].scheduled :
             e[1] \in Tables /\ e[2] \in Slots /\ e = <<e[1], e[2]>>
        /\ \A k \in Links : \A e \in st.links[k].scheduled :
             e[1] \in Tables /\ e[2] \in Slots /\ e = <<e[1], e[2]>>
    BY <1>1, <1>3, Disjoint DEF States, ThirdPartyLinks, Entries
  <2>3. ASSUME NEW e \in new.scheduled
        PROVE  /\ IsBusy(m.tables[e[1]][e[2]])
               /\ \A j \in Links : e \notin st.links[j].scheduled
    <3>1. IsIdle(st.tables[e[1]][e[2]]) /\ IsBusy(m.tables[e[1]][e[2]])
      BY <1>3, <2>2
    <3> QED BY <2>1, <3>1 DEF IsIdle, IsBusy
  <2>4. ASSUME NEW k \in Links \ {l}, NEW e \in st.links[k].scheduled
        PROVE  IsBusy(m.tables[e[1]][e[2]]) /\ e \notin new.scheduled
    <3>1. e \notin new.scheduled
      BY <2>3
    <3>2. m.tables[e[1]][e[2]] = st.tables[e[1]][e[2]]
      BY <1>3, <2>2, <3>1
    <3> QED BY <2>1, <3>1, <3>2
  <2> QED BY <1>5, <2>1, <2>3, <2>4
<1>9. "late_busy" \notin m.history => \A k \in Links : LivesTo(m.links[k])
  <2> SUFFICES ASSUME "late_busy" \notin m.history
               PROVE  \A k \in Links : LivesTo(m.links[k])
    OBVIOUS
  <2>1. "late_busy" \notin st.history
    BY <1>3
  <2>2. new.expiry = LastBurst(old.proposal.slot)
    BY <1>2, <1>3, <2>1 DEF SameDescription
  <2>3. LivesTo(new)
    BY <1>3, <2>2 DEF LivesTo
  <2> QED BY <1>5, <2>1, <2>3
<1>10. FailedRight(m)
  BY <1>3 DEF FailedRight
<1> QED BY <1>3, <1>4, <1>6, <1>7, <1>8, <1>9, <1>10 DEF Sound, Ordered, m

LEMMA ResetSound ==
  ASSUME NEW st, Sound(st), NEW l \in Links
  PROVE  LET m == reset(st, l)
         IN  /\ Sound(m) /\ SameBut(st, m, l)
             /\ m.links[l].until_reply = UNSET /\ m.links[l].expiry = UNSET
             /\ m.links[l].status = "uninitialized"
             /\ Locks(m.links[l]) = {} /\ m.links[l].scheduled = {}
<1> DEFINE m   == reset(st, l)
           old == st.links[l]
           new == m.links[l]
<1>1. st \in States /\ Ordered(st) /\ \A k \in Links : Shape(k, st.links[k])
  BY DEF Sound, Ordered
<1>2. /\ m \in States /\ m.history = st.history /\ SameBut(st, m, l)
      /\ new = [Fresh EXCEPT !.initiator = old.initiator, !.recipient = old.recipient]
      /\ \/ m.failed = st.failed
         \/ /\ m.failed = "not_busy"
            /\ \E e \in old.scheduled : ~IsBusy(st.tables[e[1]][e[2]])
      /\ \A t \in Tables, s \in Slots :
           /\ m.tables[t][s] = st.tables[t][s] \/ m.tables[t][s] = Idle
           /\ <<t, s>> \in old.scheduled => m.tables[t][s] = Idle
      /\ \A c \in PP, s \in Slots :
           /\ IsBusy(st.tables[c][s]) /\ <<c, s>> \notin old.scheduled
              => m.tables[c][s] = st.tables[c][s]
           /\ /\ s > 0 /\ IsLocked(st.tables[c][s])
              /\ <<c, s>> \in Locks(old) /\ st.tables[c][s].target \in l
              => m.tables[c][s] = Idle
  BY <1>1, ResetEffect
<1> HIDE DEF m
<1>3. /\ new.until_reply = UNSET /\ new.expiry = UNSET /\ new.status = "uninitialized"
      /\ Locks(new) = {} /\ new.scheduled = {}
  BY <1>2 DEF Fresh, Locks
<1>4. \A k \in Links \ {l} : m.links[k] = st.links[k]
  BY <1>2 DEF SameBut
<1>5. \A k \in Links : Shape(k, m.links[k])
  <2>1. Shape(l, new)
    BY <1>1, <1>2, <1>3 DEF Shape, SameBut
  <2> QED BY <1>1, <1>4, <2>1
<1>6. LocksRemembered(m)
  <2> SUFFICES ASSUME "late_locks" \notin m.history, NEW c \in PP, NEW s \in Slots,
                      s > 0, IsLocked(m.tables[c][s])
               PROVE  \E k \in Links : <<c, s>> \in Locks(m.links[k]) /\ m.tables[c][s].target \in k
    BY DEF LocksRemembered
  <2>1. m.tables[c][s] = st.tables[c][s]
    <3>1. m.tables[c][s] = st.tables[c][s] \/ m.tables[c][s] = Idle
      BY <1>2, Disjoint
    <3> QED BY <3>1, IdleIs
  <2>2. PICK k \in Links : <<c, s>> \in Locks(st.links[k]) /\ st.tables[c][s].target \in k
    BY <1>1, <1>2, <2>1 DEF Ordered, LocksRemembered
  <2>3. ASSUME k = l PROVE FALSE
    <3>1. IsLocked(st.tables[c][s])
      BY <2>1
    <3>2. m.tables[c][s] = Idle
      BY <1>2, <2>2, <2>3, <3>1
    <3> QED BY <3>2, IdleIs
  <2> QED BY <1>4, <2>1, <2>2, <2>3
<1>7. BusyRemembered(m)
  <2> SUFFICES ASSUME "replaced" \notin m.history, NEW c \in PP, NEW s \in Slots,
                      s > 0, IsBusy(m.tables[c][s])
               PROVE  \E k \in Links : <<c, s>> \in m.links[k].scheduled
    BY DEF BusyRemembered
  <2>1. m.tables[c][s] = st.tables[c][s] /\ <<c, s>> \notin old.scheduled
    BY <1>2, IdleIs, Disjoint
  <2>2. PICK k \in Links : <<c, s>> \in st.links[k].scheduled
    BY <1>1, <1>2, <2>1 DEF Ordered, BusyRemembered
  <2> QED BY <1>4, <2>1, <2>2
<1>8. BusyHeld(m)
  <2> SUFFICES ASSUME "overwritten" \notin m.history, NEW k \in Links,
                      NEW e \in m.links[k].scheduled
               PROVE  /\ IsBusy(m.tables[e[1]][e[2]])
                      /\ \A j \in Links \ {k} : e \notin m.links[j].scheduled
    BY DEF BusyHeld
  <2>1. k # l /\ e \in st.links[k].scheduled
    BY <1>3, <1>4
  <2>2. /\ IsBusy(st.tables[e[1]][e[2]])
        /\ \A j \in Links \ {k} : e \notin st.links[j].scheduled
    BY <1>1, <1>2, <2>1 DEF Ordered, BusyHeld
  <2>3. e[1] \in PP /\ e[2] \in Slots /\ e = <<e[1], e[2]>>
    BY <1>1, <2>1 DEF States, ThirdPartyLinks, Entries
  <2>4. <<e[1], e[2]>> \notin old.scheduled
    BY <2>1, <2>2, <2>3
  <2>5. m.tables[e[1]][e[2]] = st.tables[e[1]][e[2]]
    BY <1>2, <2>2, <2>3, <2>4
  <2>6. \A j \in Links \ {k} : e \notin m.links[j].scheduled
    BY <1>3, <1>4, <2>2
  <2> QED BY <2>2, <2>5, <2>6
<1>9. "late_busy" \notin m.history => \A k \in Links : LivesTo(m.links[k])
  <2>1. LivesTo(new)
    BY <1>3 DEF LivesTo
  <2> QED BY <1>2, <1>4, <2>1 DEF Sound
<1>10. FailedRight(m)
  <2>1. "overwritten" \notin st.history => \A e \in old.scheduled : IsBusy(st.tables[e[1]][e[2]])
    BY <1>1 DEF Ordered, BusyHeld
  <2> QED BY <1>2, <2>1 DEF FailedRight, Sound
<1> QED BY <1>2, <1>3, <1>5, <1>6, <1>7, <1>8, <1>9, <1>10 DEF Sound, Ordered, m

LEMMA NotedSound ==
  ASSUME NEW st, Sound(st), NEW w \in Irregular
  PROVE  /\ Sound(Noted(st, w)) /\ w \in Noted(st, w).history
         /\ Noted(st, w).links = st.links /\ Noted(st, w).tables = st.tables
<1> DEFINE m == Noted(st, w)
<1>1. st \in States /\ Ordered(st)
  BY DEF Sound, Ordered
<1>2. /\ m \in States /\ m.tables = st.tables /\ m.links = st.links
      /\ m.failed = st.failed /\ m.history = st.history \cup {w}
  BY <1>1 DEF States, Noted
<1> HIDE DEF m
<1>3. Ordered(m)
  BY <1>1, <1>2 DEF Ordered, LocksRemembered, BusyRemembered, BusyHeld
<1> QED BY <1>2, <1>3 DEF Sound, FailedRight, m

(* A link that is told of the reset of another one takes what it can. *)
LEMMA OnAnotherSound ==
  ASSUME NEW st, Sound(st), NEW l \in Links
  PROVE  Sound(onAnotherThirdLinkReset(st, l)) /\ SameDue(st, onAnotherThirdLinkReset(st, l))
<1> DEFINE m == onAnotherThirdLinkReset(st, l)
           status == st.links[l].status
           late == st.links[l].normalization # 0
           locked == IF late THEN Noted(st, "late_locks") ELSE st
           busy == IF late THEN Noted(st, "late_busy") ELSE st
<1>1. status \in Statuses
  BY DEF Sound, Ordered, States, ThirdPartyLinks
<1>2. /\ status = "uninitialized" => m = st
      /\ status = "received_request_awaiting_reply" => m = lockIfPossible(locked, l)
      /\ status = "received_reply_link_established" => m = scheduleIfPossible(busy, l)
  BY DEF onAnotherThirdLinkReset
<1>3. Sound(locked) /\ locked.links = st.links /\ (~late \/ "late_locks" \in locked.history)
  BY NotedSound DEF Irregular
<1>4. Sound(busy) /\ busy.links = st.links /\ (~late \/ "late_busy" \in busy.history)
  BY NotedSound DEF Irregular
<1>5. late <=> st.links[l].normalization # 0
  OBVIOUS
<1> HIDE DEF m, late, locked, busy
<1>6. CASE status = "uninitialized"
  BY <1>2, <1>6 DEF SameDue, m
<1>7. CASE status = "received_request_awaiting_reply"
  <2>1. Sound(lockIfPossible(locked, l)) /\ SameDue(locked, lockIfPossible(locked, l))
    BY <1>3, <1>5, <1>7, LockSound
  <2> QED BY <1>2, <1>3, <1>7, <2>1 DEF SameDue, m
<1>8. CASE status = "received_reply_link_established"
  <2>1. /\ Ordered(busy) /\ FailedRight(busy)
        /\ "late_busy" \notin busy.history => \A k \in Links \ {l} : LivesTo(busy.links[k])
    BY <1>4 DEF Sound
  <2>2. Sound(scheduleIfPossible(busy, l)) /\ SameDue(busy, scheduleIfPossible(busy, l))
    BY <1>4, <1>5, <1>8, <2>1, ScheduleSound
  <2> QED BY <1>2, <1>4, <1>8, <2>2 DEF SameDue, m
<1> QED BY <1>1, <1>6, <1>7, <1>8 DEF Statuses

-----------------------------------------------------------------------------
(* The loops of onSlotEnd and of the link requests keep the links sound.   *)

SameDueBut(st, m, l) ==
  \A k \in Links \ {l} : /\ m.links[k].until_reply = st.links[k].until_reply
                         /\ m.links[k].expiry = st.links[k].expiry

LEMMA NotifySound ==
  ASSUME NEW st, Sound(st), NEW l \in Links, NEW N \in Nat, NEW order \in [1 .. N -> Links],
         Len(order) = N
  PROVE  LET m == ResetAndNotify(st, l, order)
         IN  Sound(m) /\ SameDueBut(st, m, l) /\ ~Due(m.links[l])
<1> DEFINE Kept == {x \in States : /\ Sound(x) /\ SameDueBut(st, x, l)
                                   /\ x.links[l].until_reply = UNSET
                                   /\ x.links[l].expiry = UNSET}
           D == [n \in 0 .. N |-> Kept]
           turn(n, x) == IF order[n] = l THEN x ELSE onAnotherThirdLinkReset(x, order[n])
           F == [p \in (1 .. N) \X Kept |-> turn(p[1], p[2])]
           told[n \in 0 .. Len(order)] ==
             IF n = 0 THEN reset(st, l)
             ELSE IF order[n] = l THEN told[n - 1]
             ELSE onAnotherThirdLinkReset(told[n - 1], order[n])
<1>1. reset(st, l) \in Kept
  <2>1. /\ Sound(reset(st, l)) /\ SameBut(st, reset(st, l), l)
        /\ reset(st, l).links[l].until_reply = UNSET /\ reset(st, l).links[l].expiry = UNSET
    BY ResetSound
  <2>2. reset(st, l) \in States
    BY <2>1 DEF Sound, Ordered
  <2> QED BY <2>1, <2>2 DEF SameBut, SameDueBut
<1>2. ASSUME NEW n \in 1 .. N, NEW x \in Kept PROVE turn(n, x) \in Kept
  <2>1. CASE order[n] = l
    BY <2>1
  <2>2. CASE order[n] # l
    <3> DEFINE y == onAnotherThirdLinkReset(x, order[n])
    <3>1. Sound(y) /\ SameDue(x, y)
      BY OnAnotherSound
    <3>2. y \in States
      BY <3>1 DEF Sound, Ordered
    <3> HIDE DEF y
    <3>3. y \in Kept
      BY <3>1, <3>2 DEF SameDue, SameDueBut
    <3> QED BY <2>2, <3>3 DEF y
  <2> QED BY <2>1, <2>2
<1> HIDE DEF Kept
<1>3. PICK g : Loops(g, N, reset(st, l), F) /\ \A n \in 0 .. N : g[n] \in D[n]
  <2>1. reset(st, l) \in D[0] /\ \A n \in 1 .. N : \A x \in D[n - 1] : F[<<n, x>>] \in D[n]
    <3> HIDE DEF turn
    <3> QED BY <1>1, <1>2
  <2> HIDE DEF D, F
  <2> QED BY <2>1, LoopExists
<1>4. g = [n \in 0 .. Len(order) |->
             IF n = 0 THEN reset(st, l)
             ELSE IF order[n] = l THEN g[n - 1]
             ELSE onAnotherThirdLinkReset(g[n - 1], order[n])]
  <2>1. \A n \in 1 .. N : g[n - 1] \in Kept /\ F[<<n, g[n - 1]>>] = turn(n, g[n - 1])
    <3>1. \A n \in 1 .. N : g[n - 1] \in Kept
      BY <1>3
    <3> HIDE DEF turn
    <3> QED BY <3>1
  <2>2. \A n \in 0 .. N : n # 0 => n \in 1 .. N
    OBVIOUS
  <2>3. g = [n \in 0 .. N |-> IF n = 0 THEN reset(st, l) ELSE F[<<n, g[n - 1]>>]]
    BY <1>3, Zenon DEF Loops
  <2>4. g = [n \in 0 .. N |-> IF n = 0 THEN reset(st, l) ELSE turn(n, g[n - 1])]
    <3> HIDE DEF F, turn
    <3> QED BY <2>1, <2>2, <2>3
  <2>5. g = [n \in 0 .. Len(order) |-> IF n = 0 THEN reset(st, l) ELSE turn(n, g[n - 1])]
    BY <2>4
  <2> QED BY <2>5
<1>5. told = [n \in 0 .. Len(order) |->
                IF n = 0 THEN reset(st, l)
                ELSE IF order[n] = l THEN told[n - 1]
                ELSE onAnotherThirdLinkReset(told[n - 1], order[n])]
  <2>1. \E f : f = [n \in 0 .. Len(order) |->
                      IF n = 0 THEN reset(st, l)
                      ELSE IF order[n] = l THEN f[n - 1]
                      ELSE onAnotherThirdLinkReset(f[n - 1], order[n])]
    BY <1>4
  <2> QED BY <2>1
<1>6. ResetAndNotify(st, l, order) = told[Len(order)]
  BY DEF ResetAndNotify
<1> HIDE DEF told
<1>7. told[0] = reset(st, l) /\ \A n \in 1 .. N : told[n] = turn(n, told[n - 1])
  BY <1>5
<1>8. \A n \in 0 .. N : told[n] \in D[n]
  <2>1. told[0] \in D[0] /\ \A n \in 1 .. N : told[n - 1] \in D[n - 1] => told[n] \in D[n]
    <3> HIDE DEF turn
    <3> QED BY <1>1, <1>2, <1>7
  <2> HIDE DEF D
  <2> QED BY <2>1, LoopKeeps
<1>9. ResetAndNotify(st, l, order) \in Kept
  BY <1>6, <1>8
<1> QED BY <1>9, UnsetAssumption DEF Kept, Due

LEMMA OnSlotEndSound ==
  ASSUME NEW st, Sound(st), NEW l \in Links, NEW N \in Nat, NEW order \in [1 .. N -> Links],
         Len(order) = N
  PROVE  LET m == onSlotEnd(st, l, order)
         IN  Sound(m) /\ SameDueBut(st, m, l) /\ ~Due(m.links[l])
<1> DEFINE m == ResetAndNotify(st, l, order)
<1>1. Sound(m) /\ SameDueBut(st, m, l) /\ ~Due(m.links[l])
  BY NotifySound
<1> HIDE DEF m
<1>2. onSlotEnd(st, l, order) = IF Due(st.links[l]) THEN m ELSE st
  BY <1>1 DEF onSlotEnd, Due, m
<1> QED BY <1>1, <1>2 DEF SameDueBut

(* After the loop of the MAC no link is due. *)
LEMMA VisitedSound ==
  ASSUME Sound(Current), NEW N \in Nat, NEW order \in [1 .. N -> Links], Len(order) = N,
         \A l \in KnownLinks : \E i \in 1 .. N : order[i] = l
  PROVE  Sound(Visited(order)) /\ \A l \in Links : ~Due(Visited(order).links[l])
<1> DEFINE Left(n) == {l \in KnownLinks : \A i \in 1 .. n : order[i] # l}
           Kept(n) == {x \in States : Sound(x) /\ \A l \in Links : Due(x.links[l]) => l \in Left(n)}
           D == [n \in 0 .. N |-> Kept(n)]
           turn(n, x) == onSlotEnd(x, order[n], order)
           F == [p \in (1 .. N) \X States |-> turn(p[1], p[2])]
           visited[n \in 0 .. Len(order)] ==
             IF n = 0 THEN Current ELSE onSlotEnd(visited[n - 1], order[n], order)
<1>1. Current \in Kept(0)
  <2>1. Current \in States /\ \A l \in Links : Shape(l, links[l])
    BY DEF Sound, Ordered, Current
  <2>2. \A l \in Links : Due(links[l]) => l \in KnownLinks
    BY <2>1, UnsetAssumption DEF Due, Shape, KnownLinks
  <2> QED BY <2>1, <2>2 DEF Current
<1>2. ASSUME NEW n \in 1 .. N, NEW x \in Kept(n - 1) PROVE turn(n, x) \in Kept(n)
  <2> DEFINE y == turn(n, x)
  <2>1. Sound(y) /\ SameDueBut(x, y, order[n]) /\ ~Due(y.links[order[n]])
    BY OnSlotEndSound
  <2>2. y \in States
    BY <2>1 DEF Sound, Ordered
  <2>3. \A l \in Links : l # order[n] => (Due(y.links[l]) <=> Due(x.links[l]))
    BY <2>1 DEF SameDueBut, Due
  <2>4. \A l \in Left(n - 1) : l # order[n] => l \in Left(n)
    OBVIOUS
  <2> HIDE DEF y, Left
  <2>5. y \in Kept(n)
    BY <2>1, <2>2, <2>3, <2>4
  <2> QED BY <2>5 DEF y
<1>3. \A n \in 0 .. N : Kept(n) \subseteq States
  OBVIOUS
<1> HIDE DEF Kept
<1>4. PICK g : Loops(g, N, Current, F) /\ \A n \in 0 .. N : g[n] \in D[n]
  <2>1. Current \in D[0] /\ \A n \in 1 .. N : \A x \in D[n - 1] : F[<<n, x>>] \in D[n]
    <3>1. \A n \in 1 .. N : n - 1 \in 0 .. N /\ n \in 0 .. N
      OBVIOUS
    <3> HIDE DEF turn
    <3> QED BY <1>1, <1>2, <1>3, <3>1
  <2> HIDE DEF D, F
  <2> QED BY <2>1, LoopExists
<1>5. g = [n \in 0 .. Len(order) |->
             IF n = 0 THEN Current ELSE onSlotEnd(g[n - 1], order[n], order)]
  <2>1. \A n \in 1 .. N : F[<<n, g[n - 1]>>] = turn(n, g[n - 1])
    <3>1. \A n \in 1 .. N : g[n - 1] \in States
      BY <1>3, <1>4
    <3> HIDE DEF turn
    <3> QED BY <3>1
  <2>2. \A n \in 0 .. N : n # 0 => n \in 1 .. N
    OBVIOUS
  <2>3. g = [n \in 0 .. N |-> IF n = 0 THEN Current ELSE F[<<n, g[n - 1]>>]]
    BY <1>4, Zenon DEF Loops
  <2>4. g = [n \in 0 .. N |-> IF n = 0 THEN Current ELSE turn(n, g[n - 1])]
    <3> HIDE DEF F, turn
    <3> QED BY <2>1, <2>2, <2>3
  <2> QED BY <2>4
<1>6. visited = [n \in 0 .. Len(order) |->
                   IF n = 0 THEN Current ELSE onSlotEnd(visited[n - 1], order[n], order)]
  <2>1. \E f : f = [n \in 0 .. Len(order) |->
                      IF n = 0 THEN Current ELSE onSlotEnd(f[n - 1], order[n], order)]
    BY <1>5
  <2> QED BY <2>1
<1>7. Visited(order) = visited[Len(order)]
  BY DEF Visited
<1> HIDE DEF visited
<1>8. visited[0] = Current /\ \A n \in 1 .. N : visited[n] = turn(n, visited[n - 1])
  BY <1>6
<1>9. \A n \in 0 .. N : visited[n] \in D[n]
  <2>1. visited[0] \in D[0] /\ \A n \in 1 .. N : visited[n - 1] \in D[n - 1] => visited[n] \in D[n]
    <3>1. \A n \in 1 .. N : n - 1 \in 0 .. N /\ n \in 0 .. N
      OBVIOUS
    <3> HIDE DEF turn
    <3> QED BY <1>1, <1>2, <1>8, <3>1
  <2> HIDE DEF D
  <2> QED BY <2>1, LoopKeeps
<1>10. Visited(order) \in Kept(N) /\ Left(N) = {}
  BY <1>7, <1>9
<1> QED BY <1>10 DEF Kept

-----------------------------------------------------------------------------
(* What the handlers of messages do *)

LEMMA GetSound ==
  ASSUME NEW st, Sound(st), NEW a, NEW b, <<a, b>> \in Talks
  PROVE  LET m == getThirdPartyLink(st, a, b)
         IN  Sound(m) /\ {a, b} \in Links /\ m.links[{a, b}].initiator # UNSET_ID
<1> DEFINE l == {a, b}
           m == getThirdPartyLink(st, a, b)
           new == [st.links[l] EXCEPT !.initiator = a, !.recipient = b]
<1>1. /\ l \in Links /\ a \in UserIds /\ b \in UserIds /\ a # UNSET_ID
      /\ a \in l /\ b \in l
  BY TalksAssumption, IdsAssumption DEF Links
<1>2. st \in States /\ Ordered(st) /\ \A k \in Links : Shape(k, st.links[k])
  BY DEF Sound, Ordered
<1>3. CASE st.links[l].initiator # UNSET_ID
  BY <1>1, <1>3 DEF getThirdPartyLink
<1>4. CASE st.links[l].initiator = UNSET_ID
  <2> HIDE DEF l
  <2>1. m = [st EXCEPT !.links = [@ EXCEPT ![l] = new]]
    BY <1>1, <1>2, <1>4 DEF getThirdPartyLink, States, ThirdPartyLinks, l
  <2>2. /\ new \in ThirdPartyLinks /\ new.initiator = a /\ new.recipient = b
        /\ new.scheduled = st.links[l].scheduled /\ Locks(new) = Locks(st.links[l])
        /\ SameDescription(st.links[l], new)
    <3>1. st.links[l] \in ThirdPartyLinks
      BY <1>1, <1>2 DEF States
    <3> QED BY <1>1, <3>1 DEF ThirdPartyLinks, SameDescription, Locks
  <2> HIDE DEF new
  <2>3. /\ m \in States /\ m.tables = st.tables /\ m.failed = st.failed
        /\ m.history = st.history /\ m.links[l] = new
        /\ \A k \in Links \ {l} : m.links[k] = st.links[k]
    <3> HIDE DEF m
    <3> QED BY <1>1, <1>2, <2>1, <2>2 DEF States
  <2> HIDE DEF m
  <2>4. Shape(l, new)
    BY <1>1, <1>2, <2>2 DEF Shape, SameDescription
  <2>5. \A k \in Links : /\ Shape(k, m.links[k])
                         /\ Locks(m.links[k]) = Locks(st.links[k])
                         /\ m.links[k].scheduled = st.links[k].scheduled
                         /\ LivesTo(st.links[k]) => LivesTo(m.links[k])
    <3>1. LivesTo(st.links[l]) => LivesTo(new)
      BY <2>2 DEF LivesTo, SameDescription
    <3> QED BY <1>2, <2>2, <2>3, <2>4, <3>1
  <2>6. Ordered(m)
    BY <1>2, <2>3, <2>5 DEF Ordered, LocksRemembered, BusyRemembered, BusyHeld
  <2> QED BY <1>1, <2>2, <2>3, <2>5, <2>6 DEF Sound, FailedRight, m, l
<1> QED BY <1>3, <1>4

LEMMA RequestSound ==
  ASSUME NEW st, Sound(st), NEW l \in Links, st.links[l].initiator # UNSET_ID,
         NEW p \in Proposals, NEW reply \in ReplyOffsets
  PROVE  LET m == processLinkRequestMessage(st, l, p, reply)
         IN  Sound(m) /\ m.links[l].initiator # UNSET_ID
<1> DEFINE old == st.links[l]
           new == [old EXCEPT !.status = "received_request_awaiting_reply",
                              !.until_reply = reply, !.proposal = p, !.normalization = 0]
           m == [st EXCEPT !.links = [@ EXCEPT ![l] = new]]
<1>1. st \in States /\ Ordered(st) /\ \A k \in Links : Shape(k, st.links[k])
  BY DEF Sound, Ordered
<1>2. processLinkRequestMessage(st, l, p, reply) = lockIfPossible(m, l)
  BY <1>1 DEF processLinkRequestMessage, States, ThirdPartyLinks
<1>3. /\ new \in ThirdPartyLinks /\ new.initiator = old.initiator
      /\ new.recipient = old.recipient /\ new.scheduled = old.scheduled
      /\ Locks(new) = Locks(old) /\ new.status = "received_request_awaiting_reply"
      /\ new.normalization = 0 /\ new.proposal = p
  <2>1. old \in ThirdPartyLinks /\ reply \in Slots
    BY <1>1, StartSlotsAssumption DEF States
  <2> HIDE DEF old
  <2> QED BY <2>1 DEF ThirdPartyLinks, Statuses, Locks
<1> HIDE DEF new
<1>4. /\ m \in States /\ m.tables = st.tables /\ m.failed = st.failed
      /\ m.history = st.history /\ m.links[l] = new
      /\ \A k \in Links \ {l} : m.links[k] = st.links[k]
  BY <1>1, <1>3 DEF States
<1> HIDE DEF m
<1>5. Shape(l, new)
  BY <1>1, <1>3 DEF Shape
<1>6. \A k \in Links : /\ Shape(k, m.links[k])
                       /\ Locks(m.links[k]) = Locks(st.links[k])
                       /\ m.links[k].scheduled = st.links[k].scheduled
                       /\ LivesTo(st.links[k]) => LivesTo(m.links[k])
  <2>1. LivesTo(new)
    BY <1>3 DEF LivesTo
  <2> QED BY <1>1, <1>3, <1>4, <1>5, <2>1
<1>7. Ordered(m)
  BY <1>1, <1>4, <1>6 DEF Ordered, LocksRemembered, BusyRemembered, BusyHeld
<1>8. Sound(m)
  BY <1>4, <1>6, <1>7 DEF Sound, FailedRight
<1>9. Sound(lockIfPossible(m, l))
  BY <1>3, <1>4, <1>8, LockSound
<1>10. SameBut(m, lockIfPossible(m, l), l)
  <2>1. new.initiator \in l /\ new.recipient \in l
    BY <1>3, <1>5 DEF Shape
  <2> QED BY <1>3, <1>4, <2>1, LockEffect
<1> QED BY <1>2, <1>3, <1>4, <1>9, <1>10 DEF SameBut

LEMMA ReplySound ==
  ASSUME NEW st, Sound(st), NEW l \in Links, st.links[l].initiator # UNSET_ID,
         NEW p \in Proposals, NEW id \in l
  PROVE  Sound(processLinkReplyMessage(st, l, p, id))
<1> DEFINE old == st.links[l]
           new == Established(old, p, id)
           tb  == Unlocked(st, l)
           m   == [st EXCEPT !.tables = tb, !.links = [@ EXCEPT ![l] = new]]
<1>1. st \in States /\ Ordered(st) /\ \A k \in Links : Shape(k, st.links[k])
  BY DEF Sound, Ordered
<1>2. processLinkReplyMessage(st, l, p, id) = scheduleIfPossible(m, l)
  BY <1>1 DEF processLinkReplyMessage, States
<1>3. /\ new \in ThirdPartyLinks /\ new.initiator = old.initiator
      /\ new.recipient = old.recipient /\ new.scheduled = old.scheduled
      /\ Locks(new) = {} /\ new.status = "received_reply_link_established"
      /\ new.normalization = 0 /\ new.proposal = p /\ new.selected_for = id
      /\ new.expiry = LastBurst(p.slot) /\ new.expiry \in Slots
  <2>1. old \in ThirdPartyLinks /\ LastBurst(p.slot) \in Slots /\ id \in UserIds
    BY <1>1, ProposalIs, Bursts, LinkIs DEF States
  <2> HIDE DEF old
  <2> QED BY <2>1 DEF Established, ThirdPartyLinks, Statuses, Locks
<1>4. /\ tb \in TB
      /\ \A t \in Tables, s \in Slots :
           \/ tb[t][s] = st.tables[t][s]
           \/ tb[t][s] = Idle /\ ~IsBusy(st.tables[t][s])
      /\ \A c \in PP, s \in Slots :
           /\ s > 0 /\ IsLocked(st.tables[c][s])
           /\ <<c, s>> \in Locks(old) /\ st.tables[c][s].target \in l
           => tb[c][s] = Idle
  BY <1>1, UnlockedEffect
<1> HIDE DEF new, tb
<1>5. /\ m \in States /\ m.tables = tb /\ m.failed = st.failed
      /\ m.history = st.history /\ m.links[l] = new
      /\ \A k \in Links \ {l} : m.links[k] = st.links[k]
  BY <1>1, <1>3, <1>4 DEF States
<1> HIDE DEF m
<1>6. Shape(l, new)
  BY <1>1, <1>3 DEF Shape
<1>7. \A k \in Links : Shape(k, m.links[k]) /\ m.links[k].scheduled = st.links[k].scheduled
  BY <1>1, <1>3, <1>5, <1>6
<1>8. LocksRemembered(m)
  <2> SUFFICES ASSUME "late_locks" \notin m.history, NEW c \in PP, NEW s \in Slots,
                      s > 0, IsLocked(tb[c][s])
               PROVE  \E k \in Links : <<c, s>> \in Locks(m.links[k]) /\ tb[c][s].target \in k
    BY <1>5 DEF LocksRemembered
  <2>1. tb[c][s] # Idle
    BY IdleIs
  <2>2. tb[c][s] = st.tables[c][s]
    BY <1>4, <2>1, Disjoint
  <2>3. PICK k \in Links : <<c, s>> \in Locks(st.links[k]) /\ st.tables[c][s].target \in k
    BY <1>1, <1>5, <2>2 DEF Ordered, LocksRemembered
  <2>4. k # l
    BY <1>4, <2>1, <2>2, <2>3
  <2> QED BY <1>5, <2>2, <2>3, <2>4
<1>9. \A t \in Tables, s \in Slots : IsBusy(tb[t][s]) <=> IsBusy(st.tables[t][s])
  BY <1>4, IdleIs
<1>10. BusyRemembered(m)
  BY <1>1, <1>5, <1>7, <1>9, Disjoint DEF Ordered, BusyRemembered
<1>11. BusyHeld(m)
  <2>1. \A k \in Links : \A e \in st.links[k].scheduled : e[1] \in Tables /\ e[2] \in Slots
    BY <1>1, Disjoint DEF States, ThirdPartyLinks, Entries
  <2> QED BY <1>1, <1>5, <1>7, <1>9, <2>1 DEF Ordered, BusyHeld
<1>12. Ordered(m) /\ FailedRight(m)
  BY <1>5, <1>7, <1>8, <1>10, <1>11 DEF Ordered, FailedRight, Sound
<1>13. "late_busy" \notin m.history => \A k \in Links \ {l} : LivesTo(m.links[k])
  BY <1>5 DEF Sound
<1>14. Sound(scheduleIfPossible(m, l))
  BY <1>3, <1>5, <1>12, <1>13, ScheduleSound
<1> QED BY <1>2, <1>14

-----------------------------------------------------------------------------
(* The actions *)

LEMMA BecomeIs ==
  ASSUME NEW st \in States, Become(st)
  PROVE  Current' = st
BY DEF Become, Current, States

LEMMA ReceiveRequestSound ==
  ASSUME IInv, NEW t \in Talks, NEW N \in Nat, NEW proposals \in [1 .. N -> Proposals],
         Len(proposals) = N, NEW reply \in ReplyOffsets,
         ReceiveRequest(t[1], t[2], proposals, reply)
  PROVE  Sound(Current')
<1> DEFINE l == {t[1], t[2]}
           x0 == reset(getThirdPartyLink(Current, t[1], t[2]), l)
           Kept == {x \in States : Sound(x) /\ x.links[l].initiator # UNSET_ID}
           D == [n \in 0 .. N |-> Kept]
           turn(n, x) == IF x.failed # "none" THEN x
                         ELSE processLinkRequestMessage(x, l, proposals[n], reply)
           F == [p \in (1 .. N) \X Kept |-> turn(p[1], p[2])]
           parsed[n \in 0 .. Len(proposals)] ==
             IF n = 0 THEN reset(getThirdPartyLink(Current, t[1], t[2]), l)
             ELSE IF parsed[n - 1].failed # "none" THEN parsed[n - 1]
             ELSE processLinkRequestMessage(parsed[n - 1], l, proposals[n], reply)
<1>1. x0 \in Kept /\ l \in Links
  <2>1. <<t[1], t[2]>> \in Talks
    BY TalksAssumption
  <2> DEFINE got == getThirdPartyLink(Current, t[1], t[2])
  <2>2. Sound(got) /\ l \in Links /\ got.links[l].initiator # UNSET_ID
    BY <2>1, GetSound DEF IInv
  <2> HIDE DEF got, l
  <2>3. Sound(reset(got, l)) /\ SameBut(got, reset(got, l), l)
    BY <2>2, ResetSound
  <2>4. reset(got, l) \in States
    BY <2>3 DEF Sound, Ordered
  <2> QED BY <2>2, <2>3, <2>4 DEF SameBut, got
<1> HIDE DEF l
<1>2. ASSUME NEW n \in 1 .. N, NEW x \in Kept PROVE turn(n, x) \in Kept
  <2>1. CASE x.failed # "none"
    BY <2>1
  <2>2. CASE x.failed = "none"
    <3> DEFINE y == processLinkRequestMessage(x, l, proposals[n], reply)
    <3>1. Sound(y) /\ y.links[l].initiator # UNSET_ID
      BY <1>1, RequestSound
    <3>2. y \in States
      BY <3>1 DEF Sound, Ordered
    <3> HIDE DEF y
    <3>3. y \in Kept
      BY <3>1, <3>2
    <3> QED BY <2>2, <3>3 DEF y
  <2> QED BY <2>1, <2>2
<1> HIDE DEF Kept
<1>3. PICK g : Loops(g, N, x0, F) /\ \A n \in 0 .. N : g[n] \in D[n]
  <2>1. x0 \in D[0] /\ \A n \in 1 .. N : \A x \in D[n - 1] : F[<<n, x>>] \in D[n]
    <3> HIDE DEF turn, x0
    <3> QED BY <1>1, <1>2
  <2> HIDE DEF D, F, x0
  <2> QED BY <2>1, LoopExists
<1>4. g = [n \in 0 .. Len(proposals) |->
             IF n = 0 THEN reset(getThirdPartyLink(Current, t[1], t[2]), l)
             ELSE IF g[n - 1].failed # "none" THEN g[n - 1]
             ELSE processLinkRequestMessage(g[n - 1], l, proposals[n], reply)]
  <2>1. \A n \in 1 .. N : F[<<n, g[n - 1]>>] = turn(n, g[n - 1])
    <3>1. \A n \in 1 .. N : g[n - 1] \in Kept
      BY <1>3
    <3> HIDE DEF turn
    <3> QED BY <3>1
  <2>2. \A n \in 0 .. N : n # 0 => n \in 1 .. N
    OBVIOUS
  <2> HIDE DEF x0
  <2>3. g = [n \in 0 .. N |-> IF n = 0 THEN x0 ELSE F[<<n, g[n - 1]>>]]
    BY <1>3, Zenon DEF Loops
  <2>4. g = [n \in 0 .. N |-> IF n = 0 THEN x0 ELSE turn(n, g[n - 1])]
    <3> HIDE DEF F, turn
    <3> QED BY <2>1, <2>2, <2>3
  <2> QED BY <2>4 DEF x0
<1>5. parsed = [n \in 0 .. Len(proposals) |->
                  IF n = 0 THEN reset(getThirdPartyLink(Current, t[1], t[2]), l)
                  ELSE IF parsed[n - 1].failed # "none" THEN parsed[n - 1]
                  ELSE processLinkRequestMessage(parsed[n - 1], l, proposals[n], reply)]
  <2>1. \E f : f = [n \in 0 .. Len(proposals) |->
                      IF n = 0 THEN reset(getThirdPartyLink(Current, t[1], t[2]), l)
                      ELSE IF f[n - 1].failed # "none" THEN f[n - 1]
                      ELSE processLinkRequestMessage(f[n - 1], l, proposals[n], reply)]
    BY <1>4
  <2> QED BY <2>1
<1>6. Become(parsed[Len(proposals)])
  BY DEF ReceiveRequest, l
<1> HIDE DEF parsed, x0
<1>7. parsed[0] = x0 /\ \A n \in 1 .. N : parsed[n] = turn(n, parsed[n - 1])
  BY <1>5 DEF x0
<1>8. \A n \in 0 .. N : parsed[n] \in D[n]
  <2>1. parsed[0] \in D[0] /\ \A n \in 1 .. N : parsed[n - 1] \in D[n - 1] => parsed[n] \in D[n]
    <3> HIDE DEF turn
    <3> QED BY <1>1, <1>2, <1>7
  <2> HIDE DEF D
  <2> QED BY <2>1, LoopKeeps
<1>9. PICK m : m = parsed[Len(proposals)]
  OBVIOUS
<1>10. Sound(m) /\ m \in States /\ Become(m)
  BY <1>6, <1>8, <1>9 DEF Kept
<1>11. Current' = m
  BY <1>10, BecomeIs
<1> QED BY <1>10, <1>11

LEMMA ReceiveReplySound ==
  ASSUME IInv, NEW t \in Talks, NEW p \in Proposals, ReceiveReply(t[1], t[2], p)
  PROVE  Sound(Current')
<1>1. <<t[1], t[2]>> \in Talks
  BY TalksAssumption
<1>2. PICK got : got = getThirdPartyLink(Current, t[1], t[2])
  OBVIOUS
<1>3. /\ Sound(got) /\ {t[1], t[2]} \in Links
      /\ got.links[{t[1], t[2]}].initiator # UNSET_ID
  BY <1>1, <1>2, GetSound DEF IInv
<1>4. PICK m : m = processLinkReplyMessage(got, {t[1], t[2]}, p, t[2])
  OBVIOUS
<1>5. Sound(m)
  BY <1>3, <1>4, ReplySound
<1>6. m \in States
  BY <1>5 DEF Sound, Ordered
<1>7. Become(m)
  BY <1>2, <1>4 DEF ReceiveReply
<1> QED BY <1>5, <1>6, <1>7, BecomeIs

(* The user's own bursts neither are for others nor end what is.           *)
LEMMA OwnSound ==
  ASSUME IInv, NEW c \in PP, NEW s \in Slots, NEW r \in Reservation,
         ~IsLocked(r) /\ ~IsBusy(r), tables' = Mark(tables, c, s, r),
         links' = links, failed' = failed,
         history' \in {history, history \cup {"overwritten"}},
         IsBusy(tables[c][s]) => "overwritten" \in history'
  PROVE  Sound(Current')
<1>1. /\ tables \in TB /\ Current \in States /\ Ordered(Current) /\ FailedRight(Current)
      /\ "late_busy" \notin history => \A l \in Links : LivesTo(links[l])
  BY DEF IInv, Sound, Ordered, States, Current
<1>2. /\ tables' \in TB
      /\ \A d \in PP, x \in Slots :
           tables'[d][x] = IF d = c /\ x = s THEN r ELSE tables[d][x]
  BY <1>1, MarkEffect, Disjoint
<1>3. Current' = [tables |-> tables', links |-> links, failed |-> failed, history |-> history']
  BY DEF Current
<1>4. \A h \in Irregular : h \in history => h \in history'
  OBVIOUS
<1>5. Current' \in States
  BY <1>1, <1>2, <1>3 DEF States, Current, Irregular
<1>6. LocksRemembered(Current')
  <2>1. \A d \in PP, x \in Slots : IsLocked(tables'[d][x]) => tables'[d][x] = tables[d][x]
    BY <1>2
  <2> QED BY <1>1, <1>3, <2>1 DEF Ordered, LocksRemembered, Current
<1>7. BusyRemembered(Current')
  <2>1. \A d \in PP, x \in Slots : IsBusy(tables'[d][x]) => tables'[d][x] = tables[d][x]
    BY <1>2
  <2> QED BY <1>1, <1>3, <2>1 DEF Ordered, BusyRemembered, Current
<1>8. BusyHeld(Current')
  <2>1. \A l \in Links : \A e \in links[l].scheduled : e[1] \in PP /\ e[2] \in Slots
    BY <1>1 DEF States, ThirdPartyLinks, Entries, Current
  <2>2. "overwritten" \notin history' =>
           \A d \in PP, x \in Slots : IsBusy(tables[d][x]) => IsBusy(tables'[d][x])
    BY <1>2
  <2> QED BY <1>1, <1>3, <2>1, <2>2 DEF Ordered, BusyHeld, Current
<1>9. Ordered(Current')
  BY <1>1, <1>3, <1>5, <1>6, <1>7, <1>8 DEF Ordered, Current
<1> QED BY <1>1, <1>3, <1>9 DEF Sound, FailedRight, Current

LEMMA OwnLinksSound ==
  ASSUME IInv, OwnLinks PROVE Sound(Current')
<1>1. PICK c \in PP, s \in Slots :
        \/ \E use \in OwnUses : ReserveOwn(c, s, use[1], use[2])
        \/ ReleaseOwn(c, s)
  BY DEF OwnLinks
<1>2. CASE \E use \in OwnUses : ReserveOwn(c, s, use[1], use[2])
  <2>1. PICK use \in OwnUses : ReserveOwn(c, s, use[1], use[2])
    BY <1>2
  <2>2. PICK r : r = Res(use[2], use[1])
    OBVIOUS
  <2>3. r \in Reservation /\ ~IsLocked(r) /\ ~IsBusy(r)
    BY <2>2, OwnUsesAssumption DEF Res, Reservation, Actions, Ids, IsLocked, IsBusy
  <2>4. /\ tables' = Mark(tables, c, s, r) /\ links' = links /\ failed' = failed
        /\ history' \in {history, history \cup {"overwritten"}}
        /\ IsBusy(tables[c][s]) => "overwritten" \in history'
    BY <2>1, <2>2 DEF ReserveOwn
  <2> QED BY <2>3, <2>4, OwnSound
<1>3. CASE ReleaseOwn(c, s)
  BY <1>3, IdleIs, OwnSound DEF ReleaseOwn, IsBusy, IsTx, IsRx
<1> QED BY <1>1, <1>2, <1>3

LEMMA SlotEndSound ==
  ASSUME IInv, SlotEnd
  PROVE  Sound(Current') /\ \A l \in Links : ~Due(links'[l])
<1> DEFINE N == Cardinality(KnownLinks)
<1>1. PICK order \in Bijection(1 .. N, KnownLinks) : Become(Visited(order))
  BY DEF SlotEnd
<1>2. N \in Nat
  <2>1. IsFiniteSet(Links)
    <3> DEFINE f == [t \in Talks |-> {t[1], t[2]}]
    <3>1. f \in Surjection(Talks, Links)
      BY DEF Links, Surjection
    <3> QED BY <3>1, TalksAssumption, FS_Surjection DEF ExistsSurjection
  <2>2. IsFiniteSet(KnownLinks)
    BY <2>1, FS_Subset DEF KnownLinks
  <2> QED BY <2>2, FS_CardinalityType
<1> HIDE DEF N
<1>3. /\ order \in [1 .. N -> KnownLinks]
      /\ \A l \in KnownLinks : \E i \in 1 .. N : order[i] = l
  BY DEF Bijection, Injection, Surjection
<1>4. order \in [1 .. N -> Links]
  BY <1>3 DEF KnownLinks
<1>5. Len(order) = N
  BY <1>2, <1>4
<1>6. PICK m : m = Visited(order)
  OBVIOUS
<1>7. Sound(m) /\ \A l \in Links : ~Due(m.links[l])
  BY <1>2, <1>3, <1>4, <1>5, <1>6, VisitedSound DEF IInv
<1>8. m \in States /\ Become(m)
  BY <1>1, <1>6, <1>7 DEF Sound, Ordered
<1> QED BY <1>7, <1>8, BecomeIs DEF Become

(* Time passes for the tables and for what the links remember alike.       *)
LEMMA SlotStartSound ==
  ASSUME IInv, failed = "none", SlotStart
  PROVE  Sound(Current')
<1>1. /\ tables \in TB /\ links \in [Links -> ThirdPartyLinks] /\ history \subseteq Irregular
      /\ \A l \in Links : Shape(l, links[l]) /\ ~Due(links[l])
      /\ LocksRemembered(Current) /\ BusyRemembered(Current) /\ BusyHeld(Current)
      /\ "late_busy" \notin history => \A l \in Links : LivesTo(links[l])
  BY DEF IInv, Sound, Ordered, States, Current, SlotStart
<1>2. Horizon \in Nat /\ UNSET \notin Nat
  BY HorizonAssumption, UnsetAssumption
<1>3. /\ tables' \in TB
      /\ \A c \in PP, s \in Slots :
           tables'[c][s] = IF s = Horizon THEN Idle ELSE tables[c][s + 1]
  <2>1. \A s \in Slots : s # Horizon => s + 1 \in Slots
    BY <1>2 DEF Slots
  <2>2. tables' = [t \in Tables |-> [s \in Slots |->
                     IF s = Horizon THEN Idle ELSE tables[t][s + 1]]]
    BY DEF SlotStart, Shift
  <2> QED BY <1>1, <2>1, <2>2, IdleIs, Disjoint DEF TB
<1>4. \A entries \in SUBSET Entries :
        /\ Aged(entries) \in SUBSET Entries
        /\ \A c, s : <<c, s>> \in Aged(entries) <=> s \in Nat /\ <<c, s + 1>> \in entries
  BY <1>2 DEF Aged, Entries, Slots
<1>5. ASSUME NEW l \in Links
      PROVE  /\ links'[l] \in ThirdPartyLinks /\ Shape(l, links'[l])
             /\ Locks(links[l]) \subseteq Entries /\ links[l].scheduled \subseteq Entries
             /\ Locks(links'[l]) = Aged(Locks(links[l]))
             /\ links'[l].scheduled = Aged(links[l].scheduled)
             /\ LivesTo(links[l]) => LivesTo(links'[l])
  <2> DEFINE old == links[l]
             new == onLinkSlotStart(old)
  <2>1. old \in ThirdPartyLinks /\ Shape(l, old) /\ ~Due(old)
    BY <1>1
  <2>2. links'[l] = new
    BY DEF SlotStart
  <2> HIDE DEF old
  <2>3. /\ Aged(old.locks_initiator) \in SUBSET Entries
        /\ Aged(old.locks_recipient) \in SUBSET Entries
        /\ Aged(old.scheduled) \in SUBSET Entries
    BY <1>4, <2>1 DEF ThirdPartyLinks
  <2>4. /\ old.until_reply = UNSET \/ old.until_reply - 1 \in Slots
        /\ old.expiry = UNSET \/ old.expiry - 1 \in Slots
        /\ old.normalization = UNSET \/ old.normalization + 1 \in Nat
    BY <1>2, <2>1 DEF ThirdPartyLinks, Due, Slots
  <2>5. /\ new.locks_initiator = Aged(old.locks_initiator)
        /\ new.locks_recipient = Aged(old.locks_recipient)
        /\ new.scheduled = Aged(old.scheduled)
        /\ new.until_reply = IF old.until_reply = UNSET THEN UNSET ELSE old.until_reply - 1
        /\ new.expiry = IF old.expiry = UNSET THEN UNSET ELSE old.expiry - 1
        /\ new.normalization = IF old.normalization = UNSET THEN UNSET ELSE old.normalization + 1
        /\ new.status = old.status /\ new.initiator = old.initiator
        /\ new.recipient = old.recipient /\ new.proposal = old.proposal
        /\ new.selected_for = old.selected_for
    BY <2>1 DEF onLinkSlotStart, CountedDown, Due, ThirdPartyLinks
  <2>6. new \in ThirdPartyLinks
    <3> DEFINE until == IF old.until_reply = 0 THEN 0 ELSE CountedDown(old.until_reply)
               end == IF old.expiry = 0 THEN 0 ELSE CountedDown(old.expiry)
               age == IF old.normalization = UNSET THEN UNSET ELSE old.normalization + 1
    <3>1. /\ until \in Slots \cup {UNSET} /\ end \in Slots \cup {UNSET}
          /\ age \in Nat \cup {UNSET}
      BY <2>1, <2>4 DEF CountedDown, Due
    <3>2. new = [old EXCEPT !.locks_initiator = Aged(@), !.locks_recipient = Aged(@),
                            !.scheduled = Aged(@), !.until_reply = until,
                            !.expiry = end, !.normalization = age]
      BY DEF onLinkSlotStart
    <3> HIDE DEF until, end, age, new
    <3> QED BY <2>1, <2>3, <3>1, <3>2 DEF ThirdPartyLinks
  <2> HIDE DEF new
  <2>7. Shape(l, new)
    BY <1>2, <2>1, <2>4, <2>5 DEF Shape, ThirdPartyLinks
  <2>8. Locks(new) = Aged(Locks(old))
    BY <2>5 DEF Locks, Aged
  <2>9. LivesTo(old) => LivesTo(new)
    <3> SUFFICES ASSUME LivesTo(old), new.status = "received_reply_link_established",
                        NEW e \in new.scheduled
                 PROVE  e[2] =< new.expiry
      BY DEF LivesTo
    <3>1. PICK d \in old.scheduled : e = <<d[1], d[2] - 1>>
      BY <2>5 DEF Aged
    <3>2. d[2] \in Nat /\ old.expiry \in Nat /\ d[2] =< old.expiry
      BY <1>2, <2>1, <2>5 DEF LivesTo, Shape, ThirdPartyLinks, Entries, Slots
    <3>3. new.expiry = old.expiry - 1
      BY <1>2, <2>5, <3>2
    <3> QED BY <3>1, <3>2, <3>3
  <2>10. Locks(old) \subseteq Entries /\ old.scheduled \subseteq Entries
    BY <2>1 DEF ThirdPartyLinks, Locks
  <2> QED BY <2>2, <2>5, <2>6, <2>7, <2>8, <2>9, <2>10 DEF old
<1>6. \A c \in PP, s \in Slots :
        tables'[c][s] # Idle => s + 1 \in Slots /\ tables'[c][s] = tables[c][s + 1]
  BY <1>2, <1>3 DEF Slots
<1>7. Current' = [tables |-> tables', links |-> links', failed |-> failed', history |-> history']
      /\ history' = history /\ failed' = "none"
  BY <1>1 DEF Current, SlotStart, Due
<1>8. Current' \in States
  <2>1. links' \in [Links -> ThirdPartyLinks]
    <3>1. links' = [l \in Links |-> onLinkSlotStart(links[l])]
      BY DEF SlotStart
    <3> QED BY <1>5, <3>1
  <2> QED BY <1>1, <1>3, <1>7, <2>1 DEF States
<1>9. LocksRemembered(Current')
  <2> SUFFICES ASSUME "late_locks" \notin history, NEW c \in PP, NEW s \in Slots,
                      s > 0, IsLocked(tables'[c][s])
               PROVE  \E l \in Links : <<c, s>> \in Locks(links'[l]) /\ tables'[c][s].target \in l
    BY <1>7 DEF LocksRemembered
  <2>1. s + 1 \in Slots /\ s + 1 > 0 /\ s \in Nat /\ tables'[c][s] = tables[c][s + 1]
    BY <1>2, <1>6, IdleIs DEF Slots
  <2>2. PICK l \in Links : <<c, s + 1>> \in Locks(links[l]) /\ tables[c][s + 1].target \in l
    BY <1>1, <2>1 DEF LocksRemembered, Current
  <2>3. <<c, s>> \in Locks(links'[l])
    BY <1>4, <1>5, <2>1, <2>2
  <2> QED BY <2>1, <2>2, <2>3
<1>10. BusyRemembered(Current')
  <2> SUFFICES ASSUME "replaced" \notin history, NEW c \in PP, NEW s \in Slots,
                      s > 0, IsBusy(tables'[c][s])
               PROVE  \E l \in Links : <<c, s>> \in links'[l].scheduled
    BY <1>7 DEF BusyRemembered
  <2>1. s + 1 \in Slots /\ s + 1 > 0 /\ s \in Nat /\ tables'[c][s] = tables[c][s + 1]
    BY <1>2, <1>6, IdleIs DEF Slots
  <2>2. PICK l \in Links : <<c, s + 1>> \in links[l].scheduled
    BY <1>1, <2>1 DEF BusyRemembered, Current
  <2>3. <<c, s>> \in links'[l].scheduled
    BY <1>4, <1>5, <2>1, <2>2
  <2> QED BY <2>3
<1>11. BusyHeld(Current')
  <2> SUFFICES ASSUME "overwritten" \notin history, NEW l \in Links, NEW e \in links'[l].scheduled
               PROVE  /\ IsBusy(tables'[e[1]][e[2]])
                      /\ \A k \in Links \ {l} : e \notin links'[k].scheduled
    BY <1>7 DEF BusyHeld
  <2>1. PICK d \in links[l].scheduled : d[2] > 0 /\ e = <<d[1], d[2] - 1>>
    BY <1>5 DEF Aged
  <2>2. PICK c \in PP, s \in Slots : d = <<c, s>>
    BY <1>5 DEF Entries
  <2>3. s > 0 /\ s - 1 \in Slots /\ s - 1 # Horizon /\ e = <<c, s - 1>>
    BY <1>2, <2>1, <2>2 DEF Slots
  <2>4. tables'[c][s - 1] = tables[c][s]
    <3>1. tables'[c][s - 1] = tables[c][s - 1 + 1] /\ s - 1 + 1 = s
      BY <1>2, <1>3, <2>3 DEF Slots
    <3> QED BY <3>1
  <2>5. IsBusy(tables[c][s]) /\ \A k \in Links \ {l} : <<c, s>> \notin links[k].scheduled
    BY <1>1, <2>2 DEF BusyHeld, Current
  <2>6. ASSUME NEW k \in Links \ {l} PROVE e \notin links'[k].scheduled
    <3>1. <<c, s - 1 + 1>> \notin links[k].scheduled
      BY <1>2, <2>3, <2>5 DEF Slots
    <3> QED BY <1>4, <1>5, <2>3, <3>1
  <2> QED BY <2>3, <2>4, <2>5, <2>6
<1>12. Ordered(Current')
  BY <1>5, <1>7, <1>8, <1>9, <1>10, <1>11 DEF Ordered
<1> QED BY <1>1, <1>5, <1>7, <1>12 DEF Sound, FailedRight

-----------------------------------------------------------------------------
(* The invariant is inductive. *)

LEMMA InitIInv == Init => IInv
<1> SUFFICES ASSUME Init PROVE IInv
  OBVIOUS
<1>1. /\ EmptyTables \in TB
      /\ \A t \in Tables, s \in Slots : EmptyTables[t][s] = Idle
  BY IdleIs DEF EmptyTables, TB
<1>2. Fresh \in ThirdPartyLinks
  BY DEF Fresh, ThirdPartyLinks, Statuses, NoProposal
<1>3. Current = [tables |-> EmptyTables, links |-> [l \in Links |-> Fresh],
                 failed |-> "none", history |-> {}]
  BY DEF Init, Current
<1>4. Current \in States /\ \A l \in Links : Current.links[l] = Fresh
  BY <1>1, <1>2, <1>3 DEF States
<1>5. \A l \in Links : Shape(l, Current.links[l]) /\ LivesTo(Current.links[l])
  BY <1>4 DEF Shape, LivesTo, Fresh
<1>6. LocksRemembered(Current) /\ BusyRemembered(Current)
  BY <1>1, <1>3, IdleIs, Disjoint DEF LocksRemembered, BusyRemembered
<1>7. BusyHeld(Current)
  BY <1>4 DEF BusyHeld, Fresh
<1>8. Sound(Current)
  BY <1>3, <1>4, <1>5, <1>6, <1>7 DEF Sound, Ordered, FailedRight
<1>9. \A l \in Links : ~Due(links[l])
  BY UnsetAssumption DEF Init, Due, Fresh
<1> QED BY <1>8, <1>9 DEF IInv, Init

LEMMA NextIInv == IInv /\ [Next]_vars => IInv'
<1> SUFFICES ASSUME IInv, [Next]_vars PROVE IInv'
  OBVIOUS
<1>1. CASE UNCHANGED vars
  <2>1. Current' = Current
    BY <1>1 DEF Current, vars
  <2> QED BY <1>1, <2>1 DEF IInv, vars
<1>2. CASE failed = "none" /\ SlotStart
  BY <1>2, SlotStartSound DEF IInv, SlotStart
<1>3. CASE Heard
  <2>1. CASE \E t \in Talks, n \in 1 .. MaxProposals, reply \in ReplyOffsets :
               \E proposals \in [1 .. n -> Proposals] :
                  ReceiveRequest(t[1], t[2], proposals, reply)
    <3>1. PICK t \in Talks, n \in 1 .. MaxProposals, reply \in ReplyOffsets :
                 \E proposals \in [1 .. n -> Proposals] :
                    ReceiveRequest(t[1], t[2], proposals, reply)
      BY <2>1
    <3>2. PICK proposals \in [1 .. n -> Proposals] : ReceiveRequest(t[1], t[2], proposals, reply)
      BY <3>1
    <3>3. n \in Nat /\ Len(proposals) = n
      <4>1. n \in Nat
        BY ProposalsAssumption
      <4> QED BY <4>1
    <3>4. Sound(Current')
      BY <3>2, <3>3, ReceiveRequestSound
    <3> QED BY <3>2, <3>4 DEF IInv, ReceiveRequest
  <2>2. CASE \E t \in Talks, p \in Proposals : ReceiveReply(t[1], t[2], p)
    <3>1. PICK t \in Talks, p \in Proposals : ReceiveReply(t[1], t[2], p)
      BY <2>2
    <3>2. Sound(Current')
      BY <3>1, ReceiveReplySound
    <3> QED BY <3>1, <3>2 DEF IInv, ReceiveReply
  <2> QED BY <1>3, <2>1, <2>2 DEF Heard
<1>4. CASE OwnLinks
  <2>1. phase' = phase /\ phase = "received"
    BY <1>4 DEF OwnLinks, ReserveOwn, ReleaseOwn
  <2> QED BY <1>4, <2>1, OwnLinksSound DEF IInv
<1>5. CASE SlotEnd
  BY <1>5, SlotEndSound DEF IInv, SlotEnd
<1> QED BY <1>1, <1>2, <1>3, <1>4, <1>5 DEF Next

LEMMA Inductive == Spec => []IInv
BY InitIInv, NextIInv, PTL DEF Spec

-----------------------------------------------------------------------------
(* Theorems *)

(* The variables always have their types: the offsets that the links count *)
(* down and remember stay slots of the tables.                             *)
THEOREM TypeCorrect == Spec => []TypeOK
<1>1. IInv => TypeOK
  BY DEF IInv, Sound, Ordered, States, Current, TypeOK, TB
<1> QED BY <1>1, Inductive, PTL

(* Whatever is heard, in whatever order the links are told of a reset: a   *)
(* slot locked for a third-party link is remembered by a link that will    *)
(* unlock it, unless it was locked late.                                   *)
THEOREM NoOrphanLockHolds == Spec => []NoOrphanLock
<1>1. IInv => NoOrphanLock
  <2> SUFFICES ASSUME IInv, "late_locks" \notin history, NEW e \in Entries,
                      e[2] > 0, IsLocked(tables[e[1]][e[2]])
               PROVE  e \in Remembered
    BY DEF NoOrphanLock
  <2>1. PICK c \in PP, s \in Slots : e = <<c, s>>
    BY DEF Entries
  <2>2. PICK l \in Links : e \in Locks(links[l])
    BY <2>1 DEF IInv, Sound, Ordered, LocksRemembered, Current
  <2> QED BY <2>2 DEF Remembered, Locks
<1> QED BY <1>1, Inductive, PTL

(* A slot busy because of a third-party link is held by a link that will   *)
(* return it, unless a link has replaced its map of busy slots.            *)
THEOREM NoOrphanBusyHolds == Spec => []NoOrphanBusy
<1>1. IInv => NoOrphanBusy
  <2> SUFFICES ASSUME IInv, "replaced" \notin history, NEW e \in Entries,
                      e[2] > 0, IsBusy(tables[e[1]][e[2]])
               PROVE  \E l \in Links : e \in links[l].scheduled
    BY DEF NoOrphanBusy
  <2>1. PICK c \in PP, s \in Slots : e = <<c, s>>
    BY DEF Entries
  <2> QED BY <2>1 DEF IInv, Sound, Ordered, BusyRemembered, Current
<1> QED BY <1>1, Inductive, PTL

(* An established link holds nothing beyond its last burst, unless it has  *)
(* scheduled late.                                                         *)
THEOREM BusyWithinLifetimeHolds == Spec => []BusyWithinLifetime
<1>1. IInv => BusyWithinLifetime
  BY DEF IInv, Sound, LivesTo, Current, BusyWithinLifetime, BusyInLifetime
<1> QED BY <1>1, Inductive, PTL

(* No countdown passes zero, and what a link unschedules is still busy     *)
(* unless the user's own link has overwritten it.                          *)
THEOREM NoFailureHolds == Spec => []NoFailure
<1>1. IInv => NoFailure
  BY DEF IInv, Sound, FailedRight, Current, NoFailure
<1> QED BY <1>1, Inductive, PTL
=============================================================================
