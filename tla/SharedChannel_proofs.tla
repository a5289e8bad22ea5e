------------------------ MODULE SharedChannel_proofs ------------------------
(***************************************************************************)
(* The lemmas that the proofs of several components share, for every number*)
(* of channels, receivers and users and every horizon: about the loops of  *)
(* the code that are recursive functions in the modules, about the tables  *)
(* of one user, about the methods of SHLinkManager that work on them, and  *)
(* about the bursts of a link.  A state that the methods act on may have   *)
(* more fields than those of SharedChannel; they leave the others alone.   *)
(***************************************************************************)
EXTENDS SharedChannel, LinkBursts, WellFoundedInduction, TLAPS

TB == [Tables -> [Slots -> Reservation]]

OneTx(tb) ==
  \A s \in Slots :
    /\ \A c, d \in Channels : IsTx(tb[c][s]) /\ IsTx(tb[d][s]) => c = d
    /\ IsTx(tb[TxTable][s]) <=> \E c \in Channels : IsTx(tb[c][s])

HardwareNeverBusy(tb) ==
  \A h \in RxTables \cup {TxTable}, s \in Slots : ~IsBusy(tb[h][s])

(* The channels and receivers of the links are as they were. *)
SameLinks(tb, tb2) == \A t \in PP \cup RxTables : tb2[t] = tb[t]

-----------------------------------------------------------------------------
(* Lemmas about the tables *)

LEMMA Disjoint ==
  /\ SH \in Channels /\ TxTable \in Tables /\ PP \subseteq Channels
  /\ Channels \subseteq Tables /\ RxTables \subseteq Tables
  /\ TxTable \notin Channels /\ TxTable \notin RxTables
  /\ Channels \cap RxTables = {}
  /\ SH \notin PP /\ SH # TxTable
BY TablesAssumption DEF Tables, Channels

LEMMA IdleIs ==
  /\ Idle \in Reservation
  /\ IsIdle(Idle) /\ ~IsTx(Idle) /\ ~IsBusy(Idle) /\ ~IsRx(Idle) /\ ~IsLocked(Idle)
  /\ \A a \in Actions, id \in Ids : Res(a, id) \in Reservation /\ Res(a, id).action = a
BY DEF Idle, Res, Reservation, Actions, Ids, IsIdle, IsTx, IsBusy, IsRx, IsLocked

LEMMA ZeroSlot == 0 \in Slots /\ Slots \subseteq Nat
BY HorizonAssumption DEF Slots

(* What mark on a channel does to the channels and to the hardware tables *)
LEMMA MarkEffect ==
  ASSUME NEW tb \in TB, NEW c \in Channels, NEW s \in Slots, NEW r \in Reservation
  PROVE  LET m == Mark(tb, c, s, r) IN
         /\ m \in TB
         /\ \A d \in Channels, x \in Slots :
               m[d][x] = IF d = c /\ x = s THEN r ELSE tb[d][x]
         /\ \A x \in Slots :
               m[TxTable][x] =
                 IF x = s /\ tb[c][s] # r /\ (IsTx(r) \/ (IsIdle(r) /\ IsTx(tb[c][s])))
                 THEN r ELSE tb[TxTable][x]
         /\ \A h \in RxTables, x \in Slots :
               m[h][x] = tb[h][x] \/ (m[h][x] = r /\ ~IsBusy(r))
         /\ c = SH => SameLinks(tb, m)
<1> DEFINE m == Mark(tb, c, s, r)
           X == {c} \cup ForwardedTx(tb, c, s, r) \cup ForwardedRx(tb, c, s, r)
<1>1. CASE tb[c][s] = r
  BY <1>1, Disjoint DEF Mark, SameLinks
<1>2. CASE tb[c][s] # r
  <2>1. m = [x \in Tables |-> IF x \in X THEN [tb[x] EXCEPT ![s] = r] ELSE tb[x]]
    BY <1>2 DEF Mark
  <2>2. ForwardedTx(tb, c, s, r) \subseteq {TxTable}
    BY DEF ForwardedTx
  <2>3. ForwardedRx(tb, c, s, r) \subseteq RxTables
    BY DEF ForwardedRx, IdleReceivers
  <2>4. IsBusy(r) => ForwardedRx(tb, c, s, r) = {}
    BY DEF ForwardedRx, IsBusy, IsRx, IsIdle
  <2>5. TxTable \in X <=> IsTx(r) \/ (IsIdle(r) /\ IsTx(tb[c][s]))
    BY <2>3, Disjoint DEF ForwardedTx
  <2>6. \A d \in Channels : d \in X <=> d = c
    BY <2>2, <2>3, Disjoint
  <2>7. m \in TB
    BY <2>1 DEF TB
  <2>8. \A d \in Channels, x \in Slots : m[d][x] = IF d = c /\ x = s THEN r ELSE tb[d][x]
    BY <2>1, <2>6, Disjoint DEF TB
  <2>9. \A x \in Slots :
          m[TxTable][x] =
            IF x = s /\ tb[c][s] # r /\ (IsTx(r) \/ (IsIdle(r) /\ IsTx(tb[c][s])))
            THEN r ELSE tb[TxTable][x]
    BY <1>2, <2>1, <2>5, Disjoint DEF TB
  <2>10. \A h \in RxTables : h \in X => ~IsBusy(r)
    BY <2>2, <2>4, Disjoint
  <2>11. \A h \in RxTables, x \in Slots : m[h][x] = tb[h][x] \/ (m[h][x] = r /\ ~IsBusy(r))
    BY <2>1, <2>10, Disjoint DEF TB
  <2>12. c = SH => SameLinks(tb, m)
    <3>1. c = SH => ForwardedRx(tb, c, s, r) = {}
      BY Disjoint DEF ForwardedRx
    <3>2. c = SH => \A t \in PP \cup RxTables : t \notin X
      BY <2>2, <3>1, Disjoint
    <3> QED BY <2>1, <3>2, Disjoint DEF SameLinks
  <2> QED BY <2>7, <2>8, <2>9, <2>11, <2>12
<1> QED BY <1>1, <1>2

(* Marking a channel's slot idle keeps the tables in order. *)
LEMMA MarkIdle ==
  ASSUME NEW tb \in TB, NEW c \in Channels, NEW s \in Slots,
         OneTx(tb), HardwareNeverBusy(tb)
  PROVE  OneTx(Mark(tb, c, s, Idle)) /\ HardwareNeverBusy(Mark(tb, c, s, Idle))
<1> DEFINE m == Mark(tb, c, s, Idle)
<1>1. /\ \A d \in Channels, x \in Slots :
            m[d][x] = IF d = c /\ x = s THEN Idle ELSE tb[d][x]
      /\ \A x \in Slots :
            m[TxTable][x] = IF x = s /\ tb[c][s] # Idle /\ IsTx(tb[c][s])
                            THEN Idle ELSE tb[TxTable][x]
      /\ \A h \in RxTables, x \in Slots : m[h][x] = tb[h][x] \/ m[h][x] = Idle
  BY MarkEffect, IdleIs
<1>2. IsTx(tb[c][s]) => tb[c][s] # Idle
  BY IdleIs
<1> HIDE DEF m
<1>3. HardwareNeverBusy(m)
  BY <1>1, IdleIs DEF HardwareNeverBusy
<1>4. OneTx(m)
  <2> SUFFICES ASSUME NEW x \in Slots
               PROVE  /\ \A d, e \in Channels : IsTx(m[d][x]) /\ IsTx(m[e][x]) => d = e
                      /\ IsTx(m[TxTable][x]) <=> \E d \in Channels : IsTx(m[d][x])
    BY DEF OneTx
  <2>1. CASE x # s
    BY <2>1, <1>1 DEF OneTx
  <2>2. CASE x = s
    <3>1. \A d \in Channels : IsTx(m[d][s]) <=> d # c /\ IsTx(tb[d][s])
      BY <1>1, IdleIs
    <3>2. IsTx(m[TxTable][s]) <=> IsTx(tb[TxTable][s]) /\ ~IsTx(tb[c][s])
      BY <1>1, <1>2, IdleIs
    <3> QED BY <2>2, <3>1, <3>2 DEF OneTx
  <2> QED BY <2>1, <2>2
<1> QED BY <1>3, <1>4 DEF m

(* Marking a transmission where the transmitter is not taken *)
LEMMA MarkTransmission ==
  ASSUME NEW tb \in TB, NEW c \in Channels, NEW s \in Slots, NEW r \in Reservation,
         OneTx(tb), HardwareNeverBusy(tb), IsTx(r), ~IsTx(tb[TxTable][s])
  PROVE  OneTx(Mark(tb, c, s, r)) /\ HardwareNeverBusy(Mark(tb, c, s, r))
<1> DEFINE m == Mark(tb, c, s, r)
<1>1. tb[c][s] # r
  BY DEF OneTx
<1>2. /\ \A d \in Channels, x \in Slots : m[d][x] = IF d = c /\ x = s THEN r ELSE tb[d][x]
      /\ \A x \in Slots : m[TxTable][x] = IF x = s THEN r ELSE tb[TxTable][x]
      /\ \A h \in RxTables, x \in Slots : m[h][x] = tb[h][x] \/ (m[h][x] = r /\ ~IsBusy(r))
  BY <1>1, MarkEffect
<1>3. ~IsBusy(r)
  BY DEF IsTx, IsBusy
<1> HIDE DEF m
<1>4. HardwareNeverBusy(m)
  BY <1>2, <1>3 DEF HardwareNeverBusy
<1>5. OneTx(m)
  BY <1>2 DEF OneTx
<1> QED BY <1>4, <1>5 DEF m

(* Marking anything else where the channel does not transmit *)
LEMMA MarkOther ==
  ASSUME NEW tb \in TB, NEW c \in Channels, NEW s \in Slots, NEW r \in Reservation,
         OneTx(tb), HardwareNeverBusy(tb), ~IsTx(r), ~IsTx(tb[c][s])
  PROVE  OneTx(Mark(tb, c, s, r)) /\ HardwareNeverBusy(Mark(tb, c, s, r))
<1> DEFINE m == Mark(tb, c, s, r)
<1>1. /\ \A d \in Channels, x \in Slots : m[d][x] = IF d = c /\ x = s THEN r ELSE tb[d][x]
      /\ \A x \in Slots : m[TxTable][x] = tb[TxTable][x]
      /\ \A h \in RxTables, x \in Slots : m[h][x] = tb[h][x] \/ (m[h][x] = r /\ ~IsBusy(r))
  BY MarkEffect
<1> HIDE DEF m
<1>2. HardwareNeverBusy(m)
  BY <1>1 DEF HardwareNeverBusy
<1>3. \A d \in Channels, x \in Slots : IsTx(m[d][x]) <=> IsTx(tb[d][x])
  BY <1>1
<1>4. OneTx(m)
  BY <1>1, <1>3 DEF OneTx
<1> QED BY <1>2, <1>4 DEF m

-----------------------------------------------------------------------------
(* Loops.  Induction over the naturals for a set S, and the function that  *)
(* a loop over 1 .. N with the body F computes: it exists, and what each   *)
(* turn keeps holds to the end.                                            *)

LEMMA NatSets ==
  ASSUME NEW S, 0 \in S, \A n \in Nat : n \in S => n + 1 \in S
  PROVE  Nat \subseteq S
<1> SUFFICES ASSUME Nat \ S # {} PROVE FALSE
  OBVIOUS
<1> DEFINE T == Nat \ S
<1>1. PICK x \in T : \A y \in T : ~ (<<y, x>> \in OpToRel(<,Nat))
  <2>1. T \subseteq Nat /\ T # {}
    OBVIOUS
  <2> HIDE DEF T
  <2> QED BY <2>1, NatLessThanWellFounded, WFMin
<1>2. x # 0 /\ x \in Nat
  OBVIOUS
<1>3. x - 1 \in T
  BY <1>2
<1>4. <<x - 1, x>> \in OpToRel(<,Nat)
  BY <1>2 DEF OpToRel
<1> QED BY <1>1, <1>3, <1>4

LEMMA Least ==
  ASSUME NEW S \in SUBSET Nat, S # {}
  PROVE  \E x \in S : \A y \in S : x =< y
<1>1. PICK x \in S : \A y \in S : ~ (<<y, x>> \in OpToRel(<,Nat))
  BY NatLessThanWellFounded, WFMin
<1>2. ASSUME NEW y \in S, ~(x =< y) PROVE FALSE
  <2>1. <<y, x>> \in OpToRel(<,Nat)
    BY <1>2 DEF OpToRel
  <2> QED BY <1>1, <2>1
<1> QED BY <1>2

Loops(g, N, x0, F) == g = [n \in 0 .. N |-> IF n = 0 THEN x0 ELSE F[<<n, g[n - 1]>>]]

LEMMA Iteration ==
  ASSUME NEW F, NEW x0, NEW N \in Nat
  PROVE  \E g : Loops(g, N, x0, F)
<1> DEFINE Good(n) == \E g : Loops(g, n, x0, F)
           S == {n \in Nat : Good(n)}
<1>1. Good(0)
  <2> DEFINE g == [i \in 0 .. 0 |-> x0]
  <2>1. Loops(g, 0, x0, F)
    BY DEF Loops
  <2> QED BY <2>1
<1>2. ASSUME NEW n \in Nat, Good(n) PROVE Good(n + 1)
  <2>1. PICK g : Loops(g, n, x0, F)
    BY <1>2
  <2> DEFINE h == [i \in 0 .. n + 1 |-> IF i = n + 1 THEN F[<<i, g[n]>>] ELSE g[i]]
  <2>2. \A i \in 0 .. n + 1 : h[i] = IF i = 0 THEN x0 ELSE F[<<i, h[i - 1]>>]
    <3> TAKE i \in 0 .. n + 1
    <3>1. CASE i = n + 1
      BY <3>1
    <3>2. CASE i # n + 1 /\ i = 0
      BY <2>1, <3>2 DEF Loops
    <3>3. CASE i # n + 1 /\ i # 0
      <4>1. h[i] = g[i] /\ i \in 0 .. n /\ i - 1 \in 0 .. n /\ i - 1 # n + 1 /\ i - 1 \in 0 .. n + 1
        BY <3>3
      <4>2. g[i] = F[<<i, g[i - 1]>>]
        BY <2>1, <3>3, <4>1 DEF Loops
      <4>3. h[i - 1] = g[i - 1]
        BY <4>1
      <4> QED BY <3>3, <4>1, <4>2, <4>3
    <3> QED BY <3>1, <3>2, <3>3
  <2>3. Loops(h, n + 1, x0, F)
    <3> DEFINE k == [i \in 0 .. n + 1 |-> IF i = 0 THEN x0 ELSE F[<<i, h[i - 1]>>]]
    <3>1. h = [i \in 0 .. n + 1 |-> h[i]]
      OBVIOUS
    <3>2. \A i \in 0 .. n + 1 : k[i] = h[i]
      <4> HIDE DEF h
      <4> QED BY <2>2
    <3>3. k = [i \in 0 .. n + 1 |-> k[i]]
      OBVIOUS
    <3> HIDE DEF h, k
    <3>4. k = h
      BY <3>1, <3>2, <3>3
    <3> QED BY <3>4, Zenon DEF k, Loops
  <2> HIDE DEF h
  <2> QED BY <2>3
<1>3. 0 \in S /\ \A n \in Nat : n \in S => n + 1 \in S
  <2> HIDE DEF Good
  <2> QED BY <1>1, <1>2
<1>4. Nat \subseteq S
  <2> HIDE DEF S
  <2> QED BY <1>3, NatSets
<1>5. Good(N)
  <2> HIDE DEF Good
  <2> QED BY <1>4
<1> QED BY <1>5 DEF Good

(* D[n] holds after n turns. *)
LEMMA LoopKeeps ==
  ASSUME NEW N \in Nat, NEW D, NEW f, f[0] \in D[0],
         \A n \in 1 .. N : f[n - 1] \in D[n - 1] => f[n] \in D[n]
  PROVE  \A n \in 0 .. N : f[n] \in D[n]
<1> DEFINE S == {n \in Nat : n =< N => f[n] \in D[n]}
<1>1. 0 \in S
  OBVIOUS
<1>2. ASSUME NEW n \in Nat, n \in S PROVE n + 1 \in S
  <2>1. ASSUME n + 1 =< N PROVE f[n + 1] \in D[n + 1]
    <3> DEFINE m == n + 1
    <3>1. m \in 1 .. N /\ m - 1 = n /\ n =< N
      BY <2>1
    <3>2. f[m - 1] \in D[m - 1]
      BY <1>2, <3>1
    <3> HIDE DEF m
    <3>3. f[m] \in D[m]
      BY <3>1, <3>2
    <3> QED BY <3>3 DEF m
  <2>2. n + 1 \in Nat
    OBVIOUS
  <2> QED BY <2>1, <2>2
<1>3. Nat \subseteq S
  <2> HIDE DEF S
  <2> QED BY <1>1, <1>2, NatSets
<1> QED BY <1>3

LEMMA LoopExists ==
  ASSUME NEW N \in Nat, NEW D, NEW F, NEW x0, x0 \in D[0],
         \A n \in 1 .. N : \A x \in D[n - 1] : F[<<n, x>>] \in D[n]
  PROVE  \E g : /\ Loops(g, N, x0, F)
               /\ \A n \in 0 .. N : g[n] \in D[n]
<1>1. PICK g : Loops(g, N, x0, F)
  BY Iteration
<1>2. g[0] = x0 /\ \A n \in 1 .. N : g[n] = F[<<n, g[n - 1]>>]
  <2>1. \A n \in 0 .. N : g[n] = IF n = 0 THEN x0 ELSE F[<<n, g[n - 1]>>]
    BY <1>1 DEF Loops
  <2>2. 0 \in 0 .. N /\ \A n \in 1 .. N : n \in 0 .. N /\ n # 0
    OBVIOUS
  <2> QED BY <2>1, <2>2
<1>3. \A n \in 0 .. N : g[n] \in D[n]
  BY <1>2, LoopKeeps
<1> QED BY <1>1, <1>3

-----------------------------------------------------------------------------
(* The broadcasts of a user *)

(* Nothing is locked or busy on the shared channel. *)
SharedOnlyTxRx(tb) ==
  \A s \in Slots : IsIdle(tb[SH][s]) \/ IsTx(tb[SH][s]) \/ IsRx(tb[SH][s])

ReservedAt(tb, scheduled, slot) ==
  \A s \in Slots : IsTx(tb[SH][s]) <=> scheduled /\ s = slot

Fields == {"tables", "slot", "scheduled", "failed"}

Shaped(st) == Fields \subseteq DOMAIN st /\ st = [f \in DOMAIN st |-> st[f]]

Good(st) ==
  /\ Shaped(st)
  /\ st.tables \in TB /\ st.slot \in Slots /\ st.scheduled \in BOOLEAN
  /\ OneTx(st.tables)
  /\ HardwareNeverBusy(st.tables)
  /\ SharedOnlyTxRx(st.tables)
  /\ ReservedAt(st.tables, st.scheduled, st.slot)
  /\ st.scheduled => DoTransmit

Ahead(st) == st.failed = "none" /\ st.scheduled => st.slot > 0

(* Nobody locks or unlocks the transmitter. *)
SameLocks(tb, tb2) ==
  \A s \in Slots : IsLocked(tb[TxTable][s]) \/ IsLocked(tb2[TxTable][s])
                     => tb2[TxTable][s] = tb[TxTable][s]

(* What the methods leave as it was: the receptions on the shared channel, *)
(* the channels and receivers of the links, and all other fields.          *)
Keeps(st, st2) ==
  /\ DOMAIN st2 = DOMAIN st
  /\ \A f \in DOMAIN st \ Fields : st2[f] = st[f]
  /\ SameLinks(st.tables, st2.tables) /\ SameLocks(st.tables, st2.tables)
  /\ \A s \in Slots : IsRx(st.tables[SH][s]) => IsRx(st2.tables[SH][s])
  /\ st2.failed \in {st.failed, "no_candidate"}

-----------------------------------------------------------------------------
(* Lemmas about the tables *)

LEMMA Reservations ==
  /\ Idle \in Reservation /\ OwnBroadcast \in Reservation
  /\ IsIdle(Idle) /\ ~IsTx(Idle) /\ ~IsBusy(Idle) /\ ~IsRx(Idle)
  /\ IsTx(OwnBroadcast) /\ ~IsBusy(OwnBroadcast) /\ ~IsIdle(OwnBroadcast)
  /\ \A a \in Actions, id \in Ids : Res(a, id) \in Reservation /\ Res(a, id).action = a
BY DEF Idle, OwnBroadcast, Res, Reservation, Actions, Ids, IsIdle, IsTx, IsBusy, IsRx

LEMMA ShiftEffect ==
  ASSUME NEW tb \in TB, OneTx(tb), HardwareNeverBusy(tb)
  PROVE  /\ Shift(tb) \in TB
         /\ OneTx(Shift(tb)) /\ HardwareNeverBusy(Shift(tb))
         /\ SharedOnlyTxRx(tb) => SharedOnlyTxRx(Shift(tb))
         /\ \A t \in Tables, s \in Slots : s > 0 /\ IsRx(tb[t][s]) => IsRx(Shift(tb)[t][s - 1])
         /\ \A t \in Tables, s \in Slots :
              /\ IsTx(Shift(tb)[t][s]) => s < Horizon /\ s + 1 \in Slots /\ IsTx(tb[t][s + 1])
              /\ s + 1 \in Slots /\ IsTx(tb[t][s + 1]) => IsTx(Shift(tb)[t][s])
<1> DEFINE m == Shift(tb)
<1>1. \A s \in Slots : s # Horizon => s + 1 \in Slots /\ s < Horizon
  BY HorizonAssumption DEF Slots
<1>2. \A s \in Slots : s = Horizon => s + 1 \notin Slots
  BY HorizonAssumption DEF Slots
<1>3. m \in TB
  BY <1>1, Reservations DEF Shift, TB
<1>4. \A t \in Tables, s \in Slots : m[t][s] = IF s = Horizon THEN Idle ELSE tb[t][s + 1]
  BY DEF Shift
<1> HIDE DEF m
<1>5. \A t \in Tables, s \in Slots :
        /\ IsTx(m[t][s]) => s < Horizon /\ s + 1 \in Slots /\ IsTx(tb[t][s + 1])
        /\ s + 1 \in Slots /\ IsTx(tb[t][s + 1]) => IsTx(m[t][s])
  BY <1>1, <1>2, <1>4, Reservations
<1>6. HardwareNeverBusy(m)
  BY <1>1, <1>4, Reservations, Disjoint DEF HardwareNeverBusy
<1>7. OneTx(m)
  <2> SUFFICES ASSUME NEW s \in Slots
               PROVE  /\ \A d, e \in Channels : IsTx(m[d][s]) /\ IsTx(m[e][s]) => d = e
                      /\ IsTx(m[TxTable][s]) <=> \E d \in Channels : IsTx(m[d][s])
    BY DEF OneTx
  <2>1. CASE s = Horizon
    BY <2>1, <1>4, Reservations, Disjoint
  <2>2. CASE s # Horizon
    <3>1. s + 1 \in Slots /\ \A t \in Tables : m[t][s] = tb[t][s + 1]
      BY <2>2, <1>1, <1>4
    <3> QED BY <3>1, Disjoint DEF OneTx
  <2> QED BY <2>1, <2>2
<1>8. SharedOnlyTxRx(tb) => SharedOnlyTxRx(m)
  BY <1>1, <1>4, Reservations, Disjoint DEF SharedOnlyTxRx
<1>9. ASSUME NEW t \in Tables, NEW s \in Slots, s > 0
      PROVE  m[t][s - 1] = tb[t][s]
  <2>1. s - 1 \in Slots /\ s - 1 # Horizon /\ (s - 1) + 1 = s
    BY <1>9, HorizonAssumption DEF Slots
  <2> QED BY <1>4, <2>1
<1> QED BY <1>3, <1>5, <1>6, <1>7, <1>8, <1>9 DEF m


-----------------------------------------------------------------------------
(* Lemmas about the methods *)

(* Tables that a state may change to when only its reservations on the     *)
(* shared channel change                                                   *)
Fits(st, tb, b, slot) ==
  /\ tb \in TB /\ slot \in Slots /\ b \in BOOLEAN
  /\ OneTx(tb) /\ HardwareNeverBusy(tb) /\ SharedOnlyTxRx(tb)
  /\ SameLinks(st.tables, tb) /\ SameLocks(st.tables, tb)
  /\ ReservedAt(tb, b, slot)
  /\ b => DoTransmit
  /\ \A s \in Slots : IsRx(st.tables[SH][s]) => IsRx(tb[SH][s])

Changed(st, st2, tb, b, slot) ==
  \/ st2 = [st EXCEPT !.tables = tb, !.slot = slot, !.scheduled = b]
  \/ st2 = [st EXCEPT !.tables = tb] /\ slot = st.slot /\ b = st.scheduled

LEMMA TablesChange ==
  ASSUME NEW st, Good(st), NEW tb, NEW slot, NEW b, NEW st2,
         Fits(st, tb, b, slot), Changed(st, st2, tb, b, slot)
  PROVE  /\ Good(st2) /\ Keeps(st, st2) /\ st2.failed = st.failed
         /\ st2.tables = tb /\ st2.slot = slot /\ st2.scheduled = b
<1>1. /\ Shaped(st2) /\ DOMAIN st2 = DOMAIN st
      /\ st2.tables = tb /\ st2.slot = slot /\ st2.scheduled = b /\ st2.failed = st.failed
      /\ \A f \in DOMAIN st \ Fields : st2[f] = st[f]
  <2>1. Shaped(st)
    BY DEF Good
  <2>2. CASE st2 = [st EXCEPT !.tables = tb, !.slot = slot, !.scheduled = b]
    BY <2>1, <2>2 DEF Shaped, Fields
  <2>3. CASE st2 = [st EXCEPT !.tables = tb] /\ slot = st.slot /\ b = st.scheduled
    BY <2>1, <2>3 DEF Shaped, Fields
  <2> QED BY <2>2, <2>3 DEF Changed
<1> QED BY <1>1 DEF Good, Keeps, Fits

LEMMA Fails ==
  ASSUME NEW st, Good(st), NEW st2, st2 = [st EXCEPT !.failed = "no_candidate"]
  PROVE  /\ Good(st2) /\ Keeps(st, st2) /\ st2.failed = "no_candidate"
         /\ st2.tables = st.tables /\ st2.slot = st.slot /\ st2.scheduled = st.scheduled
<1>1. /\ Shaped(st2) /\ DOMAIN st2 = DOMAIN st
      /\ st2.tables = st.tables /\ st2.slot = st.slot /\ st2.scheduled = st.scheduled
      /\ st2.failed = "no_candidate"
      /\ \A f \in DOMAIN st \ Fields : st2[f] = st[f]
  BY DEF Good, Shaped, Fields
<1> QED BY <1>1 DEF Good, Keeps, SameLinks, SameLocks

LEMMA KeepsTransitive ==
  ASSUME NEW st, NEW st2, NEW st3, Keeps(st, st2), Keeps(st2, st3)
  PROVE  Keeps(st, st3)
<1>1. \A f \in DOMAIN st \ Fields : st3[f] = st[f]
  BY DEF Keeps
<1>2. SameLinks(st.tables, st3.tables)
  BY DEF Keeps, SameLinks, SameLocks
<1>3. SameLocks(st.tables, st3.tables)
  BY DEF Keeps, SameLocks
<1> QED BY <1>1, <1>2, <1>3 DEF Keeps

LEMMA KeepsReflexive == \A st : Keeps(st, st)
BY DEF Keeps, SameLinks, SameLocks

LEMMA Unschedule ==
  ASSUME NEW st, Good(st)
  PROVE  LET u == unscheduleBroadcastSlot(st) IN
         /\ Good(u) /\ Keeps(st, u)
         /\ ~u.scheduled
         /\ u.failed = st.failed
         /\ \A s \in Slots : ~IsTx(u.tables[SH][s])
         /\ \A s \in Slots : IsRx(u.tables[SH][s]) => IsRx(st.tables[SH][s])
<1> DEFINE u == unscheduleBroadcastSlot(st)
           m == Mark(st.tables, SH, st.slot, Idle)
<1>0. /\ st.tables \in TB /\ st.slot \in Slots
      /\ SH \in Channels /\ Idle \in Reservation /\ 0 \in Slots
  BY Disjoint, Reservations, ZeroSlot DEF Good
<1>1. CASE ~st.scheduled
  BY <1>1, KeepsReflexive DEF unscheduleBroadcastSlot, Good, ReservedAt
<1>2. CASE st.scheduled
  <2>1. u = [st EXCEPT !.tables = m, !.slot = 0, !.scheduled = FALSE]
    <3>1. Shaped(st)
      BY DEF Good
    <3> QED BY <1>2, <3>1 DEF unscheduleBroadcastSlot, Shaped, Fields
  <2>2. /\ m \in TB /\ SameLinks(st.tables, m) /\ SameLocks(st.tables, m)
        /\ \A x \in Slots : m[SH][x] = IF x = st.slot THEN Idle ELSE st.tables[SH][x]
    <3>1. IsTx(st.tables[SH][st.slot]) => IsTx(st.tables[TxTable][st.slot])
      BY <1>0, Disjoint DEF Good, OneTx
    <3>2. /\ m \in TB /\ SameLinks(st.tables, m)
          /\ \A x \in Slots : m[SH][x] = IF x = st.slot THEN Idle ELSE st.tables[SH][x]
      BY <1>0, MarkEffect
    <3>3. \A x \in Slots : m[TxTable][x] = st.tables[TxTable][x]
                           \/ (m[TxTable][x] = Idle /\ IsTx(st.tables[TxTable][x]))
      BY <1>0, <3>1, MarkEffect, IdleIs
    <3> HIDE DEF m
    <3>4. SameLocks(st.tables, m)
      BY <3>3, IdleIs DEF SameLocks, IsTx, IsLocked
    <3> QED BY <3>2, <3>4
  <2>3. OneTx(m) /\ HardwareNeverBusy(m)
    BY <1>0, MarkIdle DEF Good
  <2>4. \A s \in Slots : ~IsTx(m[SH][s])
    BY <2>2, <1>2, Reservations DEF Good, ReservedAt
  <2>5. SharedOnlyTxRx(m)
    BY <2>2, Reservations DEF Good, SharedOnlyTxRx
  <2>6. IsTx(st.tables[SH][st.slot])
    BY <1>0, <1>2 DEF Good, ReservedAt
  <2>7. \A s \in Slots : IsRx(st.tables[SH][s]) => IsRx(m[SH][s])
    BY <2>2, <2>6 DEF IsTx, IsRx
  <2> HIDE DEF m, u
  <2> DEFINE b == FALSE
  <2>8. Fits(st, m, b, 0)
    BY <1>0, <2>2, <2>3, <2>4, <2>5, <2>7 DEF Fits, ReservedAt
  <2>9. /\ Good(u) /\ Keeps(st, u) /\ u.failed = st.failed
        /\ u.tables = m /\ u.scheduled = b
    <3>1. Changed(st, u, m, b, 0)
      BY <2>1 DEF Changed
    <3> HIDE DEF b
    <3> QED BY <2>8, <3>1, TablesChange
  <2> QED BY <2>2, <2>4, <2>9, Reservations DEF u
<1> QED BY <1>1, <1>2

(* The result is in order, and if nothing was thrown and a broadcast is    *)
(* scheduled, then it lies ahead.                                          *)
LEMMA Schedule ==
  ASSUME NEW st, Good(st), NEW st2 \in scheduleBroadcastSlot(st)
  PROVE  /\ Good(st2) /\ Keeps(st, st2)
         /\ Ahead(st2)
         /\ DoTransmit /\ st2.failed = "none" => st2.scheduled /\ st2.slot \in 1 .. Horizon - 1
         /\ \A s \in Slots : IsRx(st2.tables[SH][s]) => IsRx(st.tables[SH][s])
<1> DEFINE free == unscheduleBroadcastSlot(st)
           From(m) == SHCandidates(free.tables, NumCandidates, m)
<1>1. CASE ~DoTransmit
  BY <1>1, KeepsReflexive DEF scheduleBroadcastSlot, Good, Ahead
<1>2. CASE DoTransmit
  <2>1. /\ Good(free) /\ Keeps(st, free) /\ ~free.scheduled /\ free.failed = st.failed
        /\ \A s \in Slots : ~IsTx(free.tables[SH][s])
        /\ \A s \in Slots : IsRx(free.tables[SH][s]) => IsRx(st.tables[SH][s])
    BY Unschedule
  <2>2. \/ \E m \in MinOffsets : \E s \in From(m) : st2 = ScheduledAt(free, s)
        \/ st2 = [free EXCEPT !.failed = "no_candidate"]
    BY <1>2 DEF scheduleBroadcastSlot
  <2>3. CASE st2 = [free EXCEPT !.failed = "no_candidate"]
    <3>1. /\ Good(st2) /\ Keeps(free, st2) /\ st2.scheduled = free.scheduled
          /\ st2.failed = "no_candidate" /\ st2.tables = free.tables
      BY <2>1, <2>3, Fails
    <3> QED BY <3>1, <2>1, KeepsTransitive DEF Ahead
  <2>4. CASE \E m \in MinOffsets : \E s \in From(m) : st2 = ScheduledAt(free, s)
    <3>0. PICK m \in MinOffsets : \E s \in From(m) : st2 = ScheduledAt(free, s)
      BY <2>4
    <3>1. PICK s \in From(m) : st2 = ScheduledAt(free, s)
      BY <3>0
    <3> DEFINE tb == Mark(free.tables, SH, s, OwnBroadcast)
    <3>2. m \in Nat \ {0} /\ s \in m .. Horizon - 1 /\ IsTxValid(free.tables, SH, s)
      BY MinOffsetsAssumption DEF SHCandidates
    <3>3. s \in Slots /\ s > 0 /\ s \in 1 .. Horizon - 1
      BY <3>2, HorizonAssumption DEF Slots
    <3>4. /\ IsIdle(free.tables[TxTable][s]) /\ CanMark(free.tables, SH, s, OwnBroadcast)
          /\ ~IsRx(free.tables[SH][s])
      BY <3>2, Disjoint, Reservations DEF IsTxValid, CanMark, IsTx, IsRx, IsIdle
    <3>5. ~IsTx(free.tables[TxTable][s])
      BY <3>4 DEF IsIdle, IsTx
    <3>6. /\ free.tables \in TB /\ OneTx(free.tables) /\ HardwareNeverBusy(free.tables)
          /\ Shaped(free)
      BY <2>1 DEF Good
    <3>7. OneTx(tb) /\ HardwareNeverBusy(tb)
      BY <3>3, <3>5, <3>6, Disjoint, Reservations, MarkTransmission
    <3>8. /\ tb \in TB /\ SameLinks(free.tables, tb) /\ SameLocks(free.tables, tb)
          /\ \A x \in Slots : tb[SH][x] = IF x = s THEN OwnBroadcast ELSE free.tables[SH][x]
      <4>1. ~IsLocked(free.tables[TxTable][s]) /\ ~IsLocked(OwnBroadcast)
        BY <3>4, Reservations DEF IsIdle, IsLocked, IsTx
      <4> QED BY <3>3, <3>6, <4>1, Disjoint, Reservations, MarkEffect DEF SameLocks, IsTx
    <3>9. st2 = [free EXCEPT !.tables = tb, !.slot = s, !.scheduled = TRUE]
      <4>1. st2 = [free EXCEPT !.tables = Mark(@, SH, s, OwnBroadcast), !.slot = s, !.scheduled = TRUE]
        BY <3>1, <3>4 DEF ScheduledAt
      <4> HIDE DEF free
      <4> QED BY <4>1, <3>6 DEF Shaped, Fields
    <3> HIDE DEF tb, free
    <3> DEFINE b == TRUE
    <3>10. SharedOnlyTxRx(tb)
      BY <3>8, <2>1, Reservations DEF SharedOnlyTxRx, Good
    <3>11. ReservedAt(tb, TRUE, s)
      BY <3>8, <2>1, Reservations DEF ReservedAt
    <3>12. \A x \in Slots : IsRx(free.tables[SH][x]) => IsRx(tb[SH][x])
      BY <3>4, <3>8
    <3>13. Fits(free, tb, b, s)
      BY <1>2, <3>3, <3>7, <3>8, <3>10, <3>11, <3>12 DEF Fits
    <3>14. /\ Good(st2) /\ Keeps(free, st2) /\ st2.failed = free.failed
           /\ st2.slot = s /\ st2.scheduled = b /\ st2.tables = tb
      <4>1. Changed(free, st2, tb, b, s)
        BY <3>9 DEF Changed
      <4> HIDE DEF b
      <4> QED BY <2>1, <3>13, <4>1, TablesChange
    <3>15. \A x \in Slots : IsRx(tb[SH][x]) => IsRx(free.tables[SH][x])
      BY <3>8, Reservations DEF IsTx, IsRx
    <3> QED BY <2>1, <3>3, <3>14, <3>15, KeepsTransitive DEF Ahead
  <2> QED BY <2>2, <2>3, <2>4
<1> QED BY <1>1, <1>2, DoTransmitAssumption

(* A reception on the shared channel, marked where nothing is transmitted *)
LEMMA MarkReception ==
  ASSUME NEW st, Good(st), NEW s \in Slots, NEW id \in Ids, ~IsTx(st.tables[SH][s])
  PROVE  LET u == [st EXCEPT !.tables = Mark(@, SH, s, Res("RX", id))] IN
         /\ Good(u) /\ Keeps(st, u) /\ u.failed = st.failed
         /\ u.slot = st.slot /\ u.scheduled = st.scheduled
         /\ IsRx(u.tables[SH][s])
<1> DEFINE r == Res("RX", id)
           m == Mark(st.tables, SH, s, r)
           u == [st EXCEPT !.tables = Mark(@, SH, s, r)]
<1>1. /\ r \in Reservation /\ ~IsTx(r) /\ IsRx(r) /\ st.tables \in TB
      /\ OneTx(st.tables) /\ HardwareNeverBusy(st.tables) /\ SH \in Channels
  BY Reservations, Disjoint DEF Good, IsTx, IsRx, Actions
<1>2. OneTx(m) /\ HardwareNeverBusy(m)
  BY <1>1, MarkOther
<1>3. /\ m \in TB /\ SameLinks(st.tables, m) /\ SameLocks(st.tables, m)
      /\ \A x \in Slots : m[SH][x] = IF x = s THEN r ELSE st.tables[SH][x]
  BY <1>1, MarkEffect DEF SameLocks, IsRx, IsLocked
<1>4. u = [st EXCEPT !.tables = m]
  BY DEF Good, Shaped, Fields
<1> HIDE DEF m, u, r
<1>5. ReservedAt(m, st.scheduled, st.slot)
  BY <1>1, <1>3 DEF ReservedAt, Good
<1>6. SharedOnlyTxRx(m) /\ \A x \in Slots : IsRx(st.tables[SH][x]) => IsRx(m[SH][x])
  BY <1>1, <1>3 DEF SharedOnlyTxRx, Good
<1>7. /\ Good(u) /\ Keeps(st, u) /\ u.failed = st.failed
      /\ u.slot = st.slot /\ u.scheduled = st.scheduled /\ u.tables = m
  <2>1. Fits(st, m, st.scheduled, st.slot)
    BY <1>2, <1>3, <1>5, <1>6 DEF Fits, Good
  <2>2. Changed(st, u, m, st.scheduled, st.slot)
    BY <1>4 DEF Changed
  <2> QED BY <2>1, <2>2, TablesChange
<1> QED BY <1>1, <1>3, <1>7 DEF u, r

LEMMA Collision ==
  ASSUME NEW st, Good(st), NEW id \in UserIds, NEW st2 \in broadcastCollisionDetected(st, id)
  PROVE  /\ Good(st2) /\ Keeps(st, st2) /\ Ahead(st2) /\ IsRx(st2.tables[SH][st.slot])
         /\ DoTransmit /\ st2.failed = "none" => st2.scheduled
<1> DEFINE free == unscheduleBroadcastSlot(st)
           taken == [free EXCEPT !.tables = Mark(@, SH, st.slot, Res("RX", id))]
<1>1. /\ Good(free) /\ Keeps(st, free) /\ free.failed = st.failed
      /\ \A s \in Slots : ~IsTx(free.tables[SH][s])
  BY Unschedule
<1>2. st.slot \in Slots /\ id \in Ids
  BY DEF Good, Ids
<1>3. Good(taken) /\ Keeps(free, taken) /\ IsRx(taken.tables[SH][st.slot])
  BY <1>1, <1>2, MarkReception
<1>4. st2 \in scheduleBroadcastSlot(taken)
  BY DEF broadcastCollisionDetected
<1> HIDE DEF taken, free
<1>5. /\ Good(st2) /\ Keeps(taken, st2) /\ Ahead(st2)
      /\ DoTransmit /\ st2.failed = "none" => st2.scheduled
  BY <1>3, <1>4, Schedule
<1>6. Keeps(st, st2)
  <2>1. Keeps(st, taken)
    BY <1>1, <1>3, KeepsTransitive
  <2> QED BY <1>5, <2>1, KeepsTransitive
<1>7. IsRx(st2.tables[SH][st.slot])
  BY <1>2, <1>3, <1>5 DEF Keeps
<1> QED BY <1>5, <1>6, <1>7

LEMMA ExpectedReply ==
  ASSUME NEW st, Good(st), Ahead(st), NEW s \in Slots, NEW id \in UserIds,
         NEW st2 \in reportThirdPartyExpectedLinkReply(st, s, id)
  PROVE  /\ Good(st2) /\ Keeps(st, st2) /\ Ahead(st2) /\ IsRx(st2.tables[SH][s])
         /\ st.scheduled /\ st2.failed = "none" => st2.scheduled
<1>1. CASE IsTx(st.tables[SH][s])
  <2>1. s = st.slot
    BY <1>1 DEF Good, ReservedAt
  <2> QED BY <1>1, <2>1, Collision DEF reportThirdPartyExpectedLinkReply, Good
<1>2. CASE ~IsTx(st.tables[SH][s])
  <2>1. st2 = [st EXCEPT !.tables = Mark(@, SH, s, Res("RX", id))]
    BY <1>2 DEF reportThirdPartyExpectedLinkReply
  <2>2. id \in Ids
    BY DEF Ids
  <2> QED BY <1>2, <2>1, <2>2, MarkReception DEF Ahead
<1> QED BY <1>1, <1>2

(* Whatever was there, the advertised slot is a reception afterwards.      *)
LEMMA AdvertisedSlot ==
  ASSUME NEW st, Good(st), Ahead(st), NEW s \in Slots, NEW id \in UserIds,
         NEW st2 \in checkAdvertisedSlot(st, id, s)
  PROVE  /\ Good(st2) /\ Keeps(st, st2) /\ Ahead(st2) /\ IsRx(st2.tables[SH][s])
         /\ st.scheduled /\ st2.failed = "none" => st2.scheduled
<1>1. CASE IsIdle(st.tables[SH][s])
  <2>1. ~IsTx(st.tables[SH][s])
    BY <1>1 DEF IsIdle, IsTx
  <2>2. st2 \in reportThirdPartyExpectedLinkReply(st, s, id)
    BY <1>1, <2>1 DEF checkAdvertisedSlot, reportThirdPartyExpectedLinkReply
  <2> QED BY <2>2, ExpectedReply
<1>2. CASE ~IsIdle(st.tables[SH][s]) /\ IsTx(st.tables[SH][s])
  <2>1. s = st.slot
    BY <1>2 DEF Good, ReservedAt
  <2> QED BY <1>2, <2>1, Collision DEF checkAdvertisedSlot, Good
<1>3. CASE ~IsIdle(st.tables[SH][s]) /\ ~IsTx(st.tables[SH][s])
  <2>1. st2 = st
    BY <1>3 DEF checkAdvertisedSlot
  <2>2. IsRx(st.tables[SH][s])
    BY <1>3 DEF Good, SharedOnlyTxRx
  <2> QED BY <2>1, <2>2, KeepsReflexive
<1> QED BY <1>1, <1>2, <1>3

(* The tables move on. *)
LEMMA Passed ==
  ASSUME NEW st, Good(st), NEW n \in Slots, NEW on, on = SlotPassed(st, n),
         ReservedAt(Shift(st.tables), st.scheduled, n)
  PROVE  /\ Good(on) /\ on.failed = st.failed /\ on.scheduled = st.scheduled
         /\ on.tables = Shift(st.tables) /\ on.slot = n
         /\ DOMAIN on = DOMAIN st /\ \A f \in DOMAIN st \ Fields : on[f] = st[f]
<1> DEFINE new == Shift(st.tables)
<1>1. on = [st EXCEPT !.tables = new, !.slot = n]
  BY DEF SlotPassed, Good, Shaped, Fields
<1>2. /\ new \in TB /\ OneTx(new) /\ HardwareNeverBusy(new) /\ SharedOnlyTxRx(new)
  BY ShiftEffect DEF Good
<1> HIDE DEF new
<1>3. /\ Shaped(on) /\ DOMAIN on = DOMAIN st
      /\ on.tables = new /\ on.slot = n /\ on.scheduled = st.scheduled /\ on.failed = st.failed
      /\ \A f \in DOMAIN st \ Fields : on[f] = st[f]
  BY <1>1 DEF Good, Shaped, Fields
<1> QED BY <1>2, <1>3 DEF Good, new

(* The slot starts: what happens after the tables have moved on keeps the  *)
(* receptions.                                                             *)
LEMMA SlotStartEffect ==
  ASSUME NEW st, Good(st), Ahead(st), st.failed = "none", NEW st2 \in onSlotStart(st)
  PROVE  /\ Good(st2) /\ st2.failed \in {"none", "no_candidate"}
         /\ \E on : /\ on.tables = Shift(st.tables) /\ Keeps(on, st2)
                    /\ DOMAIN on = DOMAIN st
                    /\ \A f \in DOMAIN st \ Fields : on[f] = st[f]
         /\ st.scheduled => st2.slot = st.slot - 1 /\ st2.scheduled
         /\ ~st.scheduled => Ahead(st2)
         /\ DoTransmit /\ st2.failed = "none" => st2.scheduled
<1>0. /\ st.tables \in TB /\ OneTx(st.tables) /\ HardwareNeverBusy(st.tables)
      /\ st.slot \in Slots /\ st.scheduled \in BOOLEAN
  BY DEF Good
<1>2. CASE ~st.scheduled
  <2> DEFINE zero == SlotPassed(st, 0)
  <2>2. st2 \in scheduleBroadcastSlot(zero)
    BY <1>2 DEF onSlotStart
  <2>4. ReservedAt(Shift(st.tables), st.scheduled, 0)
    BY <1>0, <1>2, ShiftEffect, Disjoint DEF ReservedAt, Good
  <2>5. /\ Good(zero) /\ zero.failed = st.failed /\ zero.tables = Shift(st.tables)
        /\ DOMAIN zero = DOMAIN st /\ \A f \in DOMAIN st \ Fields : zero[f] = st[f]
    BY <2>4, Passed, ZeroSlot
  <2> HIDE DEF zero
  <2>6. /\ Good(st2) /\ Keeps(zero, st2) /\ Ahead(st2)
        /\ DoTransmit /\ st2.failed = "none" => st2.scheduled
    BY <2>2, <2>5, Schedule
  <2>7. st2.failed \in {"none", "no_candidate"}
    BY <2>5, <2>6 DEF Keeps
  <2> QED BY <1>2, <2>5, <2>6, <2>7
<1>3. CASE st.scheduled
  <2> DEFINE on == SlotPassed(st, st.slot - 1)
  <2>1. st.slot > 0 /\ st.slot # 0 /\ st.slot - 1 \in Slots /\ (st.slot - 1) + 1 = st.slot
    BY <1>0, <1>3, HorizonAssumption DEF Ahead, Slots
  <2>2. IsTx(st.tables[SH][st.slot])
    BY <1>0, <1>3 DEF Good, ReservedAt
  <2>3. IsTx(st.tables[TxTable][st.slot])
    BY <1>0, <2>2, Disjoint DEF OneTx
  <2>4. /\ IsTx(Shift(st.tables)[TxTable][st.slot - 1])
        /\ IsTx(Shift(st.tables)[SH][st.slot - 1])
    BY <1>0, <2>1, <2>2, <2>3, ShiftEffect, Disjoint
  <2>8. ReservedAt(Shift(st.tables), st.scheduled, st.slot - 1)
    <3> SUFFICES ASSUME NEW s \in Slots
                 PROVE  IsTx(Shift(st.tables)[SH][s]) <=> s = st.slot - 1
      BY <1>3 DEF ReservedAt
    <3>1. IsTx(Shift(st.tables)[SH][s]) => s = st.slot - 1
      <4>1. IsTx(Shift(st.tables)[SH][s]) => s + 1 \in Slots /\ IsTx(st.tables[SH][s + 1])
        BY <1>0, ShiftEffect, Disjoint
      <4>2. s + 1 \in Slots /\ IsTx(st.tables[SH][s + 1]) => s + 1 = st.slot
        BY <1>3 DEF Good, ReservedAt
      <4> QED BY <4>1, <4>2, <1>0, ZeroSlot
    <3> QED BY <3>1, <2>4
  <2>9. /\ Good(on) /\ on.failed = st.failed /\ on.scheduled = st.scheduled
        /\ on.tables = Shift(st.tables) /\ on.slot = st.slot - 1
        /\ DOMAIN on = DOMAIN st /\ \A f \in DOMAIN st \ Fields : on[f] = st[f]
    BY <2>1, <2>8, Passed
  <2>10. st2 = on
    BY <1>3, <2>1, <2>4, <2>9 DEF onSlotStart
  <2> HIDE DEF on
  <2> QED BY <1>3, <2>9, <2>10, KeepsReflexive
<1> QED BY <1>0, <1>2, <1>3

LEMMA Listen ==
  ASSUME NEW st, Good(st)
  PROVE  /\ Good(ListenNow(st)) /\ Keeps(st, ListenNow(st))
         /\ ListenNow(st).failed = st.failed /\ ListenNow(st).slot = st.slot
         /\ ListenNow(st).scheduled = st.scheduled
<1>1. CASE /\ st.failed = "none"
           /\ IsIdle(st.tables[SH][0]) \/ IsBusy(st.tables[SH][0])
  <2>1. ListenNow(st) = [st EXCEPT !.tables = Mark(@, SH, 0, Res("RX", BROADCAST_ID))]
    BY <1>1 DEF ListenNow
  <2>2. ~IsTx(st.tables[SH][0])
    BY <1>1 DEF IsIdle, IsBusy, IsTx
  <2> QED BY <2>1, <2>2, ZeroSlot, MarkReception DEF Ids
<1>2. CASE ~ ( /\ st.failed = "none"
               /\ IsIdle(st.tables[SH][0]) \/ IsBusy(st.tables[SH][0]) )
  BY <1>2, KeepsReflexive DEF ListenNow
<1> QED BY <1>1, <1>2

(* The tables of the links have moved on, and nothing else has changed. *)
MovedOn(st, l) ==
  /\ DOMAIN l = DOMAIN st
  /\ \A f \in DOMAIN st \ Fields : l[f] = st[f]
  /\ SameLinks(Shift(st.tables), l.tables) /\ SameLocks(Shift(st.tables), l.tables)

LEMMA SlotStarted ==
  ASSUME NEW st, Good(st), Ahead(st), st.failed = "none", NEW st2 \in onSlotStart(st)
  PROVE  /\ Good(ListenNow(st2)) /\ ListenNow(st2).failed \in {"none", "no_candidate"}
         /\ MovedOn(st, ListenNow(st2))
<1> DEFINE l == ListenNow(st2)
<1>1. /\ Good(st2) /\ st2.failed \in {"none", "no_candidate"}
      /\ \E on : /\ on.tables = Shift(st.tables) /\ Keeps(on, st2)
                 /\ DOMAIN on = DOMAIN st
                 /\ \A f \in DOMAIN st \ Fields : on[f] = st[f]
  BY SlotStartEffect
<1>2. PICK on : /\ on.tables = Shift(st.tables) /\ Keeps(on, st2)
                /\ DOMAIN on = DOMAIN st
                /\ \A f \in DOMAIN st \ Fields : on[f] = st[f]
  BY <1>1
<1>3. Good(l) /\ Keeps(st2, l) /\ l.failed = st2.failed
  BY <1>1, Listen
<1> HIDE DEF l
<1>4. Keeps(on, l)
  BY <1>2, <1>3, KeepsTransitive
<1>5. MovedOn(st, l)
  BY <1>2, <1>4 DEF Keeps, MovedOn
<1> QED BY <1>1, <1>3, <1>5 DEF l

(* The cells of the links afterwards *)
LEMMA CellsMoved ==
  ASSUME NEW st, st.tables \in TB, NEW l, Good(l), MovedOn(st, l)
  PROVE  /\ \A t \in PP, s \in Slots :
              l.tables[t][s].action # "IDLE" => s + 1 \in Slots
         /\ \A t \in PP, s \in Slots :
              s + 1 \in Slots => l.tables[t][s] = st.tables[t][s + 1]
         /\ \A t \in Tables, s \in Slots :
              /\ IsLocked(l.tables[t][s]) => s + 1 \in Slots /\ l.tables[t][s] = st.tables[t][s + 1]
              /\ s + 1 \in Slots /\ t # SH /\ IsLocked(st.tables[t][s + 1])
                   => l.tables[t][s] = st.tables[t][s + 1]
<1> DEFINE m == Shift(st.tables)
<1>1. \A s \in Slots : s # Horizon <=> s + 1 \in Slots
  BY HorizonAssumption DEF Slots
<1>2. \A t \in Tables, s \in Slots : m[t][s] = IF s = Horizon THEN Idle ELSE st.tables[t][s + 1]
  BY DEF Shift
<1> HIDE DEF m
<1>3. \A t \in PP \cup RxTables : l.tables[t] = m[t]
  BY DEF MovedOn, SameLinks, m
<1>4. \A t \in PP, s \in Slots : l.tables[t][s] = m[t][s] /\ t \in Tables
  BY <1>3, Disjoint
<1>5. Idle.action = "IDLE"
  BY IdleIs DEF IsIdle
<1>6. ASSUME NEW t \in Tables, NEW s \in Slots, IsLocked(l.tables[t][s])
      PROVE  l.tables[t][s] = m[t][s]
  <2>1. t # SH
    BY <1>6 DEF Good, SharedOnlyTxRx, IsLocked, IsIdle, IsTx, IsRx
  <2>2. CASE t = TxTable
    BY <1>6, <2>2 DEF MovedOn, SameLocks, m
  <2>3. CASE t # TxTable
    BY <2>1, <2>3, <1>3 DEF Tables, Channels
  <2> QED BY <2>2, <2>3
<1>7. \A t \in Tables, s \in Slots :
        IsLocked(l.tables[t][s]) => s + 1 \in Slots /\ l.tables[t][s] = st.tables[t][s + 1]
  BY <1>1, <1>2, <1>6, IdleIs
<1>8. ASSUME NEW t \in Tables, NEW s \in Slots, t # SH, IsLocked(m[t][s])
      PROVE  l.tables[t][s] = m[t][s]
  <2>1. CASE t = TxTable
    BY <1>8, <2>1 DEF MovedOn, SameLocks, m
  <2>2. CASE t # TxTable
    BY <1>8, <2>2, <1>3 DEF Tables, Channels
  <2> QED BY <2>1, <2>2
<1>9. \A t \in Tables, s \in Slots :
        s + 1 \in Slots /\ t # SH /\ IsLocked(st.tables[t][s + 1])
          => l.tables[t][s] = st.tables[t][s + 1]
  BY <1>1, <1>2, <1>8
<1> QED BY <1>1, <1>2, <1>4, <1>5, <1>7, <1>9

-----------------------------------------------------------------------------
(* The bursts of a link, and what a link holds *)

(* Links that end within the planning horizon *)
Offers == {p \in [channel : PP, slot : Slots] : InHorizon(p.slot)}

LEMMA EntryIs ==
  ASSUME NEW X, NEW e \in X \X Slots
  PROVE  e[1] \in X /\ e[2] \in Slots /\ e[2] \in Nat /\ e = <<e[1], e[2]>>
<1>1. PICK x \in X, s \in Slots : e = <<x, s>>
  OBVIOUS
<1>2. s \in Nat
  BY ZeroSlot
<1> QED BY <1>1, <1>2

LEMMA Monotone == ASSUME NEW x \in Nat, NEW y \in Nat, NEW z \in Nat, x =< y
                  PROVE  x * z =< y * z
BY SMT

LEMMA NextExchange ==
  ASSUME NEW start \in Int, NEW k \in 0 .. Timeout - 1, NEW left \in 0 .. Timeout - 1,
         start + (2 * k + 1) * Increment = 0,
         left + 1 < Timeout => start + (2 * (Timeout - (left + 1)) - 1) * Increment =< -1
  PROVE  /\ start + (2 * (Timeout - left) - 1) * Increment =< 0
         /\ left = 0 => LastBurst(start) =< 0
<1> DEFINE At(n) == n * Increment
           k0    == Timeout - (left + 1)
<1>1. Timeout \in Nat \ {0} /\ Increment \in Nat \ {0}
  BY BurstsAssumption
<1>2. \A x, y \in Nat : x =< y => At(x) =< At(y)
  BY <1>1, Monotone
<1>3. \A x \in Nat : At(x) \in Nat
  BY <1>1
<1>4. start + At(2 * k + 1) = 0 /\ (k0 > 0 => start + At(2 * k0 - 1) =< -1)
  BY <1>1
<1>5. k0 \in Nat /\ 2 * k + 1 \in Nat /\ 2 * k0 + 1 \in Nat /\ (k0 > 0 => 2 * k0 - 1 \in Nat)
  BY <1>1
<1>6. 2 * (Timeout - left) - 1 = 2 * k0 + 1
  BY <1>1
<1> HIDE DEF At, k0
<1>7. k0 =< k
  <2> SUFFICES ASSUME k0 > k PROVE FALSE
    BY <1>1, <1>5
  <2>1. 2 * k + 1 =< 2 * k0 - 1 /\ k0 > 0
    BY <1>5
  <2>2. At(2 * k + 1) =< At(2 * k0 - 1) /\ At(2 * k + 1) \in Nat /\ At(2 * k0 - 1) \in Nat
    BY <1>2, <1>3, <1>5, <2>1
  <2> QED BY <1>4, <2>1, <2>2
<1>8. start + At(2 * k0 + 1) =< 0
  <2>1. 2 * k0 + 1 =< 2 * k + 1
    BY <1>5, <1>7
  <2>2. At(2 * k0 + 1) =< At(2 * k + 1) /\ At(2 * k0 + 1) \in Nat /\ At(2 * k + 1) \in Nat
    BY <1>2, <1>3, <1>5, <2>1
  <2> QED BY <1>4, <2>2
<1>9. start + At(2 * (Timeout - left) - 1) =< 0
  BY <1>6, <1>8
<1>10. left = 0 => LastBurst(start) = start + At(2 * (Timeout - left) - 1)
  BY <1>1 DEF LastBurst, At
<1> QED BY <1>9, <1>10 DEF At

(* Those of a link that ends within the horizon are slots, no later than   *)
(* its last burst.                                                         *)
LEMMA BurstSlots ==
  ASSUME NEW start \in Nat, InHorizon(start)
  PROVE  \A s \in TxBursts(start) \cup RxBursts(start) : s \in Slots /\ s =< LastBurst(start)
<1>1. Timeout \in Nat /\ Timeout >= 1 /\ Increment \in Nat /\ Horizon \in Nat
  BY BurstsAssumption, HorizonAssumption
<1> DEFINE At(n) == n * Increment
           last  == At(2 * Timeout - 1)
<1>2. \A n \in Nat : At(n) \in Nat /\ (n =< 2 * Timeout - 1 => At(n) =< last)
  <2>1. 2 * Timeout - 1 \in Nat
    BY <1>1
  <2> QED BY <1>1, <2>1, Monotone
<1>3. LastBurst(start) = start + last /\ start + last =< Horizon
  BY DEF InHorizon, LastBurst
<1>4. last \in Nat
  <2>1. 2 * Timeout - 1 \in Nat
    BY <1>1
  <2> HIDE DEF At
  <2> QED BY <2>1, <1>2
<1> SUFFICES ASSUME NEW s \in TxBursts(start) \cup RxBursts(start)
             PROVE  s \in Slots /\ s =< LastBurst(start)
  OBVIOUS
<1>5. s \in Nat /\ \E k \in 0 .. Timeout - 1 : \/ s = start + At(2 * k)
                                               \/ s = start + At(2 * k + 1)
  BY DEF TxBursts, RxBursts
<1> HIDE DEF At, last
<1>6. PICK n \in Nat : n =< 2 * Timeout - 1 /\ s = start + At(n)
  <2>1. PICK k \in 0 .. Timeout - 1 : s = start + At(2 * k) \/ s = start + At(2 * k + 1)
    BY <1>5
  <2>2. /\ 2 * k \in Nat /\ 2 * k =< 2 * Timeout - 1
        /\ 2 * k + 1 \in Nat /\ 2 * k + 1 =< 2 * Timeout - 1
    BY <1>1
  <2> QED BY <2>1, <2>2
<1>7. At(n) \in Nat /\ At(n) =< last
  BY <1>2, <1>6
<1> QED BY <1>1, <1>3, <1>4, <1>5, <1>6, <1>7 DEF Slots

(* The proposals that are found end within the horizon. *)
LEMMA Proposed ==
  ASSUME NEW tb, NEW min_offset \in Nat, NEW p \in findLinkProposals(tb, min_offset)
  PROVE  p \in Offers /\ min_offset =< p.slot
<1>1. PICK c \in PP : /\ ValidStarts(tb, c, min_offset) # {}
                      /\ p = [channel |-> c, slot |-> Min(ValidStarts(tb, c, min_offset))]
  BY DEF findLinkProposals
<1> DEFINE S == ValidStarts(tb, c, min_offset)
<1>2. ASSUME NEW s \in S
      PROVE  s \in Nat /\ min_offset =< s /\ s \in Slots /\ InHorizon(s)
  BY HorizonAssumption DEF ValidStarts, Slots
<1>3. S # {} /\ S \in SUBSET Nat
  BY <1>1, <1>2
<1> HIDE DEF S
<1>4. Min(S) \in S
  BY <1>3, Least DEF Min
<1> QED BY <1>1, <1>2, <1>4 DEF Offers, S

LEMMA Returned ==
  ASSUME NEW tb \in TB, OneTx(tb), HardwareNeverBusy(tb), SharedOnlyTxRx(tb),
         NEW locks, NEW ids, NEW scheduled \in SUBSET (PP \X Slots),
         \A e \in scheduled : tb[e[1]][e[2]].action \in {"TX", "RX"}
  PROVE  LET unlocked == UnlockAll(tb, locks, ids)
             free     == UnscheduleAll(unlocked, scheduled)
         IN  /\ free \in TB /\ OneTx(free) /\ HardwareNeverBusy(free) /\ SharedOnlyTxRx(free)
             /\ \A t \in Tables, s \in Slots : free[t][s] \in {tb[t][s], Idle}
             /\ \A s \in Slots : IsTx(free[SH][s]) <=> IsTx(tb[SH][s])
             /\ \A t \in Tables, s \in Slots :
                  IsLocked(free[t][s]) => ~(<<t, s>> \in locks /\ s > 0 /\ tb[t][s].target \in ids)
             /\ \A t \in Tables, s \in Slots :
                  free[t][s] # tb[t][s] => \/ <<t, s>> \in scheduled
                                           \/ CanUnlock(tb[t][s], ids)
                                           \/ t = TxTable /\ IsTx(tb[t][s])
             /\ \A e \in scheduled : free[e[1]][e[2]] = Idle
             /\ ~UnscheduleThrows(unlocked, scheduled, {"TX", "RX"})
<1> DEFINE mid == UnlockAll(tb, locks, ids)
           free == UnscheduleAll(mid, scheduled)
<1>1. /\ mid \in TB
      /\ \A t \in Tables, s \in Slots :
           mid[t][s] = IF <<t, s>> \in locks /\ s > 0 /\ CanUnlock(tb[t][s], ids)
                       THEN Idle ELSE tb[t][s]
  BY IdleIs DEF UnlockAll, TB
<1> HIDE DEF mid
<1>2. /\ free \in TB
      /\ \A t \in Tables, s \in Slots :
           free[t][s] = IF \/ <<t, s>> \in scheduled
                           \/ t = TxTable /\ \E c \in Channels : <<c, s>> \in scheduled /\ IsTx(mid[c][s])
                        THEN Idle ELSE mid[t][s]
  BY <1>1, IdleIs DEF UnscheduleAll, TB
<1> HIDE DEF free
<1>3. \A t \in Tables, s \in Slots :
        /\ mid[t][s] \in {tb[t][s], Idle}
        /\ mid[t][s] # tb[t][s] => IsIdle(tb[t][s]) \/ IsLocked(tb[t][s])
  BY <1>1 DEF CanUnlock, CanLock
<1>4. \A t \in Tables, s \in Slots :
        /\ IsTx(mid[t][s]) <=> IsTx(tb[t][s])
        /\ tb[t][s].action \in {"TX", "RX"} => mid[t][s] = tb[t][s]
  BY <1>3, IdleIs DEF IsTx, IsIdle, IsLocked
<1>5. \A t \in Tables, s \in Slots : free[t][s] \in {tb[t][s], Idle}
  BY <1>2, <1>3
<1>6. \A c \in Channels, s \in Slots :
        IsTx(free[c][s]) <=> IsTx(tb[c][s]) /\ <<c, s>> \notin scheduled
  <2> SUFFICES ASSUME NEW c \in Channels, NEW s \in Slots
               PROVE  IsTx(free[c][s]) <=> IsTx(tb[c][s]) /\ <<c, s>> \notin scheduled
    OBVIOUS
  <2>1. c \in Tables /\ c # TxTable /\ ~IsTx(Idle)
    BY IdleIs, Disjoint
  <2>2. free[c][s] = IF <<c, s>> \in scheduled THEN Idle ELSE mid[c][s]
    BY <1>2, <2>1
  <2>3. IsTx(mid[c][s]) <=> IsTx(tb[c][s])
    BY <1>4, <2>1
  <2> QED BY <2>1, <2>2, <2>3
<1>7. \A s \in Slots :
        IsTx(free[TxTable][s]) <=>
          IsTx(tb[TxTable][s]) /\ ~\E c \in Channels : <<c, s>> \in scheduled /\ IsTx(tb[c][s])
  <2> SUFFICES ASSUME NEW s \in Slots
               PROVE  IsTx(free[TxTable][s]) <=>
                        IsTx(tb[TxTable][s]) /\ ~\E c \in Channels : <<c, s>> \in scheduled /\ IsTx(tb[c][s])
    OBVIOUS
  <2>1. <<TxTable, s>> \notin scheduled /\ TxTable \in Tables /\ ~IsTx(Idle)
    BY IdleIs, Disjoint
  <2>2. \A c \in Channels : IsTx(mid[c][s]) <=> IsTx(tb[c][s])
    BY <1>4, Disjoint
  <2>3. IsTx(mid[TxTable][s]) <=> IsTx(tb[TxTable][s])
    BY <1>4, <2>1
  <2>4. free[TxTable][s] = IF \E c \in Channels : <<c, s>> \in scheduled /\ IsTx(mid[c][s])
                           THEN Idle ELSE mid[TxTable][s]
    BY <1>2, <2>1
  <2> QED BY <2>1, <2>2, <2>3, <2>4
<1>8. OneTx(free)
  <2> SUFFICES ASSUME NEW s \in Slots
               PROVE  /\ \A d, e \in Channels : IsTx(free[d][s]) /\ IsTx(free[e][s]) => d = e
                      /\ IsTx(free[TxTable][s]) <=> \E d \in Channels : IsTx(free[d][s])
    BY DEF OneTx
  <2>1. /\ \A d, e \in Channels : IsTx(tb[d][s]) /\ IsTx(tb[e][s]) => d = e
        /\ IsTx(tb[TxTable][s]) <=> \E d \in Channels : IsTx(tb[d][s])
    BY DEF OneTx
  <2> QED BY <2>1, <1>6, <1>7
<1>9. HardwareNeverBusy(free)
  BY <1>5, IdleIs, Disjoint DEF HardwareNeverBusy
<1>10. SharedOnlyTxRx(free)
  BY <1>5, IdleIs, Disjoint DEF SharedOnlyTxRx
<1>11. \A s \in Slots : IsTx(free[SH][s]) <=> IsTx(tb[SH][s])
  BY <1>6, Disjoint
<1>12. ASSUME NEW t \in Tables, NEW s \in Slots, IsLocked(free[t][s])
       PROVE  ~(<<t, s>> \in locks /\ s > 0 /\ tb[t][s].target \in ids)
  <2>1. mid[t][s] = free[t][s] /\ IsLocked(mid[t][s])
    BY <1>2, <1>12, IdleIs
  <2>2. IsLocked(tb[t][s]) /\ mid[t][s] = tb[t][s]
    BY <2>1, <1>3, IdleIs
  <2> QED BY <2>1, <2>2, <1>1, IdleIs DEF CanUnlock, CanLock
<1>13. ASSUME NEW e \in scheduled
       PROVE  free[e[1]][e[2]] = Idle /\ mid[e[1]][e[2]].action \in {"TX", "RX"}
  <2>1. PICK c \in PP, s \in Slots : e = <<c, s>>
    OBVIOUS
  <2>2. c \in Tables /\ e[1] = c /\ e[2] = s
    BY <2>1, Disjoint
  <2> QED BY <2>1, <2>2, <1>2, <1>4
<1>14. ASSUME NEW t \in Tables, NEW s \in Slots, free[t][s] # tb[t][s]
       PROVE  <<t, s>> \in scheduled \/ CanUnlock(tb[t][s], ids) \/ (t = TxTable /\ IsTx(tb[t][s]))
  <2>1. CASE mid[t][s] # tb[t][s]
    BY <1>1, <2>1
  <2>2. CASE mid[t][s] = tb[t][s] /\ <<t, s>> \notin scheduled
    <3>1. t = TxTable /\ \E c \in Channels : IsTx(mid[c][s])
      BY <1>2, <1>14, <2>2
    <3> QED BY <3>1, <1>4, Disjoint DEF OneTx
  <2> QED BY <2>1, <2>2
<1> QED BY <1>2, <1>5, <1>8, <1>9, <1>10, <1>11, <1>12, <1>13, <1>14
        DEF UnscheduleThrows, mid, free

(* What is scheduled for the peer on a channel leaves the other channels   *)
(* alone, takes no lock, and ends every exchange in a slot of RxBursts.    *)
Booked(tb, new, scheduled, start, peer, initiator) ==
  /\ new \in TB /\ OneTx(new) /\ HardwareNeverBusy(new) /\ SharedOnlyTxRx(new)
  /\ \A s \in Slots : IsTx(new[SH][s]) <=> IsTx(tb[SH][s])
  /\ \A t \in Tables, s \in Slots : IsLocked(new[t][s]) => IsLocked(tb[t][s])
  /\ scheduled \in SUBSET (PP \X Slots)
  /\ \A e \in scheduled :
       /\ new[e[1]][e[2]].action \in {"TX", "RX"} /\ new[e[1]][e[2]].target = peer
       /\ e[2] =< LastBurst(start)
       /\ new[e[1]][e[2]].action = (IF initiator THEN "RX" ELSE "TX")
            => e[2] \in RxBursts(start)
  /\ \A ch \in PP, s \in Slots : new[ch][s] = tb[ch][s] \/ <<ch, s>> \in scheduled
  /\ \A ch \in PP, s \in Slots : new[ch][s] = tb[ch][s] \/ CanUse(tb[ch][s], peer)
  /\ \A t \in Channels \cup {TxTable}, s \in Slots : IsLocked(tb[t][s]) => new[t][s] = tb[t][s]

LEMMA Scheduled ==
  ASSUME NEW tb \in TB, OneTx(tb), HardwareNeverBusy(tb), SharedOnlyTxRx(tb),
         NEW c \in PP, NEW start \in Nat, InHorizon(start),
         NEW peer \in UserIds, NEW initiator
  PROVE  LET b == scheduleBursts(tb, c, start, peer, initiator)
         IN  Booked(tb, b.tables, b.scheduled, start, peer, initiator)
<1> DEFINE Act(s) == IF (s \in TxBursts(start)) <=> initiator THEN "TX" ELSE "RX"
           usable == {s \in TxBursts(start) \cup RxBursts(start) : Usable(tb, c, s, peer, Act(s))}
           marked == [s \in usable |-> Mark(tb, c, s, Res(Act(s), peer))]
           b      == scheduleBursts(tb, c, start, peer, initiator)
           new    == b.tables
<1>1. /\ new = [t \in Tables |-> [s \in Slots |-> IF s \in usable THEN marked[s][t][s] ELSE tb[t][s]]]
      /\ b.scheduled = {<<c, s>> : s \in usable}
  BY DEF scheduleBursts
<1>2. usable \subseteq Slots /\ \A s \in usable : s =< LastBurst(start)
  BY BurstSlots
<1>3. c \in Channels /\ c \in Tables /\ c # SH /\ peer \in Ids
  BY Disjoint DEF Ids
<1>4. ASSUME NEW s \in usable
      PROVE  LET r == Res(Act(s), peer)
                 m == marked[s]
             IN  /\ m \in TB /\ OneTx(m) /\ HardwareNeverBusy(m)
                 /\ r.action \in {"TX", "RX"} /\ r.action = Act(s) /\ r.target = peer
                 /\ \A d \in Channels : m[d][s] = IF d = c THEN r ELSE tb[d][s]
                 /\ \A t \in Tables : IsLocked(m[t][s]) => IsLocked(tb[t][s])
                 /\ CanUse(tb[c][s], peer)
                 /\ IsLocked(tb[TxTable][s]) => m[TxTable][s] = tb[TxTable][s]
  <2> DEFINE r == Res(Act(s), peer)
             m == Mark(tb, c, s, r)
  <2>1. r \in Reservation /\ r.action = Act(s) /\ r.target = peer /\ Act(s) \in {"TX", "RX"}
    BY <1>3 DEF Res, Reservation, Actions
  <2>2. marked[s] = m /\ s \in Slots
    BY <1>2
  <2>3. CanUse(tb[c][s], peer)
    BY DEF Usable
  <2>4. IsTx(r) => ~IsTx(tb[TxTable][s])
    <3>1. IsTx(r) => Available(tb[c][s], tb[TxTable][s], peer)
      BY <2>1 DEF Usable, IsTx
    <3> QED BY <3>1 DEF Available, CanUse, IsIdle, IsBusy, IsTx
  <2>5. ~IsTx(r) => ~IsTx(tb[c][s])
    BY <2>3 DEF CanUse, IsIdle, IsBusy, IsTx
  <2> HIDE DEF r, m, usable
  <2>6. OneTx(m) /\ HardwareNeverBusy(m)
    <3>1. IsTx(r) => OneTx(m) /\ HardwareNeverBusy(m)
      BY <1>3, <2>1, <2>2, <2>4, MarkTransmission DEF m
    <3>2. ~IsTx(r) => OneTx(m) /\ HardwareNeverBusy(m)
      BY <1>3, <2>1, <2>2, <2>5, MarkOther DEF m
    <3> QED BY <3>1, <3>2
  <2>7. /\ m \in TB
        /\ \A d \in Channels, x \in Slots : m[d][x] = IF d = c /\ x = s THEN r ELSE tb[d][x]
        /\ \A x \in Slots :
               m[TxTable][x] =
                 IF x = s /\ tb[c][s] # r /\ (IsTx(r) \/ (IsIdle(r) /\ IsTx(tb[c][s])))
                 THEN r ELSE tb[TxTable][x]
        /\ \A h \in RxTables, x \in Slots :
               m[h][x] = tb[h][x] \/ (m[h][x] = r /\ ~IsBusy(r))
    BY <1>3, <2>1, <2>2, MarkEffect DEF m
  <2>8. ~IsLocked(r)
    BY <2>1 DEF IsLocked
  <2>9. \A t \in Tables : IsLocked(m[t][s]) => IsLocked(tb[t][s])
    BY <2>2, <2>7, <2>8 DEF Tables
  <2>10. IsLocked(tb[TxTable][s]) => m[TxTable][s] = tb[TxTable][s]
    <3>1. IsTx(r) => Available(tb[c][s], tb[TxTable][s], peer)
      BY <2>1 DEF Usable, IsTx, r, usable
    <3>2. IsLocked(tb[TxTable][s]) => ~Available(tb[c][s], tb[TxTable][s], peer)
      BY DEF Available, CanUse, IsIdle, IsBusy, IsLocked
    <3>3. ~IsIdle(r)
      BY <2>1 DEF IsIdle, r
    <3> QED BY <2>2, <2>7, <3>1, <3>2, <3>3
  <2> QED BY <2>1, <2>2, <2>3, <2>6, <2>7, <2>9, <2>10 DEF r
<1> HIDE DEF marked, usable, b
<1>5. /\ new \in TB
      /\ \A t \in Tables, s \in Slots : new[t][s] = IF s \in usable THEN marked[s][t][s] ELSE tb[t][s]
  <2>1. \A s \in usable, t \in Tables : marked[s][t][s] \in Reservation
    BY <1>2, <1>4 DEF TB
  <2> QED BY <1>1, <2>1 DEF TB
<1> HIDE DEF new
<1>6. OneTx(new)
  <2> SUFFICES ASSUME NEW s \in Slots
               PROVE  /\ \A d, e \in Channels : IsTx(new[d][s]) /\ IsTx(new[e][s]) => d = e
                      /\ IsTx(new[TxTable][s]) <=> \E d \in Channels : IsTx(new[d][s])
    BY DEF OneTx
  <2>1. CASE s \in usable
    <3>1. OneTx(marked[s]) /\ \A t \in Tables : new[t][s] = marked[s][t][s]
      BY <2>1, <1>4, <1>5
    <3> QED BY <3>1, Disjoint DEF OneTx
  <2>2. CASE s \notin usable
    <3>1. \A t \in Tables : new[t][s] = tb[t][s]
      BY <2>2, <1>5
    <3> QED BY <3>1, Disjoint DEF OneTx
  <2> QED BY <2>1, <2>2
<1>7. HardwareNeverBusy(new)
  BY <1>4, <1>5, Disjoint DEF HardwareNeverBusy
<1>8. \A s \in Slots : new[SH][s] = tb[SH][s]
  BY <1>3, <1>4, <1>5, Disjoint
<1>9. SharedOnlyTxRx(new) /\ \A s \in Slots : IsTx(new[SH][s]) <=> IsTx(tb[SH][s])
  BY <1>8 DEF SharedOnlyTxRx
<1>10. \A t \in Tables, s \in Slots : IsLocked(new[t][s]) => IsLocked(tb[t][s])
  BY <1>4, <1>5
<1>11. b.scheduled \in SUBSET (PP \X Slots)
  BY <1>1, <1>2
<1>12. ASSUME NEW e \in b.scheduled
       PROVE  /\ new[e[1]][e[2]].action \in {"TX", "RX"} /\ new[e[1]][e[2]].target = peer
              /\ e[2] =< LastBurst(start)
              /\ new[e[1]][e[2]].action = (IF initiator THEN "RX" ELSE "TX")
                   => e[2] \in RxBursts(start)
  <2>1. PICK s \in usable : e = <<c, s>>
    BY <1>1
  <2>2. e[1] = c /\ e[2] = s
    BY <2>1
  <2>3. new[c][s] = Res(Act(s), peer)
    BY <1>2, <1>3, <1>4, <1>5
  <2>4. Act(s) = (IF initiator THEN "RX" ELSE "TX") => s \in RxBursts(start)
    BY DEF usable
  <2> HIDE DEF Act
  <2> QED BY <1>2, <1>4, <2>2, <2>3, <2>4
<1>13. \A ch \in PP, s \in Slots : new[ch][s] = tb[ch][s] \/ <<ch, s>> \in b.scheduled
  <2> SUFFICES ASSUME NEW ch \in PP, NEW s \in Slots, new[ch][s] # tb[ch][s]
               PROVE  <<ch, s>> \in b.scheduled
    OBVIOUS
  <2>1. s \in usable /\ ch = c
    BY <1>4, <1>5, Disjoint
  <2> QED BY <1>1, <2>1
<1>14. \A ch \in PP, s \in Slots : new[ch][s] = tb[ch][s] \/ CanUse(tb[ch][s], peer)
  <2> SUFFICES ASSUME NEW ch \in PP, NEW s \in Slots, new[ch][s] # tb[ch][s]
               PROVE  CanUse(tb[ch][s], peer)
    OBVIOUS
  <2>1. s \in usable /\ ch = c
    BY <1>4, <1>5, Disjoint
  <2> QED BY <1>4, <2>1
<1>15. ASSUME NEW t \in Channels \cup {TxTable}, NEW s \in Slots, IsLocked(tb[t][s])
       PROVE  new[t][s] = tb[t][s]
  <2>1. IsLocked(tb[c][s]) => ~CanUse(tb[c][s], peer)
    BY DEF CanUse, IsIdle, IsBusy, IsLocked
  <2>2. CASE s \in usable /\ t \in Channels
    BY <1>4, <1>5, <1>15, <2>1, <2>2, Disjoint
  <2>3. CASE s \in usable /\ t = TxTable
    BY <1>4, <1>5, <1>15, <2>3, Disjoint
  <2>4. CASE s \notin usable
    BY <1>5, <2>4, Disjoint
  <2> QED BY <2>2, <2>3, <2>4
<1> QED BY <1>5, <1>6, <1>7, <1>9, <1>10, <1>11, <1>12, <1>13, <1>14, <1>15
        DEF Booked, new, b

LEMMA AgedIs ==
  ASSUME NEW X, NEW entries \in SUBSET (X \X Slots)
  PROVE  /\ Aged(entries) \in SUBSET (X \X Slots)
         /\ \A x, s : <<x, s>> \in Aged(entries) => s \in Slots /\ <<x, s + 1>> \in entries
         /\ \A x : \A s \in Slots : <<x, s + 1>> \in entries => <<x, s>> \in Aged(entries)
<1>1. \A s \in Slots : s > 0 => s - 1 \in Slots /\ (s - 1) + 1 = s
  BY HorizonAssumption DEF Slots
<1>2. \A d \in entries : d[1] \in X /\ d[2] \in Slots /\ d = <<d[1], d[2]>>
  BY EntryIs
<1>3. Aged(entries) \in SUBSET (X \X Slots)
  BY <1>1, <1>2 DEF Aged
<1>4. ASSUME NEW x, NEW s, <<x, s>> \in Aged(entries)
      PROVE  s \in Slots /\ <<x, s + 1>> \in entries
  <2>1. PICK d \in entries : d[2] > 0 /\ <<x, s>> = <<d[1], d[2] - 1>>
    BY <1>4 DEF Aged
  <2> QED BY <1>1, <1>2, <2>1
<1>5. ASSUME NEW x, NEW s \in Slots, <<x, s + 1>> \in entries
      PROVE  <<x, s>> \in Aged(entries)
  <2> DEFINE d == <<x, s + 1>>
  <2>1. d \in entries /\ d[1] = x /\ d[2] = s + 1
    BY <1>5
  <2>2. s + 1 > 0 /\ (s + 1) - 1 = s
    BY ZeroSlot
  <2> HIDE DEF d
  <2> QED BY <2>1, <2>2 DEF Aged
<1> QED BY <1>3, <1>4, <1>5
=============================================================================
