-------------------------- MODULE DutyCycle_proofs --------------------------
(***************************************************************************)
(* Proofs about DutyCycle: for any budgets, set of peers, countdown and    *)
(* horizon, the links a user requests and accepts leave the shared channel *)
(* the airtime it was promised, a budget and a period are found whenever a *)
(* broadcast is sent, and a user accepts the period of its own offers.     *)
(***************************************************************************)
EXTENDS DutyCycle, FiniteSetTheorems, WellFoundedInduction, TLAPS

(* With the dynamic strategy no link is greedier than a share, and there   *)
(* are no more links than the number to support.                           *)
LinksModest ==
  strategy = "DYNAMIC" =>
    NumActive =< MinLinks /\ \A i \in Active : LinkBudget(links[i].period) =< FairShare

(* Broadcasts as rare as the least budget asks for fit the tables.         *)
HorizonSuffices == One \div FairShare =< Horizon

(* The inductive invariant                                                 *)
IInv == /\ TypeOK /\ FairShareKept /\ LinksModest
        /\ HorizonSuffices => ~ failed

-----------------------------------------------------------------------------
(* Induction over the subsets of a finite set, for a set Q of sets: the    *)
(* library's theorem takes an operator.                                    *)

LEMMA NatSets ==
  ASSUME NEW S, 0 \in S, \A n \in Nat : n \in S => n + 1 \in S
  PROVE  Nat \subseteq S
<1> SUFFICES ASSUME Nat \ S # {} PROVE FALSE
  OBVIOUS
<1> DEFINE T == Nat \ S
<1>1. PICK x \in T : \A y \in T : ~ (<<y, x>> \in OpToRel(<,Nat))
  <2>1. T \subseteq Nat /\ T # {}
    OBVIOUS
  <2> HIDE DEF T
  <2> QED BY <2>1, NatLessThanWellFounded, WFMin
<1>2. x # 0 /\ x \in Nat
  OBVIOUS
<1>3. x - 1 \in T
  BY <1>2
<1>4. <<x - 1, x>> \in OpToRel(<,Nat)
  BY <1>2 DEF OpToRel
<1> QED BY <1>1, <1>3, <1>4

LEMMA FiniteSets ==
  ASSUME NEW S, IsFiniteSet(S), NEW Q, {} \in Q,
         \A T \in SUBSET S : T # {} /\ (\A x \in T : T \ {x} \in Q) => T \in Q
  PROVE  S \in Q
<1> DEFINE N == {n \in Nat : \A T \in SUBSET S : Cardinality(T) = n => T \in Q}
<1>1. \A T \in SUBSET S : IsFiniteSet(T) /\ Cardinality(T) \in Nat
  BY FS_Subset, FS_CardinalityType
<1>2. 0 \in N
  BY <1>1, FS_EmptySet
<1>3. ASSUME NEW n \in Nat, n \in N PROVE n + 1 \in N
  <2>1. ASSUME NEW T \in SUBSET S, Cardinality(T) = n + 1 PROVE T \in Q
    <3>1. T # {}
      BY <2>1, FS_EmptySet
    <3>2. ASSUME NEW x \in T PROVE T \ {x} \in Q
      <4>1. Cardinality(T \ {x}) = n
        BY <1>1, <2>1, FS_RemoveElement
      <4> QED BY <1>3, <4>1
    <3> QED BY <3>1, <3>2
  <2> QED BY <2>1
<1>4. Nat \subseteq N
  <2> HIDE DEF N
  <2> QED BY <1>2, <1>3, NatSets
<1> QED BY <1>1, <1>4

(* A finite set has a first element in an order that compares any two.     *)
LEMMA First ==
  ASSUME NEW S, IsFiniteSet(S), S # {}, NEW R,
         \A x, y \in S : <<x, y>> \in R \/ <<y, x>> \in R,
         \A x, y, z \in S : <<x, y>> \in R /\ <<y, z>> \in R => <<x, z>> \in R
  PROVE  \E x \in S : \A y \in S : <<x, y>> \in R
<1> DEFINE Q == {T \in SUBSET S : T # {} => \E x \in T : \A y \in T : <<x, y>> \in R}
<1>1. {} \in Q
  OBVIOUS
<1>2. ASSUME NEW T \in SUBSET S, T # {}, \A x \in T : T \ {x} \in Q PROVE T \in Q
  <2>1. PICK a \in T : TRUE
    BY <1>2
  <2>2. CASE T \ {a} = {}
    BY <2>1, <2>2
  <2>3. CASE T \ {a} # {}
    <3>1. PICK b \in T \ {a} : \A y \in T \ {a} : <<b, y>> \in R
      BY <1>2, <2>3
    <3>2. CASE <<b, a>> \in R
      BY <3>1, <3>2
    <3>3. CASE <<a, b>> \in R
      <4>1. \A y \in T : <<a, y>> \in R
        BY <3>1, <3>3
      <4> QED BY <4>1
    <3> QED BY <3>2, <3>3
  <2> QED BY <2>2, <2>3
<1>3. S \in Q
  <2> HIDE DEF Q
  <2> QED BY <1>1, <1>2, FiniteSets
<1> QED BY <1>3

-----------------------------------------------------------------------------
(* Sums.  IsSum is the recursion that MapThenSumSet unfolds to.            *)

OneOf(s) == CHOOSE x \in s : TRUE

IsSum(g, f, S) ==
  g = [s \in SUBSET S |-> IF s = {} THEN 0 ELSE f[OneOf(s)] + g[s \ {OneOf(s)}]]

Sum(f, S) == (CHOOSE g : IsSum(g, f, S))[S]

LEMMA SumExists ==
  ASSUME NEW S, IsFiniteSet(S), NEW f, \A x \in S : f[x] \in Nat
  PROVE  \E g \in [SUBSET S -> Nat] : IsSum(g, f, S)
<1> DEFINE Small(n) == {s \in SUBSET S : Cardinality(s) =< n}
           Sums(g, n) == \A s \in Small(n) :
             g[s] = IF s = {} THEN 0 ELSE f[OneOf(s)] + g[s \ {OneOf(s)}]
           N == {n \in Nat : \E g \in [Small(n) -> Nat] : Sums(g, n)}
<1>1. \A T \in SUBSET S : IsFiniteSet(T) /\ Cardinality(T) \in Nat
  BY FS_Subset, FS_CardinalityType
<1>2. \A s \in SUBSET S : s # {} => OneOf(s) \in s
  BY DEF OneOf
<1>3. 0 \in N
  <2> DEFINE g == [s \in Small(0) |-> 0]
  <2>1. \A s \in Small(0) : s = {}
    BY <1>1, FS_EmptySet
  <2>2. g \in [Small(0) -> Nat] /\ Sums(g, 0)
    BY <2>1
  <2> QED BY <2>2
<1>4. ASSUME NEW n \in Nat, n \in N PROVE n + 1 \in N
  <2>1. PICK h \in [Small(n) -> Nat] : Sums(h, n)
    BY <1>4
  <2>2. \A s \in Small(n + 1) : s # {} => s \ {OneOf(s)} \in Small(n)
    <3> TAKE s \in Small(n + 1)
    <3>1. ASSUME s # {} PROVE Cardinality(s \ {OneOf(s)}) = Cardinality(s) - 1
      BY <1>1, <1>2, <3>1, FS_RemoveElement
    <3> QED BY <1>1, <3>1
  <2> DEFINE g == [s \in Small(n + 1) |-> IF s = {} THEN 0 ELSE f[OneOf(s)] + h[s \ {OneOf(s)}]]
  <2>3. g \in [Small(n + 1) -> Nat]
    BY <1>2, <2>2
  <2>4. \A s \in Small(n) : s \in Small(n + 1) /\ g[s] = h[s]
    <3>1. \A s \in Small(n) : s \in Small(n + 1)
      BY <1>1
    <3> QED BY <2>1, <3>1
  <2>5. Sums(g, n + 1)
    <3> TAKE s \in Small(n + 1)
    <3>1. CASE s = {}
      BY <3>1
    <3>2. CASE s # {}
      <4>1. g[s] = f[OneOf(s)] + h[s \ {OneOf(s)}]
        BY <3>2
      <4>2. g[s \ {OneOf(s)}] = h[s \ {OneOf(s)}]
        BY <2>2, <2>4, <3>2
      <4> QED BY <3>2, <4>1, <4>2
    <3> QED BY <3>1, <3>2
  <2> HIDE DEF g, Small, Sums
  <2> QED BY <2>3, <2>5
<1>5. Nat \subseteq N
  <2> HIDE DEF N
  <2> QED BY <1>3, <1>4, NatSets
<1> DEFINE k == Cardinality(S)
<1>6. k \in N /\ Small(k) = SUBSET S
  BY <1>1, <1>5, FS_Subset
<1>7. PICK g \in [SUBSET S -> Nat] : Sums(g, k)
  BY <1>6
<1>8. IsSum(g, f, S)
  <2>1. \A s \in SUBSET S : g[s] = IF s = {} THEN 0 ELSE f[OneOf(s)] + g[s \ {OneOf(s)}]
    BY <1>6, <1>7
  <2>2. g = [s \in SUBSET S |-> g[s]]
    OBVIOUS
  <2>3. [s \in SUBSET S |-> g[s]]
          = [s \in SUBSET S |-> IF s = {} THEN 0 ELSE f[OneOf(s)] + g[s \ {OneOf(s)}]]
    BY <2>1
  <2> QED BY <2>2, <2>3 DEF IsSum
<1> QED BY <1>8

LEMMA SumUnfolds ==
  ASSUME NEW g, NEW f, NEW S, IsSum(g, f, S), NEW T \in SUBSET S
  PROVE  g[T] = IF T = {} THEN 0 ELSE f[OneOf(T)] + g[T \ {OneOf(T)}]
BY Zenon DEF IsSum

(* A sum depends on the terms only.                                        *)
LEMMA SumUnique ==
  ASSUME NEW g, NEW f, NEW S, IsSum(g, f, S), NEW h, NEW e, NEW T, IsSum(h, e, T),
         NEW V, IsFiniteSet(V), V \subseteq S, V \subseteq T, \A x \in V : f[x] = e[x]
  PROVE  g[V] = h[V]
<1> DEFINE Q == {U \in SUBSET V : g[U] = h[U]}
<1>1. {} \in Q
  BY SumUnfolds
<1>2. ASSUME NEW U \in SUBSET V, U # {}, \A x \in U : U \ {x} \in Q PROVE U \in Q
  <2>1. OneOf(U) \in U
    BY <1>2 DEF OneOf
  <2>2. g[U] = f[OneOf(U)] + g[U \ {OneOf(U)}]
    BY <1>2, SumUnfolds
  <2>3. h[U] = e[OneOf(U)] + h[U \ {OneOf(U)}]
    BY <1>2, SumUnfolds
  <2> QED BY <1>2, <2>1, <2>2, <2>3
<1>3. V \in Q
  <2> HIDE DEF Q
  <2> QED BY <1>1, <1>2, FiniteSets
<1> QED BY <1>3

LEMMA SumIs ==
  ASSUME NEW g, NEW f, NEW S, IsSum(g, f, S), NEW V, IsFiniteSet(V), V \subseteq S
  PROVE  (\A x \in V : f[x] \in Nat) => g[V] = Sum(f, V)
<1> SUFFICES ASSUME \A x \in V : f[x] \in Nat PROVE g[V] = Sum(f, V)
  OBVIOUS
<1>1. IsSum(CHOOSE h : IsSum(h, f, V), f, V)
  BY SumExists
<1> QED BY <1>1, SumUnique DEF Sum

(* Any of the terms can be taken out first.                                *)
LEMMA SumWithout ==
  ASSUME NEW S, IsFiniteSet(S), NEW f, \A x \in S : f[x] \in Nat, NEW y \in S
  PROVE  Sum(f, S) = f[y] + Sum(f, S \ {y}) /\ Sum(f, S) \in Nat /\ Sum(f, S \ {y}) \in Nat
<1>1. PICK g \in [SUBSET S -> Nat] : IsSum(g, f, S)
  BY SumExists
<1> DEFINE Q == {T \in SUBSET S : \A x \in T : g[T] = f[x] + g[T \ {x}]}
<1>2. {} \in Q
  OBVIOUS
<1>3. ASSUME NEW T \in SUBSET S, T # {}, \A x \in T : T \ {x} \in Q PROVE T \in Q
  <2> DEFINE a == OneOf(T)
  <2>1. a \in T /\ g[T] = f[a] + g[T \ {a}]
    BY <1>1, <1>3, SumUnfolds DEF OneOf
  <2> HIDE DEF a
  <2>2. ASSUME NEW x \in T, x # a PROVE g[T] = f[x] + g[T \ {x}]
    <3>1. g[T \ {a}] = f[x] + g[(T \ {a}) \ {x}]
      BY <1>3, <2>1, <2>2
    <3>2. g[T \ {x}] = f[a] + g[(T \ {x}) \ {a}]
      BY <1>3, <2>1, <2>2
    <3>3. (T \ {a}) \ {x} = (T \ {x}) \ {a}
      OBVIOUS
    <3>4. f[a] \in Nat /\ f[x] \in Nat /\ g[(T \ {x}) \ {a}] \in Nat
      BY <1>1, <2>1
    <3>5. g[T \ {a}] = f[x] + g[(T \ {x}) \ {a}]
      BY <3>1, <3>3, Zenon
    <3> DEFINE r == g[(T \ {x}) \ {a}]
               u == g[T \ {a}]
               v == g[T \ {x}]
    <3>6. u = f[x] + r /\ v = f[a] + r /\ g[T] = f[a] + u /\ r \in Nat
      BY <2>1, <3>2, <3>4, <3>5
    <3> HIDE DEF r, u, v
    <3>7. g[T] = f[x] + v
      BY <3>4, <3>6
    <3> QED BY <3>7 DEF v
  <2>3. ASSUME NEW x \in T PROVE g[T] = f[x] + g[T \ {x}]
    <3>1. CASE x = a
      BY <2>1, <3>1
    <3>2. CASE x # a
      BY <2>2, <3>2
    <3> QED BY <3>1, <3>2
  <2> QED BY <2>3
<1>4. S \in Q
  <2> HIDE DEF Q
  <2> QED BY <1>2, <1>3, FiniteSets
<1>5. g[S] = f[y] + g[S \ {y}]
  BY <1>4
<1>6. IsFiniteSet(S \ {y})
  BY FS_Subset
<1>7. g[S] = Sum(f, S) /\ g[S \ {y}] = Sum(f, S \ {y})
  BY <1>1, <1>6, SumIs
<1> QED BY <1>1, <1>5, <1>7

LEMMA SumEmpty == ASSUME NEW f PROVE Sum(f, {}) = 0
<1>1. IsFiniteSet({})
  BY FS_EmptySet
<1>2. PICK g : IsSum(g, f, {})
  BY <1>1, SumExists
<1>3. g[{}] = 0
  BY <1>2, SumUnfolds
<1> QED BY <1>1, <1>2, <1>3, SumIs

(* No more terms, and none larger *)
LEMMA SumMonotone ==
  ASSUME NEW T, IsFiniteSet(T), NEW S \in SUBSET T,
         NEW f, NEW h, \A x \in S : f[x] \in Nat, \A x \in T : h[x] \in Nat,
         \A x \in S : f[x] =< h[x]
  PROVE  Sum(f, S) =< Sum(h, T)
<1> DEFINE Q == {V \in SUBSET T : Sum(f, S \cap V) =< Sum(h, V)}
<1>0. \A V \in SUBSET T : IsFiniteSet(V) /\ IsFiniteSet(S \cap V)
  BY FS_Subset
<1>1. {} \in Q
  <2>1. S \cap {} = {}
    OBVIOUS
  <2> QED BY <2>1, SumEmpty
<1>2. ASSUME NEW V \in SUBSET T, V # {}, \A x \in V : V \ {x} \in Q PROVE V \in Q
  <2>1. PICK a \in V : TRUE
    BY <1>2
  <2>2. Sum(h, V) = h[a] + Sum(h, V \ {a}) /\ Sum(h, V \ {a}) \in Nat
    BY <1>0, SumWithout
  <2>3. Sum(f, S \cap (V \ {a})) =< Sum(h, V \ {a})
    BY <1>2
  <2>4. CASE a \in S
    <3>1. (S \cap V) \ {a} = S \cap (V \ {a})
      OBVIOUS
    <3>2. Sum(f, S \cap V) = f[a] + Sum(f, (S \cap V) \ {a}) /\ Sum(f, (S \cap V) \ {a}) \in Nat
      BY <1>0, <2>4, SumWithout
    <3>3. f[a] =< h[a] /\ f[a] \in Nat /\ h[a] \in Nat
      BY <2>4
    <3> QED BY <2>2, <2>3, <3>1, <3>2, <3>3
  <2>5. CASE a \notin S
    <3>1. S \cap V = S \cap (V \ {a})
      BY <2>5
    <3>2. Sum(f, S \cap V) \in Nat
      <4> DEFINE W == S \cap V
      <4>1. IsFiniteSet(W) /\ \A x \in W : f[x] \in Nat
        BY <1>0
      <4> HIDE DEF W
      <4>2. Sum(f, W) \in Nat
        <5>1. CASE W = {}
          BY <5>1, SumEmpty
        <5>2. CASE W # {}
          <6>1. PICK x \in W : TRUE
            BY <5>2
          <6> QED BY <4>1, <6>1, SumWithout
        <5> QED BY <5>1, <5>2
      <4> QED BY <4>2 DEF W
    <3>3. h[a] \in Nat
      OBVIOUS
    <3> QED BY <2>2, <2>3, <3>1, <3>2, <3>3
  <2> QED BY <2>4, <2>5
<1>3. T \in Q
  <2> HIDE DEF Q
  <2> QED BY <1>1, <1>2, FiniteSets
<1>4. S \cap T = S
  OBVIOUS
<1> QED BY <1>3, <1>4

LEMMA SumBound ==
  ASSUME NEW S, IsFiniteSet(S), NEW f, NEW b \in Nat,
         \A x \in S : f[x] \in Nat /\ f[x] =< b
  PROVE  Sum(f, S) =< Cardinality(S) * b
<1> DEFINE Q == {T \in SUBSET S : Sum(f, T) =< Cardinality(T) * b}
<1>1. {} \in Q
  BY SumEmpty, FS_EmptySet
<1>2. ASSUME NEW T \in SUBSET S, T # {}, \A x \in T : T \ {x} \in Q PROVE T \in Q
  <2>1. PICK a \in T : TRUE
    BY <1>2
  <2>2. IsFiniteSet(T) /\ IsFiniteSet(T \ {a})
    BY FS_Subset
  <2>3. Sum(f, T) = f[a] + Sum(f, T \ {a}) /\ Sum(f, T \ {a}) \in Nat
    BY <2>2, SumWithout
  <2>4. Cardinality(T) = Cardinality(T \ {a}) + 1 /\ Cardinality(T \ {a}) \in Nat
    BY <2>2, FS_RemoveElement, FS_CardinalityType
  <2>5. Sum(f, T \ {a}) =< Cardinality(T \ {a}) * b
    BY <1>2
  <2>6. ASSUME NEW c \in Nat PROVE (c + 1) * b = c * b + b /\ c * b \in Nat
    OBVIOUS
  <2>7. f[a] =< b /\ f[a] \in Nat
    OBVIOUS
  <2> QED BY <2>3, <2>4, <2>5, <2>6, <2>7
<1>3. S \in Q
  <2> HIDE DEF Q
  <2> QED BY <1>1, <1>2, FiniteSets
<1> QED BY <1>3

-----------------------------------------------------------------------------
(* The numbers of the model                                                *)

LEMMA Division ==
  ASSUME NEW a \in Nat, NEW b \in Nat \ {0}
  PROVE  a \div b \in Nat /\ b * (a \div b) =< a /\ (a % b = 0 => b * (a \div b) = a)
OBVIOUS

LEMMA Quotients ==
  ASSUME NEW x \in Nat, NEW y \in Nat \ {0}, NEW z \in Nat \ {0}, y =< z
  PROVE  x \div z \in Nat /\ x \div z =< x \div y
<1>1. /\ y * (x \div y) =< x /\ x < y * (x \div y) + y /\ x \div y \in Nat
      /\ z * (x \div z) =< x /\ x < z * (x \div z) + z /\ x \div z \in Nat
  OBVIOUS
<1> QED BY <1>1

LEMMA Factor ==
  ASSUME NEW a \in Int, NEW b \in Int, NEW c \in Nat \ {0}, c * a =< c * b
  PROVE  a =< b
OBVIOUS

LEMMA Numbers ==
  /\ One \in Nat \ {0} /\ MaxDuty \in Nat \ {0} /\ MinBudget \in Nat \ {0}
  /\ MinLinks \in Nat \ {0} /\ Timeout \in Nat \ {0} /\ NumCandidates \in Nat \ {0}
  /\ Horizon \in Nat \ {0}
  /\ One = 100 * MinBudget
  /\ FairShare \in Nat /\ FairShare > MinBudget
  /\ (MinLinks + 1) * FairShare = MaxDuty
<1>1. /\ One \in Nat \ {0} /\ MaxDuty \in Nat \ {0} /\ MinBudget \in Nat \ {0}
      /\ MinLinks \in Nat \ {0} /\ Timeout \in Nat \ {0} /\ NumCandidates \in Nat \ {0}
      /\ Horizon \in Nat \ {0} /\ One = 100 * MinBudget
  BY DutyCycleAssumption
<1>2. FairShare > MinBudget /\ MaxDuty % (MinLinks + 1) = 0
  BY DutyCycleAssumption
<1>3. FairShare \in Nat /\ (MinLinks + 1) * FairShare = MaxDuty
  <2>1. MinLinks + 1 \in Nat \ {0} /\ MaxDuty \in Nat
    BY <1>1
  <2> QED BY <1>2, <2>1, Division DEF FairShare
<1> QED BY <1>1, <1>2, <1>3

(* As many links as are supported, none greedier than a share, leave one.  *)
LEMMA Shares ==
  ASSUME NEW n \in Nat, n =< MinLinks
  PROVE  n * FairShare \in Nat /\ n * FairShare + FairShare =< MaxDuty
<1>1. \A a, b, c \in Nat : a =< b => a * c \in Nat /\ a * c + c =< (b + 1) * c
  OBVIOUS
<1> QED BY <1>1, Numbers

LEMMA Spacings ==
  /\ \A p \in 0 .. 6 : Spacing(p) \in Nat \ {0} /\ LinkBudget(p) \in Nat
  /\ \A p \in Periods : LinkBudget(p) > 0 /\ Spacing(p + 1) = 2 * Spacing(p)
  /\ Spacing(5) = 320
<1>1. /\ Spacing(0) = 10 /\ Spacing(1) = 20 /\ Spacing(2) = 40 /\ Spacing(3) = 80
      /\ Spacing(4) = 160 /\ Spacing(5) = 320 /\ Spacing(6) = 640
  BY DEF Spacing
<1>2. \A p \in 0 .. 6 : Spacing(p) \in Nat \ {0}
  <2> TAKE p \in 0 .. 6
  <2>1. p = 0 \/ p = 1 \/ p = 2 \/ p = 3 \/ p = 4 \/ p = 5 \/ p = 6
    OBVIOUS
  <2> QED BY <1>1, <2>1
<1>3. \A p \in Periods : Spacing(p + 1) = 2 * Spacing(p)
  <2> TAKE p \in Periods
  <2>1. p = 0 \/ p = 1 \/ p = 2 \/ p = 3 \/ p = 4 \/ p = 5
    BY DEF Periods
  <2>2. 0 + 1 = 1 /\ 1 + 1 = 2 /\ 2 + 1 = 3 /\ 3 + 1 = 4 /\ 4 + 1 = 5 /\ 5 + 1 = 6
    OBVIOUS
  <2> QED BY <1>1, <2>1, <2>2
<1>4. \A p \in 0 .. 6 : LinkBudget(p) \in Nat
  BY <1>2, Numbers, Division DEF LinkBudget
<1>5. \A p \in Periods : LinkBudget(p) > 0
  <2> TAKE p \in Periods
  <2>1. One % Spacing(p) = 0
    BY DutyCycleAssumption
  <2>2. Spacing(p) \in Nat \ {0} /\ p \in 0 .. 6
    BY <1>2 DEF Periods
  <2>3. Spacing(p) * LinkBudget(p) = One
    BY <2>1, <2>2, Numbers, Division DEF LinkBudget
  <2>4. LinkBudget(p) # 0
    BY <2>2, <2>3, Numbers
  <2> QED BY <1>4, <2>2, <2>4
<1> QED BY <1>1, <1>2, <1>3, <1>4, <1>5

LEMMA BudgetOf ==
  ASSUME NEW p \in 0 .. 6, NEW b \in Nat, One =< Spacing(p) * b
  PROVE  LinkBudget(p) =< b
<1>1. Spacing(p) \in Nat \ {0} /\ LinkBudget(p) \in Nat
  BY Spacings
<1>2. Spacing(p) * LinkBudget(p) =< One
  BY <1>1, Numbers, Division DEF LinkBudget
<1>3. Spacing(p) * LinkBudget(p) =< Spacing(p) * b
  <2> DEFINE x == Spacing(p) * LinkBudget(p)
             y == Spacing(p) * b
  <2>1. x \in Int /\ y \in Int
    BY <1>1
  <2>2. x =< One /\ One =< y
    BY <1>2
  <2> HIDE DEF x, y
  <2>3. x =< y
    BY <2>1, <2>2, Numbers
  <2> QED BY <2>3 DEF x, y
<1> QED BY <1>1, <1>3, Factor

LEMMA Extremes ==
  ASSUME NEW S \in SUBSET Int, IsFiniteSet(S), S # {}
  PROVE  /\ Min(S) \in S /\ \A x \in S : Min(S) =< x
         /\ Max(S) \in S /\ \A x \in S : x =< Max(S)
<1> DEFINE R == {e \in Int \X Int : e[1] =< e[2]}
           T == {e \in Int \X Int : e[2] =< e[1]}
<1>1. \A x, y \in Int : (<<x, y>> \in R <=> x =< y) /\ (<<x, y>> \in T <=> y =< x)
  OBVIOUS
<1> HIDE DEF R, T
<1>2. ASSUME NEW x \in S, NEW y \in S
      PROVE  (<<x, y>> \in R \/ <<y, x>> \in R) /\ (<<x, y>> \in T \/ <<y, x>> \in T)
  <2>1. x \in Int /\ y \in Int
    OBVIOUS
  <2>2. x =< y \/ y =< x
    BY <2>1
  <2> QED BY <1>1, <2>1, <2>2
<1>3. ASSUME NEW x \in S, NEW y \in S, NEW z \in S
      PROVE  /\ <<x, y>> \in R /\ <<y, z>> \in R => <<x, z>> \in R
             /\ <<x, y>> \in T /\ <<y, z>> \in T => <<x, z>> \in T
  <2>1. x \in Int /\ y \in Int /\ z \in Int
    OBVIOUS
  <2>2. (x =< y /\ y =< z => x =< z) /\ (y =< x /\ z =< y => z =< x)
    BY <2>1
  <2> QED BY <1>1, <2>1, <2>2
<1>4. \E x \in S : \A y \in S : <<x, y>> \in R
  <2>1. \A x, y \in S : <<x, y>> \in R \/ <<y, x>> \in R
    BY <1>2
  <2>2. \A x, y, z \in S : <<x, y>> \in R /\ <<y, z>> \in R => <<x, z>> \in R
    BY <1>3
  <2> QED BY <2>1, <2>2, First
<1>5. \E x \in S : \A y \in S : <<x, y>> \in T
  <2>1. \A x, y \in S : <<x, y>> \in T \/ <<y, x>> \in T
    BY <1>2
  <2>2. \A x, y, z \in S : <<x, y>> \in T /\ <<y, z>> \in T => <<x, z>> \in T
    BY <1>3
  <2> QED BY <2>1, <2>2, First
<1>6. \E x \in S : \A y \in S : x =< y
  BY <1>1, <1>4
<1>7. \E x \in S : \A y \in S : y =< x
  BY <1>1, <1>5
<1>8. Min(S) \in S /\ \A x \in S : Min(S) =< x
  BY <1>6 DEF Min
<1>9. Max(S) \in S /\ \A x \in S : x =< Max(S)
  BY <1>7 DEF Max
<1> QED BY <1>8, <1>9

(* With the least budget, or more, there is a period that a link may have, *)
(* and a link of that period takes no more.                                *)
LEMMA PeriodFound ==
  ASSUME NEW b \in Nat, b >= MinBudget
  PROVE  /\ MinPeriods(b) # {}
         /\ \A p \in MinPeriods(b) : p \in 0 .. 6 /\ LinkBudget(p) =< b
<1> DEFINE S == {q \in Periods : One =< Spacing(q) * b}
           m == Min(S)
<1>1. 5 \in S
  BY Numbers, Spacings DEF Periods
<1>2. m \in S
  <2>1. IsFiniteSet(0 .. 5)
    <3>1. 0 \in Int /\ 5 \in Int
      OBVIOUS
    <3> QED BY <3>1, FS_Interval, Zenon
  <2>2. IsFiniteSet(S) /\ S \in SUBSET Int
    BY <2>1, FS_Subset DEF Periods
  <2> QED BY <1>1, <2>2, Extremes
<1>3. m \in Periods /\ m \in 0 .. 6 /\ m + 1 \in 0 .. 6 /\ One =< Spacing(m) * b
  BY <1>2 DEF Periods
<1> HIDE DEF m
<1>4. MinPeriods(b) = {m} \cup {q \in {m + 1} : One = Spacing(m) * b}
  BY DEF MinPeriods, m
<1>5. LinkBudget(m) =< b
  BY <1>3, BudgetOf
<1>6. One =< Spacing(m + 1) * b
  <2>1. \A s \in Nat : 2 * s * b >= s * b /\ s * b \in Int /\ 2 * s * b \in Int
    OBVIOUS
  <2>2. Spacing(m + 1) = 2 * Spacing(m) /\ Spacing(m) \in Nat
    BY <1>3, Spacings
  <2> QED BY <1>3, <2>1, <2>2, Numbers
<1>7. LinkBudget(m + 1) =< b
  BY <1>3, <1>6, BudgetOf
<1> QED BY <1>3, <1>4, <1>5, <1>7

-----------------------------------------------------------------------------
(* The budgets in use                                                      *)

Budgets(ls) == [i \in Peers |-> LinkBudget(ls[i].period)]

LEMMA BudgetsNat ==
  ASSUME NEW ls \in [Peers -> Link]
  PROVE  \A i \in Peers : Budgets(ls)[i] = LinkBudget(ls[i].period) /\ Budgets(ls)[i] \in Nat
<1>1. \A i \in Peers : ls[i].period \in 0 .. 6
  BY DEF Link, Periods
<1> QED BY <1>1, Spacings DEF Budgets

LEMMA ActiveFinite == Active \subseteq Peers /\ IsFiniteSet(Active) /\ NumActive \in Nat
BY DutyCycleAssumption, FS_Subset, FS_CardinalityType DEF Active, NumActive

LEMMA UsedIs ==
  links \in [Peers -> Link] =>
    Used = Sum(Budgets(links), Active) /\ Used \in Nat
<1> SUFFICES ASSUME links \in [Peers -> Link]
             PROVE  Used = Sum(Budgets(links), Active) /\ Used \in Nat
  OBVIOUS
<1> DEFINE f == Budgets(links)
           A == Active
           Used1(g) == g = [s \in SUBSET A |->
             IF s = {} THEN 0 ELSE LinkBudget(links[OneOf(s)].period) + g[s \ {OneOf(s)}]]
<1>1. \A i \in A : f[i] = LinkBudget(links[i].period) /\ f[i] \in Nat
  BY BudgetsNat, ActiveFinite
<1>2. IsFiniteSet(A)
  BY ActiveFinite
<1>3. Used = (CHOOSE g : Used1(g))[A]
  BY DEF Used, MapThenSumSet, MapThenFoldSet, OneOf
<1> HIDE DEF f, A
<1>4. ASSUME NEW g PROVE Used1(g) <=> IsSum(g, f, A)
  <2>1. \A s \in SUBSET A : s # {} => OneOf(s) \in A
    BY DEF OneOf
  <2>2. [s \in SUBSET A |->
             IF s = {} THEN 0 ELSE LinkBudget(links[OneOf(s)].period) + g[s \ {OneOf(s)}]]
        = [s \in SUBSET A |-> IF s = {} THEN 0 ELSE f[OneOf(s)] + g[s \ {OneOf(s)}]]
    BY <1>1, <2>1
  <2> QED BY <2>2 DEF IsSum
<1>5. PICK h \in [SUBSET A -> Nat] : IsSum(h, f, A)
  BY <1>1, <1>2, SumExists
<1>6. IsSum(CHOOSE g : Used1(g), f, A)
  <2>1. Used1(h)
    BY <1>4, <1>5
  <2> HIDE DEF Used1
  <2>2. Used1(CHOOSE g : Used1(g))
    BY <2>1
  <2> QED BY <1>4, <2>2
<1>7. Used = Sum(f, A) /\ h[A] = Sum(f, A)
  <2> HIDE DEF Used1
  <2> QED BY <1>1, <1>2, <1>3, <1>5, <1>6, SumIs
<1>8. Sum(f, A) \in Nat
  BY <1>5, <1>7
<1> QED BY <1>7, <1>8 DEF f, A

LEMMA UsedNext ==
  (links \in [Peers -> Link] =>
    Used = Sum(Budgets(links), Active) /\ Used \in Nat)'
BY UsedIs, PTL

LEMMA ActiveNext == (Active \subseteq Peers /\ IsFiniteSet(Active) /\ NumActive \in Nat)'
BY ActiveFinite, PTL

LEMMA NumberOfLinks ==
  IInv /\ strategy = "DYNAMIC" => Used =< NumActive * FairShare
<1> SUFFICES ASSUME IInv, strategy = "DYNAMIC" PROVE Used =< NumActive * FairShare
  OBVIOUS
<1>1. links \in [Peers -> Link]
  BY DEF IInv, TypeOK
<1>2. \A i \in Active : Budgets(links)[i] \in Nat /\ Budgets(links)[i] =< FairShare
  BY <1>1, BudgetsNat, ActiveFinite DEF IInv, LinksModest
<1> DEFINE f == Budgets(links)
<1> HIDE DEF f
<1>3. Sum(f, Active) =< Cardinality(Active) * FairShare
  BY <1>2, ActiveFinite, Numbers, SumBound DEF f
<1> QED BY <1>1, <1>3, UsedIs DEF f, NumActive

(* The shared channel has at least its share.                              *)
LEMMA SharedBudget ==
  IInv => getSHBudget \in Nat /\ getSHBudget >= FairShare /\ ~ SHBudgetThrows
<1> SUFFICES ASSUME IInv
             PROVE  getSHBudget \in Nat /\ getSHBudget >= FairShare /\ ~ SHBudgetThrows
  OBVIOUS
<1>1. Used \in Nat /\ NumActive \in Nat
  BY UsedIs, ActiveFinite DEF IInv, TypeOK
<1>2. ~ SHBudgetThrows
  BY <1>1, Numbers DEF SHBudgetThrows, IInv, FairShareKept
<1>3. CASE strategy = "STATIC"
  BY <1>2, <1>3, Numbers DEF getSHBudget
<1>4. CASE strategy = "DYNAMIC" /\ NumActive >= MinLinks
  BY <1>1, <1>2, <1>4, Numbers DEF getSHBudget, IInv, FairShareKept
<1>5. CASE strategy = "DYNAMIC" /\ NumActive < MinLinks
  <2>1. (NumActive + 1) * FairShare \in Nat /\ (NumActive + 1) * FairShare + FairShare =< MaxDuty
    BY <1>1, <1>5, Numbers, Shares
  <2>2. (NumActive + 1) * FairShare = NumActive * FairShare + FairShare
        /\ NumActive * FairShare \in Nat
    BY <1>1, Numbers
  <2>3. Used =< NumActive * FairShare
    BY <1>5, NumberOfLinks
  <2>4. getSHBudget = MaxDuty - Used - FairShare
    BY <1>5 DEF getSHBudget
  <2> QED BY <1>1, <1>2, <2>1, <2>2, <2>3, <2>4, Numbers
<1> QED BY <1>1, <1>3, <1>4, <1>5, Numbers DEF IInv, TypeOK

LEMMA Offsets ==
  IInv => \A o \in getOffsetSH : o \in Nat \ {0} /\ (HorizonSuffices => o =< Horizon)
<1> SUFFICES ASSUME IInv, NEW o \in getOffsetSH
             PROVE  o \in Nat \ {0} /\ (HorizonSuffices => o =< Horizon)
  OBVIOUS
<1> DEFINE b == getSHBudget
           d == One \div b
<1>1. b \in Nat \ {0} /\ b >= FairShare
  BY SharedBudget, Numbers
<1>2. d \in Nat /\ d =< One \div FairShare
  <2> HIDE DEF b
  <2>1. FairShare \in Nat \ {0} /\ One \in Nat
    BY Numbers
  <2> QED BY <1>1, <2>1, Quotients
<1>3. PICK n \in {d} \cup {c \in {d - 1} : One = d * b} : o = Max({1, n})
  BY DEF getOffsetSH
<1>4. n \in Int /\ n =< d
  BY <1>2, <1>3
<1>5. IsFiniteSet({1, n})
  <2>1. IsFiniteSet({1} \cup {n})
    BY FS_Singleton, FS_AddElement
  <2>2. {1, n} = {1} \cup {n}
    OBVIOUS
  <2> QED BY <2>1, <2>2, Zenon
<1>6. o \in {1, n} /\ 1 =< o
  BY <1>3, <1>4, <1>5, Extremes
<1>7. o \in Nat \ {0}
  BY <1>4, <1>6
<1>8. HorizonSuffices => o =< Horizon
  BY <1>2, <1>4, <1>6, Numbers, Division DEF HorizonSuffices
<1> QED BY <1>7, <1>8

-----------------------------------------------------------------------------
(* The offers                                                              *)

LEMMA FreeByIs ==
  ASSUME NEW E, IsFiniteSet(E), \A e \in E : e.budget \in Nat, NEW l
  PROVE  FreeBy(E, l) = Available + Sum([e \in E |-> e.budget], {e \in E : NotAfter(e, l)})
<1> DEFINE f == [e \in E |-> e.budget]
           A == {e \in E : NotAfter(e, l)}
           Freed(g) == g = [s \in SUBSET A |->
             IF s = {} THEN 0 ELSE OneOf(s).budget + g[s \ {OneOf(s)}]]
<1>1. \A e \in A : f[e] = e.budget /\ f[e] \in Nat
  OBVIOUS
<1>2. IsFiniteSet(A)
  BY FS_Subset
<1>3. FreeBy(E, l) = Available + (CHOOSE g : Freed(g))[A]
  BY DEF FreeBy, MapThenSumSet, MapThenFoldSet, OneOf
<1> HIDE DEF f, A
<1>4. ASSUME NEW g PROVE Freed(g) <=> IsSum(g, f, A)
  <2>1. \A s \in SUBSET A : s # {} => OneOf(s) \in A
    BY DEF OneOf
  <2>2. [s \in SUBSET A |-> IF s = {} THEN 0 ELSE OneOf(s).budget + g[s \ {OneOf(s)}]]
        = [s \in SUBSET A |-> IF s = {} THEN 0 ELSE f[OneOf(s)] + g[s \ {OneOf(s)}]]
    BY <1>1, <2>1
  <2> QED BY <2>2 DEF IsSum
<1>5. PICK h \in [SUBSET A -> Nat] : IsSum(h, f, A)
  BY <1>1, <1>2, SumExists
<1>6. IsSum(CHOOSE g : Freed(g), f, A)
  <2>1. Freed(h)
    BY <1>4, <1>5
  <2> HIDE DEF Freed
  <2>2. Freed(CHOOSE g : Freed(g))
    BY <2>1
  <2> QED BY <1>4, <2>2
<1>7. (CHOOSE g : Freed(g))[A] = Sum(f, A)
  <2> HIDE DEF Freed
  <2> QED BY <1>1, <1>2, <1>6, SumIs
<1> QED BY <1>3, <1>7 DEF f, A

LEMMA EntriesAre ==
  ASSUME NEW off \in Nat
  PROVE  IInv => /\ IsFiniteSet(Entries(off))
                 /\ \A e \in Entries(off) : e.timeout \in Nat /\ e.at \in Int /\ e.budget \in Nat
                 /\ \E e \in Entries(off) : e.budget = getSHBudget
<1> SUFFICES ASSUME IInv
             PROVE  /\ IsFiniteSet(Entries(off))
                    /\ \A e \in Entries(off) :
                         e.timeout \in Nat /\ e.at \in Int /\ e.budget \in Nat
                    /\ \E e \in Entries(off) : e.budget = getSHBudget
  OBVIOUS
<1> DEFINE Of(i) == [timeout |-> links[i].timeout, at |-> i, budget |-> LinkBudget(links[i].period)]
           L == {Of(i) : i \in Active}
           b == [timeout |-> off, at |-> Max(Peers) + 1, budget |-> getSHBudget]
<1>1. Entries(off) = L \cup {b}
  BY DEF Entries
<1>2. links \in [Peers -> Link]
  BY DEF IInv, TypeOK
<1>3. IsFiniteSet(L)
  <2> DEFINE f == [i \in Active |-> Of(i)]
  <2>1. f \in Surjection(Active, L)
    BY DEF Surjection
  <2> HIDE DEF f, L
  <2> QED BY <2>1, ActiveFinite, FS_Surjection
<1>4. IsFiniteSet(L \cup {b})
  BY <1>3, FS_AddElement
<1>5. Max(Peers) \in Int
  <2>1. Peers \in SUBSET Int /\ IsFiniteSet(Peers) /\ Peers # {}
    BY DutyCycleAssumption
  <2> QED BY <2>1, Extremes
<1>6. \A e \in L : e.timeout \in Nat /\ e.at \in Int /\ e.budget \in Nat
  <2> SUFFICES ASSUME NEW i \in Active
               PROVE  Of(i).timeout \in Nat /\ Of(i).at \in Int /\ Of(i).budget \in Nat
    OBVIOUS
  <2>1. i \in Peers /\ i \in Int
    BY ActiveFinite, DutyCycleAssumption
  <2>2. links[i] \in Link
    BY <1>2, <2>1
  <2>3. links[i].timeout \in Nat /\ links[i].period \in 0 .. 6
    BY <2>2, Numbers DEF Link, Periods
  <2> QED BY <2>1, <2>3, Spacings
<1>7. b.timeout \in Nat /\ b.at \in Int /\ b.budget \in Nat /\ b.budget = getSHBudget
  BY <1>5, SharedBudget
<1> HIDE DEF L, b
<1> QED BY <1>1, <1>4, <1>6, <1>7

LEMMA Order ==
  ASSUME NEW E, IsFiniteSet(E), E # {}, \A e \in E : e.timeout \in Nat /\ e.at \in Int
  PROVE  /\ \E e \in E : \A f \in E : NotAfter(e, f)
         /\ \E e \in E : \A f \in E : NotAfter(f, e)
<1> DEFINE R == {p \in E \X E : NotAfter(p[1], p[2])}
           T == {p \in E \X E : NotAfter(p[2], p[1])}
<1>1. \A e, f \in E : (<<e, f>> \in R <=> NotAfter(e, f)) /\ (<<e, f>> \in T <=> NotAfter(f, e))
  OBVIOUS
<1> HIDE DEF R, T
<1>2. ASSUME NEW e \in E, NEW f \in E PROVE NotAfter(e, f) \/ NotAfter(f, e)
  <2>1. e.timeout \in Nat /\ e.at \in Int /\ f.timeout \in Nat /\ f.at \in Int
    OBVIOUS
  <2> QED BY <2>1 DEF NotAfter
<1>3. ASSUME NEW e \in E, NEW f \in E, NEW g \in E, NotAfter(e, f), NotAfter(f, g)
      PROVE  NotAfter(e, g)
  <2>1. /\ e.timeout \in Nat /\ e.at \in Int /\ f.timeout \in Nat /\ f.at \in Int
        /\ g.timeout \in Nat /\ g.at \in Int
    OBVIOUS
  <2> QED BY <1>3, <2>1 DEF NotAfter
<1>4. \E e \in E : \A f \in E : <<e, f>> \in R
  <2>1. \A e, f \in E : <<e, f>> \in R \/ <<f, e>> \in R
    BY <1>1, <1>2
  <2>2. \A e, f, g \in E : <<e, f>> \in R /\ <<f, g>> \in R => <<e, g>> \in R
    BY <1>1, <1>3
  <2> QED BY <2>1, <2>2, First
<1>5. \E e \in E : \A f \in E : <<e, f>> \in T
  <2>1. \A e, f \in E : <<e, f>> \in T \/ <<f, e>> \in T
    BY <1>1, <1>2
  <2>2. \A e, f, g \in E : <<e, f>> \in T /\ <<f, g>> \in T => <<e, g>> \in T
    BY <1>1, <1>3
  <2> QED BY <2>1, <2>2, First
<1> QED BY <1>1, <1>4, <1>5

LEMMA AvailableIs ==
  IInv /\ strategy = "DYNAMIC" =>
    /\ Available = MaxDuty - getSHBudget - Used /\ Available \in Nat
    /\ Available = IF NumActive < MinLinks THEN FairShare ELSE 0
<1> SUFFICES ASSUME IInv, strategy = "DYNAMIC"
             PROVE  /\ Available = MaxDuty - getSHBudget - Used /\ Available \in Nat
                    /\ Available = IF NumActive < MinLinks THEN FairShare ELSE 0
  OBVIOUS
<1>1. getSHBudget \in Nat /\ getSHBudget >= FairShare
  BY SharedBudget
<1>2. Used \in Nat /\ NumActive \in Nat
  BY UsedIs, ActiveFinite DEF IInv, TypeOK
<1>3. Available = MaxDuty - getSHBudget - Used
  BY <1>1, Numbers DEF Available
<1>4. getSHBudget = MaxDuty - Used - (IF NumActive < MinLinks THEN FairShare ELSE 0)
  BY DEF getSHBudget
<1> QED BY <1>2, <1>3, <1>4, Numbers

(* A period is found for whatever is asked.                                *)
LEMMA OffersFound ==
  ASSUME NEW off \in Nat
  PROVE  IInv => CanOffer(off)
<1> SUFFICES ASSUME IInv PROVE CanOffer(off)
  OBVIOUS
<1>1. ~ SHBudgetThrows
  BY SharedBudget
<1>2. CASE strategy = "STATIC"
  <2>1. MinPeriods(FairShare) # {}
    BY Numbers, PeriodFound
  <2>2. getPeriodicityPP(off) = {0} \X MinPeriods(FairShare)
    BY <1>2 DEF getPeriodicityPP
  <2>3. PICK p : p \in MinPeriods(FairShare)
    BY <2>1
  <2>4. <<0, p>> \in getPeriodicityPP(off)
    BY <2>2, <2>3
  <2> QED BY <1>1, <2>4 DEF CanOffer
<1>3. CASE strategy = "DYNAMIC" /\ Available >= MinBudget
  <2>1. MinPeriods(Available) # {}
    BY <1>3, AvailableIs, PeriodFound
  <2>2. getPeriodicityPP(off) = {0} \X MinPeriods(Available)
    BY <1>3 DEF getPeriodicityPP
  <2>3. PICK p : p \in MinPeriods(Available)
    BY <2>1
  <2>4. <<0, p>> \in getPeriodicityPP(off)
    BY <2>2, <2>3
  <2> QED BY <1>1, <2>4 DEF CanOffer
<1>4. CASE strategy = "DYNAMIC" /\ ~(Available >= MinBudget)
  <2> DEFINE E == Entries(off)
             f == [e \in E |-> e.budget]
             S == Suffices(off)
  <2>1. /\ IsFiniteSet(E) /\ \A e \in E : e.timeout \in Nat /\ e.at \in Int /\ e.budget \in Nat
        /\ \E e \in E : e.budget = getSHBudget
    BY EntriesAre
  <2>2. S = {e \in E : FreeBy(E, e) >= MinBudget}
    BY DEF Suffices
  <2>3. getPeriodicityPP(off) =
          UNION {{e.timeout + 1} \X MinPeriods(FreeBy(E, e)) :
                   e \in {x \in S : \A y \in S : NotAfter(x, y)}}
    BY <1>4, Zenon DEF getPeriodicityPP
  <2> HIDE DEF E, S
  <2>4. \A e \in E : FreeBy(E, e) \in Nat
    <3> SUFFICES ASSUME NEW l \in E PROVE FreeBy(E, l) \in Nat
      OBVIOUS
    <3> DEFINE A == {e \in E : NotAfter(e, l)}
    <3>1. IsFiniteSet(A) /\ \A e \in A : f[e] \in Nat
      BY <2>1, FS_Subset
    <3>2. l \in A
      BY <2>1 DEF NotAfter
    <3>3. FreeBy(E, l) = Available + Sum(f, A)
      BY <2>1, FreeByIs
    <3> HIDE DEF f, A
    <3>4. Sum(f, A) \in Nat
      BY <3>1, <3>2, SumWithout
    <3> QED BY <1>4, <3>3, <3>4, AvailableIs
  <2>5. S # {}
    <3>1. PICK l \in E : \A e \in E : NotAfter(e, l)
      BY <2>1, Order
    <3>2. PICK b \in E : b.budget = getSHBudget
      BY <2>1
    <3>3. {e \in E : NotAfter(e, l)} = E
      BY <3>1
    <3>4. FreeBy(E, l) = Available + Sum(f, E)
      BY <2>1, <3>3, FreeByIs
    <3>5. f[b] = getSHBudget /\ \A e \in E : f[e] \in Nat
      BY <2>1, <3>2
    <3> HIDE DEF f
    <3>6. Sum(f, E) = f[b] + Sum(f, E \ {b}) /\ Sum(f, E \ {b}) \in Nat
      BY <2>1, <3>5, SumWithout
    <3>7. Available = MaxDuty - getSHBudget - Used /\ Used \in Nat /\ getSHBudget \in Nat
      BY <1>4, AvailableIs, SharedBudget, UsedIs DEF IInv, TypeOK
    <3>8. Used + FairShare =< MaxDuty
      BY DEF IInv, FairShareKept
    <3>9. FreeBy(E, l) >= MinBudget
      BY <3>4, <3>5, <3>6, <3>7, <3>8, Numbers
    <3> QED BY <2>2, <3>9
  <2>6. IsFiniteSet(S) /\ S \subseteq E
    BY <2>1, <2>2, FS_Subset
  <2>7. PICK e \in S : \A y \in S : NotAfter(e, y)
    BY <2>1, <2>5, <2>6, Order
  <2>8. FreeBy(E, e) \in Nat /\ FreeBy(E, e) >= MinBudget
    BY <2>2, <2>4, <2>6
  <2>9. MinPeriods(FreeBy(E, e)) # {}
    BY <2>8, PeriodFound
  <2>10. PICK p : p \in MinPeriods(FreeBy(E, e))
    BY <2>9
  <2>11. <<e.timeout + 1, p>> \in getPeriodicityPP(off)
    BY <2>3, <2>7, <2>10
  <2> QED BY <1>1, <2>11 DEF CanOffer
<1> QED BY <1>2, <1>3, <1>4 DEF IInv, TypeOK

-----------------------------------------------------------------------------
(* The steps                                                               *)

LEMMA InitIInv == Init => IInv
<1> SUFFICES ASSUME Init PROVE IInv
  OBVIOUS
<1>1. links \in [Peers -> Link] /\ Active = {}
  BY Numbers DEF Init, NoLink, Link, Periods, Active
<1>2. NumActive = 0
  BY <1>1, FS_EmptySet DEF NumActive
<1>3. Used = 0
  BY <1>1, UsedIs, SumEmpty
<1>4. TypeOK
  <2>1. next_broadcast \in 0 .. Horizon + NumCandidates
    BY Numbers DEF Init
  <2>2. strategy \in {"STATIC", "DYNAMIC"} /\ failed \in BOOLEAN
    BY DEF Init
  <2> QED BY <1>1, <2>1, <2>2 DEF TypeOK
<1>5. FairShareKept
  <2>1. 0 * FairShare + FairShare =< MaxDuty
    BY Numbers, Shares
  <2> QED BY <1>3, <2>1, Numbers DEF FairShareKept
<1> QED BY <1>1, <1>2, <1>4, <1>5, Numbers DEF IInv, LinksModest, Init

(* What the links alone decide *)
LEMMA SameLinks ==
  IInv /\ UNCHANGED <<strategy, links>> => (FairShareKept /\ LinksModest)'
BY DEF IInv, FairShareKept, LinksModest, Used, Active, NumActive, MapThenSumSet, MapThenFoldSet

LEMMA SlotStartIInv == IInv /\ SlotStart => IInv'
<1> SUFFICES ASSUME IInv, SlotStart PROVE IInv'
  OBVIOUS
<1>1. (FairShareKept /\ LinksModest)'
  BY SameLinks DEF SlotStart
<1>2. TypeOK'
  BY Numbers DEF IInv, TypeOK, SlotStart, Active
<1> QED BY <1>1, <1>2 DEF IInv, SlotStart

LEMMA BroadcastIInv == IInv /\ Broadcast => IInv'
<1> SUFFICES ASSUME IInv, Broadcast PROVE IInv'
  OBVIOUS
<1>1. (FairShareKept /\ LinksModest)'
  BY SameLinks DEF Broadcast
<1>2. PICK requests \in BOOLEAN, offset \in getOffsetSH :
        \E next \in offset .. offset + NumCandidates - 1 :
          IF BroadcastThrows(requests) \/ ~ CanOffer(next)
          THEN failed' = TRUE /\ UNCHANGED next_broadcast
          ELSE next_broadcast' = next /\ UNCHANGED failed
  BY DEF Broadcast
<1>3. PICK next \in offset .. offset + NumCandidates - 1 :
          IF BroadcastThrows(requests) \/ ~ CanOffer(next)
          THEN failed' = TRUE /\ UNCHANGED next_broadcast
          ELSE next_broadcast' = next /\ UNCHANGED failed
  BY <1>2
<1>4. offset \in Nat \ {0} /\ next \in Nat
  <2>1. offset \in Nat \ {0}
    BY Offsets
  <2> QED BY <2>1, Numbers
<1>5. CanOffer(next) /\ CanOffer(0)
  BY <1>4, OffersFound
<1>6. HorizonSuffices => ~ BroadcastThrows(requests)
  BY <1>5, Offsets, SharedBudget, Numbers DEF BroadcastThrows
<1>7. ~ BroadcastThrows(requests) => offset =< Horizon
  BY <1>4, Numbers DEF BroadcastThrows
<1>8. TypeOK'
  <2>1. next_broadcast' \in 0 .. Horizon + NumCandidates
    <3>1. CASE BroadcastThrows(requests)
      BY <1>3, <3>1 DEF IInv, TypeOK
    <3>2. CASE ~ BroadcastThrows(requests)
      <4>1. next_broadcast' = next
        BY <1>3, <1>5, <3>2
      <4> QED BY <1>4, <1>7, <3>2, <4>1, Numbers
    <3> QED BY <3>1, <3>2
  <2>2. failed' \in BOOLEAN
    BY <1>3 DEF IInv, TypeOK
  <2> QED BY <2>1, <2>2 DEF Broadcast, IInv, TypeOK, Active
<1>9. HorizonSuffices => ~ failed'
  BY <1>3, <1>5, <1>6 DEF IInv
<1>10. (HorizonSuffices => ~ failed)'
  BY <1>9 DEF HorizonSuffices, FairShare
<1> QED BY <1>1, <1>8, <1>10 DEF IInv

(* A link is accepted, or replaces the one there was.                      *)
LEMMA ReceiveProposalIInv ==
  ASSUME NEW i \in Peers, NEW p \in Periods
  PROVE  IInv /\ ReceiveProposal(i, p) => IInv'
<1> SUFFICES ASSUME IInv, ReceiveProposal(i, p) PROVE IInv'
  OBVIOUS
<1>1. ~ failed /\ isPPLinkDutyCycleConformant(p)
      /\ links' = [links EXCEPT ![i] = [period |-> p, timeout |-> Timeout]]
      /\ UNCHANGED <<strategy, next_broadcast, failed>>
  BY SharedBudget DEF ReceiveProposal
<1> DEFINE ls == links'
           new == [period |-> p, timeout |-> Timeout]
           A == Active
           B == A \cup {i}
           f == Budgets(links)
           g == Budgets(ls)
<1>2. links \in [Peers -> Link]
  BY DEF IInv, TypeOK
<1>3. new \in Link /\ new # NoLink
  BY Numbers DEF Link, NoLink
<1>4. ls \in [Peers -> Link] /\ ls[i] = new /\ \A j \in Peers : j # i => ls[j] = links[j]
  BY <1>1, <1>2, <1>3
<1>5. Active' = B
  BY <1>3, <1>4 DEF Active
<1>6. \A j \in A : links[j].timeout > 0
  BY DEF IInv, TypeOK
<1>7. TypeOK'
  <2>1. \A j \in B : ls[j].timeout > 0
    BY <1>4, <1>6, ActiveFinite, Numbers
  <2>2. (links \in [Peers -> Link])'
    BY <1>4
  <2> QED BY <1>1, <1>5, <2>1, <2>2 DEF IInv, TypeOK
<1>8. /\ IsFiniteSet(A) /\ A \subseteq Peers /\ IsFiniteSet(B) /\ B \subseteq Peers
      /\ IsFiniteSet(B \ {i}) /\ B \ {i} \subseteq A
  BY ActiveFinite, FS_AddElement, FS_Subset
<1>9. \A j \in Peers : /\ f[j] = LinkBudget(links[j].period) /\ f[j] \in Nat
                      /\ g[j] = LinkBudget(ls[j].period) /\ g[j] \in Nat
  <2> HIDE DEF ls
  <2> QED BY <1>2, <1>4, BudgetsNat
<1>10. g[i] = LinkBudget(p) /\ \A j \in Peers : j # i => g[j] = f[j]
  BY <1>4, <1>9
<1>11. /\ Used = Sum(f, A) /\ Used \in Nat
       /\ Used' = Sum(g, B) /\ Used' \in Nat
  BY <1>2, <1>4, <1>5, UsedIs, UsedNext DEF Budgets
<1> HIDE DEF f, g, A, B, ls, new
<1>12. Sum(g, B) = g[i] + Sum(g, B \ {i}) /\ Sum(g, B \ {i}) \in Nat
  <2>1. i \in B
    BY DEF B
  <2> QED BY <1>8, <1>9, <2>1, SumWithout
<1>13. Sum(g, B \ {i}) =< Sum(f, A)
  <2>1. \A j \in B \ {i} : g[j] \in Nat /\ g[j] =< f[j]
    BY <1>8, <1>9, <1>10
  <2>2. \A j \in A : f[j] \in Nat
    BY <1>8, <1>9
  <2>3. B \ {i} \in SUBSET A
    BY <1>8
  <2> QED BY <1>8, <2>1, <2>2, <2>3, SumMonotone
<1>14. Used' =< Used + LinkBudget(p) /\ LinkBudget(p) \in Nat /\ LinkBudget(p) > 0
  <2>1. LinkBudget(p) \in Nat /\ LinkBudget(p) > 0
    <3>1. p \in 0 .. 6
      BY DEF Periods
    <3> QED BY <3>1, Spacings
  <2> QED BY <1>10, <1>11, <1>12, <1>13, <2>1
<1>15. getSHBudget + Used + LinkBudget(p) =< MaxDuty
  BY <1>1 DEF isPPLinkDutyCycleConformant
<1>16. Used' + FairShare =< MaxDuty
  BY <1>11, <1>14, <1>15, SharedBudget, Numbers
<1>17. FairShareKept'
  BY <1>16 DEF FairShareKept, FairShare
<1>18. ASSUME strategy = "DYNAMIC"
       PROVE  NumActive < MinLinks /\ LinkBudget(p) =< FairShare
  <2>1. getSHBudget = MaxDuty - Used - (IF NumActive < MinLinks THEN FairShare ELSE 0)
    BY <1>18 DEF getSHBudget
  <2>2. NumActive < MinLinks
    BY <1>11, <1>14, <1>15, <2>1, Numbers
  <2> QED BY <1>11, <1>14, <1>15, <2>1, <2>2, Numbers
<1>19. NumActive' =< NumActive + 1 /\ NumActive \in Nat /\ NumActive' \in Nat
  <2>1. Cardinality(B) =< Cardinality(A) + 1 /\ Cardinality(A) \in Nat /\ Cardinality(B) \in Nat
    <3>1. Cardinality(A \cup {i}) = IF i \in A THEN Cardinality(A) ELSE Cardinality(A) + 1
      BY <1>8, FS_AddElement
    <3>2. Cardinality(A) \in Nat /\ Cardinality(A \cup {i}) \in Nat
      BY <1>8, FS_CardinalityType DEF B
    <3> QED BY <3>1, <3>2 DEF B
  <2>2. NumActive' = Cardinality(B) /\ NumActive = Cardinality(A)
    BY <1>5 DEF NumActive, A
  <2> QED BY <2>1, <2>2
<1>20. LinksModest'
  <2> SUFFICES ASSUME strategy = "DYNAMIC"
               PROVE  NumActive' =< MinLinks /\ \A j \in B : LinkBudget(ls[j].period) =< FairShare
    BY <1>1, <1>5 DEF LinksModest, LinkBudget, Spacing, FairShare, ls
  <2>1. NumActive' =< MinLinks
    BY <1>18, <1>19, Numbers
  <2>2. \A j \in A : f[j] =< FairShare
    BY <1>8, <1>9 DEF IInv, LinksModest, A
  <2>3. \A j \in B : g[j] =< FairShare
    BY <1>8, <1>10, <1>18, <2>2 DEF B
  <2> QED BY <1>8, <1>9, <2>1, <2>3
<1>21. (HorizonSuffices => ~ failed)'
  BY <1>1 DEF HorizonSuffices, FairShare
<1> QED BY <1>7, <1>17, <1>20, <1>21 DEF IInv

(* A link has one exchange less, or ends.                                  *)
LEMMA EndExchangeIInv ==
  ASSUME NEW i \in Peers
  PROVE  IInv /\ EndExchange(i) => IInv'
<1> SUFFICES ASSUME IInv, EndExchange(i) PROVE IInv'
  OBVIOUS
<1>1. ~ failed /\ i \in Active /\ UNCHANGED <<strategy, next_broadcast, failed>>
      /\ links' = [links EXCEPT ![i] = IF @.timeout = 1 THEN NoLink
                                       ELSE [period |-> @.period, timeout |-> @.timeout - 1]]
  BY DEF EndExchange
<1> DEFINE ls == links'
           A == Active
           B == Active'
           f == Budgets(links)
           g == Budgets(ls)
<1>2. links \in [Peers -> Link] /\ \A j \in A : links[j].timeout > 0
  BY DEF IInv, TypeOK
<1>3. links[i].timeout \in 1 .. Timeout /\ links[i].period \in Periods /\ links[i] \in Link
  BY <1>1, <1>2, Numbers DEF Link
<1> DEFINE new == IF links[i].timeout = 1 THEN NoLink
                  ELSE [period |-> links[i].period, timeout |-> links[i].timeout - 1]
<1>4. /\ new \in Link
      /\ new # NoLink => new.period = links[i].period /\ new.timeout > 0
  BY <1>3, Numbers DEF Link, NoLink, Periods
<1>5. ls = [links EXCEPT ![i] = new]
  BY <1>1
<1> HIDE DEF new
<1>6. ls \in [Peers -> Link] /\ ls[i] = new /\ \A j \in Peers : j # i => ls[j] = links[j]
  BY <1>2, <1>4, <1>5
<1>7. B \subseteq A /\ A \subseteq Peers /\ IsFiniteSet(A) /\ IsFiniteSet(B)
  <2>1. B = {j \in Peers : ls[j] # NoLink}
    BY DEF Active
  <2>2. B \subseteq A
    BY <1>1, <1>6, <2>1 DEF Active
  <2> QED BY <2>2, ActiveFinite, FS_Subset
<1>8. \A j \in B : ls[j].period = links[j].period /\ ls[j].timeout > 0
  <2>1. \A j \in B : j \in Peers /\ ls[j] # NoLink
    BY DEF Active
  <2> HIDE DEF ls, A, B
  <2> QED BY <1>2, <1>4, <1>6, <1>7, <2>1
<1>9. TypeOK'
  <2>1. (links \in [Peers -> Link])'
    BY <1>6
  <2> QED BY <1>1, <1>8, <2>1 DEF IInv, TypeOK
<1>10. \A j \in Peers : /\ f[j] = LinkBudget(links[j].period) /\ f[j] \in Nat
                       /\ g[j] = LinkBudget(ls[j].period) /\ g[j] \in Nat
  <2> HIDE DEF ls
  <2> QED BY <1>2, <1>6, BudgetsNat
<1>11. /\ Used = Sum(f, A) /\ Used \in Nat
       /\ Used' = Sum(g, B) /\ Used' \in Nat
  BY <1>2, <1>6, UsedIs, UsedNext DEF Budgets
<1> HIDE DEF f, g, A, B, ls
<1>12. Sum(g, B) =< Sum(f, A)
  <2>1. \A j \in B : g[j] \in Nat /\ g[j] =< f[j]
    BY <1>7, <1>8, <1>10
  <2>2. \A j \in A : f[j] \in Nat
    BY <1>7, <1>10
  <2>3. B \in SUBSET A
    BY <1>7
  <2> QED BY <1>7, <2>1, <2>2, <2>3, SumMonotone
<1>13. Used' + FairShare =< MaxDuty
  BY <1>11, <1>12, Numbers DEF IInv, FairShareKept
<1>14. FairShareKept'
  BY <1>13 DEF FairShareKept, FairShare
<1>15. NumActive' =< NumActive /\ NumActive \in Nat /\ NumActive' \in Nat
  BY <1>7, FS_Subset, FS_CardinalityType DEF NumActive, A, B
<1>16. LinksModest'
  <2> SUFFICES ASSUME strategy = "DYNAMIC"
               PROVE  NumActive' =< MinLinks /\ \A j \in B : LinkBudget(ls[j].period) =< FairShare
    BY <1>1 DEF LinksModest, LinkBudget, Spacing, FairShare, ls, B
  <2>1. NumActive' =< MinLinks /\ \A j \in A : LinkBudget(links[j].period) =< FairShare
    BY <1>15, Numbers DEF IInv, LinksModest, A
  <2> QED BY <1>7, <1>8, <2>1
<1>17. (HorizonSuffices => ~ failed)'
  BY <1>1 DEF HorizonSuffices, FairShare
<1> QED BY <1>9, <1>14, <1>16, <1>17 DEF IInv

LEMMA NextIInv == IInv /\ [Next]_vars => IInv'
<1> SUFFICES ASSUME IInv, [Next]_vars PROVE IInv'
  OBVIOUS
<1>1. CASE SlotStart
  BY <1>1, SlotStartIInv
<1>2. CASE Broadcast
  BY <1>2, BroadcastIInv
<1>3. ASSUME NEW i \in Peers, NEW p \in Periods, ReceiveProposal(i, p) PROVE IInv'
  BY <1>3, ReceiveProposalIInv
<1>4. ASSUME NEW i \in Peers, EndExchange(i) PROVE IInv'
  BY <1>4, EndExchangeIInv
<1>5. CASE UNCHANGED vars
  <2>1. (FairShareKept /\ LinksModest)'
    BY <1>5, SameLinks DEF vars
  <2> QED BY <1>5, <2>1 DEF vars, IInv, TypeOK, Active, HorizonSuffices, FairShare
<1> QED BY <1>1, <1>2, <1>3, <1>4, <1>5 DEF Next

LEMMA Inductive == Spec => []IInv
BY InitIInv, NextIInv, PTL DEF Spec

-----------------------------------------------------------------------------
(* Every reachable state is well typed, an active link has an exchange     *)
(* left, and the countdown of the next broadcast fits the tables.          *)
THEOREM TypeCorrect == Spec => []TypeOK
<1>1. IInv => TypeOK
  BY DEF IInv
<1> QED BY <1>1, Inductive, PTL

(* However links are requested, replaced and expire, with either strategy, *)
(* they never take what the shared channel was promised                    *)
(* (SHLinkManager::isPPLinkDutyCycleConformant).                           *)
THEOREM FairShareKeptHolds == Spec => []FairShareKept
<1>1. IInv => FairShareKept
  BY DEF IInv
<1> QED BY <1>1, Inductive, PTL

(* If broadcasts as rare as a share asks for fit the planning horizon, a   *)
(* budget and a period are found whenever a broadcast is sent: none of the *)
(* exceptions of DutyCycle and SHLinkManager::scheduleBroadcastSlot.       *)
THEOREM NoFailureHolds ==
  ASSUME One \div FairShare =< Horizon
  PROVE  Spec => []NoFailure
<1>1. IInv => NoFailure
  BY DEF IInv, NoFailure, HorizonSuffices
<1> QED BY <1>1, Inductive, PTL

(* Below the number of links to support, none of them greedier than a      *)
(* share, a user accepts the period it computes for its own request        *)
(* (DutyCycle::getPeriodicityPP against isPPLinkDutyCycleConformant).      *)
THEOREM OfferFitsHolds == Spec => []OfferFits
<1>1. IInv => OfferFits
  <2> SUFFICES ASSUME IInv, NumActive < MinLinks,
                      \A i \in Active : LinkBudget(links[i].period) =< FairShare,
                      NEW offer \in getPeriodicityPP(next_broadcast)
               PROVE  isPPLinkDutyCycleConformant(offer[2])
    BY DEF OfferFits
  <2>1. Used \in Nat /\ NumActive \in Nat /\ getSHBudget \in Nat
    BY UsedIs, ActiveFinite, SharedBudget DEF IInv, TypeOK
  <2>2. CASE strategy = "STATIC"
    <3>1. offer[2] \in MinPeriods(FairShare)
      BY <2>2 DEF getPeriodicityPP
    <3>2. LinkBudget(offer[2]) =< FairShare /\ LinkBudget(offer[2]) \in Nat
      BY <3>1, PeriodFound, Spacings, Numbers
    <3>3. Used =< NumActive * FairShare
      <4> DEFINE f == Budgets(links)
      <4>1. \A i \in Active : f[i] \in Nat /\ f[i] =< FairShare
        BY BudgetsNat, ActiveFinite DEF IInv, TypeOK
      <4> HIDE DEF f
      <4>2. Sum(f, Active) =< Cardinality(Active) * FairShare
        BY <4>1, ActiveFinite, Numbers, SumBound
      <4> QED BY <4>2, UsedIs DEF f, NumActive, IInv, TypeOK
    <3>4. (NumActive + 1) * FairShare \in Nat /\ (NumActive + 1) * FairShare + FairShare =< MaxDuty
      BY <2>1, Numbers, Shares
    <3>5. (NumActive + 1) * FairShare = NumActive * FairShare + FairShare
          /\ NumActive * FairShare \in Nat
      BY <2>1, Numbers
    <3>6. getSHBudget = FairShare
      BY <2>2 DEF getSHBudget
    <3> QED BY <2>1, <3>2, <3>3, <3>4, <3>5, <3>6, Numbers DEF isPPLinkDutyCycleConformant
  <2>3. CASE strategy = "DYNAMIC"
    <3>1. Available = FairShare /\ Available = MaxDuty - getSHBudget - Used
      BY <2>3, AvailableIs
    <3>2. offer[2] \in MinPeriods(FairShare)
      BY <2>3, <3>1, Numbers DEF getPeriodicityPP
    <3>3. LinkBudget(offer[2]) =< FairShare /\ LinkBudget(offer[2]) \in Nat
      BY <3>2, PeriodFound, Spacings, Numbers
    <3> QED BY <2>1, <3>1, <3>3, Numbers DEF isPPLinkDutyCycleConformant
  <2> QED BY <2>2, <2>3 DEF IInv, TypeOK
<1> QED BY <1>1, Inductive, PTL
=============================================================================
