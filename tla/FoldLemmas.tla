----------------------------- MODULE FoldLemmas -----------------------------
(***************************************************************************)
(* Induction over the numbers and over finite sets, stated with sets in    *)
(* place of predicates, and what follows from it about the folds the       *)
(* models use.  A fold is defined by recursion over subsets through a      *)
(* CHOOSE: that the recursion has a solution is proved first.              *)
(***************************************************************************)
EXTENDS Integers, FiniteSets, Functions, FiniteSetTheorems, WellFoundedInduction, TLAPS

\* Induction over the numbers: a least number outside S has a predecessor in S.
LEMMA SetInduction ==
    ASSUME NEW S, 0 \in S, \A n \in Nat : n \in S => n + 1 \in S
    PROVE  Nat \subseteq S
  <1> DEFINE T == Nat \ S
             R == OpToRel(<, Nat)
  <1> SUFFICES ASSUME T # {} PROVE FALSE
    OBVIOUS
  <1>1. IsWellFoundedOn(R, Nat)
    BY NatLessThanWellFounded
  <1>2. T \subseteq Nat
    OBVIOUS
  <1> HIDE DEF R
  <1>3. PICK x \in T : \A y \in T : ~(<<y, x>> \in R)
    BY <1>1, <1>2, WFMin
  <1>4. \A y \in T : ~(y < x)
    BY <1>3 DEF R, OpToRel
  <1>5. x # 0 /\ x - 1 \in Nat
    BY <1>3
  <1>6. x - 1 \in S
    BY <1>4, <1>5
  <1> QED BY <1>3, <1>5, <1>6

\* Some number is the greatest of a set of positions.
LEMMA Greatest ==
    ASSUME NEW n \in Nat, NEW S \in SUBSET (1..n), S # {}
    PROVE  \E i \in S : \A j \in S : j <= i
  <1> DEFINE N == {m \in Nat : \A T \in SUBSET (1..m) :
                                 T # {} => \E i \in T : \A j \in T : j <= i}
  <1>1. 0 \in N
    <2>1. 1..0 = {}
      OBVIOUS
    <2> QED BY <2>1
  <1>2. ASSUME NEW m \in Nat, m \in N PROVE m + 1 \in N
    <2> SUFFICES ASSUME NEW T \in SUBSET (1..(m + 1)), T # {}
                 PROVE  \E i \in T : \A j \in T : j <= i
      OBVIOUS
    <2>1. CASE m + 1 \in T
      BY <2>1
    <2>2. CASE m + 1 \notin T
      <3>1. T \in SUBSET (1..m)
        BY <2>2
      <3> QED BY <1>2, <3>1
    <2> QED BY <2>1, <2>2
  <1> HIDE DEF N
  <1>3. Nat \subseteq N
    BY <1>1, <1>2, SetInduction
  <1>4. n \in N
    BY <1>3
  <1> QED BY <1>4 DEF N

\* A strict order has an element nothing is above in every set of positions.
LEMMA Maximal ==
    ASSUME NEW n \in Nat, NEW Above, NEW S \in SUBSET (1..n), S # {},
           \A i \in 1..n : <<i, i>> \notin Above,
           \A i, j, k \in 1..n : <<i, j>> \in Above /\ <<j, k>> \in Above => <<i, k>> \in Above
    PROVE  \E i \in S : \A j \in S : <<j, i>> \notin Above
  <1> DEFINE N == {m \in Nat : \A T \in SUBSET ((1..m) \cap (1..n)) :
                                 T # {} => \E i \in T : \A j \in T : <<j, i>> \notin Above}
  <1>1. 0 \in N
    <2>1. 1..0 = {}
      OBVIOUS
    <2> QED BY <2>1
  <1>2. ASSUME NEW m \in Nat, m \in N PROVE m + 1 \in N
    <2> SUFFICES ASSUME NEW T \in SUBSET ((1..(m + 1)) \cap (1..n)), T # {}
                 PROVE  \E i \in T : \A j \in T : <<j, i>> \notin Above
      OBVIOUS
    <2> DEFINE U == T \ {m + 1}
    <2>1. U \in SUBSET ((1..m) \cap (1..n)) /\ \A j \in T : j \in U \/ j = m + 1
      OBVIOUS
    <2>2. CASE U = {}
      <3>1. PICK i \in T : TRUE
        OBVIOUS
      <3>2. i \in 1..n
        OBVIOUS
      <3> HIDE DEF U
      <3>3. \A j \in T : j = i
        BY <2>1, <2>2, <3>1
      <3> QED BY <3>2, <3>3
    <2>3. CASE U # {}
      <3>1. PICK u \in U : \A j \in U : <<j, u>> \notin Above
        BY <1>2, <2>1, <2>3
      <3>2. u \in 1..n /\ \A j \in T : j \in 1..n
        BY <2>1
      <3>3. CASE m + 1 \in T /\ <<m + 1, u>> \in Above
        <4>1. \A j \in T : <<j, m + 1>> \notin Above
          BY <2>1, <3>1, <3>2, <3>3
        <4> QED BY <3>3, <4>1
      <3>4. CASE ~(m + 1 \in T /\ <<m + 1, u>> \in Above)
        <4>1. \A j \in T : <<j, u>> \notin Above
          BY <2>1, <3>1, <3>4
        <4> QED BY <3>1, <4>1
      <3> QED BY <3>3, <3>4
    <2> QED BY <2>2, <2>3
  <1> HIDE DEF N
  <1>3. Nat \subseteq N
    BY <1>1, <1>2, SetInduction
  <1>4. n \in N
    BY <1>3
  <1> QED BY <1>4 DEF N

-----------------------------------------------------------------------------
(* Subsets by size. *)

UpTo(D, n) == {s \in SUBSET D : Cardinality(s) <= n}

\* The element a fold takes next.
Drawn(s) == CHOOSE x \in s : TRUE

\* Removing it leaves a smaller subset.
LEMMA Smaller ==
    ASSUME NEW D, IsFiniteSet(D), NEW n \in Nat, NEW s \in UpTo(D, n + 1), s # {}
    PROVE  Drawn(s) \in s /\ s \ {Drawn(s)} \in UpTo(D, n)
  <1>1. Drawn(s) \in s
    BY DEF Drawn
  <1>2. IsFiniteSet(s)
    BY FS_Subset DEF UpTo
  <1>3. Cardinality(s \ {Drawn(s)}) = Cardinality(s) - 1
    BY <1>1, <1>2, FS_RemoveElement
  <1>4. Cardinality(s) \in Nat
    BY <1>2, FS_CardinalityType
  <1> QED BY <1>1, <1>3, <1>4 DEF UpTo

\* Only the empty set has no element.
LEMMA OnlyEmpty ==
    ASSUME NEW D, IsFiniteSet(D)
    PROVE  UpTo(D, 0) = {{}}
  <1>1. \A s \in SUBSET D : Cardinality(s) \in Nat /\ (Cardinality(s) = 0 <=> s = {})
    BY FS_Subset, FS_CardinalityType, FS_EmptySet
  <1>2. Cardinality({}) = 0
    BY FS_EmptySet
  <1> QED BY <1>1, <1>2 DEF UpTo

\* Every subset of a finite set is within some size.
LEMMA AllOfThem ==
    ASSUME NEW D, IsFiniteSet(D)
    PROVE  \E n \in Nat : UpTo(D, n) = SUBSET D
  <1>1. Cardinality(D) \in Nat
    BY FS_CardinalityType
  <1>2. \A s \in SUBSET D : Cardinality(s) <= Cardinality(D)
    BY FS_Subset
  <1> QED BY <1>1, <1>2 DEF UpTo

\* What is closed under adding the element a fold takes holds of every subset.
LEMMA SubsetInduction ==
    ASSUME NEW D, IsFiniteSet(D), NEW P, {} \in P,
           \A s \in SUBSET D : s # {} /\ s \ {Drawn(s)} \in P => s \in P
    PROVE  SUBSET D \subseteq P
  <1> DEFINE N == {n \in Nat : UpTo(D, n) \subseteq P}
  <1>1. 0 \in N
    BY OnlyEmpty
  <1>2. ASSUME NEW n \in Nat, n \in N PROVE n + 1 \in N
    <2>1. ASSUME NEW s \in UpTo(D, n + 1) PROVE s \in P
      <3>1. CASE s = {}
        BY <3>1
      <3>2. CASE s # {}
        BY <1>2, <3>2, Smaller DEF UpTo
      <3> QED BY <3>1, <3>2
    <2> QED BY <2>1
  <1>3. Nat \subseteq N
    <2> HIDE DEF N
    <2> QED BY <1>1, <1>2, SetInduction
  <1> QED BY <1>3, AllOfThem

\* A finite set of numbers has a greatest and a least one.
LEMMA HasGreatest ==
    ASSUME NEW S \in SUBSET Nat, IsFiniteSet(S), S # {}
    PROVE  \E m \in S : \A t \in S : t <= m
  <1> DEFINE P == {T \in SUBSET S : T = {} \/ \E m \in T : \A t \in T : t <= m}
  <1>1. {} \in P
    OBVIOUS
  <1>2. ASSUME NEW T \in SUBSET S, T # {}, T \ {Drawn(T)} \in P PROVE T \in P
    <2> DEFINE x == Drawn(T)
               U == T \ {x}
    <2>0. x \in T /\ x \in Nat
      BY <1>2 DEF Drawn
    <2>1. CASE U = {}
      <3>1. \A t \in T : t = x
        BY <2>1
      <3> QED BY <2>0, <3>1
    <2>2. CASE U # {}
      <3>1. PICK m \in U : \A t \in U : t <= m
        BY <1>2, <2>2
      <3>2. m \in Nat /\ m \in T /\ \A t \in T : t \in U \/ t = x
        OBVIOUS
      <3>3. CASE x <= m
        BY <3>1, <3>2, <3>3
      <3>4. CASE ~(x <= m)
        <4>1. \A t \in T : t \in Nat
          OBVIOUS
        <4> HIDE DEF x, U
        <4>2. \A t \in T : t <= x
          BY <2>0, <3>1, <3>2, <3>4, <4>1
        <4> QED BY <2>0, <4>2
      <3> QED BY <3>3, <3>4
    <2> QED BY <2>1, <2>2
  <1> HIDE DEF P
  <1>3. S \in P
    BY <1>1, <1>2, SubsetInduction
  <1> QED BY <1>3 DEF P

\* A set of numbers that is not empty has a least one.
LEMMA HasLeast ==
    ASSUME NEW S \in SUBSET Nat, S # {}
    PROVE  \E m \in S : \A t \in S : m <= t
  <1> DEFINE R == OpToRel(<, Nat)
  <1>1. IsWellFoundedOn(R, Nat)
    BY NatLessThanWellFounded
  <1> HIDE DEF R
  <1>2. PICK x \in S : \A y \in S : ~(<<y, x>> \in R)
    BY <1>1, WFMin
  <1>3. \A y \in S : ~(y < x)
    BY <1>2 DEF R, OpToRel
  <1> QED BY <1>3

\* In a strict order of a finite set, the places by counting what is above are
\* different ones, from 0 to less than the size.
LEMMA PlacesDiffer ==
    ASSUME NEW F, IsFiniteSet(F), NEW Above,
           \A f \in F : <<f, f>> \notin Above,
           \A f, g, h \in F : <<f, g>> \in Above /\ <<g, h>> \in Above => <<f, h>> \in Above,
           \A f, g \in F : f # g => <<f, g>> \in Above \/ <<g, f>> \in Above,
           NEW n, \A f \in F : n[f] = Cardinality({g \in F : <<g, f>> \in Above})
    PROVE  /\ \A f, g \in F : n[f] = n[g] => f = g
           /\ \A f \in F : n[f] \in Nat /\ n[f] < Cardinality(F)
  <1> DEFINE above(f) == {g \in F : <<g, f>> \in Above}
  <1>1. \A f \in F : IsFiniteSet(above(f)) /\ n[f] = Cardinality(above(f)) /\ n[f] \in Nat
    <2> SUFFICES ASSUME NEW f \in F
                 PROVE  IsFiniteSet(above(f)) /\ n[f] = Cardinality(above(f)) /\ n[f] \in Nat
      OBVIOUS
    <2>1. above(f) \subseteq F /\ n[f] = Cardinality(above(f))
      OBVIOUS
    <2> HIDE DEF above
    <2> QED BY <2>1, FS_Subset, FS_CardinalityType
  <1>2. ASSUME NEW f \in F, NEW g \in F, <<f, g>> \in Above PROVE n[f] # n[g]
    <2>1. above(f) \subseteq above(g) /\ f \in above(g) /\ f \notin above(f)
      BY <1>2
    <2>2. above(f) # above(g)
      BY <2>1
    <2> HIDE DEF above
    <2> QED BY <1>1, <2>1, <2>2, FS_Subset
  <1>3. ASSUME NEW f \in F PROVE n[f] < Cardinality(F)
    <2>1. above(f) \subseteq F /\ f \notin above(f)
      OBVIOUS
    <2>2. above(f) # F
      BY <2>1
    <2>3. Cardinality(above(f)) <= Cardinality(F) /\ Cardinality(above(f)) # Cardinality(F)
      BY <2>1, <2>2, FS_Subset
    <2>4. Cardinality(F) \in Nat
      BY FS_CardinalityType
    <2> HIDE DEF above
    <2> QED BY <1>1, <2>3, <2>4
  <1> QED BY <1>1, <1>2, <1>3

-----------------------------------------------------------------------------
(* The sum of a function's values. *)

\* g is the recursion SumFunction chooses a solution of.
IsSum(g, f, D) ==
    g = [s \in SUBSET D |-> IF s = {} THEN 0 ELSE f[Drawn(s)] + g[s \ {Drawn(s)}]]

Sums(f, D) == CHOOSE g : IsSum(g, f, D)

\* SumFunction is the last value of the recursion.
LEMMA SumUnfolds ==
    ASSUME NEW D, NEW f, DOMAIN f = D
    PROVE  SumFunction(f) = Sums(f, D)[D]
  BY DEF SumFunction, SumFunctionOnSet, FoldFunctionOnSet, MapThenFoldSet, Sums, IsSum, Drawn

\* The recursion has a solution: on subsets of each size, hence on all.
LEMMA SumExists ==
    ASSUME NEW D, IsFiniteSet(D), NEW f
    PROVE  \E g : IsSum(g, f, D)
  <1> DEFINE Solves(g, n) ==
               g = [s \in UpTo(D, n) |->
                      IF s = {} THEN 0 ELSE f[Drawn(s)] + g[s \ {Drawn(s)}]]
             N == {n \in Nat : \E g : Solves(g, n)}
  <1>1. 0 \in N
    <2>1. Solves([s \in UpTo(D, 0) |-> 0], 0)
      BY OnlyEmpty
    <2> QED BY <2>1
  <1>2. ASSUME NEW n \in Nat, n \in N PROVE n + 1 \in N
    <2>1. PICK g : Solves(g, n)
      BY <1>2
    <2> DEFINE h == [s \in UpTo(D, n + 1) |->
                       IF s = {} THEN 0 ELSE f[Drawn(s)] + g[s \ {Drawn(s)}]]
    <2>2. \A s \in UpTo(D, n) : s \in UpTo(D, n + 1)
      <3>1. \A s \in SUBSET D : Cardinality(s) \in Nat
        BY FS_Subset, FS_CardinalityType
      <3> QED BY <3>1 DEF UpTo
    <2>3. \A s \in UpTo(D, n) : h[s] = g[s]
      BY <2>1, <2>2
    <2>4. \A s \in UpTo(D, n + 1) : s # {} => g[s \ {Drawn(s)}] = h[s \ {Drawn(s)}]
      BY <2>3, Smaller
    <2>5. \A s \in UpTo(D, n + 1) :
            h[s] = IF s = {} THEN 0 ELSE f[Drawn(s)] + h[s \ {Drawn(s)}]
      BY <2>4
    <2>6. h = [s \in UpTo(D, n + 1) |-> h[s]]
      OBVIOUS
    <2>7. Solves(h, n + 1)
      <3> HIDE DEF h
      <3> QED BY <2>5, <2>6
    <2> HIDE DEF h, Solves
    <2> QED BY <2>7
  <1>3. Nat \subseteq N
    <2> HIDE DEF N
    <2> QED BY <1>1, <1>2, SetInduction
  <1>4. PICK n \in Nat : UpTo(D, n) = SUBSET D
    BY AllOfThem
  <1> QED BY <1>3, <1>4 DEF IsSum

\* So the one that is chosen obeys it.
LEMMA SumObeys ==
    ASSUME NEW D, IsFiniteSet(D), NEW f
    PROVE  /\ Sums(f, D)[{}] = 0
           /\ \A s \in SUBSET D :
                s # {} => Sums(f, D)[s] = f[Drawn(s)] + Sums(f, D)[s \ {Drawn(s)}]
  <1> DEFINE g == Sums(f, D)
  <1>1. IsSum(g, f, D)
    BY SumExists DEF Sums
  <1> HIDE DEF g
  <1>2. \A s \in SUBSET D :
          g[s] = IF s = {} THEN 0 ELSE f[Drawn(s)] + g[s \ {Drawn(s)}]
    BY <1>1 DEF IsSum
  <1>3. {} \in SUBSET D
    OBVIOUS
  <1> QED BY <1>2, <1>3 DEF g

\* Nothing adds up to nothing.
LEMMA SumOfZeros ==
    ASSUME NEW D, IsFiniteSet(D)
    PROVE  SumFunction([x \in D |-> 0]) = 0
  <1> DEFINE f == [x \in D |-> 0]
             g == Sums(f, D)
             P == {s \in SUBSET D : g[s] = 0}
  <1>1. /\ g[{}] = 0
        /\ \A s \in SUBSET D : s # {} => g[s] = f[Drawn(s)] + g[s \ {Drawn(s)}]
    <2> HIDE DEF f
    <2> QED BY SumObeys
  <1>2. SumFunction(f) = g[D]
    <2>1. DOMAIN f = D
      OBVIOUS
    <2> HIDE DEF f
    <2> QED BY <2>1, SumUnfolds
  <1> HIDE DEF g
  <1>3. ASSUME NEW s \in SUBSET D, s # {}, s \ {Drawn(s)} \in P PROVE s \in P
    <2>1. Drawn(s) \in D
      BY <1>3 DEF Drawn
    <2>2. f[Drawn(s)] = 0
      BY <2>1
    <2> HIDE DEF f
    <2>3. g[s] = 0 + 0
      BY <1>1, <1>3, <2>2
    <2> QED BY <2>3
  <1>4. SUBSET D \subseteq P
    <2>1. {} \in P
      BY <1>1
    <2> HIDE DEF P
    <2> QED BY <1>3, <2>1, SubsetInduction
  <1> QED BY <1>2, <1>4

\* A value that grows by d makes the sum grow by d.
LEMMA SumOfChange ==
    ASSUME NEW D, IsFiniteSet(D), NEW f \in [D -> Int], NEW a \in D, NEW d \in Int,
           NEW e \in [D -> Int], \A x \in D : e[x] = IF x = a THEN f[x] + d ELSE f[x]
    PROVE  SumFunction(e) = SumFunction(f) + d
  <1> DEFINE g == Sums(f, D)
             k == Sums(e, D)
             P == {s \in SUBSET D : /\ g[s] \in Int
                                    /\ k[s] = g[s] + (IF a \in s THEN d ELSE 0)}
  <1>1. /\ g[{}] = 0
        /\ \A s \in SUBSET D : s # {} => g[s] = f[Drawn(s)] + g[s \ {Drawn(s)}]
    BY SumObeys
  <1>2. /\ k[{}] = 0
        /\ \A s \in SUBSET D : s # {} => k[s] = e[Drawn(s)] + k[s \ {Drawn(s)}]
    BY SumObeys
  <1>3. SumFunction(f) = g[D] /\ SumFunction(e) = k[D]
    <2>1. DOMAIN f = D /\ DOMAIN e = D
      OBVIOUS
    <2> QED BY <2>1, SumUnfolds
  <1> HIDE DEF g, k
  <1>5. ASSUME NEW s \in SUBSET D, s # {}, s \ {Drawn(s)} \in P PROVE s \in P
    <2> DEFINE x == Drawn(s)
               t == s \ {x}
    <2>1. x \in s /\ x \in D /\ f[x] \in Int
      BY <1>5 DEF Drawn
    <2>2. g[t] \in Int /\ k[t] = g[t] + (IF a \in t THEN d ELSE 0)
      BY <1>5
    <2>3. g[s] = f[x] + g[t] /\ k[s] = e[x] + k[t]
      BY <1>1, <1>2, <1>5
    <2>4. e[x] = IF x = a THEN f[x] + d ELSE f[x]
      BY <2>1
    <2>5. a \in t <=> a \in s /\ a # x
      OBVIOUS
    <2>6. x = a => a \in s
      BY <2>1
    <2> HIDE DEF x, t
    <2>7. g[s] \in Int /\ k[s] = g[s] + (IF a \in s THEN d ELSE 0)
      BY <2>1, <2>2, <2>3, <2>4, <2>5, <2>6
    <2> QED BY <2>7
  <1>6. SUBSET D \subseteq P
    <2>1. {} \in P
      BY <1>1, <1>2
    <2> HIDE DEF P
    <2> QED BY <1>5, <2>1, SubsetInduction
  <1> QED BY <1>3, <1>6

=============================================================================
