---------------------------- MODULE ScriptProofs ----------------------------
(***************************************************************************)
(* Theorems about the scripts before and after a grid: the choice of the   *)
(* tasks, for any tasks, families, quota and chunks; the two               *)
(* re-evaluations, for any grid and any number of invocations, starts and  *)
(* torn lines; and the unseen configurations, for any source that parses.  *)
(***************************************************************************)
EXTENDS TaskSelection, Reevaluation, HoldoutConfigs, FoldLemmas, SequenceTheorems

-----------------------------------------------------------------------------
(* Places in a finite set of numbers, and in an order of families. *)

\* The first n of B are at most n, and fewer only if they are all.
LEMMA FirstPlaces ==
    ASSUME NEW B \in SUBSET Nat, IsFiniteSet(B), NEW n \in Nat,
           NEW C, C = {t \in B : Ahead(B, t) < n}
    PROVE  /\ IsFiniteSet(C) /\ Cardinality(C) \in Nat /\ Cardinality(C) <= n
           /\ C = B \/ Cardinality(C) >= n
           /\ \A t \in C, u \in B \ C : t < u
  <1> DEFINE under(t) == {u \in B : u < t}
  <1>0. \A t \in B : t \in Nat
    OBVIOUS
  <1>1. \A t \in B : /\ IsFiniteSet(under(t)) /\ Ahead(B, t) \in Nat
                     /\ Ahead(B, t) = Cardinality(under(t))
    <2>1. \A t \in B : IsFiniteSet(under(t)) /\ Cardinality(under(t)) \in Nat
      BY FS_Subset, FS_CardinalityType
    <2> QED BY <2>1 DEF Ahead
  <1>2. \A t, u \in B : u <= t => Ahead(B, u) <= Ahead(B, t)
    <2> SUFFICES ASSUME NEW t \in B, NEW u \in B, u <= t PROVE Ahead(B, u) <= Ahead(B, t)
      OBVIOUS
    <2>1. under(u) \subseteq under(t)
      <3>1. \A v \in B : v < u => v < t
        BY <1>0
      <3> QED BY <3>1
    <2> HIDE DEF under
    <2> QED BY <1>1, <2>1, FS_Subset
  <1>3. IsFiniteSet(C) /\ Cardinality(C) \in Nat
    BY FS_Subset, FS_CardinalityType
  <1>4. \A t \in C, u \in B \ C : t < u
    <2> SUFFICES ASSUME NEW t \in C, NEW u \in B \ C, ~(t < u) PROVE FALSE
      OBVIOUS
    <2>1. u <= t /\ t \in B /\ u \in B
      OBVIOUS
    <2>2. Ahead(B, u) <= Ahead(B, t) /\ Ahead(B, t) < n
      BY <1>2, <2>1
    <2>3. Ahead(B, u) \in Nat /\ Ahead(B, t) \in Nat
      BY <1>1, <2>1
    <2> QED BY <2>1, <2>2, <2>3
  <1>5. Cardinality(C) <= n
    <2>1. CASE C = {}
      <3>1. Cardinality(C) = 0
        BY <2>1, FS_EmptySet
      <3> QED BY <3>1
    <2>2. CASE C # {}
      <3>1. PICK m \in C : \A t \in C : t <= m
        <4>1. C \in SUBSET Nat
          OBVIOUS
        <4> QED BY <4>1, <1>3, <2>2, HasGreatest
      <3>2. C \subseteq under(m) \cup {m} /\ m \in B /\ Ahead(B, m) < n
        <4>1. \A t \in C : t \in B /\ Ahead(B, t) < n
          OBVIOUS
        <4>2. \A t \in C : t < m \/ t = m
          BY <1>0, <3>1, <4>1
        <4> QED BY <4>1, <4>2
      <3>3. /\ IsFiniteSet(under(m)) /\ IsFiniteSet(under(m) \cup {m})
            /\ Cardinality(under(m) \cup {m}) = Cardinality(under(m)) + 1
        <4>1. m \notin under(m)
          BY <3>2
        <4>2. IsFiniteSet(under(m))
          BY <1>1, <3>2
        <4> HIDE DEF under
        <4> QED BY <4>1, <4>2, FS_AddElement
      <3>4. Cardinality(C) <= Cardinality(under(m) \cup {m})
        BY <3>2, <3>3, FS_Subset
      <3>5. Cardinality(under(m)) = Ahead(B, m) /\ Ahead(B, m) \in Nat
        BY <1>1, <3>2
      <3> QED BY <1>3, <3>2, <3>3, <3>4, <3>5
    <2> QED BY <2>1, <2>2
  <1>6. ASSUME C # B PROVE Cardinality(C) >= n
    <2>1. PICK t \in B \ C : \A u \in B \ C : t <= u
      <3>1. B \ C # {} /\ IsFiniteSet(B \ C) /\ B \ C \in SUBSET Nat
        BY <1>6, FS_Subset
      <3> QED BY <3>1, HasLeast
    <2>2. under(t) \subseteq C
      <3>1. t \in B /\ t \in Nat
        BY <1>0, <2>1
      <3>2. ASSUME NEW u \in B, u < t PROVE u \in C
        <4>1. u \in Nat /\ ~(t <= u)
          BY <1>0, <3>1, <3>2
        <4> QED BY <2>1, <4>1
      <3> QED BY <3>2
    <2>3. Ahead(B, t) >= n /\ Ahead(B, t) = Cardinality(under(t)) /\ Ahead(B, t) \in Nat
      BY <1>1, <2>1
    <2>4. Cardinality(under(t)) <= Cardinality(C)
      BY <1>3, <2>2, FS_Subset
    <2> QED BY <1>3, <2>3, <2>4
  <1> QED BY <1>3, <1>4, <1>5, <1>6

-----------------------------------------------------------------------------
(* Families and ranks. *)

\* The names of the families of the level, and the place of one among them.
Named == {FamilyNames[i] : i \in DOMAIN FamilyNames}

NamePlace(f) == CHOOSE i \in DOMAIN FamilyNames : FamilyNames[i] = f

\* A task's family is one of the level's names.
LEMMA TasksAreNamed == \A t \in Tasks : FamilyOf[t] \in Named
  <1> SUFFICES ASSUME NEW t \in Tasks PROVE FamilyOf[t] \in Named
    OBVIOUS
  <1> DEFINE mentioned == {i \in DOMAIN Precedence : Precedence[i] \in MarksOf[t]}
             first == CHOOSE i \in mentioned : \A j \in mentioned : i <= j
  <1>1. FamilyOf[t] = IF mentioned = {} THEN Plain ELSE Precedence[first]
    BY DEF FamilyOf
  <1>2. Plain \in Named
    <2>1. CASE Level = 1
      <3>1. Plain = FamilyNames[1] /\ 1 \in DOMAIN FamilyNames
        BY <2>1 DEF Plain, FamilyNames
      <3> QED BY <3>1 DEF Named
    <2>2. CASE Level # 1
      <3>1. Plain = FamilyNames[3] /\ 3 \in DOMAIN FamilyNames
        BY <2>2 DEF Plain, FamilyNames
      <3> QED BY <3>1 DEF Named
    <2> QED BY <2>1, <2>2
  <1>3. \A i \in DOMAIN Precedence : Precedence[i] \in Named
    <2>1. CASE Level = 1
      <3>1. /\ FamilyNames = <<"activation", "attention", "loss", "matmul", "norm", "pooling", "reduction", "scan">>
            /\ Precedence = <<"attention", "loss", "scan", "pooling", "reduction", "norm", "matmul">>
        BY <2>1 DEF Precedence, FamilyNames
      <3>2. Named = {"activation", "attention", "loss", "matmul", "norm", "pooling", "reduction", "scan"}
        BY <3>1 DEF Named
      <3> QED BY <3>1, <3>2
    <2>2. CASE Level # 1
      <3>1. /\ FamilyNames = <<"activation", "norm", "pointwise", "pool", "reduction">>
            /\ Precedence = <<"norm", "reduction", "pool", "activation">>
        BY <2>2 DEF Precedence, FamilyNames
      <3>2. Named = {"activation", "norm", "pointwise", "pool", "reduction"}
        BY <3>1 DEF Named
      <3> QED BY <3>1, <3>2
    <2> QED BY <2>1, <2>2
  <1>4. CASE mentioned # {}
    <2>1. mentioned \in SUBSET Nat
      <3>1. DOMAIN Precedence \subseteq Nat
        BY DEF Precedence
      <3> QED BY <3>1
    <2>2. \E i \in mentioned : \A j \in mentioned : i <= j
      <3> HIDE DEF mentioned
      <3> QED BY <1>4, <2>1, HasLeast
    <2>3. first \in mentioned
      <3> HIDE DEF mentioned
      <3> QED BY <2>2
    <2> QED BY <1>1, <1>3, <1>4, <2>3
  <1> QED BY <1>1, <1>2, <1>4

\* The survivors are finitely many, in finitely many families.
LEMMA SurvivorsFinite ==
    /\ Survivors \subseteq Tasks /\ Survivors \in SUBSET Nat /\ IsFiniteSet(Survivors)
    /\ \A f : IsFiniteSet(Bucket(f)) /\ Cardinality(Bucket(f)) \in Nat
    /\ \A f : Bucket(f) \in SUBSET Nat /\ Cardinality(Bucket(f)) <= Cardinality(Tasks)
    /\ IsFiniteSet(Families) /\ Cardinality(Families) \in Nat /\ Families \subseteq Named
  <1>1. Tasks \subseteq Nat /\ IsFiniteSet(Tasks)
    BY SelectionAssumption
  <1>2. Survivors \subseteq Tasks
    BY DEF Survivors, Unscreened, Static
  <1>3. \A f : Bucket(f) \subseteq Tasks
    BY <1>2 DEF Bucket
  <1>4. IsFiniteSet(Families)
    <2> DEFINE f == [t \in Survivors |-> FamilyOf[t]]
    <2>1. f \in Surjection(Survivors, Families)
      BY DEF Surjection, Families
    <2>2. IsFiniteSet(Survivors)
      BY <1>1, <1>2, FS_Subset
    <2> QED BY <2>1, <2>2, FS_Surjection
  <1>5. Families \subseteq Named
    BY <1>2, TasksAreNamed DEF Families
  <1> QED BY <1>1, <1>2, <1>3, <1>4, <1>5, FS_Subset, FS_CardinalityType

\* The families have different turns, within their number: ComesFirst is a
\* strict order of them.
LEMMA FamiliesOrdered ==
    /\ \A f, g \in Families : Turn(f) = Turn(g) => f = g
    /\ \A f \in Families : Turn(f) \in 1..Cardinality(Families)
  <1> DEFINE Above == {e \in Families \X Families : ComesFirst(e[1], e[2])}
             n == [f \in Families |-> Cardinality({g \in Families : <<g, f>> \in Above})]
             size(f) == Cardinality(Bucket(f))
  <1>1. IsFiniteSet(Families) /\ Cardinality(Families) \in Nat /\ \A f \in Families : size(f) \in Nat
    BY SurvivorsFinite
  <1>2. \A f \in Families : NamePlace(f) \in DOMAIN FamilyNames /\ FamilyNames[NamePlace(f)] = f
    <2>1. \A f \in Families : \E i \in DOMAIN FamilyNames : FamilyNames[i] = f
      BY SurvivorsFinite DEF Named
    <2> QED BY <2>1 DEF NamePlace
  <1>3. \A f \in Families : NamePlace(f) \in Nat
    <2>1. DOMAIN FamilyNames \subseteq Nat
      BY DEF FamilyNames
    <2> QED BY <1>2, <2>1
  <1>4. \A f, g \in Families : <<f, g>> \in Above <=>
          size(f) > size(g) \/ (size(f) = size(g) /\ NamePlace(f) < NamePlace(g))
    BY DEF ComesFirst, NamePlace
  <1> HIDE DEF size, Above
  <1>5. \A f \in Families : <<f, f>> \notin Above
    BY <1>1, <1>3, <1>4
  <1>6. \A f, g, h \in Families : <<f, g>> \in Above /\ <<g, h>> \in Above => <<f, h>> \in Above
    BY <1>1, <1>3, <1>4
  <1>7. \A f, g \in Families : f # g => <<f, g>> \in Above \/ <<g, f>> \in Above
    BY <1>1, <1>2, <1>3, <1>4
  <1>8. \A f \in Families : n[f] = Cardinality({g \in Families : <<g, f>> \in Above})
    OBVIOUS
  <1>9. \A f \in Families : Turn(f) = 1 + n[f]
    <2> SUFFICES ASSUME NEW f \in Families PROVE Turn(f) = 1 + n[f]
      OBVIOUS
    <2>1. {g \in Families : <<g, f>> \in Above} = {g \in Families : ComesFirst(g, f)}
      BY DEF Above
    <2> QED BY <2>1 DEF Turn
  <1> HIDE DEF n
  <1>10. /\ \A f, g \in Families : n[f] = n[g] => f = g
         /\ \A f \in Families : n[f] \in Nat /\ n[f] < Cardinality(Families)
    BY <1>1, <1>5, <1>6, <1>7, <1>8, PlacesDiffer
  <1> QED BY <1>1, <1>9, <1>10

\* A visit takes one task at the most.
LEMMA OneAtVisit ==
    ASSUME NEW r
    PROVE  /\ \A t, u \in AtVisit(r) : t = u
           /\ IsFiniteSet(AtVisit(r)) /\ Cardinality(AtVisit(r)) \in {0, 1}
  <1>1. ASSUME NEW t \in AtVisit(r), NEW u \in AtVisit(r), t < u PROVE FALSE
    <2>1. /\ t \in Survivors /\ u \in Survivors /\ t \in Nat /\ u \in Nat
          /\ FamilyOf[t] \in Families /\ FamilyOf[u] \in Families
          /\ Turn(FamilyOf[t]) = Turn(FamilyOf[u]) /\ RankOf(t) = RankOf(u)
      BY SurvivorsFinite DEF AtVisit, Families
    <2>2. FamilyOf[t] = FamilyOf[u]
      BY <2>1, FamiliesOrdered
    <2> DEFINE B == Bucket(FamilyOf[t])
               n == Ahead(B, u)
    <2>3. B \in SUBSET Nat /\ IsFiniteSet(B) /\ t \in B /\ u \in B
      BY <2>1, <2>2, SurvivorsFinite DEF Bucket
    <2>4. Ahead(B, t) \in Nat /\ Ahead(B, u) \in Nat
      BY <2>3, FS_Subset, FS_CardinalityType DEF Ahead
    <2>5. Ahead(B, t) = Ahead(B, u)
      BY <2>1, <2>2, <2>4 DEF RankOf
    <2>6. /\ {v \in B : v < t} \subseteq {v \in B : v < u}
          /\ t \in {v \in B : v < u} /\ t \notin {v \in B : v < t}
      <3>1. \A v \in B : v < t => v < u
        <4>1. \A v \in B : v \in Nat
          BY <2>3
        <4> QED BY <4>1, <2>1, <1>1
      <3> QED BY <3>1, <2>1, <2>3, <1>1
    <2>7. IsFiniteSet({v \in B : v < u}) /\ {v \in B : v < t} # {v \in B : v < u}
      BY <2>3, <2>6, FS_Subset
    <2> QED BY <2>5, <2>6, <2>7, FS_Subset DEF Ahead
  <1>2. \A t, u \in AtVisit(r) : t = u
    <2>1. \A t \in AtVisit(r) : t \in Nat
      BY SurvivorsFinite DEF AtVisit
    <2> QED BY <1>1, <2>1
  <1>3. CASE AtVisit(r) = {}
    BY <1>2, <1>3, FS_EmptySet
  <1>4. CASE AtVisit(r) # {}
    <2>1. PICK t \in AtVisit(r) : TRUE
      BY <1>4
    <2>2. AtVisit(r) = {t}
      BY <1>2, <2>1
    <2> QED BY <1>2, <2>2, FS_Singleton
  <1> QED BY <1>3, <1>4

\* A survivor's rank is one more than the survivors ahead of it in its family.
LEMMA RanksAre ==
    \A t \in Survivors :
        /\ RankOf(t) \in Nat /\ 1 <= RankOf(t) /\ RankOf(t) <= Cardinality(Tasks)
        /\ RankOf(t) = 1 + Ahead(Bucket(FamilyOf[t]), t)
        /\ Ahead(Bucket(FamilyOf[t]), t) \in Nat
        /\ FamilyOf[t] \in Families /\ Turn(FamilyOf[t]) \in 1..Cardinality(Families)
  <1> SUFFICES ASSUME NEW t \in Survivors
               PROVE  /\ RankOf(t) \in Nat /\ 1 <= RankOf(t) /\ RankOf(t) <= Cardinality(Tasks)
                      /\ RankOf(t) = 1 + Ahead(Bucket(FamilyOf[t]), t)
                      /\ Ahead(Bucket(FamilyOf[t]), t) \in Nat
                      /\ FamilyOf[t] \in Families /\ Turn(FamilyOf[t]) \in 1..Cardinality(Families)
    OBVIOUS
  <1> DEFINE B == Bucket(FamilyOf[t])
             under == {u \in B : u < t}
  <1>1. /\ IsFiniteSet(B) /\ B \in SUBSET Nat /\ t \in B /\ Cardinality(B) <= Cardinality(Tasks)
        /\ Cardinality(B) \in Nat
    BY SurvivorsFinite DEF Bucket
  <1>2. under \subseteq B /\ t \notin under
    BY <1>1
  <1>3. IsFiniteSet(under) /\ Cardinality(under) \in Nat
    BY <1>1, <1>2, FS_Subset, FS_CardinalityType
  <1>4. Cardinality(under) < Cardinality(B)
    <2>1. under # B
      BY <1>1, <1>2
    <2> HIDE DEF under, B
    <2>2. Cardinality(under) <= Cardinality(B) /\ Cardinality(under) # Cardinality(B)
      BY <1>1, <1>2, <2>1, FS_Subset
    <2> QED BY <1>1, <1>3, <2>2
  <1>5. Ahead(B, t) = Cardinality(under) /\ RankOf(t) = 1 + Ahead(B, t)
    BY DEF Ahead, RankOf
  <1>6. FamilyOf[t] \in Families
    BY DEF Families
  <1>7. Cardinality(Tasks) \in Nat
    BY SelectionAssumption, FS_CardinalityType
  <1> HIDE DEF under
  <1>8. RankOf(t) \in Nat /\ 1 <= RankOf(t) /\ RankOf(t) <= Cardinality(Tasks)
    BY <1>1, <1>3, <1>4, <1>5, <1>7
  <1> QED BY <1>3, <1>5, <1>6, <1>8, FamiliesOrdered

\* What the round robin has taken when it comes to r.
Reached(r) ==
    {t \in Survivors :
        RankOf(t) < r.rank \/ (RankOf(t) = r.rank /\ Turn(FamilyOf[t]) < r.at)}

\* The round is a visit of a family there is.
RoundSound(r) ==
    /\ r \in [rank : Nat \ {0}, at : Nat \ {0}]
    /\ Survivors # {} => r.at <= Cardinality(Families)

\* The first visit, where main() starts the round robin.
Start == [rank |-> 1, at |-> 1]

\* At the first visit nothing has been taken.
LEMMA RoundStarts == RoundSound(Start) /\ Reached(Start) = {}
  <1>1. Start \in [rank : Nat \ {0}, at : Nat \ {0}] /\ Start.rank = 1 /\ Start.at = 1
    BY DEF Start
  <1>2. Survivors # {} => 1 <= Cardinality(Families)
    <2>1. Cardinality(Families) \in Nat /\ (Cardinality(Families) = 0 <=> Families = {})
      BY SurvivorsFinite, FS_EmptySet
    <2>2. Survivors # {} => Families # {}
      BY DEF Families
    <2> QED BY <2>1, <2>2
  <1>3. \A t \in Survivors : ~(RankOf(t) < 1) /\ ~(Turn(FamilyOf[t]) < 1)
    BY RanksAre
  <1> QED BY <1>1, <1>2, <1>3 DEF RoundSound, Reached

\* A visit takes its task and goes on to the next one.
LEMMA RoundGoesOn ==
    ASSUME NEW r, RoundSound(r), Survivors # {}
    PROVE  RoundSound(NextVisit(r)) /\ Reached(NextVisit(r)) = Reached(r) \cup AtVisit(r)
  <1> DEFINE q == NextVisit(r)
  <1>1. /\ r.rank \in Nat /\ r.rank >= 1 /\ r.at \in Nat /\ r.at >= 1
        /\ r = [rank |-> r.rank, at |-> r.at]
        /\ r.at <= Cardinality(Families) /\ Cardinality(Families) \in Nat
    BY SurvivorsFinite DEF RoundSound
  <1>2. \A t \in Survivors :
          /\ RankOf(t) \in Nat /\ RankOf(t) <= Cardinality(Tasks)
          /\ Turn(FamilyOf[t]) \in Nat /\ 1 <= Turn(FamilyOf[t])
          /\ Turn(FamilyOf[t]) <= Cardinality(Families)
    BY SurvivorsFinite, RanksAre
  <1>3. Cardinality(Tasks) \in Nat /\ MaxRank = Cardinality(Tasks) + 1
    BY SelectionAssumption, FS_CardinalityType DEF MaxRank
  <1>4. CASE r.at < Cardinality(Families)
    <2>1. q.rank = r.rank /\ q.at = r.at + 1 /\ q \in [rank : Nat \ {0}, at : Nat \ {0}]
      BY <1>1, <1>4 DEF NextVisit
    <2> HIDE DEF q
    <2>2. RoundSound(q)
      BY <1>1, <1>4, <2>1 DEF RoundSound
    <2>3. \A t \in Survivors :
            (RankOf(t) < q.rank \/ (RankOf(t) = q.rank /\ Turn(FamilyOf[t]) < q.at))
            <=> \/ RankOf(t) < r.rank \/ (RankOf(t) = r.rank /\ Turn(FamilyOf[t]) < r.at)
                \/ Turn(FamilyOf[t]) = r.at /\ RankOf(t) = r.rank
      BY <1>1, <1>2, <2>1
    <2>4. Reached(q) = Reached(r) \cup AtVisit(r)
      BY <2>3 DEF Reached, AtVisit
    <2> QED BY <2>2, <2>4 DEF q
  <1>5. CASE ~(r.at < Cardinality(Families))
    <2>0. r.at = Cardinality(Families)
      BY <1>1, <1>5
    <2>1. /\ q.rank = IF r.rank > MaxRank THEN MaxRank ELSE r.rank + 1
          /\ q.at = 1 /\ q \in [rank : Nat \ {0}, at : Nat \ {0}]
      BY <1>1, <1>3, <1>5 DEF NextVisit
    <2> HIDE DEF q
    <2>2. RoundSound(q)
      BY <1>1, <2>0, <2>1 DEF RoundSound
    <2>3. \A t \in Survivors :
            (RankOf(t) < q.rank \/ (RankOf(t) = q.rank /\ Turn(FamilyOf[t]) < q.at))
            <=> \/ RankOf(t) < r.rank \/ (RankOf(t) = r.rank /\ Turn(FamilyOf[t]) < r.at)
                \/ Turn(FamilyOf[t]) = r.at /\ RankOf(t) = r.rank
      <3>1. CASE r.rank > MaxRank
        BY <1>1, <1>2, <1>3, <2>0, <2>1, <3>1
      <3>2. CASE ~(r.rank > MaxRank)
        BY <1>1, <1>2, <1>3, <2>0, <2>1, <3>2
      <3> QED BY <3>1, <3>2
    <2>4. Reached(q) = Reached(r) \cup AtVisit(r)
      BY <2>3 DEF Reached, AtVisit
    <2> QED BY <2>2, <2>4 DEF q
  <1> QED BY <1>4, <1>5

\* What has been taken is spread over the families, first ones first.
LEMMA ReachedIsStratified ==
    ASSUME NEW r, RoundSound(r)
    PROVE  Stratified(Reached(r), Survivors)
  <1> DEFINE of(f, S) == {t \in S : FamilyOf[t] = f}
             n(f) == IF Turn(f) < r.at THEN r.rank ELSE r.rank - 1
             C(f) == {t \in Bucket(f) : Ahead(Bucket(f), t) < n(f)}
  <1>1. r.rank \in Nat /\ r.rank >= 1 /\ r.at \in Nat
    BY DEF RoundSound
  <1>2. ASSUME NEW f \in Families
        PROVE  /\ n(f) \in Nat /\ of(f, Reached(r)) = C(f) /\ of(f, Survivors) = Bucket(f)
               /\ n(f) = r.rank \/ n(f) = r.rank - 1
    <2>1. n(f) \in Nat /\ (n(f) = r.rank \/ n(f) = r.rank - 1)
      BY <1>1
    <2>2. ASSUME NEW t \in Survivors, FamilyOf[t] = f
          PROVE  (RankOf(t) < r.rank \/ (RankOf(t) = r.rank /\ Turn(f) < r.at))
                   <=> Ahead(Bucket(f), t) < n(f)
      <3>1. RankOf(t) = 1 + Ahead(Bucket(f), t) /\ Ahead(Bucket(f), t) \in Nat
        BY <2>2, RanksAre
      <3> QED BY <1>1, <3>1
    <2>3. of(f, Reached(r)) = C(f)
      BY <2>2 DEF Reached, Bucket
    <2>4. of(f, Survivors) = Bucket(f)
      BY DEF Bucket
    <2> QED BY <2>1, <2>3, <2>4
  <1>3. ASSUME NEW f \in Families
        PROVE  /\ Cardinality(C(f)) \in Nat /\ Cardinality(C(f)) <= n(f)
               /\ C(f) = Bucket(f) \/ Cardinality(C(f)) >= n(f)
               /\ \A t \in C(f), u \in Bucket(f) \ C(f) : t < u
    <2>1. Bucket(f) \in SUBSET Nat /\ IsFiniteSet(Bucket(f)) /\ n(f) \in Nat
      BY <1>2, SurvivorsFinite
    <2> HIDE DEF n
    <2> QED BY <2>1, FirstPlaces
  <1> HIDE DEF n, C, of
  <1>4. ASSUME NEW f \in Families, NEW g \in Families
        PROVE  \/ Cardinality(of(f, Reached(r))) + 1 >= Cardinality(of(g, Reached(r)))
               \/ of(f, Reached(r)) = of(f, Survivors)
    <2>1. /\ Cardinality(C(f)) \in Nat /\ Cardinality(C(g)) \in Nat /\ Cardinality(C(g)) <= n(g)
          /\ C(f) = Bucket(f) \/ Cardinality(C(f)) >= n(f)
      BY <1>3
    <2>2. /\ n(f) \in Nat /\ n(g) \in Nat /\ n(g) <= n(f) + 1
          /\ of(f, Reached(r)) = C(f) /\ of(g, Reached(r)) = C(g) /\ of(f, Survivors) = Bucket(f)
      BY <1>1, <1>2
    <2> QED BY <2>1, <2>2
  <1>5. ASSUME NEW t \in Reached(r), NEW u \in Survivors \ Reached(r), FamilyOf[t] = FamilyOf[u]
        PROVE  t < u
    <2> DEFINE f == FamilyOf[t]
    <2>1. f \in Families /\ t \in Survivors
      BY RanksAre DEF Reached
    <2>2. t \in of(f, Reached(r)) /\ u \in of(f, Survivors) /\ u \notin of(f, Reached(r))
      BY <1>5, <2>1 DEF of
    <2> HIDE DEF f
    <2>3. t \in C(f) /\ u \in Bucket(f) \ C(f)
      BY <1>2, <2>1, <2>2
    <2> QED BY <1>3, <2>1, <2>3
  <1> QED BY <1>4, <1>5 DEF Stratified, of, Families

-----------------------------------------------------------------------------
(* The selection. *)

\* Only tasks that passed the screen are probed, cached and waiting.
OnlyScreened ==
    /\ chunks \in Seq(SUBSET Unscreened)
    /\ DOMAIN probes \subseteq Unscreened
    /\ cache = TornCache \/ DOMAIN cache \subseteq Unscreened

\* The round robin has taken what it has come by, and not too much.
RoundRobin ==
    /\ stage \in {"probing", "saving"} => round = Start /\ chosen = {}
    /\ stage = "selecting" =>
         RoundSound(round) /\ chosen = Reached(round) /\ Cardinality(chosen) <= Quota

\* The inductive invariant of the selection.
TaskSelectionInv == OnlyScreened /\ RoundRobin /\ ManifestStratified

\* The tasks that pass the static screen are finitely many.
LEMMA UnscreenedFinite == IsFiniteSet(Unscreened) /\ Unscreened \subseteq Tasks
  <1>1. Unscreened \subseteq Tasks
    BY DEF Unscreened, Static
  <1> QED BY <1>1, SelectionAssumption, FS_Subset

\* Nothing has been probed, taken or written at the start.
LEMMA SelectionStarts == SelectionInit => TaskSelectionInv
  <1> SUFFICES ASSUME SelectionInit PROVE TaskSelectionInv
    OBVIOUS
  <1>1. << >> \in Seq(SUBSET Unscreened) /\ DOMAIN << >> \subseteq Unscreened
    OBVIOUS
  <1>2. OnlyScreened
    BY <1>1 DEF OnlyScreened, SelectionInit
  <1> QED BY <1>2 DEF TaskSelectionInv, RoundRobin, ManifestStratified, SelectionInit

\* Only what is given is cut into chunks.
LEMMA ChunksAreScreened ==
    ASSUME NEW S \in SUBSET Unscreened
    PROVE  ChunksOf(S) \in Seq(SUBSET Unscreened)
  <1>1. Cardinality(S) \in Nat /\ ChunkSize \in Nat \ {0}
    BY UnscreenedFinite, SelectionAssumption, FS_Subset, FS_CardinalityType
  <1>2. (Cardinality(S) + ChunkSize - 1) \div ChunkSize \in Nat
    <2>1. ASSUME NEW a \in Nat, NEW b \in Nat \ {0} PROVE (a + b - 1) \div b \in Nat
      BY SMTT(30)
    <2> QED BY <1>1, <2>1
  <1> QED BY <1>2 DEF ChunksOf

\* Steps that take no task and write no manifest.
LEMMA QuietSelection ==
    ASSUME TaskSelectionInv, UNCHANGED manifest, OnlyScreened', RoundRobin'
    PROVE  TaskSelectionInv'
  BY DEF TaskSelectionInv, ManifestStratified

\* An invocation starts over, with the cached probes if there are any.
LEMMA InvokeStep ==
    ASSUME TaskSelectionInv, Invoke
    PROVE  TaskSelectionInv'
  <1>1. /\ UNCHANGED <<cache, manifest>> /\ round' = Start /\ chosen' = {} /\ stage = "idle"
        /\ OnlyScreened
    BY DEF TaskSelectionInv, Invoke, Select0, Start
  <1>2. CASE UNCHANGED <<stage, probes, chunks>>
    BY <1>1, <1>2, QuietSelection DEF OnlyScreened, RoundRobin
  <1>3. CASE ~UNCHANGED <<stage, probes, chunks>>
    <2>1. /\ cache # TornCache /\ probes' = cache /\ chunks' = ChunksOf(Missing(cache))
          /\ stage' = "selecting" \/ stage' = "probing"
      BY <1>3 DEF Invoke
    <2>2. Missing(cache) \in SUBSET Unscreened
      BY DEF Missing
    <2>3. OnlyScreened'
      BY <1>1, <2>1, <2>2, ChunksAreScreened DEF OnlyScreened
    <2>4. (RoundSound(Start) /\ Reached(Start) = {})'
      BY RoundStarts, PTL
    <2>5. Start' = Start /\ Cardinality({}) = 0 /\ Quota \in Nat
      BY FS_EmptySet, SelectionAssumption DEF Start
    <2>6. RoundRobin'
      BY <1>1, <2>4, <2>5 DEF RoundRobin
    <2> QED BY <1>1, <2>3, <2>6, QuietSelection
  <1> QED BY <1>2, <1>3

\* Probing a chunk adds its tasks to the probes.
LEMMA ProbeChunkStep ==
    ASSUME TaskSelectionInv, ProbeChunk
    PROVE  TaskSelectionInv'
  <1>1. /\ OnlyScreened /\ RoundRobin /\ stage = "probing" /\ chunks # << >>
        /\ UNCHANGED <<runs, cache, round, chosen, manifest>> /\ chunks' = Tail(chunks)
        /\ DOMAIN probes' = DOMAIN probes \cup Head(chunks)
        /\ stage' = "saving" \/ stage' = "probing"
    BY DEF TaskSelectionInv, ProbeChunk
  <1>2. Head(chunks) \subseteq Unscreened /\ Tail(chunks) \in Seq(SUBSET Unscreened)
    BY <1>1 DEF OnlyScreened
  <1>3. OnlyScreened'
    BY <1>1, <1>2 DEF OnlyScreened
  <1>4. RoundRobin'
    BY <1>1 DEF RoundRobin, Start
  <1> QED BY <1>1, <1>3, <1>4, QuietSelection

\* The cache is written with what has been probed, or the script stops.
LEMMA StopOrSaveStep ==
    ASSUME TaskSelectionInv, Stop \/ SaveCache
    PROVE  TaskSelectionInv'
  <1>1. OnlyScreened /\ RoundRobin
    BY DEF TaskSelectionInv
  <1>2. CASE Stop
    BY <1>1, <1>2, QuietSelection DEF Stop, OnlyScreened, RoundRobin
  <1>3. CASE SaveCache
    <2>1. /\ UNCHANGED <<probes, chunks, round, chosen, manifest>> /\ stage = "saving"
          /\ cache' = probes /\ stage' = "selecting"
      BY <1>3 DEF SaveCache
    <2>2. OnlyScreened'
      BY <1>1, <2>1 DEF OnlyScreened
    <2>3. (RoundSound(Start) /\ Reached(Start) = {})'
      BY RoundStarts, PTL
    <2>4. Start' = Start /\ Cardinality({}) = 0 /\ Quota \in Nat
      BY FS_EmptySet, SelectionAssumption DEF Start
    <2>5. RoundRobin'
      BY <1>1, <2>1, <2>3, <2>4 DEF RoundRobin
    <2> QED BY <2>1, <2>2, <2>5, QuietSelection
  <1> QED BY <1>2, <1>3

\* A visit keeps to the quota: it takes one task at the most, below it.
LEMMA VisitStep ==
    ASSUME TaskSelectionInv, Visit
    PROVE  TaskSelectionInv'
  <1>1. /\ OnlyScreened /\ RoundSound(round) /\ chosen = Reached(round)
        /\ stage = "selecting" /\ Cardinality(chosen) < Quota /\ Survivors # {}
        /\ chosen' = chosen \cup AtVisit(round) /\ round' = NextVisit(round)
        /\ UNCHANGED <<stage, runs, cache, probes, chunks, manifest>>
    BY DEF TaskSelectionInv, RoundRobin, Visit
  <1>2. OnlyScreened'
    BY <1>1 DEF OnlyScreened
  <1>3. RoundSound(round') /\ chosen' = Reached(round')
    BY <1>1, RoundGoesOn
  <1>4. Survivors' = Survivors
    BY <1>1 DEF Survivors
  <1>5. RoundSound(round)' /\ (chosen = Reached(round))'
    BY <1>3, <1>4 DEF RoundSound, Reached, Families, RankOf, Bucket, Turn, ComesFirst
  <1>6. Cardinality(chosen') <= Quota
    <2>1. IsFiniteSet(chosen) /\ Cardinality(chosen) \in Nat
      BY <1>1, SurvivorsFinite, FS_Subset, FS_CardinalityType DEF Reached
    <2>2. IsFiniteSet(AtVisit(round)) /\ Cardinality(AtVisit(round)) \in {0, 1}
      BY OneAtVisit
    <2>3. /\ IsFiniteSet(chosen \cap AtVisit(round))
          /\ Cardinality(chosen') = Cardinality(chosen) + Cardinality(AtVisit(round))
                                      - Cardinality(chosen \cap AtVisit(round))
      BY <1>1, <2>1, <2>2, FS_Union, FS_Subset
    <2>4. Cardinality(chosen \cap AtVisit(round)) \in Nat /\ Quota \in Nat
      BY <2>3, FS_CardinalityType, SelectionAssumption
    <2> QED BY <1>1, <2>1, <2>2, <2>3, <2>4
  <1>7. RoundRobin'
    BY <1>1, <1>5, <1>6 DEF RoundRobin
  <1> QED BY <1>1, <1>2, <1>7, QuietSelection

\* The manifest is written of the survivors taken, which are stratified.
LEMMA WriteManifestStep ==
    ASSUME TaskSelectionInv, WriteManifest
    PROVE  TaskSelectionInv'
  <1>1. /\ OnlyScreened /\ RoundSound(round) /\ chosen = Reached(round)
        /\ Cardinality(chosen) <= Quota
        /\ stage' = "idle" /\ Selected
        /\ UNCHANGED <<runs, cache, probes, chunks, round, chosen>>
        /\ manifest' = [selected |-> chosen, spare |-> Survivors \ chosen,
                        excluded |-> Tasks \ Survivors, from |-> probes]
    BY DEF TaskSelectionInv, RoundRobin, WriteManifest
  <1>2. OnlyScreened' /\ RoundRobin'
    BY <1>1 DEF OnlyScreened, RoundRobin
  <1>3. Survivors = {t \in DOMAIN probes : probes[t] = "clean"}
    BY <1>1 DEF Survivors, OnlyScreened
  <1>4. chosen \subseteq Survivors
    BY <1>1 DEF Reached
  <1>5. Cardinality(chosen) = (IF Survivors = {} THEN 0 ELSE Quota)
    <2>1. CASE Survivors = {}
      <3>1. chosen = {}
        BY <1>4, <2>1
      <3> QED BY <2>1, <3>1, FS_EmptySet
    <2>2. CASE Survivors # {}
      <3>1. Cardinality(chosen) >= Quota
        BY <1>1, <2>2 DEF Selected
      <3>2. Cardinality(chosen) \in Nat /\ Quota \in Nat
        BY <1>4, SurvivorsFinite, FS_Subset, FS_CardinalityType, SelectionAssumption
      <3> QED BY <1>1, <2>2, <3>1, <3>2
    <2> QED BY <2>1, <2>2
  <1>6. Stratified(chosen, Survivors)
    BY <1>1, ReachedIsStratified
  <1> DEFINE M == manifest'
             S == {t \in DOMAIN M.from : M.from[t] = "clean"}
  <1>7. /\ M.selected = chosen /\ M.spare = Survivors \ chosen
        /\ M.excluded = Tasks \ Survivors /\ S = Survivors
    BY <1>1, <1>3
  <1>8. /\ M.selected \cup M.spare = S /\ M.selected \cap M.spare = {}
        /\ M.excluded = Tasks \ S
        /\ Cardinality(M.selected) = (IF S = {} THEN 0 ELSE Quota)
        /\ Stratified(M.selected, S)
    <2>1. chosen \cup (Survivors \ chosen) = Survivors
      BY <1>4
    <2> HIDE DEF S
    <2> QED BY <1>5, <1>6, <1>7, <2>1
  <1>9. ManifestStratified'
    BY <1>8 DEF ManifestStratified, Stratified
  <1> QED BY <1>2, <1>9 DEF TaskSelectionInv

\* TaskSelectionInv is an inductive invariant of scripts/kernelbench_select.py,
\* across invocations that stop anywhere.
THEOREM TaskSelectionInvariance == TaskSelectionSpec => []TaskSelectionInv
  <1>1. TaskSelectionInv /\ [SelectionNext]_selectionVars => TaskSelectionInv'
    <2> SUFFICES ASSUME TaskSelectionInv, [SelectionNext]_selectionVars
                 PROVE  TaskSelectionInv'
      OBVIOUS
    <2>1. CASE UNCHANGED selectionVars
      <3>1. /\ OnlyScreened /\ RoundRobin
            /\ UNCHANGED <<stage, cache, probes, chunks, round, chosen, manifest>>
        BY <2>1 DEF TaskSelectionInv, selectionVars
      <3>2. Survivors' = Survivors
        BY <3>1 DEF Survivors
      <3>3. OnlyScreened' /\ RoundRobin'
        BY <3>1, <3>2 DEF OnlyScreened, RoundRobin, Start, RoundSound, Reached, Families,
                         RankOf, Bucket, Turn, ComesFirst
      <3> QED BY <3>1, <3>3, QuietSelection
    <2>2. CASE SelectionNext
      BY <2>2, InvokeStep, ProbeChunkStep, StopOrSaveStep, VisitStep, WriteManifestStep
         DEF SelectionNext
    <2> QED BY <2>1, <2>2
  <1> QED BY <1>1, SelectionStarts, PTL DEF TaskSelectionSpec

\* Every manifest kernelbench_select.py writes takes exactly the quota from the
\* tasks with a clean probe, spread over the families in turn and each family's
\* first ones first, and puts every task of the level in one of its lists.
THEOREM ManifestsAreStratified == TaskSelectionSpec => []ManifestStratified
  <1>1. TaskSelectionInv => ManifestStratified
    BY DEF TaskSelectionInv
  <1> QED BY <1>1, TaskSelectionInvariance, PTL

-----------------------------------------------------------------------------
(* The ledgers of the re-evaluations. *)

\* The rows of the two scripts: error is null, absent or set.
Lines == [of : Nat, error : {"null", "absent", "set"}, real : BOOLEAN]

\* What the rows of a script say: a measurement has no error, and a replay
\* without one has an error.
IsRow(kind, row) ==
    /\ row \in Lines
    /\ row.real => row.error = (IF kind = "replay" THEN "null" ELSE "absent")
    /\ (kind = "replay" /\ ~row.real) => row.error = "set"

\* The ledger has rows of the script; without a newline it is not empty.
LedgerTypes ==
    /\ script \in {"replay", "holdout"}
    /\ rows \in Seq(Lines \cup {TornLine})
    /\ \A i \in 1..Len(rows) : rows[i] # TornLine => IsRow(script, rows[i])
    /\ ragged \in BOOLEAN /\ tears \in Nat
    /\ ragged => rows # << >>

\* What an invocation has in memory.
Frames == [at : {"off", "looking", "appending", "finished"}, done : SUBSET Nat,
           todo : SUBSET Nat, row : Lines \cup {TornLine}, read : Nat]

\* The candidates a ledger has a row of.
Answered(lines) == {lines[i].of : i \in {j \in 1..Len(lines) : lines[j] # TornLine}}

\* What an invocation has in memory is of the right kind, and what was measured
\* when it read the ledger it takes for done.
FrameSound(f) ==
    /\ f \in Frames /\ f.read <= Len(rows)
    /\ f.at = "appending" => f.row # TornLine /\ IsRow(script, f.row)
    /\ f.at = "finished" => f.todo = {}
    /\ f.at \in {"looking", "appending"} =>
         \A i \in 1..f.read : (rows[i] # TornLine /\ rows[i].real) => rows[i].of \in f.done

\* The candidates an invocation still has to see to.
ToCome(f) == f.todo \cup (IF f.at = "appending" THEN {f.row.of} ELSE {})

\* Every candidate of an invocation that is under way or finished has a row, is
\* still to come, or is in S; what it takes for done has a row or is in S.
Reaches(S, f) ==
    /\ f.at # "off" => Population \subseteq S \cup Answered(rows) \cup ToCome(f)
    /\ f.at \in {"looking", "appending"} => f.done \subseteq S \cup Answered(rows)

\* What the line that the next one will continue stands to lose.
AtStake == IF ragged THEN 2 ELSE 0

\* S has the candidates whose row was destroyed: it continued another, or was
\* continued.
Swallowed(S) ==
    /\ IsFiniteSet(S)
    /\ Cardinality(S) + AtStake <= 2 * tears
    /\ \A p \in Invocations : Reaches(S, pass[p])

\* The inductive invariant of the re-evaluations.
ReevaluationInv ==
    /\ LedgerTypes /\ DOMAIN pass = Invocations
    /\ \A p \in Invocations : FrameSound(pass[p])
    /\ \E S \in SUBSET Nat : Swallowed(S)

\* Candidates have numbers.
LEMMA PopulationIds == Population \subseteq Nat
  BY ReevaluationAssumption DEF Population, GoodRows

\* An invocation that is over claims nothing.
LEMMA OffIsSound ==
    ASSUME LedgerTypes
    PROVE  FrameSound(Off) /\ FrameSound([Off EXCEPT !.at = "finished"])
  <1>1. Len(rows) \in Nat
    BY DEF LedgerTypes
  <1> QED BY <1>1 DEF FrameSound, Off, Frames

\* The ledger is empty at the start, and no invocation is under way.
LEMMA ReevaluationStarts == ReevaluationInit => ReevaluationInv
  <1> SUFFICES ASSUME ReevaluationInit PROVE ReevaluationInv
    OBVIOUS
  <1> USE DEF ReevaluationInit
  <1>1. rows \in Seq(Lines \cup {TornLine}) /\ Len(rows) = 0
    OBVIOUS
  <1>2. LedgerTypes
    <2>1. 1..Len(rows) = {}
      BY <1>1
    <2> QED BY <1>1, <2>1 DEF LedgerTypes
  <1>3. Off.at = "off"
    BY DEF Off
  <1>4. FrameSound(Off)
    BY <1>2, OffIsSound
  <1>5. Swallowed({})
    BY <1>3, FS_EmptySet DEF Swallowed, Reaches, AtStake
  <1> QED BY <1>2, <1>4, <1>5 DEF ReevaluationInv

\* The candidate of a row that has no newline, which the next line destroys.
Broken == IF ragged /\ rows[Len(rows)] # TornLine THEN {rows[Len(rows)].of} ELSE {}

\* At most one candidate is at stake in the last line.
LEMMA BrokenIs ==
    ASSUME LedgerTypes
    PROVE  /\ Broken \in SUBSET Nat /\ IsFiniteSet(Broken) /\ Cardinality(Broken) \in {0, 1}
           /\ ~ragged => Broken = {}
  <1>1. CASE ragged /\ rows[Len(rows)] # TornLine
    <2>1. Len(rows) \in 1..Len(rows)
      BY <1>1 DEF LedgerTypes
    <2>2. rows[Len(rows)].of \in Nat
      BY <1>1, <2>1 DEF LedgerTypes, IsRow, Lines
    <2>3. Broken = {rows[Len(rows)].of}
      BY <1>1 DEF Broken
    <2> QED BY <1>1, <2>2, <2>3, FS_Singleton
  <1>2. CASE ~(ragged /\ rows[Len(rows)] # TornLine)
    BY <1>2, FS_EmptySet DEF Broken
  <1> QED BY <1>1, <1>2

\* Writing a line keeps the others, and every answer but the broken one; a row
\* is an answer unless it continues another line.
LEMMA LedgerGrows ==
    ASSUME LedgerTypes, NEW r \in Lines \cup {TornLine}, rows' = Written(r),
           script' = script, r # TornLine => IsRow(script, r),
           ragged' \in BOOLEAN, tears' \in Nat
    PROVE  /\ LedgerTypes'
           /\ Len(rows) <= Len(rows)'
           /\ \A i \in 1..Len(rows) : rows'[i] \in {rows[i], TornLine}
           /\ Answered(rows) \subseteq Broken \cup Answered(rows)'
           /\ (~ragged /\ r # TornLine) => r.of \in Answered(rows)'
  <1>0. rows \in Seq(Lines \cup {TornLine}) /\ Len(rows) \in Nat
    BY DEF LedgerTypes
  <1>1. CASE ragged
    <2>1. rows # << >> /\ rows' = [rows EXCEPT ![Len(rows)] = TornLine]
      BY <1>1 DEF Written, LedgerTypes
    <2>2. /\ rows' \in Seq(Lines \cup {TornLine}) /\ Len(rows') = Len(rows)
          /\ \A i \in 1..Len(rows) :
               rows'[i] = IF i = Len(rows) THEN TornLine ELSE rows[i]
      BY <1>0, <2>1, ExceptSeq
    <2>3. rows' # << >>
      BY <1>0, <2>1, <2>2
    <2>4. \A i \in 1..Len(rows') : rows'[i] # TornLine => IsRow(script, rows'[i])
      BY <2>2 DEF LedgerTypes
    <2>5. LedgerTypes'
      BY <2>2, <2>3, <2>4 DEF LedgerTypes
    <2>6. Answered(rows) \subseteq Broken \cup Answered(rows')
      <3> SUFFICES ASSUME NEW j \in 1..Len(rows), rows[j] # TornLine
                   PROVE  rows[j].of \in Broken \cup Answered(rows')
        BY DEF Answered
      <3>1. CASE j = Len(rows)
        BY <1>1, <3>1 DEF Broken
      <3>2. CASE j # Len(rows)
        <4>1. rows'[j] = rows[j] /\ j \in 1..Len(rows')
          BY <2>2, <3>2
        <4> QED BY <4>1 DEF Answered
      <3> QED BY <3>1, <3>2
    <2> QED BY <1>0, <1>1, <2>2, <2>5, <2>6
  <1>2. CASE ~ragged
    <2>1. rows' = Append(rows, r)
      BY <1>2 DEF Written
    <2>2. /\ rows' \in Seq(Lines \cup {TornLine}) /\ Len(rows') = Len(rows) + 1
          /\ \A i \in 1..Len(rows) : rows'[i] = rows[i]
          /\ rows'[Len(rows) + 1] = r /\ rows' # << >>
      BY <1>0, <2>1
    <2>4. \A i \in 1..Len(rows') : i \in 1..Len(rows) \/ i = Len(rows) + 1
      BY <1>0, <2>2
    <2>5. \A i \in 1..Len(rows') : rows'[i] # TornLine => IsRow(script, rows'[i])
      BY <2>2, <2>4 DEF LedgerTypes
    <2>6. LedgerTypes'
      BY <2>2, <2>5 DEF LedgerTypes
    <2>7. 1..Len(rows) \subseteq 1..Len(rows') /\ Len(rows) + 1 \in 1..Len(rows')
      BY <1>0, <2>2
    <2>8. Answered(rows) \subseteq Answered(rows')
      BY <2>2, <2>7 DEF Answered
    <2>9. r # TornLine => r.of \in Answered(rows')
      BY <2>2, <2>7 DEF Answered
    <2> QED BY <1>0, <2>2, <2>6, <2>8, <2>9
  <1> QED BY <1>1, <1>2

\* A step of one invocation that leaves the ledger alone.
LEMMA QuietPass ==
    ASSUME ReevaluationInv, NEW p \in Invocations, NEW f,
           pass' = [pass EXCEPT ![p] = f], UNCHANGED <<script, rows, ragged, tears>>,
           FrameSound(f), \A S \in SUBSET Nat : Swallowed(S) => Reaches(S, f)
    PROVE  ReevaluationInv'
  <1>1. LedgerTypes' /\ DOMAIN pass' = Invocations
    BY DEF ReevaluationInv, LedgerTypes, IsRow
  <1>2. Population' = Population
    BY DEF Population
  <1>3. \A q \in Invocations : pass'[q] = IF q = p THEN f ELSE pass[q]
    BY DEF ReevaluationInv
  <1>4. ASSUME NEW q \in Invocations PROVE FrameSound(pass[q])'
    <2>1. FrameSound(pass'[q])
      BY <1>3 DEF ReevaluationInv
    <2> QED BY <2>1 DEF FrameSound
  <1>5. PICK S \in SUBSET Nat : Swallowed(S)
    BY DEF ReevaluationInv
  <1>6. ASSUME NEW q \in Invocations PROVE Reaches(S, pass[q])'
    <2>1. Reaches(S, pass'[q])
      BY <1>3, <1>5 DEF Swallowed
    <2> QED BY <2>1, <1>2 DEF Reaches
  <1>7. Swallowed(S)'
    BY <1>5, <1>6 DEF Swallowed, AtStake
  <1> QED BY <1>1, <1>4, <1>7 DEF ReevaluationInv

\* A step that writes a line r and leaves the invocation with frame f.  The
\* candidates in T are the ones it loses.
LEMMA WritingPass ==
    ASSUME ReevaluationInv, NEW p \in Invocations, NEW f, NEW r \in Lines \cup {TornLine},
           pass' = [pass EXCEPT ![p] = f], rows' = Written(r), script' = script,
           r # TornLine => IsRow(script, r),
           ragged' \in BOOLEAN, tears' \in Nat,
           FrameSound(f)', NEW T \in SUBSET Nat, IsFiniteSet(T), Broken \subseteq T,
           Cardinality(T) + AtStake' + 2 * tears <= AtStake + 2 * tears',
           \A S \in SUBSET Nat : Reaches(S, pass[p]) => Reaches(S \cup T, f)'
    PROVE  ReevaluationInv'
  <1>0. LedgerTypes /\ \A q \in Invocations : FrameSound(pass[q])
    BY DEF ReevaluationInv
  <1>1. /\ LedgerTypes'
        /\ Len(rows) <= Len(rows)'
        /\ \A i \in 1..Len(rows) : rows'[i] \in {rows[i], TornLine}
        /\ Answered(rows) \subseteq Broken \cup Answered(rows)'
    <2>1. r # TornLine => IsRow(script, r)
      OBVIOUS
    <2> QED BY <1>0, <2>1, LedgerGrows
  <1>2. Population' = Population
    BY DEF Population
  <1>3. \A q \in Invocations : pass'[q] = IF q = p THEN f ELSE pass[q]
    BY DEF ReevaluationInv
  <1>4. ASSUME NEW q \in Invocations PROVE FrameSound(pass[q])'
    <2>1. CASE q = p
      BY <1>3, <2>1
    <2>2. CASE q # p
      <3>1. FrameSound(pass[q]) /\ pass'[q] = pass[q]
        BY <1>0, <1>3, <2>2
      <3>2. pass[q].read \in Nat /\ Len(rows) \in Nat /\ Len(rows)' \in Nat
        BY <1>0, <1>1, <3>1 DEF FrameSound, Frames, LedgerTypes
      <3>3. \A i \in 1..pass[q].read : i \in 1..Len(rows)
        BY <3>1, <3>2 DEF FrameSound
      <3>4. pass[q].read <= Len(rows)'
        BY <1>1, <3>1, <3>2 DEF FrameSound
      <3> QED BY <1>1, <3>1, <3>3, <3>4 DEF FrameSound
    <2> QED BY <2>1, <2>2
  <1>5. PICK S \in SUBSET Nat : Swallowed(S)
    BY DEF ReevaluationInv
  <1>6. ASSUME NEW q \in Invocations PROVE Reaches(S \cup T, pass[q])'
    <2>1. Reaches(S, pass[q])
      BY <1>5 DEF Swallowed
    <2>2. CASE q = p
      BY <1>3, <2>1, <2>2
    <2>3. CASE q # p
      BY <1>1, <1>2, <1>3, <2>1, <2>3 DEF Reaches
    <2> QED BY <2>2, <2>3
  <1>7. Swallowed(S \cup T)'
    <2>1. /\ IsFiniteSet(S) /\ Cardinality(S) \in Nat /\ Cardinality(T) \in Nat
          /\ Cardinality(S) + AtStake <= 2 * tears
      BY <1>5, FS_CardinalityType DEF Swallowed
    <2>2. IsFiniteSet(S \cup T) /\ Cardinality(S \cup T) <= Cardinality(S) + Cardinality(T)
      <3>1. /\ IsFiniteSet(S \cup T) /\ IsFiniteSet(S \cap T)
            /\ Cardinality(S \cup T) = Cardinality(S) + Cardinality(T) - Cardinality(S \cap T)
        BY <2>1, FS_Union, FS_Subset
      <3>2. Cardinality(S \cap T) \in Nat
        BY <3>1, FS_CardinalityType
      <3> QED BY <2>1, <3>1, <3>2
    <2>3. Cardinality(S \cup T) \in Nat /\ tears \in Nat /\ AtStake \in Nat /\ AtStake' \in Nat
      BY <1>0, <2>2, FS_CardinalityType DEF LedgerTypes, AtStake
    <2>4. Cardinality(S \cup T) + AtStake' <= 2 * tears'
      BY <2>1, <2>2, <2>3
    <2> QED BY <1>6, <2>2, <2>4 DEF Swallowed
  <1>8. S \cup T \in SUBSET Nat
    OBVIOUS
  <1> QED BY <1>1, <1>3, <1>4, <1>7, <1>8 DEF ReevaluationInv

\* An invocation takes for done what the ledger it reads answers.
LEMMA StartPassStep ==
    ASSUME ReevaluationInv, NEW p \in Invocations, StartPass(p)
    PROVE  ReevaluationInv'
  <1> DEFINE f == [at |-> "looking", done |-> Completed(rows), row |-> TornLine,
                   read |-> Len(rows), todo |-> Population]
  <1>1. /\ LedgerTypes /\ Len(rows) \in Nat /\ DOMAIN rows = 1..Len(rows)
        /\ \A i \in 1..Len(rows) : rows[i] # TornLine => IsRow(script, rows[i])
    BY DEF ReevaluationInv, LedgerTypes
  <1>2. Completed(rows) \subseteq Answered(rows)
    BY <1>1 DEF Completed, Answered
  <1>3. Completed(rows) \subseteq Nat
    BY <1>1 DEF Completed, IsRow, Lines
  <1>4. \A i \in 1..Len(rows) : (rows[i] # TornLine /\ rows[i].real) => rows[i].of \in Completed(rows)
    BY <1>1 DEF Completed, IsRow
  <1>5. FrameSound(f)
    BY <1>1, <1>2, <1>3, <1>4, PopulationIds DEF FrameSound, Frames
  <1>6. \A S : Reaches(S, f)
    BY <1>2 DEF Reaches, ToCome
  <1>7. pass' = [pass EXCEPT ![p] = f] /\ UNCHANGED <<script, rows, ragged, tears>>
    BY DEF StartPass
  <1> HIDE DEF f
  <1> QED BY <1>5, <1>6, <1>7, QuietPass

\* A candidate is passed over when it is done, or evaluated.
LEMMA EvaluateStep ==
    ASSUME ReevaluationInv, NEW p \in Invocations, Evaluate(p)
    PROVE  ReevaluationInv'
  <1>1. /\ LedgerTypes /\ FrameSound(pass[p]) /\ pass[p].at = "looking"
        /\ UNCHANGED <<script, rows, ragged, tears>>
    BY DEF ReevaluationInv, Evaluate
  <1>2. PICK c \in pass[p].todo :
          IF c \in pass[p].done
          THEN pass' = [pass EXCEPT ![p].todo = @ \ {c}]
          ELSE \E row \in RowsFor(c) :
                 pass' = [pass EXCEPT ![p].todo = @ \ {c}, ![p].row = row,
                                      ![p].at = "appending"]
    BY DEF Evaluate
  <1>3. c \in Nat
    BY <1>1 DEF FrameSound, Frames
  <1>4. CASE c \in pass[p].done
    <2> DEFINE f == [pass[p] EXCEPT !.todo = @ \ {c}]
    <2>1. pass' = [pass EXCEPT ![p] = f]
      BY <1>2, <1>4
    <2>2. FrameSound(f)
      BY <1>1 DEF FrameSound, Frames
    <2>4. ASSUME NEW S \in SUBSET Nat, Reaches(S, pass[p]) PROVE Reaches(S, f)
      <3>1. f.at = "looking" /\ f.todo = pass[p].todo \ {c} /\ f.done = pass[p].done
        BY <1>1 DEF FrameSound, Frames
      <3>2. /\ Population \subseteq S \cup Answered(rows) \cup pass[p].todo
            /\ pass[p].done \subseteq S \cup Answered(rows)
        BY <1>1, <2>4 DEF Reaches, ToCome
      <3> HIDE DEF f
      <3> QED BY <1>4, <3>1, <3>2 DEF Reaches, ToCome
    <2> HIDE DEF f
    <2> QED BY <1>1, <2>1, <2>2, <2>4, QuietPass DEF Swallowed
  <1>5. CASE c \notin pass[p].done
    <2>1. PICK row \in RowsFor(c) :
            pass' = [pass EXCEPT ![p].todo = @ \ {c}, ![p].row = row, ![p].at = "appending"]
      BY <1>2, <1>5
    <2> DEFINE f == [pass[p] EXCEPT !.todo = @ \ {c}, !.row = row, !.at = "appending"]
    <2>2. pass' = [pass EXCEPT ![p] = f]
      BY <2>1
    <2>3. row.of = c /\ IsRow(script, row)
      <3>1. \E e \in {"null", "absent", "set"}, b \in BOOLEAN :
              /\ row = [of |-> c, error |-> e, real |-> b]
              /\ b => e = (IF script = "replay" THEN "null" ELSE "absent")
              /\ (script = "replay" /\ ~b) => e = "set"
        BY DEF RowsFor
      <3> QED BY <1>3, <3>1 DEF IsRow, Lines
    <2>4. row # TornLine /\ row \in Lines
      BY <2>3, ReevaluationAssumption DEF IsRow, Lines
    <2>5. FrameSound(f)
      BY <1>1, <2>3, <2>4 DEF FrameSound, Frames
    <2>6. ASSUME NEW S \in SUBSET Nat, Reaches(S, pass[p]) PROVE Reaches(S, f)
      <3>1. /\ f.at = "appending" /\ f.todo = pass[p].todo \ {c} /\ f.row = row
            /\ f.done = pass[p].done
        BY <1>1 DEF FrameSound, Frames
      <3>2. /\ Population \subseteq S \cup Answered(rows) \cup pass[p].todo
            /\ pass[p].done \subseteq S \cup Answered(rows)
        BY <1>1, <2>6 DEF Reaches, ToCome
      <3> HIDE DEF f
      <3> QED BY <2>3, <3>1, <3>2 DEF Reaches, ToCome
    <2> HIDE DEF f
    <2> QED BY <1>1, <2>2, <2>5, <2>6, QuietPass DEF Swallowed
  <1> QED BY <1>4, <1>5

\* A row appended to a whole line is an answer; one that continues a line is
\* lost with it, and the append that was cut off accounts for the two.
LEMMA AppendRowStep ==
    ASSUME ReevaluationInv, NEW p \in Invocations, AppendRow(p)
    PROVE  ReevaluationInv'
  <1>a. PICK r : r = pass[p].row
    OBVIOUS
  <1>b. PICK f : f = [pass[p] EXCEPT !.at = "looking", !.row = TornLine]
    OBVIOUS
  <1>c. PICK T : T = Broken \cup (IF ragged THEN {r.of} ELSE {})
    OBVIOUS
  <1>1. /\ LedgerTypes /\ FrameSound(pass[p]) /\ pass[p].at = "appending"
        /\ rows' = Written(r) /\ ragged' = FALSE /\ UNCHANGED <<script, tears>>
        /\ pass' = [pass EXCEPT ![p] = f]
    BY <1>a, <1>b DEF ReevaluationInv, AppendRow
  <1>2. r \in Lines /\ r # TornLine /\ IsRow(script, r) /\ r.of \in Nat
    BY <1>a, <1>1 DEF FrameSound, IsRow, Lines
  <1>3. /\ Len(rows) <= Len(rows)'
        /\ \A i \in 1..Len(rows) : rows'[i] \in {rows[i], TornLine}
        /\ Answered(rows) \subseteq Broken \cup Answered(rows)'
        /\ ~ragged => r.of \in Answered(rows)'
        /\ LedgerTypes'
    <2>1. ragged' \in BOOLEAN /\ tears' \in Nat /\ script' = script
      BY <1>1 DEF LedgerTypes
    <2>2. r \in Lines \cup {TornLine}
      BY <1>2
    <2> QED BY <1>1, <1>2, <2>1, <2>2, LedgerGrows
  <1>4. /\ f.at = "looking" /\ f.row = TornLine /\ f.todo = pass[p].todo
        /\ f.read = pass[p].read /\ f.done = pass[p].done /\ f \in Frames
    BY <1>b, <1>1 DEF FrameSound, Frames
  <1>5. FrameSound(f)'
    <2>1. f.read \in Nat /\ Len(rows) \in Nat /\ Len(rows)' \in Nat /\ f.read <= Len(rows)
      BY <1>1, <1>3, <1>4 DEF FrameSound, Frames, LedgerTypes
    <2>2. \A i \in 1..f.read : i \in 1..Len(rows)
      BY <2>1
    <2>3. \A i \in 1..f.read : (rows[i] # TornLine /\ rows[i].real) => rows[i].of \in f.done
      BY <1>1, <1>4 DEF FrameSound
    <2>4. f.read <= Len(rows)'
      BY <1>3, <2>1
    <2> QED BY <1>3, <1>4, <2>2, <2>3, <2>4 DEF FrameSound
  <1>6. ASSUME NEW S \in SUBSET Nat, Reaches(S, pass[p]) PROVE Reaches(S \cup T, f)'
    <2>1. /\ Population \subseteq S \cup Answered(rows) \cup pass[p].todo \cup {r.of}
          /\ f.done \subseteq S \cup Answered(rows)
      BY <1>a, <1>1, <1>4, <1>6 DEF Reaches, ToCome
    <2>2. Population' = Population
      BY <1>1 DEF Population
    <2>3. r.of \in T \cup Answered(rows)' /\ Answered(rows) \subseteq T \cup Answered(rows)'
      BY <1>c, <1>3
    <2> QED BY <1>3, <1>4, <2>1, <2>2, <2>3 DEF Reaches, ToCome
  <1>7. /\ T \in SUBSET Nat /\ IsFiniteSet(T) /\ Broken \subseteq T
        /\ Cardinality(T) \in Nat /\ Cardinality(T) <= AtStake
    <2>1. /\ Broken \in SUBSET Nat /\ IsFiniteSet(Broken) /\ Cardinality(Broken) \in {0, 1}
          /\ ~ragged => Broken = {}
      BY <1>1, BrokenIs
    <2>2. CASE ragged
      <3>1. T = Broken \cup {r.of}
        BY <1>c, <2>2
      <3>2. /\ IsFiniteSet(T)
            /\ Cardinality(T) = IF r.of \in Broken THEN Cardinality(Broken) ELSE Cardinality(Broken) + 1
        BY <2>1, <3>1, FS_AddElement
      <3>3. Cardinality(T) \in 0..2
        BY <2>1, <3>2
      <3>4. AtStake = 2
        BY <2>2 DEF AtStake
      <3>5. T \in SUBSET Nat /\ Broken \subseteq T
        BY <1>2, <2>1, <3>1
      <3>6. PICK n : n = Cardinality(T)
        OBVIOUS
      <3>7. n \in Nat /\ n <= 2
        BY <3>3, <3>6
      <3> QED BY <3>2, <3>4, <3>5, <3>6, <3>7
    <2>3. CASE ~ragged
      <3>1. T = {} /\ Broken = {} /\ AtStake = 0
        BY <1>c, <2>1, <2>3 DEF AtStake
      <3>2. IsFiniteSet({}) /\ Cardinality({}) = 0
        BY FS_EmptySet
      <3>3. T \in SUBSET Nat /\ Broken \subseteq T /\ IsFiniteSet(T) /\ Cardinality(T) = 0
        BY <3>1, <3>2
      <3> QED BY <3>1, <3>3
    <2> QED BY <2>2, <2>3
  <1>8. tears \in Nat /\ tears' \in Nat /\ ragged' \in BOOLEAN /\ script' = script
    BY <1>1 DEF LedgerTypes
  <1>9. Cardinality(T) + AtStake' + 2 * tears <= AtStake + 2 * tears'
    <2>1. AtStake' = 0 /\ AtStake \in Nat
      BY <1>1 DEF AtStake
    <2> QED BY <1>1, <1>7, <1>8, <2>1
  <1> QED BY <1>1, <1>2, <1>5, <1>6, <1>7, <1>8, <1>9, WritingPass

\* A row that is cut off takes at most the one it continues with it: the
\* invocation is over.
LEMMA TearRowStep ==
    ASSUME ReevaluationInv, NEW p \in Invocations, TearRow(p)
    PROVE  ReevaluationInv'
  <1>1. /\ LedgerTypes /\ ragged \in BOOLEAN /\ tears \in Nat /\ pass[p].at = "appending"
        /\ ragged' = TRUE /\ tears' = tears + 1 /\ script' = script
        /\ pass' = [pass EXCEPT ![p] = Off] /\ FrameSound(pass[p])
    BY DEF ReevaluationInv, TearRow, LedgerTypes
  <1>2. PICK r \in {TornLine, pass[p].row} : rows' = Written(r)
    BY DEF TearRow
  <1>3. r \in Lines \cup {TornLine} /\ (r # TornLine => IsRow(script, r))
    BY <1>1, <1>2 DEF FrameSound, IsRow
  <1>4. ragged' \in BOOLEAN /\ tears' \in Nat
    BY <1>1
  <1>5. LedgerTypes'
    BY <1>1, <1>2, <1>3, <1>4, LedgerGrows
  <1>6. FrameSound(Off)'
    BY <1>5, OffIsSound DEF LedgerTypes, FrameSound, Off, Frames
  <1>7. \A S \in SUBSET Nat : Reaches(S \cup Broken, Off)'
    BY DEF Reaches, Off
  <1>8. /\ Broken \in SUBSET Nat /\ IsFiniteSet(Broken) /\ Cardinality(Broken) \in {0, 1}
        /\ ~ragged => Broken = {}
    BY <1>1, BrokenIs
  <1>9. Cardinality(Broken) + AtStake' + 2 * tears <= AtStake + 2 * tears'
    <2>1. AtStake' = 2 /\ AtStake = (IF ragged THEN 2 ELSE 0)
      BY <1>1 DEF AtStake
    <2>2. ~ragged => Cardinality(Broken) = 0
      BY <1>8, FS_EmptySet
    <2>3. PICK n : n = Cardinality(Broken)
      OBVIOUS
    <2>4. n \in Nat /\ n <= 1 /\ (~ragged => n = 0)
      BY <1>8, <2>2, <2>3
    <2>5. n + AtStake' + 2 * tears <= AtStake + 2 * tears'
      BY <1>1, <2>1, <2>4
    <2> QED BY <2>3, <2>5
  <1>10. PICK T : T = Broken
    OBVIOUS
  <1>11. PICK f : f = Off
    OBVIOUS
  <1>12. /\ T \in SUBSET Nat /\ IsFiniteSet(T) /\ Broken \subseteq T
         /\ Cardinality(T) + AtStake' + 2 * tears <= AtStake + 2 * tears'
    BY <1>8, <1>9, <1>10
  <1>13. \A S \in SUBSET Nat : Reaches(S \cup T, f)'
    BY <1>11 DEF Reaches, Off
  <1>14. FrameSound(f)' /\ pass' = [pass EXCEPT ![p] = f]
    BY <1>1, <1>6, <1>11
  <1> QED BY <1>1, <1>2, <1>3, <1>4, <1>12, <1>13, <1>14, WritingPass

\* An invocation that ends leaves the ledger alone.
LEMMA EndPassStep ==
    ASSUME ReevaluationInv, NEW p \in Invocations, Finish(p) \/ Leave(p)
    PROVE  ReevaluationInv'
  <1>1. LedgerTypes /\ FrameSound(pass[p]) /\ UNCHANGED <<script, rows, ragged, tears>>
    BY DEF ReevaluationInv, Finish, Leave
  <1>2. CASE Finish(p)
    <2> DEFINE f == [Off EXCEPT !.at = "finished"]
    <2>1. /\ pass' = [pass EXCEPT ![p] = f] /\ pass[p].at = "looking" /\ pass[p].todo = {}
      BY <1>2 DEF Finish
    <2>2. FrameSound(f)
      BY <1>1, OffIsSound
    <2>3. \A S \in SUBSET Nat : Reaches(S, pass[p]) => Reaches(S, f)
      BY <2>1 DEF Reaches, ToCome, Off
    <2> HIDE DEF f
    <2> QED BY <1>1, <2>1, <2>2, <2>3, QuietPass DEF Swallowed
  <1>3. CASE Leave(p)
    <2>1. pass' = [pass EXCEPT ![p] = Off]
      BY <1>3 DEF Leave
    <2>2. \A S : Reaches(S, Off)
      BY DEF Reaches, Off
    <2> QED BY <1>1, <2>1, <2>2, OffIsSound, QuietPass
  <1> QED BY <1>2, <1>3

\* ReevaluationInv is an inductive invariant of the re-evaluations, with any
\* number of invocations at once and lines torn anywhere.
THEOREM ReevaluationInvariance == ReevaluationSpec => []ReevaluationInv
  <1>1. ReevaluationInit => ReevaluationInv
    BY ReevaluationStarts
  <1>2. ReevaluationInv /\ [ReevaluationNext]_reevaluationVars => ReevaluationInv'
    <2> SUFFICES ASSUME ReevaluationInv, [ReevaluationNext]_reevaluationVars
                 PROVE  ReevaluationInv'
      OBVIOUS
    <2>1. CASE UNCHANGED reevaluationVars
      BY <2>1 DEF reevaluationVars, ReevaluationInv, LedgerTypes, FrameSound, Swallowed, AtStake,
                  Reaches, Population
    <2>2. CASE ReevaluationNext
      <3>1. PICK p \in Invocations :
              StartPass(p) \/ Evaluate(p) \/ AppendRow(p) \/ TearRow(p) \/ Finish(p) \/ Leave(p)
        BY <2>2 DEF ReevaluationNext
      <3> QED BY <3>1, StartPassStep, EvaluateStep, AppendRowStep, TearRowStep, EndPassStep
    <2> QED BY <2>1, <2>2
  <1> QED BY <1>1, <1>2, PTL DEF ReevaluationSpec

\* The first line of c that no later one replaces is a measurement if any is.
LEMMA SummaryCounts ==
    ASSUME LedgerTypes
    PROVE  SummaryKeepsMeasurements
  <1> SUFFICES ASSUME script = "replay", \A i \in DOMAIN rows : rows[i] # TornLine,
                      NEW i \in DOMAIN rows, rows[i].real
               PROVE  rows[KeptFor(rows, rows[i].of)].real
    BY DEF SummaryKeepsMeasurements
  <1> DEFINE n == Len(rows)
             c == rows[i].of
             Good == {j \in 1..n : rows[j].of = c /\ rows[j].real}
             Fixed == {j \in 1..n : rows[j].of = c /\ Stays(rows, j)}
  <1>1. n \in Nat /\ DOMAIN rows = 1..n /\ i \in 1..n
    BY DEF LedgerTypes
  <1>2. \A j \in 1..n : rows[j].real \in BOOLEAN /\ (rows[j].error = "set" <=> ~rows[j].real)
    BY <1>1 DEF LedgerTypes, IsRow, Lines
  <1>3. PICK g \in Good : \A j \in Good : j <= g
    <2>1. Good \in SUBSET (1..n) /\ Good # {}
      BY <1>1
    <2> HIDE DEF Good
    <2> QED BY <1>1, <2>1, Greatest
  <1>4. Stays(rows, g)
    <2> SUFFICES ASSUME NEW j \in 1..n, j > g, rows[j].of = rows[g].of, Supersedes(rows[j], rows[g])
                 PROVE  FALSE
      BY <1>1 DEF Stays
    <2>1. rows[g].real /\ rows[g].error # "set"
      BY <1>2, <1>3
    <2>2. rows[j].real
      BY <1>2, <2>1 DEF Supersedes
    <2>3. j <= g
      BY <1>3, <2>2
    <2>4. j \in Int /\ g \in Int
      BY <1>1, <1>3
    <2> QED BY <2>3, <2>4
  <1>5. PICK k \in Fixed : \A j \in Fixed : k <= j
    <2> DEFINE M == {n - j : j \in Fixed}
               N == {m + 1 : m \in M}
    <2>1. N \in SUBSET (1..n) /\ N # {}
      BY <1>1, <1>3, <1>4
    <2>2. PICK m \in N : \A l \in N : l <= m
      <3> HIDE DEF N
      <3> QED BY <1>1, <2>1, Greatest
    <2>3. PICK k \in Fixed : m = (n - k) + 1
      OBVIOUS
    <2>4. \A j \in Fixed : (n - j) + 1 \in N
      OBVIOUS
    <2>5. ASSUME NEW j \in Fixed PROVE k <= j
      <3>1. (n - j) + 1 <= m
        BY <2>2, <2>4
      <3>2. j \in Int /\ k \in Int
        BY <1>1
      <3> HIDE DEF N, M, Fixed
      <3> QED BY <1>1, <2>3, <3>1, <3>2
    <2> QED BY <2>5
  <1>6. KeptFor(rows, c) \in Fixed /\ \A j \in Fixed : KeptFor(rows, c) <= j
    <2> DEFINE K == KeptFor(rows, c)
    <2>1. \E x \in DOMAIN rows :
            /\ rows[x].of = c /\ Stays(rows, x)
            /\ \A j \in DOMAIN rows : (rows[j].of = c /\ Stays(rows, j)) => x <= j
      BY <1>1, <1>5
    <2>2. /\ K \in DOMAIN rows /\ rows[K].of = c /\ Stays(rows, K)
          /\ \A j \in DOMAIN rows : (rows[j].of = c /\ Stays(rows, j)) => K <= j
      BY <2>1 DEF KeptFor
    <2> QED BY <1>1, <2>2
  <1> DEFINE K == KeptFor(rows, c)
  <1> SUFFICES ASSUME ~rows[K].real PROVE FALSE
    OBVIOUS
  <1>7. K \in 1..n /\ rows[K].of = c /\ Stays(rows, K) /\ K <= g
    BY <1>3, <1>4, <1>6
  <1>8. g \in 1..n /\ rows[g].of = c /\ rows[g].real /\ g # K
    BY <1>3
  <1> HIDE DEF K, c, Good, Fixed
  <1>9. g > K
    BY <1>1, <1>7, <1>8
  <1>10. ~Supersedes(rows[g], rows[K])
    BY <1>1, <1>7, <1>8, <1>9 DEF Stays
  <1>11. rows[g].error # "set"
    BY <1>2, <1>8
  <1> QED BY <1>10, <1>11 DEF Supersedes

\* What a finished invocation has no row of is no more than the appends that
\* were cut off have cost.
LEMMA FinishedHasAll ==
    ASSUME ReevaluationInv
    PROVE  FinishedCovers
  <1> SUFFICES ASSUME NEW p \in Invocations, pass[p].at = "finished"
               PROVE  Cardinality(Population \ Answered(rows)) <= 2 * tears
    <2>1. DOMAIN rows = 1..Len(rows)
      BY DEF ReevaluationInv, LedgerTypes
    <2> QED BY <2>1 DEF FinishedCovers, Answered
  <1>1. PICK S \in SUBSET Nat : Swallowed(S)
    BY DEF ReevaluationInv
  <1>2. Population \subseteq S \cup Answered(rows)
    BY <1>1 DEF ReevaluationInv, Swallowed, Reaches, ToCome, FrameSound
  <1>3. /\ IsFiniteSet(S) /\ Cardinality(S) \in Nat /\ ragged \in BOOLEAN /\ tears \in Nat
        /\ Cardinality(S) <= 2 * tears
    BY <1>1, FS_CardinalityType DEF ReevaluationInv, LedgerTypes, Swallowed, AtStake
  <1>4. Population \ Answered(rows) \subseteq S
    BY <1>2
  <1> HIDE DEF Answered, Population
  <1>5. /\ IsFiniteSet(Population \ Answered(rows))
        /\ Cardinality(Population \ Answered(rows)) <= Cardinality(S)
    BY <1>3, <1>4, FS_Subset
  <1>6. Cardinality(Population \ Answered(rows)) \in Nat
    BY <1>5, FS_CardinalityType
  <1> QED BY <1>3, <1>5, <1>6

\* An evaluation under way is of a candidate the ledger had no measurement of.
LEMMA OnceStep ==
    ASSUME ReevaluationInv, [ReevaluationNext]_reevaluationVars,
           NEW p \in Invocations, pass[p].at = "looking", pass'[p].at = "appending",
           NEW i \in 1..pass[p].read, rows[i] # TornLine, rows[i].real
    PROVE  rows[i].of # pass'[p].row.of
  <1>1. rows[i].of \in pass[p].done
    BY DEF ReevaluationInv, FrameSound
  <1>2. Evaluate(p)
    <2>1. PICK q \in Invocations :
              StartPass(q) \/ Evaluate(q) \/ AppendRow(q) \/ TearRow(q) \/ Finish(q) \/ Leave(q)
      BY DEF ReevaluationNext, reevaluationVars
    <2>2. DOMAIN pass = Invocations
      BY DEF ReevaluationInv
    <2>3. q = p
      BY <2>1, <2>2 DEF StartPass, Evaluate, AppendRow, TearRow, Finish, Leave
    <2>4. Off.at = "off" /\ pass[p] \in Frames
      BY DEF Off, ReevaluationInv, FrameSound
    <2>5. ~StartPass(p) /\ ~AppendRow(p) /\ ~TearRow(p)
      BY DEF StartPass, AppendRow, TearRow
    <2>6. ~Finish(p) /\ ~Leave(p)
      BY <2>2, <2>4 DEF Finish, Leave, Off
    <2> QED BY <2>1, <2>3, <2>5, <2>6
  <1>3. PICK c \in pass[p].todo :
          IF c \in pass[p].done
          THEN pass' = [pass EXCEPT ![p].todo = @ \ {c}]
          ELSE \E row \in RowsFor(c) :
                 pass' = [pass EXCEPT ![p].todo = @ \ {c}, ![p].row = row,
                                      ![p].at = "appending"]
    BY <1>2 DEF Evaluate
  <1>4. DOMAIN pass = Invocations /\ pass[p] \in Frames
    BY DEF ReevaluationInv, FrameSound
  <1>5. c \notin pass[p].done
    BY <1>3, <1>4 DEF Frames
  <1>6. PICK row \in RowsFor(c) :
          pass' = [pass EXCEPT ![p].todo = @ \ {c}, ![p].row = row, ![p].at = "appending"]
    BY <1>3, <1>5
  <1>7. row.of = c
    BY DEF RowsFor
  <1>8. pass'[p].row = row
    BY <1>4, <1>6 DEF Frames
  <1> QED BY <1>1, <1>5, <1>7, <1>8

\* Whatever invocations run, stop and tear lines: an evaluation is never of a
\* candidate whose measurement the invocation had read, a finished invocation
\* misses at most two candidates per append cut off, and the report of a replay whose
\* ledger has no torn line keeps a measurement of every candidate that has one.
THEOREM LedgersServe == ReevaluationSpec => LedgerServes
  <1>1. ReevaluationInv => SummaryKeepsMeasurements /\ FinishedCovers
    BY SummaryCounts, FinishedHasAll DEF ReevaluationInv
  <1>2. ReevaluationInv /\ [ReevaluationNext]_reevaluationVars =>
          [\A p \in Invocations :
             (pass[p].at = "looking" /\ pass'[p].at = "appending") =>
                \A i \in 1..pass[p].read :
                    (rows[i] # TornLine /\ rows[i].real) => rows[i].of # pass'[p].row.of]_reevaluationVars
    BY OnceStep
  <1> QED BY <1>1, <1>2, ReevaluationInvariance, PTL DEF ReevaluationSpec, LedgerServes, MeasuredOnce


-----------------------------------------------------------------------------
(* There is always a next prime. *)

IsProduct(f, n) == f = [k \in 0..n |-> IF k = 0 THEN 1 ELSE k * f[k - 1]]

\* A number without remainder is a multiple.
LEMMA Quotient ==
    ASSUME NEW n \in Nat, NEW f \in Nat \ {0}, n % f = 0
    PROVE  \E q \in Nat : n = f * q
  <1>1. f * (n \div f) = n
    OBVIOUS
  <1>2. n \div f \in Nat
    OBVIOUS
  <1> QED BY <1>1, <1>2

\* Nothing above 1 divides a number and the next one.
LEMMA NoCommonFactor ==
    ASSUME NEW f \in Nat, f > 1, NEW q \in Nat, NEW r \in Nat
    PROVE  f * q + 1 # f * r
  <1>1. f * q + 1 = f * r => f * (r - q) = 1
    OBVIOUS
  <1>2. ASSUME NEW d \in Int, d >= 1 PROVE f * d # 1
    <2>1. f * d = f * (d - 1) + f
      OBVIOUS
    <2>2. f * (d - 1) >= 0
      <3>1. \A a, b \in Nat : a * b >= 0
        OBVIOUS
      <3>2. d - 1 \in Nat
        BY <1>2
      <3> QED BY <3>1, <3>2
    <2>3. f * (d - 1) \in Int
      OBVIOUS
    <2> QED BY <2>1, <2>2, <2>3
  <1>3. ASSUME NEW d \in Int, d <= 0 PROVE f * d # 1
    <2>1. \A b \in Nat : f * b >= 0
      OBVIOUS
    <2>2. -d \in Nat /\ f * d = -(f * (-d))
      BY <1>3
    <2> QED BY <2>1, <2>2
  <1>4. r - q \in Int /\ (r - q >= 1 \/ r - q <= 0)
    OBVIOUS
  <1> QED BY <1>1, <1>2, <1>3, <1>4

\* The recursion of the product has a solution, which numbers up to n divide.
LEMMA ProductExists ==
    ASSUME NEW n \in Nat
    PROVE  \E f : IsProduct(f, n)
  <1> DEFINE N == {m \in Nat : \E f : IsProduct(f, m)}
  <1>1. 0 \in N
    <2> DEFINE g == [k \in 0..0 |-> 1]
    <2>1. g = [k \in 0..0 |-> IF k = 0 THEN 1 ELSE k * g[k - 1]]
      OBVIOUS
    <2> HIDE DEF g
    <2>2. IsProduct(g, 0)
      BY <2>1 DEF IsProduct
    <2> QED BY <2>2
  <1>2. ASSUME NEW m \in Nat, m \in N PROVE m + 1 \in N
    <2>1. PICK f : IsProduct(f, m)
      BY <1>2
    <2> DEFINE h == [k \in 0..(m + 1) |-> IF k = 0 THEN 1 ELSE k * f[k - 1]]
    <2>2. \A k \in 0..m : h[k] = f[k]
      BY <2>1 DEF IsProduct
    <2>3. \A k \in 0..(m + 1) : k # 0 => k - 1 \in 0..m
      OBVIOUS
    <2>4. \A k \in 0..(m + 1) : k # 0 => f[k - 1] = h[k - 1]
      BY <2>2, <2>3
    <2>5. \A k \in 0..(m + 1) : h[k] = IF k = 0 THEN 1 ELSE k * h[k - 1]
      BY <2>4
    <2>6. h = [k \in 0..(m + 1) |-> h[k]]
      OBVIOUS
    <2>7. IsProduct(h, m + 1)
      <3> HIDE DEF h
      <3> QED BY <2>5, <2>6 DEF IsProduct
    <2> HIDE DEF h
    <2> QED BY <2>7
  <1> HIDE DEF N
  <1>3. Nat \subseteq N
    BY <1>1, <1>2, SetInduction
  <1> QED BY <1>3 DEF N

\* The factorial is a positive number that every number up to n divides.
LEMMA FactorialIs ==
    ASSUME NEW n \in Nat
    PROVE  /\ Factorial(n) \in Nat \ {0}
           /\ \A f \in 1..n : \E q \in Nat : Factorial(n) = f * q
  <1> DEFINE g == CHOOSE f : IsProduct(f, n)
             N == {m \in Nat : m <= n => /\ g[m] \in Nat \ {0}
                                        /\ \A f \in 1..m : \E q \in Nat : g[m] = f * q}
  <1>1. IsProduct(g, n)
    BY ProductExists
  <1>2. Factorial(n) = g[n]
    BY DEF Factorial, IsProduct
  <1> HIDE DEF g
  <1>3. \A k \in 0..n : g[k] = IF k = 0 THEN 1 ELSE k * g[k - 1]
    BY <1>1 DEF IsProduct
  <1>4. 0 \in N
    <2>1. g[0] = 1 /\ 1..0 = {}
      BY <1>3
    <2> QED BY <2>1
  <1>5. ASSUME NEW m \in Nat, m \in N PROVE m + 1 \in N
    <2> SUFFICES ASSUME m + 1 <= n
                 PROVE  /\ g[m + 1] \in Nat \ {0}
                        /\ \A f \in 1..(m + 1) : \E q \in Nat : g[m + 1] = f * q
      OBVIOUS
    <2>1. g[m] \in Nat \ {0} /\ \A f \in 1..m : \E q \in Nat : g[m] = f * q
      BY <1>5
    <2>2. g[m + 1] = (m + 1) * g[m]
      <3>1. m + 1 \in 0..n /\ m + 1 # 0 /\ (m + 1) - 1 = m
        OBVIOUS
      <3> QED BY <1>3, <3>1
    <2>3. g[m + 1] \in Nat \ {0}
      <3>1. \A a, b \in Nat \ {0} : a * b \in Nat \ {0}
        OBVIOUS
      <3> QED BY <2>1, <2>2, <3>1
    <2>4. ASSUME NEW f \in 1..m PROVE \E q \in Nat : g[m + 1] = f * q
      <3>1. PICK q \in Nat : g[m] = f * q
        BY <2>1
      <3>2. (m + 1) * (f * q) = f * ((m + 1) * q) /\ (m + 1) * q \in Nat
        OBVIOUS
      <3> QED BY <2>2, <3>1, <3>2
    <2>5. \A f \in 1..(m + 1) : f \in 1..m \/ f = m + 1
      OBVIOUS
    <2> QED BY <2>1, <2>2, <2>3, <2>4, <2>5
  <1> HIDE DEF N
  <1>6. Nat \subseteq N
    BY <1>4, <1>5, SetInduction
  <1>7. n \in N
    BY <1>6
  <1> QED BY <1>2, <1>7 DEF N

\* Euclid: the least factor above 1 of n! + 1 is a prime above n.
LEMMA PrimeAbove ==
    ASSUME NEW n \in Nat
    PROVE  \E p \in (n + 1)..(Factorial(n) + 1) : IsPrime(p)
  <1>0. PICK t : t = Factorial(n)
    OBVIOUS
  <1>1. t \in Nat \ {0} /\ \A f \in 1..n : \E q \in Nat : t = f * q
    BY <1>0, FactorialIs
  <1> DEFINE D == {d \in Nat : d > 1 /\ \E q \in Nat : t + 1 = d * q}
  <1>2. t + 1 \in D
    <2>1. t + 1 = (t + 1) * 1 /\ t + 1 > 1
      BY <1>1
    <2> QED BY <1>1, <2>1
  <1>3. PICK p \in D : \A d \in D : p <= d
    <2>1. D \in SUBSET Nat /\ D # {}
      BY <1>2
    <2> HIDE DEF D
    <2> QED BY <2>1, HasLeast
  <1>4. PICK q \in Nat : t + 1 = p * q
    OBVIOUS
  <1>5. p \in Nat /\ p > 1 /\ p <= t + 1
    BY <1>2, <1>3
  <1>6. ASSUME NEW f \in 2..(p - 1), p % f = 0 PROVE FALSE
    <2>1. f \in Nat \ {0} /\ f > 1 /\ f < p
      BY <1>5
    <2>2. PICK r \in Nat : p = f * r
      BY <1>5, <1>6, <2>1, Quotient
    <2>3. (f * r) * q = f * (r * q) /\ r * q \in Nat
      BY <2>1
    <2>4. f \in D
      BY <1>4, <2>1, <2>2, <2>3
    <2> HIDE DEF D
    <2> QED BY <1>3, <1>5, <2>1, <2>4
  <1>7. p > n
    <2> SUFFICES ASSUME p <= n PROVE FALSE
      BY <1>5
    <2>1. p \in 1..n
      BY <1>5
    <2>2. PICK r \in Nat : t = p * r
      BY <1>1, <2>1
    <2> QED BY <1>4, <1>5, <2>2, NoCommonFactor
  <1>8. IsPrime(p)
    BY <1>5, <1>6 DEF IsPrime
  <1>9. p \in (n + 1)..(t + 1)
    BY <1>1, <1>5, <1>7
  <1> QED BY <1>0, <1>8, <1>9

\* So the search for the next prime finds one.
LEMMA NextPrimeIs ==
    ASSUME NEW n \in Nat
    PROVE  NextPrime(n) \in Nat
  <1>0. PICK t : t = Factorial(n) + 1
    OBVIOUS
  <1>1. t \in Int
    BY <1>0, FactorialIs
  <1> DEFINE P == {p \in (n + 1)..t : IsPrime(p)}
  <1>2. P \in SUBSET Nat /\ P # {}
    <2>1. \E p \in (n + 1)..t : IsPrime(p)
      BY <1>0, PrimeAbove
    <2> QED BY <1>1, <2>1
  <1>3. PICK p \in P : \A q \in P : p <= q
    <2> HIDE DEF P
    <2> QED BY <1>2, HasLeast
  <1>4. p \in (n + 1)..t /\ IsPrime(p) /\ \A q \in (n + 1)..(p - 1) : ~IsPrime(q)
    <2>1. \A q \in (n + 1)..(p - 1) : q \in (n + 1)..t /\ ~(p <= q)
      BY <1>1
    <2> QED BY <1>3, <2>1
  <1>5. NextPrime(n) \in (n + 1)..t
    BY <1>0, <1>4 DEF NextPrime
  <1> QED BY <1>1, <1>5

-----------------------------------------------------------------------------
(* Shrinking a size until it fits. *)

LessByAQuarter(lo, value) == Max({lo, (value * 3) \div 4})

IsShrinking(f, fits, lo, hi) ==
    f = [value \in lo..hi |->
            IF value = lo \/ value \in fits THEN value ELSE f[LessByAQuarter(lo, value)]]

\* A size that is not the lowest gets smaller.
LEMMA QuarterIs ==
    ASSUME NEW lo \in Nat \ {0}, NEW value \in Nat, value > lo
    PROVE  LessByAQuarter(lo, value) \in lo..(value - 1)
  <1>0. PICK x : x = (value * 3) \div 4
    OBVIOUS
  <1>1. x \in Nat /\ x < value
    BY <1>0
  <1>2. Max({lo, x}) = IF lo >= x THEN lo ELSE x
    BY <1>1 DEF Max
  <1> QED BY <1>0, <1>1, <1>2 DEF LessByAQuarter

\* So the recursion has a solution.
LEMMA ShrinkingExists ==
    ASSUME NEW fits, NEW lo \in Nat \ {0}, NEW hi \in Nat, lo <= hi
    PROVE  \E f : IsShrinking(f, fits, lo, hi)
  <1> DEFINE N == {m \in Nat : \E f : IsShrinking(f, fits, lo, lo + m)}
  <1>1. 0 \in N
    <2> DEFINE g == [value \in lo..(lo + 0) |-> value]
    <2>1. g = [value \in lo..(lo + 0) |->
                 IF value = lo \/ value \in fits THEN value ELSE g[LessByAQuarter(lo, value)]]
      OBVIOUS
    <2> HIDE DEF g
    <2>2. IsShrinking(g, fits, lo, lo + 0)
      BY <2>1 DEF IsShrinking
    <2> QED BY <2>2
  <1>2. ASSUME NEW m \in Nat, m \in N PROVE m + 1 \in N
    <2>1. PICK f : IsShrinking(f, fits, lo, lo + m)
      BY <1>2
    <2> DEFINE h == [value \in lo..(lo + (m + 1)) |->
                       IF value = lo \/ value \in fits THEN value
                       ELSE f[LessByAQuarter(lo, value)]]
    <2>2. \A value \in lo..(lo + m) : h[value] = f[value]
      BY <2>1 DEF IsShrinking
    <2>3. \A value \in lo..(lo + (m + 1)) :
            value # lo => LessByAQuarter(lo, value) \in lo..(lo + m)
      BY QuarterIs
    <2>4. \A value \in lo..(lo + (m + 1)) :
            value # lo => f[LessByAQuarter(lo, value)] = h[LessByAQuarter(lo, value)]
      BY <2>2, <2>3
    <2>5. \A value \in lo..(lo + (m + 1)) :
            h[value] = IF value = lo \/ value \in fits THEN value
                       ELSE h[LessByAQuarter(lo, value)]
      BY <2>4
    <2>6. h = [value \in lo..(lo + (m + 1)) |-> h[value]]
      OBVIOUS
    <2>7. IsShrinking(h, fits, lo, lo + (m + 1))
      <3> HIDE DEF h
      <3> QED BY <2>5, <2>6 DEF IsShrinking
    <2> HIDE DEF h
    <2> QED BY <2>7
  <1> HIDE DEF N
  <1>3. Nat \subseteq N
    BY <1>1, <1>2, SetInduction
  <1>4. hi - lo \in N
    BY <1>3
  <1>5. lo + (hi - lo) = hi
    OBVIOUS
  <1> QED BY <1>4, <1>5 DEF N

\* And the size it ends at is within the bounds.
LEMMA ShrunkIsBetween ==
    ASSUME NEW fits, NEW lo \in Nat \ {0}, NEW hi \in Nat, lo <= hi
    PROVE  ShrunkToFit(fits, lo, hi) \in lo..hi
  <1> DEFINE f == CHOOSE g : IsShrinking(g, fits, lo, hi)
             N == {m \in Nat : \A value \in lo..hi : value <= lo + m => f[value] \in lo..hi}
  <1>1. IsShrinking(f, fits, lo, hi)
    BY ShrinkingExists
  <1>2. ShrunkToFit(fits, lo, hi) = f[hi]
    BY DEF ShrunkToFit, IsShrinking, LessByAQuarter
  <1> HIDE DEF f
  <1>3. \A value \in lo..hi :
          f[value] = IF value = lo \/ value \in fits THEN value
                     ELSE f[LessByAQuarter(lo, value)]
    BY <1>1 DEF IsShrinking
  <1>4. 0 \in N
    BY <1>3
  <1>5. ASSUME NEW m \in Nat, m \in N PROVE m + 1 \in N
    <2> SUFFICES ASSUME NEW value \in lo..hi, value <= lo + (m + 1), value # lo
                 PROVE  f[value] \in lo..hi
      BY <1>3
    <2>1. LessByAQuarter(lo, value) \in lo..(value - 1)
      BY QuarterIs
    <2>2. LessByAQuarter(lo, value) \in lo..hi /\ LessByAQuarter(lo, value) <= lo + m
      BY <2>1
    <2>3. f[LessByAQuarter(lo, value)] \in lo..hi
      BY <1>5, <2>2
    <2> QED BY <1>3, <2>3
  <1> HIDE DEF N
  <1>6. Nat \subseteq N
    BY <1>4, <1>5, SetInduction
  <1>7. hi - lo \in N /\ hi <= lo + (hi - lo)
    BY <1>6
  <1> QED BY <1>2, <1>7 DEF N

\* What fits is not shrunk.
LEMMA NothingShrunk ==
    ASSUME NEW fits, NEW lo \in Nat \ {0}, NEW hi \in Nat, lo <= hi, hi \in fits
    PROVE  ShrunkToFit(fits, lo, hi) = hi
  <1> DEFINE f == CHOOSE g : IsShrinking(g, fits, lo, hi)
  <1>1. IsShrinking(f, fits, lo, hi)
    BY ShrinkingExists
  <1>2. ShrunkToFit(fits, lo, hi) = f[hi]
    BY DEF ShrunkToFit, IsShrinking, LessByAQuarter
  <1> HIDE DEF f
  <1>3. hi \in lo..hi
    OBVIOUS
  <1> QED BY <1>1, <1>2, <1>3 DEF IsShrinking

-----------------------------------------------------------------------------
(* The axes of a source that parses. *)

\* A call whose arguments are all understood.
IsUnderstood(s, call) ==
    /\ call \in Seq(ToSet(call))
    /\ \A k \in DOMAIN call :
         /\ call[k].kind \in {"name", "star", "literal"}
         /\ call[k].kind = "name" => call[k].of \in DOMAIN s.ints
         /\ call[k].kind = "star" => call[k].of \in DOMAIN s.tuples
         /\ call[k].kind = "literal" => call[k].size \in Int

\* A call that is not refused is understood.
LEMMA GoodCalls ==
    ASSUME NEW s, NEW call, IsCall(call), ~BadCall(s, call)
    PROVE  IsUnderstood(s, call)
  BY DEF IsCall, BadCall, Refused, IsUnderstood

\* What is assigned last is assigned.
LEMMA AssignedIs ==
    ASSUME NEW s, NEW n, ReturnAt(s) \in Nat, AssignedAt(s, n) # 0
    PROVE  AssignedAt(s, n) \in {i \in 1..(ReturnAt(s) - 1) :
                                   s.body[i].kind = "assign" /\ s.body[i].name = n}
  <1> DEFINE A == {i \in 1..(ReturnAt(s) - 1) : s.body[i].kind = "assign" /\ s.body[i].name = n}
  <1>1. A # {} /\ AssignedAt(s, n) = Max(A)
    BY DEF AssignedAt
  <1>2. ReturnAt(s) - 1 \in Nat
    BY <1>1
  <1>3. PICK i \in A : \A j \in A : j <= i
    <2>1. A \in SUBSET (1..(ReturnAt(s) - 1))
      OBVIOUS
    <2> HIDE DEF A
    <2> QED BY <1>1, <1>2, <2>1, Greatest
  <1>4. \A j \in A : i >= j
    BY <1>2, <1>3
  <1>5. Max(A) \in A
    <2> HIDE DEF A
    <2> QED BY <1>3, <1>4 DEF Max
  <1> QED BY <1>1, <1>5

\* What is read is the first return.
LEMMA ReturnIs ==
    ASSUME NEW s, IsSource(s), ReturnAt(s) # 0
    PROVE  /\ ReturnAt(s) \in DOMAIN s.body /\ ReturnAt(s) \in Nat \ {0}
           /\ s.body[ReturnAt(s)].kind = "return"
           /\ \A i \in 1..(ReturnAt(s) - 1) : i \in DOMAIN s.body
  <1> DEFINE R == {i \in DOMAIN s.body : s.body[i].kind = "return"}
  <1>1. R # {} /\ ReturnAt(s) = Min(R)
    BY DEF ReturnAt
  <1>2. Len(s.body) \in Nat /\ DOMAIN s.body = 1..Len(s.body)
    <2>1. PICK S : s.body \in Seq(S)
      BY DEF IsSource
    <2> QED BY <2>1
  <1>3. PICK i \in R : \A j \in R : i <= j
    <2>1. R \in SUBSET Nat
      BY <1>2
    <2> HIDE DEF R
    <2> QED BY <1>1, <2>1, HasLeast
  <1>4. Min(R) \in R
    <2> HIDE DEF R
    <2> QED BY <1>3 DEF Min
  <1>5. PICK r : r = ReturnAt(s)
    OBVIOUS
  <1>6. r \in DOMAIN s.body /\ s.body[r].kind = "return"
    BY <1>1, <1>4, <1>5
  <1>7. PICK n \in Nat : DOMAIN s.body = 1..n
    BY <1>2
  <1>8. r \in Nat \ {0} /\ \A j \in 1..(r - 1) : j \in 1..n
    BY <1>6, <1>7
  <1> QED BY <1>5, <1>6, <1>7, <1>8

\* What a source that parses returns are calls that are understood.
LEMMA CallsUnderstood ==
    ASSUME NEW s, IsSource(s), ~Malformed(s), NEW i \in DOMAIN ReturnedCalls(s)
    PROVE  IsUnderstood(s, ReturnedCalls(s)[i]) /\ i \in Nat
  <1> DEFINE r == ReturnAt(s)
             value == Returned(s)[i]
  <1>1. r # 0 /\ \A j \in DOMAIN Returned(s) : ~BadValue(s, Returned(s)[j])
    BY DEF Malformed
  <1>2. /\ r \in DOMAIN s.body /\ r \in Nat \ {0} /\ s.body[r].kind = "return"
        /\ \A j \in 1..(r - 1) : j \in DOMAIN s.body
    BY <1>1, ReturnIs
  <1>3. /\ Returned(s) \in Seq(ToSet(Returned(s)))
        /\ \A j \in DOMAIN Returned(s) : IsValue(Returned(s)[j])
    BY <1>2 DEF IsSource, Returned
  <1>4. i \in DOMAIN Returned(s)
    BY DEF ReturnedCalls
  <1>5. i \in Nat
    <2>1. PICK S : Returned(s) \in Seq(S)
      BY <1>3
    <2> QED BY <1>4, <2>1
  <1>6. ReturnedCalls(s)[i] = IF value.kind = "tensor" THEN value.call
                              ELSE s.body[AssignedAt(s, value.of)].call
    BY <1>4 DEF ReturnedCalls
  <1>7. IsValue(value) /\ ~BadValue(s, value)
    BY <1>1, <1>3, <1>4
  <1>8. CASE value.kind = "tensor"
    <2>1. IsCall(value.call) /\ ~BadCall(s, value.call)
      BY <1>7, <1>8 DEF IsValue, BadValue
    <2> HIDE DEF value
    <2> QED BY <1>5, <1>6, <1>8, <2>1, GoodCalls
  <1>9. CASE value.kind # "tensor"
    <2>1. value.kind = "name" /\ AssignedAt(s, value.of) # 0
      BY <1>7, <1>9 DEF IsValue, BadValue
    <2>2. PICK a : a = AssignedAt(s, value.of)
      OBVIOUS
    <2>3. a \in 1..(r - 1) /\ s.body[a].kind = "assign"
      BY <1>2, <2>1, <2>2, AssignedIs
    <2>4. ~BadCall(s, s.body[a].call)
      BY <2>3 DEF Malformed
    <2>5. IsCall(s.body[a].call)
      BY <1>2, <2>3 DEF IsSource
    <2>6. ReturnedCalls(s)[i] = s.body[a].call
      BY <1>6, <1>9, <2>2
    <2> QED BY <1>5, <2>4, <2>5, <2>6, GoodCalls
  <1> QED BY <1>8, <1>9

\* A place is three numbers, and the argument there is understood.
LEMMA PlaceIs ==
    ASSUME NEW s, IsSource(s), ~Malformed(s), NEW p \in Places(s)
    PROVE  /\ p[1] \in Nat /\ p[2] \in Nat /\ p[3] \in Nat
           /\ p[3] \in DOMAIN AxesOf(s, ArgumentAt(s, p))
           /\ ArgumentAt(s, p).kind \in {"name", "star", "literal"}
           /\ ArgumentAt(s, p).kind = "name" => ArgumentAt(s, p).of \in DOMAIN s.ints
           /\ ArgumentAt(s, p).kind = "star" => ArgumentAt(s, p).of \in DOMAIN s.tuples
           /\ ArgumentAt(s, p).kind = "literal" => ArgumentAt(s, p).size \in Int
  <1>1. PICK i \in DOMAIN ReturnedCalls(s) :
          \E k \in DOMAIN ReturnedCalls(s)[i] :
            \E e \in DOMAIN AxesOf(s, ReturnedCalls(s)[i][k]) : p = <<i, k, e>>
    BY DEF Places
  <1>2. PICK call : call = ReturnedCalls(s)[i]
    OBVIOUS
  <1>3. PICK k \in DOMAIN call : \E e \in DOMAIN AxesOf(s, call[k]) : p = <<i, k, e>>
    BY <1>1, <1>2
  <1>4. PICK arg : arg = call[k]
    OBVIOUS
  <1>5. PICK e \in DOMAIN AxesOf(s, arg) : p = <<i, k, e>>
    BY <1>3, <1>4
  <1>6. ArgumentAt(s, p) = arg /\ p[1] = i /\ p[2] = k /\ p[3] = e
    BY <1>2, <1>4, <1>5 DEF ArgumentAt
  <1>7. i \in Nat /\ IsUnderstood(s, call)
    BY <1>2, CallsUnderstood
  <1>8. k \in Nat
    <2>1. PICK S : call \in Seq(S)
      BY <1>7 DEF IsUnderstood
    <2> QED BY <2>1
  <1>9. /\ arg.kind \in {"name", "star", "literal"}
        /\ arg.kind = "name" => arg.of \in DOMAIN s.ints
        /\ arg.kind = "star" => arg.of \in DOMAIN s.tuples
        /\ arg.kind = "literal" => arg.size \in Int
    BY <1>4, <1>7 DEF IsUnderstood
  <1>10. e \in Nat
    <2>1. CASE arg.kind = "star"
      <3>1. DOMAIN AxesOf(s, arg) = DOMAIN s.tuples[arg.of]
        BY <2>1 DEF AxesOf
      <3>2. s.tuples[arg.of] \in Seq(Int)
        BY <1>9, <2>1 DEF IsSource
      <3> QED BY <3>1, <3>2
    <2>2. CASE arg.kind # "star"
      <3>1. PICK x : AxesOf(s, arg) = <<x>>
        <4>1. CASE arg.kind = "name"
          BY <4>1 DEF AxesOf
        <4>2. CASE arg.kind # "name"
          BY <2>2, <4>2 DEF AxesOf
        <4> QED BY <4>1, <4>2
      <3> QED BY <3>1
    <2> QED BY <2>1, <2>2
  <1> QED BY <1>5, <1>6, <1>7, <1>8, <1>9, <1>10

\* Appending to one element makes two.
LEMMA AppendToOne ==
    ASSUME NEW x, NEW e
    PROVE  Append(<<x>>, e) = <<x, e>>
  <1>1. <<x>> \in Seq({x, e}) /\ e \in {x, e}
    OBVIOUS
  <1>2. PICK s : s = Append(<<x>>, e)
    OBVIOUS
  <1>3. s \in Seq({x, e}) /\ Len(s) = 2 /\ s[1] = x /\ s[2] = e
    BY <1>1, <1>2
  <1>4. s = <<x, e>>
    BY <1>3
  <1> QED BY <1>2, <1>4

\* What is written at a place: a constant, part of a tuple, or a literal.
LEMMA AxisIs ==
    ASSUME NEW s, IsSource(s), ~Malformed(s), NEW p \in Places(s)
    PROVE  \/ /\ ArgumentAt(s, p).kind = "name" /\ AxisAt(s, p) = ArgumentAt(s, p).of
              /\ AxisAt(s, p) \in DOMAIN s.ints
           \/ /\ ArgumentAt(s, p).kind = "star" /\ ArgumentAt(s, p).of \in DOMAIN s.tuples
              /\ AxisAt(s, p) = <<ArgumentAt(s, p).of[1], p[3] - 1>>
              /\ p[3] - 1 \in Nat /\ ArgumentAt(s, p).of = <<ArgumentAt(s, p).of[1]>>
              /\ ArgumentAt(s, p).of[1] # "literal"
           \/ /\ ArgumentAt(s, p).kind = "literal" /\ ArgumentAt(s, p).size \in Int
              /\ AxisAt(s, p) = <<"literal", ArgumentAt(s, p).size>>
  <1>1. PICK arg : arg = ArgumentAt(s, p)
    OBVIOUS
  <1>2. /\ p[3] \in DOMAIN AxesOf(s, arg) /\ p[3] \in Nat
        /\ arg.kind \in {"name", "star", "literal"}
        /\ arg.kind = "name" => arg.of \in DOMAIN s.ints
        /\ arg.kind = "star" => arg.of \in DOMAIN s.tuples
        /\ arg.kind = "literal" => arg.size \in Int
    BY <1>1, PlaceIs
  <1>3. AxisAt(s, p) = AxesOf(s, arg)[p[3]]
    BY <1>1 DEF AxisAt
  <1>4. CASE arg.kind = "name"
    <2>1. AxesOf(s, arg) = <<arg.of>>
      BY <1>4 DEF AxesOf
    <2>2. p[3] = 1
      BY <1>2, <2>1
    <2> QED BY <1>1, <1>2, <1>3, <1>4, <2>1, <2>2
  <1>5. CASE arg.kind = "star"
    <2>1. AxesOf(s, arg) = [i \in DOMAIN s.tuples[arg.of] |-> Append(arg.of, i - 1)]
      BY <1>5 DEF AxesOf
    <2>2. arg.of = <<arg.of[1]>> /\ arg.of[1] # "literal" /\ s.tuples[arg.of] \in Seq(Int)
      BY <1>2, <1>5 DEF IsSource
    <2>3. p[3] \in DOMAIN s.tuples[arg.of]
      BY <1>2, <2>1
    <2>4. p[3] - 1 \in Nat
      BY <2>2, <2>3
    <2>5. AxisAt(s, p) = Append(arg.of, p[3] - 1)
      BY <1>3, <2>1, <2>3
    <2>6. PICK x : arg.of = <<x>> /\ x = arg.of[1]
      BY <2>2
    <2>7. Append(<<x>>, p[3] - 1) = <<x, p[3] - 1>>
      BY AppendToOne
    <2> QED BY <1>1, <1>2, <1>5, <2>2, <2>4, <2>5, <2>6, <2>7
  <1>6. CASE arg.kind = "literal"
    <2>1. AxesOf(s, arg) = << <<"literal", arg.size>> >>
      BY <1>6 DEF AxesOf
    <2>2. p[3] = 1
      BY <1>2, <2>1
    <2> QED BY <1>1, <1>2, <1>3, <1>6, <2>1, <2>2
  <1> QED BY <1>2, <1>4, <1>5, <1>6

\* An axis that does not crash the parser has a number for its size.
LEMMA SizesAreNumbers ==
    ASSUME NEW s, IsSource(s), ~Malformed(s), NEW a \in AxisNames(s), ~Crashes(s, a)
    PROVE  SizeOf(s, a) \in Int
  <1>1. PICK p \in Places(s) : a = AxisAt(s, p)
    BY DEF AxisNames
  <1>2. CASE IsLiteral(a)
    <2>1. SizeOf(s, a) = a[2]
      BY <1>2 DEF SizeOf, IsElement
    <2>2. a[2] \in Int
      <3>1. CASE a \in DOMAIN s.ints
        <4>1. IsName(a)
          BY <3>1 DEF IsSource
        <4>2. a # <<a[1]>>
          <5>1. Len(<<a[1]>>) = 1
            OBVIOUS
          <5> QED BY <1>2, <5>1 DEF IsLiteral
        <4> QED BY <4>1, <4>2 DEF IsName
      <3>2. CASE a \notin DOMAIN s.ints
        BY <1>1, <1>2, <3>2, AxisIs DEF IsLiteral
      <3> QED BY <3>1, <3>2
    <2> QED BY <2>1, <2>2
  <1>3. CASE ~IsLiteral(a) /\ IsElement(s, a)
    <2>1. SizeOf(s, a) = s.tuples[<<a[1]>>][a[2] + 1]
      BY <1>3 DEF SizeOf
    <2>2. <<a[1]>> \in DOMAIN s.tuples /\ ~(a[2] >= Len(s.tuples[<<a[1]>>]))
      BY <1>3 DEF Crashes
    <2>3. s.tuples[<<a[1]>>] \in Seq(Int)
      BY <2>2 DEF IsSource
    <2>4. a[2] \in Nat
      <3>1. CASE a \in DOMAIN s.ints
        <4>1. IsName(a)
          BY <3>1 DEF IsSource
        <4>2. a # <<a[1]>>
          <5>1. Len(<<a[1]>>) = 1 /\ Len(a) = 2
            BY <1>3 DEF IsElement
          <5> QED BY <5>1
        <4> QED BY <4>1, <4>2 DEF IsName
      <3>2. CASE a \notin DOMAIN s.ints
        BY <1>1, <1>3, <3>2, AxisIs DEF IsLiteral
      <3> QED BY <3>1, <3>2
    <2>5. PICK t \in Seq(Int) : t = s.tuples[<<a[1]>>]
      BY <2>3
    <2>6. a[2] + 1 \in 1..Len(t)
      BY <2>2, <2>4, <2>5
    <2>7. t[a[2] + 1] \in Int
      BY <2>6, ElementOfSeq
    <2> QED BY <2>1, <2>5, <2>7
  <1>4. CASE ~IsLiteral(a) /\ ~IsElement(s, a)
    <2>1. SizeOf(s, a) = s.ints[a]
      BY <1>4 DEF SizeOf
    <2>2. a \in DOMAIN s.ints
      BY <1>1, <1>4, AxisIs DEF IsLiteral, IsElement
    <2> QED BY <2>1, <2>2 DEF IsSource
  <1> QED BY <1>2, <1>3, <1>4

\* So the sizes seen in a source that parses are positive numbers.
LEMMA SeenIsPositive ==
    ASSUME NEW s, IsSource(s), Verdict(s) = "parsed"
    PROVE  TemplateOf(s).seen \in [AxisNames(s) -> Nat \ {0}]
  <1>1. ~Malformed(s)
    BY DEF Verdict
  <1>2. \A a \in AxisNames(s) : ~Crashes(s, a) /\ ~(SizeOf(s, a) < 1)
    BY <1>1 DEF Verdict
  <1>3. \A a \in AxisNames(s) : SizeOf(s, a) \in Nat \ {0}
    <2> SUFFICES ASSUME NEW a \in AxisNames(s) PROVE SizeOf(s, a) \in Nat \ {0}
      OBVIOUS
    <2>1. SizeOf(s, a) \in Int
      BY <1>1, <1>2, SizesAreNumbers
    <2> QED BY <1>2, <2>1
  <1> QED BY <1>3 DEF TemplateOf

\* The first of some axes in the table is one of them.
LEMMA FirstIsOne ==
    ASSUME NEW s, IsSource(s), ~Malformed(s), NEW A \in SUBSET AxisNames(s), A # {}
    PROVE  FirstOf(s, A) \in A
  <1> DEFINE at == {p \in Places(s) : AxisAt(s, p) \in A}
             at1(i) == {p \in at : p[1] = i}
             at2(i, k) == {p \in at : p[1] = i /\ p[2] = k}
  <1>1. at # {}
    BY DEF AxisNames
  <1>2. \A p \in at : p[1] \in Nat /\ p[2] \in Nat /\ p[3] \in Nat
    BY PlaceIs
  <1>3. FirstOf(s, A) = AxisAt(s, CHOOSE p \in at : \A q \in at : ~Earlier(q, p))
    BY DEF FirstOf
  <1>4. \A p \in at : AxisAt(s, p) \in A
    OBVIOUS
  <1> HIDE DEF at
  <1>5. PICK i \in Nat : (\E p \in at : p[1] = i) /\ \A p \in at : i <= p[1]
    <2> DEFINE I == {p[1] : p \in at}
    <2>1. I \in SUBSET Nat /\ I # {}
      BY <1>1, <1>2
    <2>2. \E i \in I : \A j \in I : i <= j
      <3> HIDE DEF I
      <3> QED BY <2>1, HasLeast
    <2> QED BY <1>2, <2>2
  <1>6. PICK k \in Nat : (\E p \in at1(i) : p[2] = k) /\ \A p \in at1(i) : k <= p[2]
    <2> DEFINE K == {p[2] : p \in at1(i)}
    <2>1. K \in SUBSET Nat /\ K # {}
      BY <1>2, <1>5
    <2>2. \E j \in K : \A l \in K : j <= l
      <3> HIDE DEF K
      <3> QED BY <2>1, HasLeast
    <2> QED BY <1>2, <2>2
  <1>7. PICK e \in Nat : (\E p \in at2(i, k) : p[3] = e) /\ \A p \in at2(i, k) : e <= p[3]
    <2> DEFINE E == {p[3] : p \in at2(i, k)}
    <2>1. E \in SUBSET Nat /\ E # {}
      BY <1>2, <1>6
    <2>2. \E j \in E : \A l \in E : j <= l
      <3> HIDE DEF E
      <3> QED BY <2>1, HasLeast
    <2> QED BY <1>2, <2>2
  <1>8. PICK p \in at : p[1] = i /\ p[2] = k /\ p[3] = e
    BY <1>7
  <1>9. \A q \in at : ~Earlier(q, p)
    <2> SUFFICES ASSUME NEW q \in at, Earlier(q, p) PROVE FALSE
      OBVIOUS
    <2>1. i <= q[1] /\ q[1] \in Nat /\ q[2] \in Nat /\ q[3] \in Nat
      BY <1>2, <1>5
    <2>2. q[1] = i => k <= q[2]
      BY <1>6
    <2>3. q[1] = i /\ q[2] = k => e <= q[3]
      BY <1>7
    <2> QED BY <1>8, <2>1, <2>2, <2>3 DEF Earlier
  <1> QED BY <1>3, <1>4, <1>8, <1>9

\* Under plain names no axis whose size is written with a name that
\* get_init_inputs uses is free.
LEMMA ModelAxesStay ==
    ASSUME NEW s, IsSource(s), ~Malformed(s), PlainlyNamed(s)
    PROVE  ModelAxes(s) \cap TemplateOf(s).free = {}
  <1> SUFFICES ASSUME NEW a \in ModelAxes(s), FreeAxis(s, a) PROVE FALSE
    BY DEF TemplateOf
  <1>1. PICK p \in Places(s) : /\ a = AxisAt(s, p)
                               /\ ArgumentAt(s, p).kind \in {"name", "star"}
                               /\ ArgumentAt(s, p).of \in s.init
    BY DEF ModelAxes
  <1>2. CASE ArgumentAt(s, p).kind = "name"
    <2>1. a = ArgumentAt(s, p).of /\ a \in DOMAIN s.ints /\ a \in s.init
      BY <1>1, <1>2, AxisIs
    <2>2. ~IsElement(s, a)
      BY <2>1 DEF PlainlyNamed, IsElement
    <2> QED BY <2>1, <2>2 DEF FreeAxis
  <1>3. CASE ArgumentAt(s, p).kind = "star"
    <2>1. PICK n : n = ArgumentAt(s, p).of
      OBVIOUS
    <2>2. /\ n \in DOMAIN s.tuples /\ a = <<n[1], p[3] - 1>> /\ n = <<n[1]>>
          /\ n[1] # "literal" /\ n \in s.init
      BY <1>1, <1>3, <2>1, AxisIs
    <2>3. a[1] = n[1] /\ Len(a) = 2
      BY <2>2
    <2>4. ~IsLiteral(a) /\ <<a[1]>> = n
      BY <2>2, <2>3 DEF IsLiteral
    <2>5. IsElement(s, a)
      BY <2>2, <2>3, <2>4 DEF IsElement
    <2> QED BY <2>2, <2>4, <2>5 DEF FreeAxis
  <1> QED BY <1>1, <1>2, <1>3

-----------------------------------------------------------------------------
(* Sequences put together. *)

IsFlattening(f, seqs) ==
    f = [i \in 1..Len(seqs) |-> IF i = 1 THEN seqs[i] ELSE f[i - 1] \o seqs[i]]

\* The recursion of FlattenSeq has a solution.
LEMMA FlatteningExists ==
    ASSUME NEW seqs, Len(seqs) \in Nat
    PROVE  \E f : IsFlattening(f, seqs)
  <1> DEFINE Solves(f, m) == f = [i \in 1..m |-> IF i = 1 THEN seqs[i] ELSE f[i - 1] \o seqs[i]]
             N == {m \in Nat : \E f : Solves(f, m)}
  <1>1. 0 \in N
    <2> DEFINE g == [i \in 1..0 |-> seqs[i]]
    <2>1. g = [i \in 1..0 |-> IF i = 1 THEN seqs[i] ELSE g[i - 1] \o seqs[i]]
      OBVIOUS
    <2> HIDE DEF g
    <2>2. Solves(g, 0)
      BY <2>1
    <2> QED BY <2>2
  <1>2. ASSUME NEW m \in Nat, m \in N PROVE m + 1 \in N
    <2>1. PICK f : Solves(f, m)
      BY <1>2
    <2> DEFINE h == [i \in 1..(m + 1) |-> IF i = 1 THEN seqs[i] ELSE f[i - 1] \o seqs[i]]
    <2>2. \A i \in 1..m : h[i] = f[i]
      <3>1. \A i \in 1..m : f[i] = IF i = 1 THEN seqs[i] ELSE f[i - 1] \o seqs[i]
        BY <2>1, Zenon
      <3>2. \A i \in 1..(m + 1) : h[i] = IF i = 1 THEN seqs[i] ELSE f[i - 1] \o seqs[i]
        BY Zenon
      <3>3. \A i \in 1..m : i \in 1..(m + 1)
        OBVIOUS
      <3> HIDE DEF h
      <3> QED BY <3>1, <3>2, <3>3, Zenon
    <2>3. \A i \in 1..(m + 1) : i # 1 => i - 1 \in 1..m
      OBVIOUS
    <2>4. \A i \in 1..(m + 1) : i # 1 => f[i - 1] = h[i - 1]
      BY <2>2, <2>3
    <2>5. \A i \in 1..(m + 1) : h[i] = IF i = 1 THEN seqs[i] ELSE h[i - 1] \o seqs[i]
      BY <2>4
    <2>6. h = [i \in 1..(m + 1) |-> h[i]]
      OBVIOUS
    <2>7. Solves(h, m + 1)
      <3> HIDE DEF h
      <3> QED BY <2>5, <2>6
    <2> HIDE DEF h, Solves
    <2> QED BY <2>7
  <1>3. Nat \subseteq N
    <2> HIDE DEF N
    <2> QED BY <1>1, <1>2, SetInduction
  <1> QED BY <1>3 DEF IsFlattening

\* c is a with every element x replaced by g[x].
IsImage(c, a, g) == c = [j \in DOMAIN a |-> g[a[j]]]

\* Two sequences put together, of which one is the image of the other.
LEMMA ImagesConcat ==
    ASSUME NEW S, NEW g, NEW a \in Seq(S), NEW b \in Seq(S), NEW c, NEW d,
           IsImage(c, a, g), IsImage(d, b, g)
    PROVE  a \o b \in Seq(S) /\ IsImage(c \o d, a \o b, g)
  <1>1. /\ DOMAIN a = 1..Len(a) /\ Len(a) \in Nat /\ DOMAIN b = 1..Len(b) /\ Len(b) \in Nat
        /\ c = [j \in DOMAIN a |-> g[a[j]]] /\ d = [j \in DOMAIN b |-> g[b[j]]]
    BY DEF IsImage
  <1> DEFINE T == {g[x] : x \in S}
  <1>2. c \in Seq(T) /\ d \in Seq(T) /\ Len(c) = Len(a) /\ Len(d) = Len(b)
    <2>1. c \in [1..Len(a) -> T] /\ d \in [1..Len(b) -> T]
      BY <1>1
    <2> HIDE DEF T
    <2> QED BY <1>1, <2>1
  <1>3. a \o b \in Seq(S) /\ Len(a \o b) = Len(a) + Len(b)
        /\ \A j \in 1..(Len(a) + Len(b)) :
             (a \o b)[j] = IF j <= Len(a) THEN a[j] ELSE b[j - Len(a)]
    BY ConcatProperties
  <1>4. c \o d \in Seq(T) /\ Len(c \o d) = Len(c) + Len(d)
        /\ \A j \in 1..(Len(c) + Len(d)) :
             (c \o d)[j] = IF j <= Len(c) THEN c[j] ELSE d[j - Len(c)]
    <2> HIDE DEF T
    <2> QED BY <1>2, ConcatProperties
  <1>5. PICK e \in Seq(S) : e = a \o b
    BY <1>3
  <1>6. PICK f \in Seq(T) : f = c \o d
    BY <1>4
  <1>7. DOMAIN e = 1..(Len(a) + Len(b)) /\ f = [j \in 1..(Len(a) + Len(b)) |-> f[j]]
    <2> HIDE DEF T
    <2> QED BY <1>1, <1>2, <1>3, <1>4, <1>5, <1>6
  <1>8. ASSUME NEW j \in 1..(Len(a) + Len(b)) PROVE f[j] = g[e[j]]
    <2>1. CASE j <= Len(a)
      <3>1. f[j] = c[j] /\ e[j] = a[j] /\ j \in 1..Len(a)
        BY <1>1, <1>2, <1>3, <1>4, <1>5, <1>6, <2>1
      <3> QED BY <1>1, <3>1
    <2>2. CASE ~(j <= Len(a))
      <3>1. f[j] = d[j - Len(a)] /\ e[j] = b[j - Len(a)] /\ j - Len(a) \in 1..Len(b)
        BY <1>1, <1>2, <1>3, <1>4, <1>5, <1>6, <2>2
      <3> QED BY <1>1, <3>1
    <2> QED BY <2>1, <2>2
  <1> QED BY <1>3, <1>5, <1>6, <1>7, <1>8 DEF IsImage

\* Flattening keeps the elements, and the image of the parts is that of the whole.
LEMMA FlattenIs ==
    ASSUME NEW S, NEW g, NEW names, NEW sizes, NEW n \in Nat,
           names = [i \in 1..n |-> names[i]], sizes = [i \in 1..n |-> sizes[i]],
           \A i \in 1..n : names[i] \in Seq(S) /\ IsImage(sizes[i], names[i], g)
    PROVE  FlattenSeq(names) \in Seq(S) /\ IsImage(FlattenSeq(sizes), FlattenSeq(names), g)
  <1>1. Len(names) = n /\ Len(sizes) = n
    <2>1. PICK A, B : names \in [1..n -> A] /\ sizes \in [1..n -> B]
      <3>1. names \in [1..n -> {names[i] : i \in 1..n}]
        BY Zenon
      <3>2. sizes \in [1..n -> {sizes[i] : i \in 1..n}]
        BY Zenon
      <3> QED BY <3>1, <3>2
    <2>2. DOMAIN names = 1..n /\ DOMAIN sizes = 1..n
      BY Zenon
    <2> QED BY <2>1, <2>2
  <1>2. CASE n = 0
    <2>1. FlattenSeq(names) = names /\ FlattenSeq(sizes) = sizes
      BY <1>1, <1>2 DEF FlattenSeq
    <2>2. 1..n = {} /\ names = << >> /\ sizes = << >>
      BY <1>2
    <2> QED BY <2>1, <2>2 DEF IsImage
  <1>3. CASE n # 0
    <2> DEFINE f == CHOOSE h : IsFlattening(h, names)
               k == CHOOSE h : IsFlattening(h, sizes)
               Good(i) == f[i] \in Seq(S) /\ IsImage(k[i], f[i], g)
               N == {m \in Nat : m + 1 <= n => Good(m + 1)}
    <2>1. IsFlattening(f, names) /\ IsFlattening(k, sizes)
      BY <1>1, FlatteningExists
    <2>2. FlattenSeq(names) = f[n] /\ FlattenSeq(sizes) = k[n]
      BY <1>1, <1>3 DEF FlattenSeq, IsFlattening
    <2> HIDE DEF f, k
    <2>3. /\ \A i \in 1..n : f[i] = IF i = 1 THEN names[i] ELSE f[i - 1] \o names[i]
          /\ \A i \in 1..n : k[i] = IF i = 1 THEN sizes[i] ELSE k[i - 1] \o sizes[i]
      BY <1>1, <2>1 DEF IsFlattening
    <2>4. 0 \in N
      <3>1. 1 \in 1..n /\ f[1] = names[1] /\ k[1] = sizes[1]
        BY <1>3, <2>3
      <3>2. Good(1)
        BY <3>1
      <3> HIDE DEF Good
      <3> QED BY <3>2
    <2>5. ASSUME NEW m \in Nat, m \in N PROVE m + 1 \in N
      <3> SUFFICES ASSUME (m + 1) + 1 <= n PROVE Good((m + 1) + 1)
        OBVIOUS
      <3>1. PICK i \in 1..n : i = (m + 1) + 1 /\ i # 1 /\ i - 1 = m + 1
        OBVIOUS
      <3>2. Good(i - 1)
        <4> HIDE DEF Good
        <4> QED BY <2>5, <3>1
      <3>3. PICK a, c : a = f[i - 1] /\ c = k[i - 1]
        OBVIOUS
      <3>4. PICK b, d : b = names[i] /\ d = sizes[i]
        OBVIOUS
      <3>5. f[i] = a \o b /\ k[i] = c \o d
        BY <2>3, <3>1, <3>3, <3>4
      <3>6. a \in Seq(S) /\ b \in Seq(S) /\ IsImage(c, a, g) /\ IsImage(d, b, g)
        BY <3>2, <3>3, <3>4
      <3>7. a \o b \in Seq(S) /\ IsImage(c \o d, a \o b, g)
        BY <3>6, ImagesConcat
      <3>8. Good(i)
        BY <3>5, <3>7
      <3> HIDE DEF Good
      <3> QED BY <3>1, <3>8
    <2> HIDE DEF N
    <2>6. Nat \subseteq N
      BY <2>4, <2>5, SetInduction
    <2>7. n - 1 \in N /\ (n - 1) + 1 = n
      BY <1>3, <2>6
    <2>8. Good(n)
      <3> HIDE DEF Good
      <3> QED BY <2>7 DEF N
    <2> QED BY <2>2, <2>8
  <1> QED BY <1>2, <1>3

-----------------------------------------------------------------------------
(* The inputs of a template, and the shapes they were read from. *)

\* The axes an argument stands for are in the table.
LEMMA AxesAreNamed ==
    ASSUME NEW s, IsSource(s), ~Malformed(s), NEW i \in DOMAIN ReturnedCalls(s),
           NEW k \in DOMAIN ReturnedCalls(s)[i]
    PROVE  AxesOf(s, ReturnedCalls(s)[i][k]) \in Seq(AxisNames(s))
  <1>1. PICK arg : arg = ReturnedCalls(s)[i][k]
    OBVIOUS
  <1>2. /\ arg.kind \in {"name", "star", "literal"}
        /\ arg.kind = "star" => arg.of \in DOMAIN s.tuples
    <2>1. IsUnderstood(s, ReturnedCalls(s)[i])
      BY CallsUnderstood
    <2> QED BY <1>1, <2>1 DEF IsUnderstood
  <1>3. \A e \in DOMAIN AxesOf(s, arg) : AxesOf(s, arg)[e] \in AxisNames(s)
    <2> SUFFICES ASSUME NEW e \in DOMAIN AxesOf(s, arg)
                 PROVE  AxesOf(s, arg)[e] \in AxisNames(s)
      OBVIOUS
    <2>1. PICK p : p = <<i, k, e>>
      OBVIOUS
    <2>2. p \in Places(s)
      BY <1>1, <2>1 DEF Places
    <2>3. AxisAt(s, p) = AxesOf(s, arg)[e]
      BY <1>1, <2>1 DEF AxisAt, ArgumentAt
    <2> QED BY <2>2, <2>3 DEF AxisNames
  <1>4. \E n \in Nat : \E x : AxesOf(s, arg) = [j \in 1..n |-> x[j]]
    <2>1. CASE arg.kind = "star"
      <3>1. s.tuples[arg.of] \in Seq(Int)
        BY <1>2, <2>1 DEF IsSource
      <3>2. PICK n \in Nat : DOMAIN s.tuples[arg.of] = 1..n
        BY <3>1
      <3> DEFINE x == [j \in 1..n |-> Append(arg.of, j - 1)]
      <3>3. AxesOf(s, arg) = x
        BY <2>1, <3>2 DEF AxesOf
      <3>4. x = [j \in 1..n |-> x[j]]
        OBVIOUS
      <3> HIDE DEF x
      <3> QED BY <3>3, <3>4
    <2>2. CASE arg.kind # "star"
      <3>1. PICK a : AxesOf(s, arg) = <<a>>
        <4>1. CASE arg.kind = "name"
          BY <4>1 DEF AxesOf
        <4>2. CASE arg.kind # "name"
          BY <2>2, <4>2 DEF AxesOf
        <4> QED BY <4>1, <4>2
      <3>2. <<a>> = [j \in 1..1 |-> <<a>>[j]]
        OBVIOUS
      <3> QED BY <3>1, <3>2
    <2> QED BY <2>1, <2>2
  <1>5. PICK n \in Nat : \E x : AxesOf(s, arg) = [j \in 1..n |-> x[j]]
    BY <1>4
  <1>6. PICK x : AxesOf(s, arg) = [j \in 1..n |-> x[j]]
    BY <1>5
  <1>7. [j \in 1..n |-> x[j]] \in [1..n -> AxisNames(s)]
    BY <1>3, <1>6
  <1> QED BY <1>1, <1>6, <1>7

\* Under plain names their sizes are those Python finds.
LEMMA SizesAreBuilt ==
    ASSUME NEW s, IsSource(s), ~Malformed(s), PlainlyNamed(s), NEW i \in DOMAIN ReturnedCalls(s),
           NEW k \in DOMAIN ReturnedCalls(s)[i]
    PROVE  IsImage(ArgumentSizes(s, ReturnedCalls(s)[i][k]),
                   AxesOf(s, ReturnedCalls(s)[i][k]), TemplateOf(s).seen)
  <1>1. PICK arg : arg = ReturnedCalls(s)[i][k]
    OBVIOUS
  <1>2. PICK axes, sizes, seen : /\ axes = AxesOf(s, arg) /\ sizes = ArgumentSizes(s, arg)
                                 /\ seen = TemplateOf(s).seen
    OBVIOUS
  <1>3. /\ arg.kind \in {"name", "star", "literal"}
        /\ arg.kind = "name" => arg.of \in DOMAIN s.ints
        /\ arg.kind = "star" => arg.of \in DOMAIN s.tuples
    <2>1. IsUnderstood(s, ReturnedCalls(s)[i])
      BY CallsUnderstood
    <2> QED BY <1>1, <2>1 DEF IsUnderstood
  <1>4. \A j \in DOMAIN axes : axes[j] \in AxisNames(s)
    <2>1. axes \in Seq(AxisNames(s))
      BY <1>1, <1>2, AxesAreNamed
    <2> QED BY <2>1
  <1>5. \A a \in AxisNames(s) : seen[a] = SizeOf(s, a)
    BY <1>2 DEF TemplateOf
  <1>6. CASE arg.kind = "name"
    <2>1. PICK a : a = arg.of
      OBVIOUS
    <2>2. axes = <<a>> /\ sizes = <<s.ints[a]>>
      BY <1>2, <1>6, <2>1 DEF AxesOf, ArgumentSizes
    <2>3. ~IsLiteral(a) /\ ~IsElement(s, a)
      BY <1>3, <1>6, <2>1 DEF PlainlyNamed, IsLiteral, IsElement
    <2>4. SizeOf(s, a) = s.ints[a]
      BY <2>3 DEF SizeOf
    <2>5. a \in AxisNames(s)
      BY <1>4, <2>2
    <2>6. seen[a] = s.ints[a]
      BY <1>5, <2>4, <2>5
    <2>7. sizes = [j \in DOMAIN axes |-> seen[axes[j]]]
      BY <2>2, <2>6
    <2> QED BY <1>1, <1>2, <2>7 DEF IsImage
  <1>7. CASE arg.kind = "star"
    <2>1. PICK t \in Seq(Int) : t = s.tuples[arg.of]
      BY <1>3, <1>7 DEF IsSource
    <2>2. PICK x : arg.of = <<x>> /\ x # "literal"
      <3>1. arg.of = <<arg.of[1]>> /\ arg.of[1] # "literal"
        BY <1>3, <1>7 DEF IsSource
      <3> QED BY <3>1
    <2>3. axes = [j \in DOMAIN t |-> Append(arg.of, j - 1)] /\ sizes = t
      BY <1>2, <1>7, <2>1 DEF AxesOf, ArgumentSizes
    <2>4. ASSUME NEW j \in DOMAIN t PROVE t[j] = seen[axes[j]]
      <3>1. axes[j] = <<x, j - 1>>
        <4>1. axes[j] = Append(<<x>>, j - 1)
          BY <2>2, <2>3
        <4> QED BY <4>1, AppendToOne
      <3>2. PICK a : a = axes[j]
        OBVIOUS
      <3>3. /\ Len(a) = 2 /\ a[1] = x /\ a[2] = j - 1 /\ <<a[1]>> = arg.of
        BY <2>2, <3>1, <3>2
      <3>4. ~IsLiteral(a) /\ IsElement(s, a)
        BY <1>3, <1>7, <2>2, <3>3 DEF IsLiteral, IsElement
      <3>5. SizeOf(s, a) = s.tuples[<<a[1]>>][a[2] + 1]
        BY <3>4 DEF SizeOf
      <3>6. j \in Int /\ (j - 1) + 1 = j
        BY <2>1
      <3>7. SizeOf(s, a) = t[j]
        BY <2>1, <3>3, <3>5, <3>6
      <3>8. a \in AxisNames(s)
        BY <1>4, <2>3, <3>2
      <3> QED BY <1>5, <3>2, <3>7, <3>8
    <2>5. DOMAIN axes = DOMAIN t /\ t = [j \in DOMAIN t |-> t[j]]
      BY <2>1, <2>3
    <2>6. sizes = [j \in DOMAIN axes |-> seen[axes[j]]]
      BY <2>3, <2>4, <2>5
    <2> QED BY <1>1, <1>2, <2>6 DEF IsImage
  <1>8. CASE arg.kind = "literal"
    <2>1. PICK v : v = arg.size
      OBVIOUS
    <2>2. PICK a : a = <<"literal", v>>
      OBVIOUS
    <2>3. axes = <<a>> /\ sizes = <<v>>
      BY <1>2, <1>8, <2>1, <2>2 DEF AxesOf, ArgumentSizes
    <2>4. IsLiteral(a) /\ a[2] = v
      BY <2>2 DEF IsLiteral
    <2>5. SizeOf(s, a) = v
      BY <2>4 DEF SizeOf, IsElement
    <2>6. a \in AxisNames(s)
      BY <1>4, <2>3
    <2>7. seen[a] = v
      BY <1>5, <2>5, <2>6
    <2>8. sizes = [j \in DOMAIN axes |-> seen[axes[j]]]
      BY <2>3, <2>7
    <2> QED BY <1>1, <1>2, <2>8 DEF IsImage
  <1> QED BY <1>3, <1>6, <1>7, <1>8

\* An input is a sequence of axes, and under plain names they have the sizes
\* that get_inputs builds.
LEMMA InputsAre ==
    ASSUME NEW s, IsSource(s), ~Malformed(s), NEW i \in DOMAIN ReturnedCalls(s)
    PROVE  /\ Inputs(s)[i] \in Seq(AxisNames(s))
           /\ PlainlyNamed(s) =>
                IsImage(ShapeOf(s, ReturnedCalls(s)[i]), Inputs(s)[i], TemplateOf(s).seen)
  <1>1. PICK call : call = ReturnedCalls(s)[i]
    OBVIOUS
  <1>2. PICK n \in Nat : DOMAIN call = 1..n
    <2>1. IsUnderstood(s, call)
      BY <1>1, CallsUnderstood
    <2>2. PICK S : call \in Seq(S)
      BY <2>1 DEF IsUnderstood
    <2> QED BY <2>2
  <1>3. PICK seen : seen = TemplateOf(s).seen
    OBVIOUS
  <1> DEFINE names == [k \in 1..n |-> AxesOf(s, call[k])]
             sizes == [k \in 1..n |-> ArgumentSizes(s, call[k])]
             images == [k \in 1..n |-> [j \in DOMAIN names[k] |-> seen[names[k][j]]]]
  <1>4. Inputs(s)[i] = FlattenSeq(names) /\ ShapeOf(s, call) = FlattenSeq(sizes)
    BY <1>1, <1>2 DEF Inputs, Axes, ShapeOf
  <1>5. /\ names = [k \in 1..n |-> names[k]] /\ sizes = [k \in 1..n |-> sizes[k]]
        /\ images = [k \in 1..n |-> images[k]]
    OBVIOUS
  <1>6. \A k \in 1..n : names[k] \in Seq(AxisNames(s))
    BY <1>1, <1>2, AxesAreNamed
  <1>7. \A k \in 1..n : IsImage(images[k], names[k], seen)
    BY DEF IsImage
  <1>8. PlainlyNamed(s) => \A k \in 1..n : IsImage(sizes[k], names[k], seen)
    BY <1>1, <1>2, <1>3, SizesAreBuilt
  <1> HIDE DEF names, sizes, images
  <1>9. FlattenSeq(names) \in Seq(AxisNames(s))
    BY <1>5, <1>6, <1>7, FlattenIs
  <1>10. PlainlyNamed(s) => IsImage(FlattenSeq(sizes), FlattenSeq(names), seen)
    BY <1>5, <1>6, <1>8, FlattenIs
  <1> QED BY <1>1, <1>3, <1>4, <1>9, <1>10

-----------------------------------------------------------------------------
(* The elements of an input, and the scale that doubles them. *)

\* f is the recursion that multiplies the values of g.
IsProductOf(f, g, D) ==
    f = [s \in SUBSET D |-> IF s = {} THEN 1 ELSE g[Drawn(s)] * f[s \ {Drawn(s)}]]

\* Such a recursion has a solution: on subsets of each size, hence on all.
LEMMA ProductOfExists ==
    ASSUME NEW D, IsFiniteSet(D), NEW g
    PROVE  \E f : IsProductOf(f, g, D)
  <1> DEFINE Solves(f, n) ==
               f = [s \in UpTo(D, n) |->
                      IF s = {} THEN 1 ELSE g[Drawn(s)] * f[s \ {Drawn(s)}]]
             N == {n \in Nat : \E f : Solves(f, n)}
  <1>1. 0 \in N
    <2>1. Solves([s \in UpTo(D, 0) |-> 1], 0)
      BY OnlyEmpty
    <2> QED BY <2>1
  <1>2. ASSUME NEW n \in Nat, n \in N PROVE n + 1 \in N
    <2>1. PICK f : Solves(f, n)
      BY <1>2
    <2> DEFINE h == [s \in UpTo(D, n + 1) |->
                       IF s = {} THEN 1 ELSE g[Drawn(s)] * f[s \ {Drawn(s)}]]
    <2>2. \A s \in UpTo(D, n) : s \in UpTo(D, n + 1)
      <3>1. \A s \in SUBSET D : Cardinality(s) \in Nat
        BY FS_Subset, FS_CardinalityType
      <3> QED BY <3>1 DEF UpTo
    <2>3. \A s \in UpTo(D, n) : h[s] = f[s]
      BY <2>1, <2>2
    <2>4. \A s \in UpTo(D, n + 1) : s # {} => f[s \ {Drawn(s)}] = h[s \ {Drawn(s)}]
      BY <2>3, Smaller
    <2>5. \A s \in UpTo(D, n + 1) :
            h[s] = IF s = {} THEN 1 ELSE g[Drawn(s)] * h[s \ {Drawn(s)}]
      BY <2>4
    <2>6. h = [s \in UpTo(D, n + 1) |-> h[s]]
      OBVIOUS
    <2>7. Solves(h, n + 1)
      <3> HIDE DEF h
      <3> QED BY <2>5, <2>6
    <2> HIDE DEF h, Solves
    <2> QED BY <2>7
  <1>3. Nat \subseteq N
    <2> HIDE DEF N
    <2> QED BY <1>1, <1>2, SetInduction
  <1>4. PICK n \in Nat : UpTo(D, n) = SUBSET D
    BY AllOfThem
  <1> QED BY <1>3, <1>4 DEF IsProductOf

ProductOf(g, D) == CHOOSE f : IsProductOf(f, g, D)

\* So the one that is chosen obeys it.
LEMMA ProductObeys ==
    ASSUME NEW D, IsFiniteSet(D), NEW g
    PROVE  /\ ProductOf(g, D)[{}] = 1
           /\ \A s \in SUBSET D :
                s # {} => ProductOf(g, D)[s] = g[Drawn(s)] * ProductOf(g, D)[s \ {Drawn(s)}]
  <1> DEFINE f == ProductOf(g, D)
  <1>1. IsProductOf(f, g, D)
    BY ProductOfExists DEF ProductOf
  <1> HIDE DEF f
  <1>2. \A s \in SUBSET D :
          f[s] = IF s = {} THEN 1 ELSE g[Drawn(s)] * f[s \ {Drawn(s)}]
    BY <1>1 DEF IsProductOf
  <1>3. {} \in SUBSET D
    OBVIOUS
  <1> QED BY <1>2, <1>3 DEF f

\* The elements of an input are the last value of the recursion.
LEMMA ElementsUnfold ==
    ASSUME NEW input, NEW sizes
    PROVE  Elements(input, sizes) =
             ProductOf([j \in DOMAIN input |-> sizes[input[j]]], DOMAIN input)[DOMAIN input]
  <1> DEFINE g == [j \in DOMAIN input |-> sizes[input[j]]]
  <1>1. DOMAIN g = DOMAIN input
    OBVIOUS
  <1> HIDE DEF g
  <1>2. FoldFunction(LAMBDA size, n : size * n, 1, g) = ProductOf(g, DOMAIN input)[DOMAIN input]
    BY <1>1 DEF FoldFunction, FoldFunctionOnSet, MapThenFoldSet, ProductOf, IsProductOf, Drawn
  <1> QED BY <1>2 DEF Elements, g

\* A product of naturals is one, and one factor twice as large doubles it.
LEMMA DoubledFactor ==
    ASSUME NEW D, IsFiniteSet(D), NEW f \in [D -> Nat], NEW e, NEW a,
           \A x \in D : e[x] = IF x = a THEN 2 * f[x] ELSE f[x]
    PROVE  /\ ProductOf(f, D)[D] \in Nat
           /\ ProductOf(e, D)[D] = IF a \in D THEN 2 * ProductOf(f, D)[D] ELSE ProductOf(f, D)[D]
  <1> DEFINE g == ProductOf(f, D)
             k == ProductOf(e, D)
             P == {s \in SUBSET D : /\ g[s] \in Nat
                                    /\ k[s] = IF a \in s THEN 2 * g[s] ELSE g[s]}
  <1>1. /\ g[{}] = 1
        /\ \A s \in SUBSET D : s # {} => g[s] = f[Drawn(s)] * g[s \ {Drawn(s)}]
    BY ProductObeys
  <1>2. /\ k[{}] = 1
        /\ \A s \in SUBSET D : s # {} => k[s] = e[Drawn(s)] * k[s \ {Drawn(s)}]
    BY ProductObeys
  <1> HIDE DEF g, k
  <1>3. ASSUME NEW s \in SUBSET D, s # {}, s \ {Drawn(s)} \in P PROVE s \in P
    <2> DEFINE x == Drawn(s)
               t == s \ {x}
    <2>1. x \in s /\ x \in D /\ f[x] \in Nat
      BY <1>3 DEF Drawn
    <2>2. g[t] \in Nat /\ k[t] = IF a \in t THEN 2 * g[t] ELSE g[t]
      BY <1>3
    <2>3. g[s] = f[x] * g[t] /\ k[s] = e[x] * k[t]
      BY <1>1, <1>2, <1>3
    <2>4. e[x] = IF x = a THEN 2 * f[x] ELSE f[x]
      BY <2>1
    <2>5. a \in t <=> a \in s /\ a # x
      OBVIOUS
    <2> HIDE DEF x, t
    <2>6. PICK m \in Nat, n \in Nat : m = f[x] /\ n = g[t]
      BY <2>1, <2>2
    <2>7. m * n \in Nat /\ (2 * m) * n = 2 * (m * n) /\ m * (2 * n) = 2 * (m * n)
      OBVIOUS
    <2>8. g[s] = m * n
      BY <2>3, <2>6
    <2>9. CASE x = a
      <3>1. k[t] = n /\ e[x] = 2 * m /\ a \in s
        BY <2>1, <2>2, <2>4, <2>5, <2>6, <2>9
      <3>2. k[s] = (2 * m) * n
        BY <2>3, <3>1
      <3> QED BY <2>7, <2>8, <3>1, <3>2
    <2>10. CASE x # a
      <3>1. e[x] = m /\ k[t] = IF a \in s THEN 2 * n ELSE n
        BY <2>2, <2>4, <2>5, <2>6, <2>10
      <3>2. k[s] = IF a \in s THEN m * (2 * n) ELSE m * n
        BY <2>3, <3>1
      <3> QED BY <2>7, <2>8, <3>2
    <2> QED BY <2>9, <2>10
  <1>4. SUBSET D \subseteq P
    <2>1. {} \in P
      BY <1>1, <1>2
    <2> HIDE DEF P
    <2> QED BY <1>3, <2>1, SubsetInduction
  <1> QED BY <1>4 DEF g, k

\* The largest of finitely many naturals is one of them.
LEMMA MaxOfThem ==
    ASSUME NEW n \in Nat \ {0}, NEW h \in [1..n -> Nat]
    PROVE  /\ \E i \in 1..n : Max({h[j] : j \in 1..n}) = h[i]
           /\ \A i \in 1..n : h[i] <= Max({h[j] : j \in 1..n})
  <1> DEFINE T == {h[j] : j \in 1..n}
  <1>1. h \in Surjection(1..n, T)
    BY DEF Surjection
  <1>2. IsFiniteSet(1..n)
    BY FS_Interval
  <1>3. T \in SUBSET Nat /\ T # {}
    <2>1. 1 \in 1..n
      OBVIOUS
    <2> QED BY <2>1
  <1>4. IsFiniteSet(T)
    <2> HIDE DEF T
    <2> QED BY <1>1, <1>2, FS_Surjection
  <1>5. PICK m \in T : \A t \in T : t <= m
    <2> HIDE DEF T
    <2> QED BY <1>3, <1>4, HasGreatest
  <1>6. Max(T) \in T /\ \A t \in T : t <= Max(T)
    <2>1. \A t \in T : m >= t
      BY <1>3, <1>5
    <2>2. Max(T) \in T /\ \A t \in T : Max(T) >= t
      <3> HIDE DEF T
      <3> QED BY <1>5, <2>1 DEF Max
    <2> HIDE DEF T
    <2> QED BY <1>3, <2>2
  <1> QED BY <1>6

-----------------------------------------------------------------------------
(* The unseen configurations. *)

\* What the manifest holds is the template of a source that parses; the
\* configurations give every axis a number.
HoldoutInv ==
    /\ workload \in Sources /\ Verdict(workload) = "parsed"
    /\ template = TemplateOf(workload)
    /\ configs \in Seq([AxisNames(workload) -> Nat])
    /\ IsFiniteSet(ToSet(configs))
    /\ AllDifferent /\ ScaleUpDoubles

\* The seen sizes are positive, and the leading axes are free ones.
LEMMA TemplateIs ==
    ASSUME HoldoutInv
    PROVE  /\ Seen \in [AxisNames(workload) -> Nat \ {0}]
           /\ Free \subseteq AxisNames(workload)
           /\ Free # {} => Leading \in Free
           /\ Free # {} /\ Free # {Leading} => Second \in Free
  <1>1. IsSource(workload) /\ ~Malformed(workload)
    BY HoldoutAssumption DEF HoldoutInv, Verdict
  <1>2. Free \subseteq AxisNames(workload)
    BY DEF HoldoutInv, Free, TemplateOf
  <1>3. Seen \in [AxisNames(workload) -> Nat \ {0}]
    BY <1>1, SeenIsPositive DEF HoldoutInv, Seen
  <1>4. ASSUME Free # {} PROVE Leading \in Free
    <2>1. PICK A \in SUBSET AxisNames(workload) : A = Free
      BY <1>2
    <2> QED BY <1>1, <1>4, <2>1, FirstIsOne DEF Leading
  <1>5. ASSUME Free # {}, Free # {Leading} PROVE Second \in Free
    <2>1. PICK A \in SUBSET AxisNames(workload) : A = Free \ {Leading}
      BY <1>2
    <2>2. A # {}
      BY <1>4, <1>5, <2>1
    <2>3. FirstOf(workload, A) \in A
      BY <1>1, <2>2, FirstIsOne
    <2> QED BY <2>1, <2>3 DEF Second
  <1> QED BY <1>2, <1>3, <1>4, <1>5

\* A category's size along the leading axis.
LEMMA ScaleIs ==
    ASSUME NEW sizes, NEW factor \in Nat \ {0}, sizes[Leading] \in Nat \ {0}
    PROVE  CappedScale(sizes, factor) \in Nat
  <1>1. PICK from \in Nat \ {0} : from = sizes[Leading]
    OBVIOUS
  <1>2. PICK to : to = factor * from
    OBVIOUS
  <1>3. to \in Nat /\ from <= to
    <2>1. factor * from = from + (factor - 1) * from
      OBVIOUS
    <2>2. \A a, b \in Nat : a * b \in Nat
      OBVIOUS
    <2>3. factor - 1 \in Nat /\ from \in Nat /\ factor \in Nat
      OBVIOUS
    <2>4. (factor - 1) * from \in Nat /\ factor * from \in Nat
      BY <2>2, <2>3
    <2> QED BY <1>2, <2>1, <2>4
  <1>4. PICK fits : fits = Fitting(sizes, from, to)
    OBVIOUS
  <1>5. ShrunkToFit(fits, from, to) \in from..to
    BY <1>3, ShrunkIsBetween
  <1>6. CappedScale(sizes, factor) = ShrunkToFit(fits, from, to)
    BY <1>1, <1>2, <1>4 DEF CappedScale
  <1> QED BY <1>3, <1>5, <1>6

\* A category gives every axis a number, and one that is not free its own.
LEMMA CategoryIs ==
    ASSUME HoldoutInv, Free # {}, NEW i \in Nat
    PROVE  /\ Category(i) \in [AxisNames(workload) -> Nat]
           /\ \A a \in AxisNames(workload) \ Free : Category(i)[a] = Seen[a]
  <1> DEFINE Axis == AxisNames(workload)
             Typed(c) == c \in [Axis -> Nat] /\ \A a \in Axis \ Free : c[a] = Seen[a]
  <1>1. /\ Seen \in [Axis -> Nat \ {0}] /\ Free \subseteq Axis /\ Leading \in Free
        /\ Free # {Leading} => Second \in Free
    BY TemplateIs
  <1>2. Typed(Seen) /\ DOMAIN Seen = Axis /\ \A a \in Axis : Seen[a] \in Nat \ {0}
    BY <1>1
  <1>3. \A n \in Nat : AtLeast1(n \div 4) \in Nat \ {0} /\ AtLeast1(n \div 8) \in Nat \ {0}
    BY DEF AtLeast1
  <1>4. \A n \in Nat : Min({3, n}) \in Nat
    <2> SUFFICES ASSUME NEW n \in Nat PROVE Min({3, n}) \in Nat
      OBVIOUS
    <2>1. Min({3, n}) = IF 3 <= n THEN 3 ELSE n
      BY DEF Min
    <2> QED BY <2>1
  <1>5. Leading \in Axis
    BY <1>1
  <1> HIDE DEF Axis
  <1>6. Typed(EdgeBoundary)
    BY <1>1, <1>2, <1>4 DEF EdgeBoundary
  <1>7. Typed(ScaleUp)
    <2>1. CappedScale(Seen, 2) \in Nat
      BY <1>2, <1>5, ScaleIs
    <2> QED BY <1>1, <1>2, <2>1 DEF ScaleUp
  <1>8. Typed(ScaleDown)
    BY <1>1, <1>2, <1>3 DEF ScaleDown
  <1>9. Typed(AlignmentStress)
    <2>1. \A a \in Axis : NextPrime(Seen[a]) \in Nat
      BY <1>2, NextPrimeIs
    <2>2. Typed([a \in DOMAIN Seen |-> IF a \in Free THEN NextPrime(Seen[a]) ELSE Seen[a]])
      BY <1>1, <1>2, <2>1
    <2>3. Typed([Seen EXCEPT ![Leading] = NextPrime(@)])
      BY <1>1, <1>2, <1>5, <2>1
    <2> HIDE DEF Typed
    <2> QED BY <2>2, <2>3 DEF AlignmentStress
  <1>10. Typed(AsymmetricAspect)
    <2> DEFINE shrunk == IF Free # {Leading}
                         THEN [Seen EXCEPT ![Second] = AtLeast1(@ \div 8)] ELSE Seen
    <2>1. shrunk \in [Axis -> Nat \ {0}] /\ \A a \in Axis \ Free : shrunk[a] = Seen[a]
      BY <1>1, <1>2, <1>3
    <2>2. AsymmetricAspect = [shrunk EXCEPT ![Leading] = CappedScale(shrunk, 8)]
      BY DEF AsymmetricAspect
    <2> HIDE DEF shrunk
    <2>3. CappedScale(shrunk, 8) \in Nat
      BY <1>5, <2>1, ScaleIs
    <2> QED BY <1>1, <2>1, <2>2, <2>3
  <1>11. Typed(ProductionRealistic)
    <2> DEFINE wanted == IF Seen[Leading] # Production THEN Production ELSE Alternative
    <2>1. wanted \in Nat \ {0}
      BY HoldoutAssumption
    <2>2. PICK fits : fits = Fitting(Seen, 1, wanted)
      OBVIOUS
    <2>3. ProductionRealistic = [Seen EXCEPT ![Leading] = ShrunkToFit(fits, 1, wanted)]
      BY <2>2 DEF ProductionRealistic
    <2> HIDE DEF wanted
    <2>4. ShrunkToFit(fits, 1, wanted) \in 1..wanted
      BY <2>1, ShrunkIsBetween
    <2>5. ShrunkToFit(fits, 1, wanted) \in Nat
      BY <2>1, <2>4
    <2> QED BY <1>1, <1>2, <2>3, <2>5
  <1> HIDE DEF Typed
  <1>12. Typed(Category(i))
    BY <1>6, <1>7, <1>8, <1>9, <1>10, <1>11 DEF Category
  <1> QED BY <1>12 DEF Typed, Axis

\* What a source returns is a sequence.
LEMMA ReturnedAre ==
    ASSUME NEW s, IsSource(s), ~Malformed(s)
    PROVE  \E n \in Nat : DOMAIN ReturnedCalls(s) = 1..n
  <1> DEFINE r == ReturnAt(s)
  <1>1. r # 0
    BY DEF Malformed
  <1>2. r \in DOMAIN s.body /\ s.body[r].kind = "return"
    BY <1>1, ReturnIs
  <1>3. Returned(s) \in Seq(ToSet(Returned(s)))
    BY <1>2 DEF IsSource, Returned
  <1>4. PICK S : Returned(s) \in Seq(S)
    BY <1>3
  <1>5. Len(Returned(s)) \in Nat /\ DOMAIN Returned(s) = 1..Len(Returned(s))
    BY <1>4
  <1> QED BY <1>5 DEF ReturnedCalls

\* An input along which the leading axis is doubled has at most twice as many
\* elements, when it has the axis no more than once.
LEMMA ElementsDouble ==
    ASSUME NEW Axis, NEW sizes \in [Axis -> Nat], NEW a \in Axis, NEW size \in Nat,
           size = 2 * sizes[a], NEW input \in Seq(Axis),
           \A j, k \in DOMAIN input : input[j] = a /\ input[k] = a => j = k
    PROVE  /\ Elements(input, sizes) \in Nat
           /\ Elements(input, [sizes EXCEPT ![a] = size]) \in Nat
           /\ Elements(input, [sizes EXCEPT ![a] = size]) <= 2 * Elements(input, sizes)
  <1>1. PICK n \in Nat : DOMAIN input = 1..n
    OBVIOUS
  <1>2. PICK D : D = 1..n
    OBVIOUS
  <1>3. PICK doubled : doubled = [sizes EXCEPT ![a] = size]
    OBVIOUS
  <1>4. IsFiniteSet(D) /\ 0 \notin D /\ \A j \in D : input[j] \in Axis
    BY <1>1, <1>2, FS_Interval
  <1> DEFINE i == IF \E j \in D : input[j] = a THEN CHOOSE j \in D : input[j] = a ELSE 0
  <1>5. \A j \in D : input[j] = a <=> j = i
    <2>1. CASE \E j \in D : input[j] = a
      <3>1. i \in D /\ input[i] = a
        BY <2>1
      <3> HIDE DEF i
      <3> QED BY <1>1, <1>2, <3>1
    <2>2. CASE ~\E j \in D : input[j] = a
      <3>1. i = 0
        BY <2>2
      <3> HIDE DEF i
      <3> QED BY <1>4, <2>2, <3>1
    <2> QED BY <2>1, <2>2
  <1> HIDE DEF i
  <1> DEFINE f == [j \in D |-> sizes[input[j]]]
             e == [j \in D |-> doubled[input[j]]]
  <1>6. f \in [D -> Nat]
    BY <1>4
  <1>7. \A j \in D : e[j] = IF j = i THEN 2 * f[j] ELSE f[j]
    BY <1>3, <1>4, <1>5
  <1>8. /\ Elements(input, sizes) = ProductOf(f, D)[D]
        /\ Elements(input, doubled) = ProductOf(e, D)[D]
    BY <1>1, <1>2, ElementsUnfold
  <1> HIDE DEF f, e
  <1>9. /\ ProductOf(f, D)[D] \in Nat
        /\ ProductOf(e, D)[D] = IF i \in D THEN 2 * ProductOf(f, D)[D] ELSE ProductOf(f, D)[D]
    BY <1>4, <1>6, <1>7, DoubledFactor
  <1> QED BY <1>3, <1>8, <1>9

\* So the budget has room for the second configuration to be twice as large.
LEMMA ScaleUpIs ==
    ASSUME HoldoutInv, Free # {}, LeadingOnce
    PROVE  ScaleUp[Leading] = 2 * Seen[Leading]
  <1>1. IsSource(workload) /\ ~Malformed(workload)
    BY HoldoutAssumption DEF HoldoutInv, Verdict
  <1>2. PICK Axis : Axis = AxisNames(workload)
    OBVIOUS
  <1>3. Seen \in [Axis -> Nat \ {0}] /\ Leading \in Free /\ Free \subseteq Axis
    BY <1>2, TemplateIs
  <1>4. PICK l \in Axis : l = Leading
    BY <1>3
  <1>5. PICK sizes \in [Axis -> Nat] : sizes = Seen /\ sizes[l] \in Nat \ {0}
    BY <1>3
  <1>6. PICK n \in Nat : DOMAIN ReturnedCalls(workload) = 1..n
    BY <1>1, ReturnedAre
  <1>7. PICK inputs : inputs = template.inputs
    OBVIOUS
  <1>8. inputs = Inputs(workload)
    BY <1>7 DEF HoldoutInv, TemplateOf
  <1>9. DOMAIN inputs = 1..n /\ \A i \in 1..n : inputs[i] \in Seq(Axis)
    <2>1. DOMAIN Inputs(workload) = DOMAIN ReturnedCalls(workload)
      BY DEF Inputs
    <2> QED BY <1>1, <1>2, <1>6, <1>8, <2>1, InputsAre
  <1>10. n # 0
    <2>1. PICK p \in Places(workload) : TRUE
      BY <1>2, <1>4 DEF AxisNames
    <2>2. DOMAIN ReturnedCalls(workload) # {}
      BY <2>1 DEF Places
    <2> QED BY <1>6, <2>2
  <1>11. PICK size \in Nat : size = 2 * sizes[l]
    BY <1>5
  <1>12. PICK doubled : doubled = [sizes EXCEPT ![l] = size]
    OBVIOUS
  <1> DEFINE g == [i \in 1..n |-> Elements(inputs[i], sizes)]
             h == [i \in 1..n |-> Elements(inputs[i], doubled)]
  <1>13. \A i \in 1..n : /\ Elements(inputs[i], sizes) \in Nat
                         /\ Elements(inputs[i], doubled) \in Nat
                         /\ Elements(inputs[i], doubled) <= 2 * Elements(inputs[i], sizes)
    <2> SUFFICES ASSUME NEW i \in 1..n
                 PROVE  /\ Elements(inputs[i], sizes) \in Nat
                        /\ Elements(inputs[i], doubled) \in Nat
                        /\ Elements(inputs[i], doubled) <= 2 * Elements(inputs[i], sizes)
      OBVIOUS
    <2>1. PICK input \in Seq(Axis) : input = inputs[i]
      BY <1>9
    <2>2. \A j, k \in DOMAIN input : input[j] = l /\ input[k] = l => j = k
      BY <1>4, <1>7, <1>9, <2>1 DEF LeadingOnce
    <2>3. PICK k \in Nat : k = size /\ k = 2 * sizes[l]
      BY <1>11
    <2>4. /\ Elements(input, sizes) \in Nat
          /\ Elements(input, [sizes EXCEPT ![l] = k]) \in Nat
          /\ Elements(input, [sizes EXCEPT ![l] = k]) <= 2 * Elements(input, sizes)
      BY <2>2, <2>3, ElementsDouble
    <2> QED BY <1>12, <2>1, <2>3, <2>4
  <1>14. g \in [1..n -> Nat] /\ h \in [1..n -> Nat] /\ \A i \in 1..n : h[i] <= 2 * g[i]
    BY <1>13
  <1>15. MaxElements(sizes) = Max({g[j] : j \in 1..n})
    <2>1. {Elements(inputs[j], sizes) : j \in 1..n} = {g[j] : j \in 1..n}
      BY Zenon
    <2> QED BY <1>7, <1>9, <2>1 DEF MaxElements
  <1>16. MaxElements(doubled) = Max({h[j] : j \in 1..n})
    <2>1. {Elements(inputs[j], doubled) : j \in 1..n} = {h[j] : j \in 1..n}
      BY Zenon
    <2> QED BY <1>7, <1>9, <2>1 DEF MaxElements
  <1> HIDE DEF g, h
  <1>17. MaxElements(sizes) \in Nat /\ MaxElements(doubled) <= 2 * MaxElements(sizes)
    <2>1. PICK i \in 1..n : MaxElements(sizes) = g[i]
      BY <1>10, <1>14, <1>15, MaxOfThem
    <2>2. PICK j \in 1..n : MaxElements(doubled) = h[j]
      BY <1>10, <1>14, <1>16, MaxOfThem
    <2>3. g[j] <= MaxElements(sizes)
      BY <1>10, <1>14, <1>15, MaxOfThem
    <2>4. g[i] \in Nat /\ g[j] \in Nat /\ h[j] \in Nat /\ h[j] <= 2 * g[j]
      BY <1>14
    <2> QED BY <2>1, <2>2, <2>3, <2>4
  <1>18. MaxElements(doubled) <= Budget /\ Budget \in Nat
    <2>1. PICK m \in Nat : m = MaxElements(sizes)
      BY <1>17
    <2>2. PICK d : d = MaxElements(doubled)
      OBVIOUS
    <2>3. Budget = Max({MinBudget, 2 * m})
      BY <1>5, <2>1 DEF Budget
    <2>4. 2 * m \in Nat /\ MinBudget \in Nat
      BY HoldoutAssumption
    <2>5. Max({MinBudget, 2 * m}) = IF MinBudget >= 2 * m THEN MinBudget ELSE 2 * m
      BY <2>4 DEF Max
    <2>6. \E i \in 1..n : d = h[i]
      BY <1>10, <1>14, <1>16, <2>2, MaxOfThem
    <2>7. d \in Nat /\ d <= 2 * m
      BY <1>14, <1>17, <2>1, <2>2, <2>6
    <2> QED BY <2>2, <2>3, <2>4, <2>5, <2>7
  <1>19. PICK from \in Nat \ {0} : from = sizes[l]
    BY <1>5
  <1>20. PICK fits : fits = Fitting(sizes, from, size)
    OBVIOUS
  <1>21. size = 2 * from /\ from <= size /\ size \in from..size
    BY <1>11, <1>19
  <1>22. size \in fits
    BY <1>4, <1>12, <1>18, <1>20, <1>21 DEF Fitting
  <1>23. CappedScale(sizes, 2) = size
    <2>1. ShrunkToFit(fits, from, size) = size
      BY <1>21, <1>22, NothingShrunk
    <2> QED BY <1>4, <1>19, <1>20, <1>21, <2>1 DEF CappedScale
  <1>24. ScaleUp = [sizes EXCEPT ![l] = size]
    BY <1>4, <1>5, <1>23 DEF ScaleUp
  <1> QED BY <1>4, <1>5, <1>11, <1>24

\* Some number in reach along an axis makes a configuration that is not taken:
\* there are more of them than configurations taken.
LEMMA SomeUntaken ==
    ASSUME NEW Axis, NEW sizes \in [Axis -> Nat], NEW a \in Axis, NEW from \in Nat,
           NEW T, IsFiniteSet(T)
    PROVE  \E n \in from..(from + Cardinality(T)) : [sizes EXCEPT ![a] = n] \notin T
  <1>1. PICK c \in Nat : c = Cardinality(T)
    BY FS_CardinalityType
  <1> DEFINE S == from..(from + c)
             f == [n \in S |-> [sizes EXCEPT ![a] = n]]
  <1> SUFFICES ASSUME \A n \in S : [sizes EXCEPT ![a] = n] \in T PROVE FALSE
    BY <1>1
  <1>2. IsFiniteSet(S) /\ Cardinality(S) = c + 1
    <2>1. from \in Int /\ from + c \in Int /\ from <= from + c
      OBVIOUS
    <2> QED BY <2>1, FS_Interval
  <1>3. f \in [S -> T]
    OBVIOUS
  <1>4. \A n \in S : f[n][a] = n
    OBVIOUS
  <1> HIDE DEF S, f
  <1>5. Cardinality(T) < Cardinality(S)
    BY <1>1, <1>2
  <1>6. \E m, n \in S : m # n /\ f[m] = f[n]
    BY <1>2, <1>3, <1>5, FS_PigeonHole
  <1> QED BY <1>4, <1>6

\* The nudged configuration is not taken, and differs along one axis only, upwards.
LEMMA NudgedIs ==
    ASSUME NEW Axis, NEW sizes \in [Axis -> Nat], Leading \in Axis, IsFiniteSet(Taken)
    PROVE  /\ Nudged(sizes) \in [Axis -> Nat] /\ Nudged(sizes) \notin Taken
           /\ Nudged(sizes)[Leading] >= sizes[Leading]
           /\ \A a \in Axis : a # Leading => Nudged(sizes)[a] = sizes[a]
  <1>1. PICK l \in Axis : l = Leading
    OBVIOUS
  <1>2. PICK from \in Nat : from = sizes[l]
    OBVIOUS
  <1>3. PICK c \in Nat : c = Cardinality(Taken)
    BY FS_CardinalityType
  <1>4. PICK T : T = Taken
    OBVIOUS
  <1> DEFINE N == {n \in from..(from + c) : [sizes EXCEPT ![l] = n] \notin T}
  <1>5. N # {} /\ N \in SUBSET Nat
    <2>1. \E n \in from..(from + c) : [sizes EXCEPT ![l] = n] \notin T
      BY <1>3, <1>4, SomeUntaken
    <2>2. \A n \in from..(from + c) : n \in Nat
      OBVIOUS
    <2> QED BY <2>1, <2>2
  <1>6. PICK n \in N : \A m \in N : n <= m
    <2> HIDE DEF N
    <2> QED BY <1>5, HasLeast
  <1>7. \A m \in from..(n - 1) : [sizes EXCEPT ![l] = m] \in T
    <2> SUFFICES ASSUME NEW m \in from..(n - 1) PROVE [sizes EXCEPT ![l] = m] \in T
      OBVIOUS
    <2>1. n \in Nat /\ n <= from + c
      BY <1>5
    <2>2. m \in Nat /\ m \in from..(from + c) /\ ~(n <= m)
      BY <2>1
    <2>3. m \notin N
      <3> HIDE DEF N
      <3> QED BY <1>6, <2>2
    <2> QED BY <2>2, <2>3
  <1> DEFINE Found(x) == /\ [sizes EXCEPT ![l] = x] \notin T
                         /\ \A m \in from..(x - 1) : [sizes EXCEPT ![l] = m] \in T
             found == CHOOSE x \in from..(from + c) : Found(x)
  <1>8. found \in from..(from + c) /\ Found(found)
    <2>1. n \in from..(from + c) /\ Found(n)
      BY <1>7
    <2> HIDE DEF Found
    <2> QED BY <2>1
  <1>9. Nudged(sizes) = [sizes EXCEPT ![l] = found]
    BY <1>1, <1>2, <1>3, <1>4 DEF Nudged
  <1> HIDE DEF found
  <1>10. found \in Nat /\ found >= from
    BY <1>8
  <1>11. Nudged(sizes)[l] >= sizes[l]
    BY <1>2, <1>9, <1>10
  <1> QED BY <1>1, <1>4, <1>8, <1>9, <1>10, <1>11

\* The elements of a sequence with one more.
LEMMA OneMore ==
    ASSUME NEW S, NEW seq \in Seq(S), NEW e \in S
    PROVE  ToSet(Append(seq, e)) = ToSet(seq) \cup {e}
  <1>1. /\ DOMAIN seq = 1..Len(seq) /\ DOMAIN Append(seq, e) = 1..(Len(seq) + 1)
        /\ Len(seq) \in Nat
        /\ \A i \in 1..Len(seq) : Append(seq, e)[i] = seq[i]
        /\ Append(seq, e)[Len(seq) + 1] = e
    BY AppendProperties
  <1> QED BY <1>1 DEF ToSet

\* Before the first configuration there is nothing to differ.
LEMMA HoldoutStarts == HoldoutInit => HoldoutInv
  <1> SUFFICES ASSUME HoldoutInit PROVE HoldoutInv
    OBVIOUS
  <1>1. ToSet(<< >>) = {} /\ DOMAIN << >> = {} /\ Len(<< >>) = 0
    BY DEF ToSet
  <1>2. configs = << >> /\ configs \in Seq([AxisNames(workload) -> Nat])
    BY DEF HoldoutInit
  <1>3. IsFiniteSet({}) /\ Cardinality({}) = 0
    BY FS_EmptySet
  <1>4. AllDifferent
    BY <1>1, <1>2, <1>3 DEF AllDifferent
  <1>5. ScaleUpDoubles
    <2>1. ~(Len(configs) >= 2)
      BY <1>1, <1>2
    <2> QED BY <2>1 DEF ScaleUpDoubles
  <1> QED BY <1>1, <1>2, <1>3, <1>4, <1>5 DEF HoldoutInit, HoldoutInv

\* A configuration that is made differs from the seen one and from the others.
LEMMA MakeConfigStep ==
    ASSUME HoldoutInv, MakeConfig
    PROVE  HoldoutInv'
  <1> DEFINE Axis == AxisNames(workload)
             Sizes == [Axis -> Nat]
             c == Nudged(Category(Len(configs) + 1))
  <1>1. configs \in Seq(Sizes) /\ Len(configs) \in Nat /\ IsFiniteSet(ToSet(configs))
    BY DEF HoldoutInv
  <1>2. /\ Seen \in [Axis -> Nat \ {0}] /\ Free \subseteq Axis /\ Leading \in Free
    BY TemplateIs DEF MakeConfig
  <1>3. PICK category : category = Category(Len(configs) + 1)
    OBVIOUS
  <1>4. category \in Sizes /\ \A a \in Axis \ Free : category[a] = Seen[a]
    <2>1. Len(configs) + 1 \in Nat /\ Free # {}
      BY <1>1, <1>2
    <2> QED BY <1>3, <2>1, CategoryIs
  <1>5. Taken = {Seen} \cup ToSet(configs) /\ IsFiniteSet(Taken)
    <2>1. IsFiniteSet(ToSet(configs) \cup {Seen})
      BY <1>1, FS_AddElement
    <2>2. Taken = ToSet(configs) \cup {Seen}
      BY DEF Taken
    <2> QED BY <2>1, <2>2
  <1>6. /\ c \in Sizes /\ c \notin Taken
        /\ c[Leading] >= category[Leading]
        /\ \A a \in Axis : a # Leading => c[a] = category[a]
    <2>1. Leading \in Axis
      BY <1>2
    <2> HIDE DEF Axis
    <2> QED BY <1>3, <1>4, <1>5, <2>1, NudgedIs
  <1>7. configs' = Append(configs, c) /\ workload' = workload /\ template' = template
    BY DEF MakeConfig
  <1> HIDE DEF c, Sizes, Axis
  <1>8. /\ configs' \in Seq(Sizes) /\ Len(configs') = Len(configs) + 1
        /\ DOMAIN configs = 1..Len(configs) /\ DOMAIN configs' = 1..(Len(configs) + 1)
        /\ \A i \in 1..Len(configs) : configs'[i] = configs[i]
        /\ configs'[Len(configs) + 1] = c
    BY <1>1, <1>6, <1>7, AppendProperties
  <1>9. ToSet(configs)' = ToSet(configs) \cup {c}
    <2>1. ToSet(Append(configs, c)) = ToSet(configs) \cup {c}
      BY <1>1, <1>6, OneMore
    <2>2. ToSet(configs)' = ToSet(configs')
      BY DEF ToSet
    <2> QED BY <1>7, <2>1, <2>2
  <1>10. c \notin ToSet(configs) /\ c # Seen
    BY <1>5, <1>6
  <1>11. /\ IsFiniteSet(ToSet(configs)')
         /\ Cardinality(ToSet(configs)') = Cardinality(ToSet(configs)) + 1
    BY <1>1, <1>9, <1>10, FS_AddElement
  <1>12. Seen' = Seen /\ Free' = Free /\ DOMAIN Seen = Axis
    BY <1>2, <1>7 DEF Seen, Free
  <1>13. /\ \A i \in DOMAIN configs : configs[i] # Seen
         /\ Cardinality(ToSet(configs)) = Len(configs)
         /\ \A i \in DOMAIN configs, a \in Axis \ Free : configs[i][a] = Seen[a]
    BY <1>12 DEF HoldoutInv, AllDifferent
  <1>14. \A a \in Axis \ Free : c[a] = Seen[a]
    BY <1>2, <1>4, <1>6
  <1>15. \A i \in 1..(Len(configs) + 1) : i \in 1..Len(configs) \/ i = Len(configs) + 1
    BY <1>1
  <1>16. \A i \in DOMAIN configs' : configs'[i] # Seen
    BY <1>8, <1>10, <1>13, <1>15
  <1>17. \A i \in DOMAIN configs', a \in Axis \ Free : configs'[i][a] = Seen[a]
    BY <1>8, <1>13, <1>14, <1>15
  <1>18. AllDifferent'
    <2>1. Cardinality(ToSet(configs)') = Len(configs')
      BY <1>8, <1>11, <1>13
    <2> QED BY <1>12, <1>16, <1>17, <2>1 DEF AllDifferent
  <1>19. ScaleUpDoubles'
    <2> SUFFICES ASSUME Len(configs) + 1 >= 2, LeadingOnce
                 PROVE  configs'[2][Leading] >= 2 * Seen[Leading]
      <3>1. Leading' = Leading /\ (LeadingOnce)' = LeadingOnce
        BY <1>7, <1>12 DEF Leading, LeadingOnce
      <3> QED BY <1>8, <1>12, <3>1 DEF ScaleUpDoubles
    <2>1. CASE Len(configs) >= 2
      <3>1. configs'[2] = configs[2]
        BY <1>1, <1>8, <2>1
      <3> QED BY <2>1, <3>1 DEF HoldoutInv, ScaleUpDoubles
    <2>2. CASE ~(Len(configs) >= 2)
      <3>1. Len(configs) + 1 = 2
        BY <1>1, <2>2
      <3>2. category = ScaleUp
        BY <1>3, <3>1 DEF Category
      <3>3. ScaleUp[Leading] = 2 * Seen[Leading]
        BY <1>2, ScaleUpIs
      <3>4. configs'[2] = c
        BY <1>8, <3>1
      <3> QED BY <1>6, <3>2, <3>3, <3>4
    <2> QED BY <2>1, <2>2
  <1> QED BY <1>7, <1>8, <1>11, <1>18, <1>19 DEF HoldoutInv, Axis, Sizes

\* The configurations of holdout.py give every axis a number, whatever the task.
THEOREM HoldoutInvariance == HoldoutSpec => []HoldoutInv
  <1>1. HoldoutInit => HoldoutInv
    BY HoldoutStarts
  <1>2. HoldoutInv /\ [HoldoutNext]_holdoutVars => HoldoutInv'
    <2>1. HoldoutInv /\ MakeConfig => HoldoutInv'
      BY MakeConfigStep
    <2>2. HoldoutInv /\ UNCHANGED holdoutVars => HoldoutInv'
      BY DEF HoldoutInv, AllDifferent, ScaleUpDoubles, LeadingOnce, Leading, Seen, Free, ToSet,
             holdoutVars
    <2> QED BY <2>1, <2>2 DEF HoldoutNext
  <1> QED BY <1>1, <1>2, PTL DEF HoldoutSpec

\* What a winner is judged on is unseen, is input to the same model, and is made
\* from the shapes it was tuned on; one configuration really is larger: for every
\* source that parses and every budget and production size.
THEOREM ConfigsAreFair == HoldoutSpec => []HoldoutFair
  <1>1. HoldoutInv => ModelAxesFixed
    <2> SUFFICES ASSUME HoldoutInv, PlainlyNamed(workload),
                        NEW i \in DOMAIN configs, NEW a \in ModelAxes(workload)
                 PROVE  configs[i][a] = Seen[a]
      BY DEF ModelAxesFixed
    <2>1. IsSource(workload) /\ ~Malformed(workload)
      BY HoldoutAssumption DEF HoldoutInv, Verdict
    <2>2. a \notin Free
      BY <2>1, ModelAxesStay DEF HoldoutInv, Free
    <2>3. a \in DOMAIN Seen
      BY DEF ModelAxes, AxisNames, HoldoutInv, Seen, TemplateOf
    <2> QED BY <2>2, <2>3 DEF HoldoutInv, AllDifferent
  <1>2. HoldoutInv => SeenIsBuilt
    <2> SUFFICES ASSUME HoldoutInv, PlainlyNamed(workload) PROVE SeenIsBuilt
      BY DEF SeenIsBuilt
    <2>1. IsSource(workload) /\ ~Malformed(workload)
      BY HoldoutAssumption DEF HoldoutInv, Verdict
    <2>2. PICK inputs, calls, seen : /\ inputs = template.inputs /\ seen = Seen
                                     /\ calls = ReturnedCalls(workload)
      OBVIOUS
    <2>3. inputs = Inputs(workload) /\ seen = TemplateOf(workload).seen
      BY <2>2 DEF HoldoutInv, TemplateOf, Seen
    <2>4. DOMAIN inputs = DOMAIN calls
      BY <2>2, <2>3 DEF Inputs
    <2>5. BuiltShapes(workload) = [i \in DOMAIN calls |-> ShapeOf(workload, calls[i])]
      BY <2>2 DEF BuiltShapes
    <2>6. \A i \in DOMAIN calls :
            ShapeOf(workload, calls[i]) = [j \in DOMAIN inputs[i] |-> seen[inputs[i][j]]]
      BY <2>1, <2>2, <2>3, InputsAre DEF IsImage
    <2>7. BuiltShapes(workload) =
            [i \in DOMAIN inputs |-> [j \in DOMAIN inputs[i] |-> seen[inputs[i][j]]]]
      BY <2>4, <2>5, <2>6
    <2> QED BY <2>2, <2>7 DEF SeenIsBuilt
  <1>3. HoldoutInv => HoldoutFair
    BY <1>1, <1>2 DEF HoldoutInv, HoldoutFair
  <1> QED BY <1>3, HoldoutInvariance, PTL

=============================================================================
