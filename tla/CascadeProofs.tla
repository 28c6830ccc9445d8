--------------------------- MODULE CascadeProofs ---------------------------
(***************************************************************************)
(* Theorems about the composite harness, for any model, any codec and any  *)
(* setting of the ingredients.                                             *)
(***************************************************************************)
EXTENDS Cascade, FoldLemmas

Submissions ==
    [form : Forms, ran : BOOLEAN, ok : BOOLEAN, speedup : Optional(Speedups)]

CascadeTypes ==
    /\ pc \in {"seeding", "refining", "over", "closed"}
    /\ left \in Nat /\ succ \in Nat /\ nonImprovements \in Nat
    /\ submitted \in Seq(Submissions)
    /\ reseedUsed \in BOOLEAN

\* Whatever was not a success is in the novelty filter.
Remembered == \A k \in DOMAIN submitted : ~submitted[k].ok => submitted[k].form \in rejected

\* The seeds left fit the round, and the slots a run goes by are up to date.
SlotsCurrent ==
    /\ pc = "seeding" => C4 /\ succ + left <= SeedCount
    /\ pc \in {"seeding", "refining"} /\ slots # None => slots = SlotsRemaining(succ)
    /\ pc = "seeding" /\ slots = None => succ = 0
    /\ pc = "refining" /\ slots = None => succ < MaxCandidates

\* Beyond the plateau without a re-seed, at most the last submission validated.
PlateauHandled ==
    /\ pc = "seeding" => nonImprovements = 0
    /\ C8 /\ C10 /\ ~reseedUsed /\ nonImprovements > PlateauReseed =>
         \A k \in DOMAIN submitted : Validated(k) => k = Len(submitted)

\* The history names submissions of this run, and no incumbent is slower than 0.
HistoryTypes == recorded \subseteq DOMAIN submitted /\ incumbentSpeedup \in Nat

CascadeInv ==
    /\ CascadeTypes /\ Remembered /\ SlotsCurrent /\ PlateauHandled
    /\ RejectedStayRejected /\ BudgetOverrunBounded
    /\ HistoryTypes /\ IncumbentNearBest

-----------------------------------------------------------------------------
(* What the judge's step leaves as the incumbent. *)

Timed(k) == submitted[k].speedup # None

\* The most a candidate of the history may measure, in hundredths of a hundredth.
Reach(speedup) == (IF C8 THEN 100 + DeadbandPct ELSE 100) * speedup

\* A submission that was timed has a speedup.
LEMMA SpeedupIs ==
    ASSUME submitted \in Seq(Submissions), NEW k \in DOMAIN submitted, Timed(k)
    PROVE  submitted[k].speedup \in Nat
  <1>1. submitted[k] \in Submissions
    OBVIOUS
  <1>2. \A e \in Submissions : e.speedup \in Nat \cup {None}
    BY CascadeConstants DEF Submissions, Optional
  <1> QED BY <1>1, <1>2 DEF Timed

\* Nothing slower than the incumbent is out of its reach.
LEMMA WithinReach ==
    ASSUME NEW x \in Nat, NEW y \in Nat, x <= y
    PROVE  100 * x <= Reach(y)
  <1>1. 100 * x <= 100 * y
    OBVIOUS
  <1>2. ASSUME NEW d \in Nat, NEW z \in Nat PROVE 100 * z <= (100 + d) * z
    <2>1. (100 + d) * z = 100 * z + d * z /\ d * z \in Nat
      OBVIOUS
    <2> DEFINE e == d * z
    <2> HIDE DEF e
    <2> QED BY <2>1 DEF e
  <1>3. CASE C8
    <2>1. 100 * y <= (100 + DeadbandPct) * y
      BY <1>2, CascadeConstants
    <2>2. Reach(y) = (100 + DeadbandPct) * y
      BY <1>3 DEF Reach
    <2>3. 100 * x \in Nat /\ 100 * y \in Nat /\ Reach(y) \in Nat
      BY CascadeConstants DEF Reach
    <2> QED BY <1>1, <2>1, <2>2, <2>3
  <1>4. CASE ~C8
    BY <1>1, <1>4 DEF Reach
  <1> QED BY <1>3, <1>4

\* Some number is the least of a set of them.
LEMMA FirstIs ==
    ASSUME NEW S \in SUBSET Nat, S # {}
    PROVE  First(S) \in S
  <1>1. \E i \in S : \A j \in S : i <= j
    <2>1. IsWellFoundedOn(OpToRel(<, Nat), Nat)
      BY NatLessThanWellFounded
    <2>2. PICK i \in S : \A j \in S : ~(<<j, i>> \in OpToRel(<, Nat))
      <3> DEFINE R == OpToRel(<, Nat)
      <3> HIDE DEF R
      <3> QED BY <2>1, WFMin DEF R
    <2>3. \A j \in S : ~(j < i)
      BY <2>2 DEF OpToRel
    <2> QED BY <2>3
  <1> QED BY <1>1 DEF First

\* Some submission of a set of timed ones is the fastest.
LEMMA FastestExists ==
    ASSUME submitted \in Seq(Submissions), NEW K \in SUBSET (DOMAIN submitted), K # {},
           \A k \in K : submitted[k].speedup \in Nat
    PROVE  \E k \in K : \A j \in K : submitted[j].speedup <= submitted[k].speedup
  <1> DEFINE s == [k \in K |-> submitted[k].speedup]
             N == {m \in Nat : \A T \in SUBSET (K \cap (1..m)) : T # {} =>
                                 \E k \in T : \A j \in T : s[j] <= s[k]}
  <1>1. s \in [K -> Nat] /\ K \subseteq 1..Len(submitted) /\ Len(submitted) \in Nat
    OBVIOUS
  <1>2. \A k \in K : s[k] = submitted[k].speedup
    OBVIOUS
  <1> HIDE DEF s
  <1>3. 0 \in N
    <2>1. 1..0 = {}
      OBVIOUS
    <2> QED BY <2>1
  <1>4. ASSUME NEW m \in Nat, m \in N PROVE m + 1 \in N
    <2> SUFFICES ASSUME NEW T \in SUBSET (K \cap (1..(m + 1))), T # {}
                 PROVE  \E k \in T : \A j \in T : s[j] <= s[k]
      OBVIOUS
    <2> DEFINE U == T \ {m + 1}
    <2>1. U \in SUBSET (K \cap (1..m)) /\ \A j \in T : j \in U \/ j = m + 1
      OBVIOUS
    <2>2. CASE U = {}
      BY <1>1, <2>1, <2>2
    <2>3. CASE U # {}
      <3>1. PICK k \in U : \A j \in U : s[j] <= s[k]
        BY <1>4, <2>1, <2>3
      <3>2. \A j \in T : s[j] \in Nat
        BY <1>1
      <3>3. CASE m + 1 \in T /\ s[k] <= s[m + 1]
        <4>1. \A j \in T : s[j] <= s[m + 1]
          BY <2>1, <3>1, <3>2, <3>3
        <4> QED BY <3>3, <4>1
      <3>4. CASE ~(m + 1 \in T /\ s[k] <= s[m + 1])
        <4>1. \A j \in T : s[j] <= s[k]
          BY <2>1, <3>1, <3>2, <3>4
        <4> QED BY <3>1, <4>1
      <3> QED BY <3>3, <3>4
    <2> QED BY <2>2, <2>3
  <1>5. Nat \subseteq N
    <2> HIDE DEF N
    <2> QED BY <1>3, <1>4, SetInduction
  <1> QED BY <1>1, <1>2, <1>5

\* The best of the admitted is as fast as any of them.
LEMMA BestIs ==
    ASSUME submitted \in Seq(Submissions), NEW eligible, DOMAIN eligible \subseteq Nat,
           \A i \in DOMAIN eligible : eligible[i] \in DOMAIN submitted
    PROVE  LET best == BestOf(eligible)
               speedup == IF best = None THEN 100 ELSE submitted[best].speedup
           IN  /\ speedup \in Nat
               /\ \A i \in DOMAIN eligible :
                    Timed(eligible[i]) => submitted[eligible[i]].speedup <= speedup
  <1> DEFINE Fast(i) == submitted[eligible[i]].speedup
             Beats(i) == Fast(i) # None /\ Fast(i) > 100
             fastest == {i \in DOMAIN eligible :
                           Beats(i) /\ \A j \in DOMAIN eligible : Beats(j) => Fast(j) <= Fast(i)}
             best == BestOf(eligible)
             speedup == IF best = None THEN 100 ELSE submitted[best].speedup
  <1>1. \A i \in DOMAIN eligible : Fast(i) \in Nat \cup {None}
    <2>1. \A k \in DOMAIN submitted : submitted[k] \in Submissions
      OBVIOUS
    <2>2. \A e \in Submissions : e.speedup \in Nat \cup {None}
      BY CascadeConstants DEF Submissions, Optional
    <2> QED BY <2>1, <2>2
  <1>2. best = IF fastest = {} THEN None ELSE eligible[First(fastest)]
    BY DEF BestOf
  <1>3. CASE \A i \in DOMAIN eligible : ~Beats(i)
    <2>1. fastest = {}
      BY <1>3
    <2>2. speedup = 100
      BY <1>2, <2>1
    <2>3. \A i \in DOMAIN eligible : Fast(i) # None => Fast(i) <= 100
      BY <1>1, <1>3
    <2> QED BY <2>2, <2>3 DEF Timed
  <1>4. CASE \E i \in DOMAIN eligible : Beats(i)
    <2> DEFINE K == {eligible[i] : i \in {i \in DOMAIN eligible : Beats(i)}}
    <2>1. K \in SUBSET (DOMAIN submitted) /\ K # {}
      BY <1>4
    <2>2. \A k \in K : submitted[k].speedup \in Nat
      BY <1>1
    <2>3. PICK k \in K : \A j \in K : submitted[j].speedup <= submitted[k].speedup
      BY <2>1, <2>2, FastestExists
    <2>4. PICK i \in DOMAIN eligible : Beats(i) /\ eligible[i] = k
      BY <2>3
    <2>5. i \in fastest
      BY <2>3, <2>4
    <2>6. First(fastest) \in fastest
      <3>1. fastest \in SUBSET Nat /\ fastest # {}
        BY <2>5, SMTT(40)
      <3> HIDE DEF fastest
      <3> QED BY <3>1, FirstIs
    <2> DEFINE f == First(fastest)
    <2> HIDE DEF f
    <2>7. /\ f \in DOMAIN eligible /\ Beats(f)
          /\ \A j \in DOMAIN eligible : Beats(j) => Fast(j) <= Fast(f)
      BY <2>6 DEF f
    <2>8. best = eligible[f] /\ best # None
      <3>1. best = eligible[f]
        BY <1>2, <2>5 DEF f
      <3>2. eligible[f] \in Nat
        BY <2>7
      <3>3. None \notin Nat
        BY CascadeConstants
      <3> HIDE DEF best
      <3> QED BY <3>1, <3>2, <3>3
    <2>9. speedup = Fast(f) /\ Fast(f) \in Nat /\ Fast(f) > 100
      BY <1>1, <2>7, <2>8
    <2>10. ASSUME NEW j \in DOMAIN eligible, Fast(j) # None PROVE Fast(j) <= Fast(f)
      BY <1>1, <2>7, <2>9, <2>10
    <2> HIDE DEF K, fastest
    <2> QED BY ONLY <2>9, <2>10 DEF Timed
  <1> QED BY <1>3, <1>4

\* Whatever the judge answers, submissions of this run are admitted.
LEMMA EligibleIs ==
    ASSUME submitted \in Seq(Submissions), NEW parsed \in JudgeAnswers
    PROVE  /\ DOMAIN Eligible(parsed) \subseteq Nat
           /\ \A i \in DOMAIN Eligible(parsed) : Eligible(parsed)[i] \in DOMAIN submitted
  <1>1. PICK n \in 0..JudgeTopM : parsed \in [1..n -> DOMAIN submitted]
    BY DEF JudgeAnswers
  <1>2. Len(parsed) = n /\ n \in Nat /\ DOMAIN parsed = 1..n
    BY <1>1, CascadeConstants
  <1>3. Successes \subseteq DOMAIN submitted /\ DOMAIN submitted \subseteq Nat
    BY DEF Successes
  <1> DEFINE r == Ranking(parsed, Successes)
  <1>4. DOMAIN r \subseteq Nat
    BY <1>2, <1>3 DEF Ranking
  <1>5. ASSUME NEW p \in DOMAIN r PROVE r[p] \in DOMAIN submitted
    <2> DEFINE named == {i \in DOMAIN parsed : parsed[i] \in Successes}
    <2>1. r[p] = IF p \in named THEN parsed[p] ELSE p - Len(parsed)
      BY DEF Ranking
    <2>2. CASE p \in named
      BY <1>3, <2>1, <2>2
    <2>3. CASE p \notin named
      <3>1. PICK k \in Successes : p = Len(parsed) + k
        BY <2>3 DEF Ranking
      <3> QED BY <1>2, <1>3, <2>1, <2>3, <3>1
    <2> QED BY <2>2, <2>3
  <1> HIDE DEF r
  <1>6. \A m : DOMAIN Top(r, m) \subseteq DOMAIN r /\ \A p \in DOMAIN Top(r, m) : Top(r, m)[p] = r[p]
    BY DEF Top
  <1>7. CASE Eligible(parsed) = Top(r, JudgeTopM)
    BY <1>4, <1>5, <1>6, <1>7
  <1>8. CASE Eligible(parsed) = [k \in Successes |-> k]
    BY <1>3, <1>8
  <1> QED BY <1>7, <1>8 DEF Eligible, r

-----------------------------------------------------------------------------
\* SlotsRemaining tells whether the budget is met.
LEMMA SlotsMeaning ==
    ASSUME NEW n \in Nat
    PROVE  /\ SlotsRemaining(n) \in Nat /\ SlotsRemaining(n) # None
           /\ SlotsRemaining(n) # 0 <=> n < MaxCandidates
  BY CascadeConstants DEF SlotsRemaining

\* A turn is only taken within the budget.
LEMMA TurnWithinBudget ==
    ASSUME CascadeInv, TurnLeft
    PROVE  succ + 1 <= MaxCandidates
  BY SlotsMeaning, CascadeConstants DEF CascadeInv, CascadeTypes, SlotsCurrent, TurnLeft

\* A submission is one entry more, new to the novelty filter, and remembered if
\* it does not succeed.
LEMMA SubmitStep ==
    ASSUME CascadeInv, NEW src \in Sources, NEW o \in Outcomes, ~Refuses(src), Submit(src, o)
    PROVE  /\ submitted' \in Seq(Submissions) /\ Len(submitted') = Len(submitted) + 1
           /\ \A k \in DOMAIN submitted : submitted'[k] = submitted[k]
           /\ DOMAIN submitted' = DOMAIN submitted \cup {Len(submitted')}
           /\ submitted'[Len(submitted')].ok = o.ok
           /\ submitted'[Len(submitted')].speedup = o.speedup
           /\ Remembered' /\ RejectedStayRejected'
           /\ succ' = IF o.ok THEN succ + 1 ELSE succ
           /\ slots' = IF o.ran THEN SlotsRemaining(succ') ELSE slots
  <1> DEFINE e == [form |-> Form[src], ran |-> o.ran, ok |-> o.ok, speedup |-> o.speedup]
             n == Len(submitted)
  <1>1. e \in Submissions /\ e.form = Form[src] /\ e.ok = o.ok /\ e.speedup = o.speedup
    BY DEF Submissions, Forms, Outcomes
  <1>2. submitted' = Append(submitted, e) /\ submitted \in Seq(Submissions)
    BY DEF Submit, CascadeInv, CascadeTypes
  <1> HIDE DEF e
  <1>3. /\ submitted' \in Seq(Submissions) /\ Len(submitted') = n + 1 /\ n \in Nat
        /\ \A k \in 1..n : submitted'[k] = submitted[k]
        /\ submitted'[n + 1] = e
        /\ DOMAIN submitted = 1..n /\ DOMAIN submitted' = 1..(n + 1)
    BY <1>1, <1>2
  <1>4. rejected' = IF o.ok THEN rejected ELSE rejected \cup {Form[src]}
    BY DEF Submit
  <1>5. Remembered'
    BY <1>1, <1>3, <1>4 DEF CascadeInv, Remembered
  <1>6. RejectedStayRejected'
    <2> SUFFICES ASSUME C7, NEW i \in 1..(n + 1), NEW j \in 1..(n + 1), i < j,
                        ~submitted'[i].ok
                 PROVE  submitted'[j].form # submitted'[i].form
      BY <1>3 DEF RejectedStayRejected
    <2>1. i \in 1..n /\ submitted'[i] = submitted[i] /\ ~submitted[i].ok
      BY <1>3
    <2>2. CASE j \in 1..n
      <3>1. submitted'[j] = submitted[j]
        BY <1>3, <2>2
      <3> QED BY <1>3, <2>1, <2>2, <3>1 DEF CascadeInv, RejectedStayRejected
    <2>3. CASE j = n + 1
      <3>1. submitted[i].form \in rejected
        BY <1>3, <2>1 DEF CascadeInv, Remembered
      <3> QED BY <1>1, <1>3, <2>1, <2>3, <3>1 DEF Refuses
    <2> QED BY <1>3, <2>2, <2>3
  <1>7. /\ succ' = IF o.ok THEN succ + 1 ELSE succ
        /\ slots' = IF o.ran THEN SlotsRemaining(succ') ELSE slots
    BY DEF Submit
  <1> QED BY <1>1, <1>3, <1>5, <1>6, <1>7

\* A submission alone does not touch the history.
LEMMA HistoryStays ==
    ASSUME CascadeInv, DOMAIN submitted \subseteq DOMAIN submitted',
           \A k \in DOMAIN submitted : submitted'[k] = submitted[k],
           UNCHANGED <<recorded, incumbentSpeedup>>
    PROVE  HistoryTypes' /\ IncumbentNearBest'
  BY DEF CascadeInv, HistoryTypes, IncumbentNearBest

\* The seed round submits whatever is left of the budget, but no more than its seeds.
LEMMA SeedStep ==
    ASSUME CascadeInv,
           \/ SkipSeed \/ \E src \in Sources, o \in Outcomes : SubmitSeed(src, o)
    PROVE  CascadeInv'
  <1> USE DEF CascadeInv
  <1>1. CASE SkipSeed
    <2>1. /\ pc = "seeding" /\ pc' = pc /\ left > 0 /\ left' = left - 1
          /\ UNCHANGED <<submitted, rejected, nonImprovements, reseedUsed, slots, succ>>
      BY <1>1 DEF SkipSeed, localVars
    <2>2. CascadeTypes' /\ Remembered' /\ RejectedStayRejected' /\ BudgetOverrunBounded'
      BY <2>1 DEF CascadeTypes, Remembered, RejectedStayRejected, BudgetOverrunBounded
    <2>a. HistoryTypes' /\ IncumbentNearBest'
      BY <1>1 DEF SkipSeed, localVars, HistoryTypes, IncumbentNearBest
    <2>3. SlotsCurrent'
      BY <2>1, CascadeConstants DEF CascadeTypes, SlotsCurrent, SlotsRemaining
    <2>4. PlateauHandled'
      BY <2>1, CascadeConstants DEF PlateauHandled
    <2> QED BY <2>2, <2>3, <2>4, <2>a
  <1>2. ASSUME NEW src \in Sources, NEW o \in Outcomes, SubmitSeed(src, o)
        PROVE  CascadeInv'
    <2>1. /\ pc = "seeding" /\ pc' = "seeding" /\ left > 0 /\ left' = left - 1
          /\ ~Refuses(src) /\ Submit(src, o)
          /\ UNCHANGED <<nonImprovements, reseedUsed, recorded, incumbentSpeedup>>
      BY <1>2 DEF SubmitSeed
    <2>2. left \in Nat /\ succ \in Nat /\ C4 /\ succ + left <= SeedCount /\ nonImprovements = 0
      BY <2>1 DEF CascadeTypes, SlotsCurrent, PlateauHandled
    <2>3. /\ succ' \in Nat /\ succ' <= succ + 1 /\ left' \in Nat
          /\ succ' + left' <= SeedCount /\ succ' <= SeedCount
      BY <2>1, <2>2, SubmitStep, CascadeConstants
    <2>4. CascadeTypes' /\ Remembered' /\ RejectedStayRejected'
      BY <2>1, <2>3, SubmitStep DEF CascadeTypes
    <2>5. SlotsCurrent'
      <3>1. o.ok => o.ran
        BY DEF Outcomes
      <3>2. slots' # None => slots' = SlotsRemaining(succ)' /\ SlotsRemaining(succ)' = SlotsRemaining(succ')
        BY <2>1, <3>1, SubmitStep DEF SlotsCurrent, SlotsRemaining
      <3>3. slots' = None => succ' = 0
        BY <2>1, <2>3, <3>1, SubmitStep, SlotsMeaning DEF SlotsCurrent
      <3> QED BY <2>1, <2>2, <2>3, <3>2, <3>3 DEF SlotsCurrent
    <2>6. PlateauHandled'
      BY <2>1, <2>2, CascadeConstants DEF PlateauHandled
    <2>7. BudgetOverrunBounded'
      BY <2>2, <2>3, CascadeConstants DEF BudgetOverrunBounded
    <2>8. HistoryTypes' /\ IncumbentNearBest'
      BY <2>1, SubmitStep, HistoryStays
    <2> QED BY <2>4, <2>5, <2>6, <2>7, <2>8
  <1> QED BY <1>1, <1>2

\* The judge moves no ledger; slots_remaining is what the seeds left of it.
LEMMA JudgeStep ==
    ASSUME CascadeInv, NEW parsed \in JudgeAnswers, Judge(parsed)
    PROVE  CascadeInv'
  <1>1. /\ pc = "seeding" /\ pc' = "refining" /\ left' = MaxTurns
        /\ UNCHANGED <<submitted, rejected, nonImprovements, reseedUsed, slots, succ>>
    BY DEF Judge
  <1>2. CascadeTypes' /\ Remembered' /\ RejectedStayRejected' /\ BudgetOverrunBounded'
    BY <1>1, CascadeConstants DEF CascadeInv, CascadeTypes, Remembered, RejectedStayRejected,
                BudgetOverrunBounded
  <1>3. SlotsCurrent'
    BY <1>1, CascadeConstants DEF CascadeInv, SlotsCurrent, SlotsRemaining
  <1>4. PlateauHandled'
    BY <1>1 DEF CascadeInv, PlateauHandled, Validated
  <1> DEFINE eligible == Eligible(parsed)
             best == BestOf(eligible)
  <1>5. /\ submitted \in Seq(Submissions)
        /\ recorded' = {eligible[i] : i \in DOMAIN eligible}
        /\ incumbentSpeedup' = IF best = None THEN 100 ELSE submitted[best].speedup
    BY DEF Judge, CascadeInv, CascadeTypes, ToSet
  <1>6. /\ DOMAIN eligible \subseteq Nat
        /\ \A i \in DOMAIN eligible : eligible[i] \in DOMAIN submitted
    BY <1>5, EligibleIs
  <1> HIDE DEF eligible
  <1>7. /\ incumbentSpeedup' \in Nat
        /\ \A i \in DOMAIN eligible : Timed(eligible[i]) =>
             submitted[eligible[i]].speedup <= incumbentSpeedup'
    BY <1>5, <1>6, BestIs
  <1>8. HistoryTypes'
    BY <1>1, <1>5, <1>6, <1>7 DEF HistoryTypes
  <1>9. IncumbentNearBest'
    <2> SUFFICES ASSUME NEW k \in recorded', submitted[k].speedup # None
                 PROVE  100 * submitted[k].speedup <= Reach(incumbentSpeedup')
      BY <1>1 DEF IncumbentNearBest, Reach
    <2>1. submitted[k].speedup <= incumbentSpeedup'
      BY <1>5, <1>7 DEF Timed
    <2>2. submitted[k].speedup \in Nat
      BY <1>5, <1>6, SpeedupIs DEF Timed
    <2> QED BY <1>7, <2>1, <2>2, WithinReach
  <1> QED BY <1>2, <1>3, <1>4, <1>8, <1>9 DEF CascadeInv

\* A success either beats the incumbent by more than the deadband and takes its
\* place, or stays within its reach.
LEMMA RunTurnStep ==
    ASSUME CascadeInv, NEW src \in Sources, NEW o \in Outcomes, RunTurn(src, o)
    PROVE  HistoryTypes' /\ IncumbentNearBest'
  <1> DEFINE n == Len(submitted)
  <1>1. /\ submitted \in Seq(Submissions) /\ recorded \subseteq DOMAIN submitted
        /\ incumbentSpeedup \in Nat /\ n \in Nat /\ DOMAIN submitted = 1..n
    BY DEF CascadeInv, CascadeTypes, HistoryTypes
  <1>2. /\ Len(submitted') = n + 1 /\ DOMAIN submitted' = 1..n \cup {n + 1}
        /\ \A k \in 1..n : submitted'[k] = submitted[k]
        /\ submitted'[n + 1].speedup = o.speedup
    <2>1. ~Refuses(src) /\ Submit(src, o)
      BY DEF RunTurn
    <2> QED BY <1>1, <2>1, SubmitStep
  <1>3. /\ recorded' \subseteq recorded \cup {n + 1}
        /\ n + 1 \in recorded' => o.ok \/ n + 1 \in recorded
        /\ incumbentSpeedup' = IF Improves(o) THEN o.speedup ELSE incumbentSpeedup
    BY DEF RunTurn
  <1>4. n + 1 \notin recorded
    BY <1>1
  <1>5. o.speedup \in Nat \cup {None}
    BY CascadeConstants DEF Outcomes, Optional
  <1>6. Improves(o) <=> o.ok /\ o.speedup # None /\ 100 * o.speedup > Reach(incumbentSpeedup)
    BY DEF Improves, Reach
  <1>7. Reach(incumbentSpeedup) \in Nat
    BY <1>1, CascadeConstants DEF Reach
  <1>8. ASSUME NEW k \in recorded, submitted[k].speedup # None
        PROVE  /\ submitted[k].speedup \in Nat
               /\ 100 * submitted[k].speedup <= Reach(incumbentSpeedup)
    BY <1>1, <1>8, SpeedupIs DEF Timed, CascadeInv, IncumbentNearBest, Reach
  <1>9. HistoryTypes'
    <2>1. incumbentSpeedup' \in Nat
      BY <1>1, <1>3, <1>5, <1>6
    <2> QED BY <1>1, <1>2, <1>3, <2>1 DEF HistoryTypes
  <1>10. IncumbentNearBest'
    <2> SUFFICES ASSUME NEW k \in recorded', submitted'[k].speedup # None
                 PROVE  100 * submitted'[k].speedup <= Reach(incumbentSpeedup')
      BY DEF IncumbentNearBest, Reach
    <2>1. CASE k = n + 1
      <3>1. o.ok /\ submitted'[k].speedup = o.speedup /\ o.speedup \in Nat
        BY <1>2, <1>3, <1>4, <1>5, <2>1
      <3>2. CASE Improves(o)
        BY <1>3, <3>1, <3>2, WithinReach
      <3>3. CASE ~Improves(o)
        BY <1>3, <1>5, <1>6, <1>7, <3>1, <3>3
      <3> QED BY <3>2, <3>3
    <2>2. CASE k # n + 1
      <3>1. k \in recorded /\ submitted'[k].speedup = submitted[k].speedup
        BY <1>1, <1>2, <1>3, <2>2
      <3>2. /\ submitted[k].speedup \in Nat
            /\ 100 * submitted[k].speedup <= Reach(incumbentSpeedup)
        BY <1>8, <3>1
      <3>3. CASE Improves(o)
        <4>1. o.speedup \in Nat /\ submitted[k].speedup <= o.speedup
          BY <1>5, <1>6, <1>7, <3>2, <3>3
        <4> QED BY <1>3, <3>1, <3>2, <3>3, <4>1, WithinReach
      <3>4. CASE ~Improves(o)
        BY <1>3, <3>1, <3>2, <3>4
      <3> QED BY <3>3, <3>4
    <2> QED BY <2>1, <2>2
  <1> QED BY <1>9, <1>10

\* A turn at a plateau with a validated parent uses the re-seed up.
LEMMA TurnStep ==
    ASSUME CascadeInv,
           \/ SkipTurn
           \/ \E src \in Sources, o \in Outcomes : RefusedTurn(src, o) \/ RunTurn(src, o)
    PROVE  CascadeInv'
  <1> USE DEF CascadeInv
  <1>1. CASE SkipTurn
    <2>1. /\ pc = "refining" /\ pc' = pc /\ left > 0 /\ left' = left - 1
          /\ reseedUsed' = (reseedUsed \/ Reseeding)
          /\ UNCHANGED <<submitted, rejected, nonImprovements, slots, succ>>
      BY <1>1 DEF SkipTurn, TurnLeft, UseTurn
    <2>2. CascadeTypes'
      BY <2>1 DEF CascadeTypes, Reseeding
    <2>3. Remembered' /\ RejectedStayRejected' /\ BudgetOverrunBounded' /\ SlotsCurrent'
      BY <2>1 DEF Remembered, RejectedStayRejected, BudgetOverrunBounded, SlotsCurrent,
                  SlotsRemaining
    <2>4. PlateauHandled'
      BY <2>1 DEF PlateauHandled, Validated
    <2>5. HistoryTypes' /\ IncumbentNearBest'
      BY <1>1 DEF SkipTurn, HistoryTypes, IncumbentNearBest
    <2> QED BY <2>2, <2>3, <2>4, <2>5
  <1>2. ASSUME NEW src \in Sources, NEW o \in Outcomes, RefusedTurn(src, o) \/ RunTurn(src, o)
        PROVE  CascadeInv'
    <2>1. /\ TurnLeft /\ ~Refuses(src) /\ Submit(src, o) /\ UseTurn
          /\ nonImprovements' \in {nonImprovements, 0, nonImprovements + 1}
      BY <1>2 DEF RefusedTurn, RunTurn
    <2>2. /\ pc = "refining" /\ pc' = pc /\ left > 0 /\ left' = left - 1
          /\ reseedUsed' = (reseedUsed \/ Reseeding)
      BY <2>1 DEF TurnLeft, UseTurn
    <2>3. CascadeTypes' /\ Remembered' /\ RejectedStayRejected'
      BY <2>1, <2>2, SubmitStep DEF CascadeTypes, Reseeding
    <2>4. succ \in Nat /\ succ' \in Nat /\ succ' <= MaxCandidates
      BY <2>1, SubmitStep, TurnWithinBudget, CascadeConstants DEF CascadeTypes
    <2>5. BudgetOverrunBounded'
      BY <2>4, CascadeConstants DEF BudgetOverrunBounded
    <2>6. SlotsCurrent'
      <3>1. o.ok => o.ran
        BY DEF Outcomes
      <3>2. slots' # None => slots' = SlotsRemaining(succ)'
        BY <2>1, <2>2, <3>1, SubmitStep DEF SlotsCurrent, SlotsRemaining
      <3>3. slots' = None => succ' < MaxCandidates
        BY <2>1, <2>2, <2>4, <3>1, SubmitStep, SlotsMeaning DEF SlotsCurrent
      <3> QED BY <2>2, <3>2, <3>3 DEF SlotsCurrent
    <2>7. PlateauHandled'
      <3> SUFFICES ASSUME C8, C10, ~reseedUsed', nonImprovements' > PlateauReseed,
                          NEW k \in DOMAIN submitted', Validated(k)'
                   PROVE  k = Len(submitted')
        BY <2>2 DEF PlateauHandled
      <3>1. nonImprovements \in Nat /\ nonImprovements >= PlateauReseed
        BY <2>1, CascadeConstants DEF CascadeTypes
      <3>2. \A j \in DOMAIN submitted : ~Validated(j)
        BY <2>2, <3>1 DEF Reseeding
      <3>3. CASE k \in DOMAIN submitted
        <4>1. submitted'[k] = submitted[k]
          BY <2>1, <3>3, SubmitStep
        <4> QED BY <3>2, <3>3, <4>1 DEF Validated
      <3> QED BY <2>1, <3>3, SubmitStep
    <2>8. HistoryTypes' /\ IncumbentNearBest'
      <3>1. CASE RefusedTurn(src, o)
        BY <2>1, <3>1, SubmitStep, HistoryStays DEF RefusedTurn
      <3>2. CASE RunTurn(src, o)
        BY <3>2, RunTurnStep
      <3> QED BY <1>2, <3>1, <3>2
    <2> QED BY <2>3, <2>5, <2>6, <2>7, <2>8
  <1> QED BY <1>1, <1>2

\* Leaving a run, closing, and continuing with fresh locals.
LEMMA LoopStep ==
    ASSUME CascadeInv, Reflect \/ Raise \/ Close \/ Continue
    PROVE  CascadeInv'
  <1> USE DEF CascadeInv
  <1>1. CASE Reflect \/ Close
    <2>1. /\ pc' \in {"over", "closed"}
          /\ UNCHANGED <<left, submitted, rejected, nonImprovements, reseedUsed, slots, succ,
                         recorded, incumbentSpeedup>>
      BY <1>1 DEF Reflect, Close, localVars
    <2> QED BY <2>1 DEF CascadeTypes, Remembered, SlotsCurrent, PlateauHandled, Validated,
                        RejectedStayRejected, BudgetOverrunBounded, HistoryTypes,
                        IncumbentNearBest
  <1>2. CASE Raise
    <2>1. /\ pc' = "over"
          /\ UNCHANGED <<left, submitted, rejected, nonImprovements, reseedUsed,
                         recorded, incumbentSpeedup>>
          /\ \/ succ' = succ
             \/ succ' = succ + 1 /\ (TurnLeft \/ (pc = "seeding" /\ left > 0))
      BY <1>2 DEF Raise, localVars
    <2>2. BudgetOverrunBounded' /\ succ' \in Nat
      <3>1. CASE succ' = succ
        BY <3>1 DEF BudgetOverrunBounded, CascadeTypes
      <3>2. CASE succ' = succ + 1 /\ TurnLeft
        BY <3>2, TurnWithinBudget, CascadeConstants DEF BudgetOverrunBounded, CascadeTypes
      <3>3. CASE succ' = succ + 1 /\ pc = "seeding" /\ left > 0
        <4>1. C4 /\ succ' <= SeedCount
          BY <3>3, CascadeConstants DEF CascadeTypes, SlotsCurrent
        <4> QED BY <3>3, <4>1, CascadeConstants DEF BudgetOverrunBounded, CascadeTypes
      <3> QED BY <2>1, <3>1, <3>2, <3>3
    <2>3. CascadeTypes' /\ Remembered' /\ RejectedStayRejected'
      BY <2>1, <2>2 DEF CascadeTypes, Remembered, RejectedStayRejected
    <2>4. SlotsCurrent' /\ PlateauHandled'
      BY <2>1 DEF SlotsCurrent, PlateauHandled, Validated
    <2>5. HistoryTypes' /\ IncumbentNearBest'
      BY <2>1 DEF HistoryTypes, IncumbentNearBest
    <2> QED BY <2>2, <2>3, <2>4, <2>5
  <1>3. CASE Continue
    <2>1. /\ pc' = "refining" /\ left' = MaxTurns /\ submitted' = <<>>
          /\ nonImprovements' = 0 /\ reseedUsed' = FALSE /\ slots' = None
          /\ succ' = succ /\ succ < MaxCandidates
          /\ recorded' = {} /\ incumbentSpeedup' = 100
      BY <1>3, CascadeConstants DEF Continue, FreshRun, Stops, CascadeTypes
    <2>a. <<>> \in Seq(Submissions) /\ FALSE \in BOOLEAN
      OBVIOUS
    <2>b. CascadeTypes'
      BY <2>1, <2>a, CascadeConstants DEF CascadeTypes
    <2>2. CascadeTypes' /\ BudgetOverrunBounded'
      BY <2>1, <2>b DEF BudgetOverrunBounded
    <2>3. Remembered' /\ RejectedStayRejected'
      BY <2>1 DEF Remembered, RejectedStayRejected
    <2>4. SlotsCurrent' /\ PlateauHandled'
      BY <2>1, CascadeConstants DEF SlotsCurrent, PlateauHandled
    <2>5. HistoryTypes' /\ IncumbentNearBest'
      BY <2>1 DEF HistoryTypes, IncumbentNearBest
    <2> QED BY <2>2, <2>3, <2>4, <2>5
  <1> QED BY <1>1, <1>2, <1>3

\* Nothing has been submitted at the start.
LEMMA CascadeInit == Init => CascadeInv
  <1> SUFFICES ASSUME Init PROVE CascadeInv
    OBVIOUS
  <1>1. /\ pc \in {"seeding", "refining"} /\ (pc = "seeding" => C4)
        /\ left = (IF C4 THEN SeedCount ELSE MaxTurns) /\ succ = 0
        /\ submitted = <<>> /\ nonImprovements = 0 /\ reseedUsed = FALSE /\ slots = None
        /\ recorded = {} /\ incumbentSpeedup = 100
    BY DEF Init, FreshRun
  <1>2. CascadeTypes
    <2>1. <<>> \in Seq(Submissions)
      OBVIOUS
    <2>2. left \in Nat
      BY <1>1, CascadeConstants
    <2> QED BY <1>1, <2>1, <2>2 DEF CascadeTypes
  <1>3. Remembered /\ RejectedStayRejected
    BY <1>1 DEF Remembered, RejectedStayRejected
  <1>4. SlotsCurrent /\ PlateauHandled
    BY <1>1, CascadeConstants DEF SlotsCurrent, PlateauHandled
  <1>5. BudgetOverrunBounded
    BY <1>1, CascadeConstants DEF BudgetOverrunBounded
  <1>6. HistoryTypes /\ IncumbentNearBest
    BY <1>1 DEF HistoryTypes, IncumbentNearBest
  <1> QED BY <1>2, <1>3, <1>4, <1>5, <1>6 DEF CascadeInv

-----------------------------------------------------------------------------
\* The invariant is inductive.
THEOREM CascadeInvariance == Spec => []CascadeInv
  <1>1. CascadeInv /\ [Next]_vars => CascadeInv'
    <2> SUFFICES ASSUME CascadeInv, [Next]_vars PROVE CascadeInv'
      OBVIOUS
    <2>1. CASE Next
      BY <2>1, SeedStep, JudgeStep, TurnStep, LoopStep DEF Next
    <2>2. CASE UNCHANGED vars
      BY <2>2 DEF vars, localVars, CascadeInv, CascadeTypes, Remembered, SlotsCurrent,
                  SlotsRemaining, PlateauHandled, Validated, RejectedStayRejected,
                  BudgetOverrunBounded, HistoryTypes, IncumbentNearBest
    <2> QED BY <2>1, <2>2
  <1> QED BY <1>1, CascadeInit, PTL DEF Spec

\* Nothing rejected in a run is submitted again in it, whatever the codec takes
\* for the same candidate (cascade.py:521-543, 654-682).
THEOREM RejectionsLast == Spec => []RejectedStayRejected
  <1>1. CascadeInv => RejectedStayRejected
    BY DEF CascadeInv
  <1> QED BY <1>1, CascadeInvariance, PTL

\* The budget is exceeded by the seed round at most, for any number of turns and
\* continuations (cascade.py:513-543, 587-589).
THEOREM OverrunIsBounded == Spec => []BudgetOverrunBounded
  <1>1. CascadeInv => BudgetOverrunBounded
    BY DEF CascadeInv
  <1> QED BY <1>1, CascadeInvariance, PTL

\* The incumbent is never more than the deadband behind the best candidate of
\* the history, whatever the judge admits and however many wins are reverted
\* (cascade.py:574-585, 685-706).
THEOREM WinsDoNotAddUp == Spec => []IncumbentNearBest
  <1>1. CascadeInv => IncumbentNearBest
    BY DEF CascadeInv
  <1> QED BY <1>1, CascadeInvariance, PTL

\* No run stops early on a plateau without the re-seed it could have had
\* (cascade.py:590-610).
THEOREM ReseedComesFirst == Spec => []EarlyStopAfterReseed
  <1>1. CascadeInv => EarlyStopAfterReseed
    BY CascadeConstants DEF CascadeInv, CascadeTypes, PlateauHandled, EarlyStopAfterReseed,
                            ShouldStop
  <1> QED BY <1>1, CascadeInvariance, PTL
=============================================================================
