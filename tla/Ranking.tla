------------------------------ MODULE Ranking ------------------------------
(***************************************************************************)
(* What is told about the candidates of a session: the leaderboard, the    *)
(* places that name a best candidate (the result of the Python API, the    *)
(* row of the grid driver, the run loop's snapshot, a batch's answer, the  *)
(* run list of the UI), each with a test and an order of its own, the      *)
(* counts of the grid's row, and the multi-objective tools.  All of it is  *)
(* computed from the candidates' records, which change one run at a time.  *)
(***************************************************************************)
EXTENDS Integers, Sequences, FiniteSets, FiniteSetsExt, SequencesExt

CONSTANTS
    Outcomes,       \* the records a run can leave: compile and correct (ok,
                    \* bad, none), gates (ok, bad, none), median, objectives
    Baseline,       \* the baseline's median time
    Metrics,        \* the axes of the objectives
    GoalOf,         \* min or max for each
    MaxRecorded,    \* bound
    Unmeasured      \* no median, no value

\* A candidate is timed after it compiled, which it does not when a gate refuses
\* it, and only one that was compiled has verdicts.
RunRecord(o) ==
    /\ o.compile \in {"ok", "bad", "none"} /\ o.gates \in {"ok", "bad", "none"}
    /\ o.median \in Nat \cup {Unmeasured}
    /\ o.median # Unmeasured => o.compile = "ok" /\ o.gates # "bad"
    /\ o.compile = "none" => o.gates = "none"
    /\ DOMAIN o.objectives \subseteq Metrics
    /\ \A m \in DOMAIN o.objectives : o.objectives[m] \in Int

ASSUME RankingAssumption ==
    /\ \A o \in Outcomes : RunRecord(o)
    /\ GoalOf \in [Metrics -> {"min", "max"}]
    /\ MaxRecorded \in Nat /\ Baseline \in Nat /\ Unmeasured \notin Int

VARIABLE candidates     \* their records, in the order of registration

rankingVars == <<candidates>>

RankingInit == candidates = << >>

Record ==
    /\ Len(candidates) < MaxRecorded
    /\ \E outcome \in Outcomes : candidates' = Append(candidates, outcome)

\* A candidate is run once more: its record is replaced where it is.
RunAgain ==
    \E i \in DOMAIN candidates, outcome \in Outcomes :
        candidates' = [candidates EXCEPT ![i] = outcome]

RankingNext == Record \/ RunAgain

RankingSpec == RankingInit /\ [][RankingNext]_rankingVars

Ids == DOMAIN candidates

-----------------------------------------------------------------------------
(* The leaderboard and the winner.  A speedup is the baseline's median over *)
(* the candidate's: it is above 1 when the median is below the baseline's,  *)
(* and the highest speedup is the lowest median.                            *)

Timed(i) == candidates[i].median # Unmeasured

\* A stable sort: i goes before j.
Before(i, j) ==
    \/ Timed(i) /\ ~Timed(j)
    \/ Timed(i) /\ Timed(j) /\ candidates[i].median < candidates[j].median
    \/ Timed(i) = Timed(j) /\ (Timed(i) => candidates[i].median = candidates[j].median) /\ i < j

\* build_leaderboard without its baseline row: how many rows go before each.
Leaderboard == [i \in Ids |-> Cardinality({j \in Ids : Before(j, i)})]

\* Without a median, or with one of 0, no speedup is computed.
HasSpeedup(i) == Timed(i) /\ candidates[i].median # 0 /\ Baseline # 0

Faster(i) == HasSpeedup(i) /\ candidates[i].median < Baseline

\* A check that raised, or that was never made, is not held against it.
NotWrong(i) == candidates[i].correct # "bad"

\* Of some candidates the one with the highest speedup, of several the one with
\* the first place.
Fastest(S, place) ==
    IF S = {} THEN Unmeasured
    ELSE CHOOSE i \in S : \A j \in S :
           \/ candidates[i].median < candidates[j].median
           \/ candidates[i].median = candidates[j].median /\ place[i] <= place[j]

InOrderOfRegistration == [i \in Ids |-> i]

\* The orders in which some candidates can be run.
Orders(S) ==
    {place \in [S -> 1..Cardinality(S)] : \A i, j \in S : place[i] = place[j] => i = j}

\* What run_candidates calls the best of a batch: best_validated_candidate over
\* the results of the candidates S, in the order the caller names them.
BatchBest(S, place) ==
    Fastest({i \in S : candidates[i].compile = "ok" /\ Faster(i) /\ NotWrong(i)}, place)

\* _best_speedup of the run loop: whether it is faster or compiled is not asked.
BestSoFar == Fastest({i \in Ids : HasSpeedup(i) /\ NotWrong(i)}, InOrderOfRegistration)

\* What the UI's run list takes for the best: the leaderboard's first candidate,
\* whatever its verdict.
ListedBest == IF Ids = {} THEN Unmeasured ELSE CHOOSE i \in Ids : Leaderboard[i] = 0

\* Mutant: the result of the Python API is the first candidate too.
SelectFirst == ListedBest

\* _select_best of the Python API: from the rows of the leaderboard.
SelectBest == Fastest({i \in Ids : Faster(i) /\ NotWrong(i)}, Leaderboard)

\* _best_validated of the grid driver: from its own rows.
BestRow == Fastest({i \in Ids : Faster(i) /\ NotWrong(i)}, InOrderOfRegistration)

\* The budget ledger of run_cell: E and V.
Ran == {i \in Ids : candidates[i].compile # "none"}
TimedEvals == {i \in Ran : Timed(i)}
ValidationOnly == Ran \ TimedEvals

\* _gate_summary: a failing gate counts before the compile verdict does.
GateFailing == {i \in Ids : candidates[i].gates = "bad"}
GatePassing == {i \in Ids \ GateFailing : candidates[i].compile = "ok"}
CompileFailed == {i \in Ids \ GateFailing : candidates[i].compile = "bad"}

-----------------------------------------------------------------------------
(* The multi-objective tools. *)

\* _objective_rows: the candidates with any objective.
Scored == {i \in Ids : DOMAIN candidates[i].objectives # {}}

\* _common_metrics: every metric some row scores on.
CommonMetrics == UNION {DOMAIN candidates[i].objectives : i \in Scored}

Value(i, m) ==
    IF m \in DOMAIN candidates[i].objectives THEN candidates[i].objectives[m] ELSE Unmeasured

Better(x, y, m) == IF GoalOf[m] = "max" THEN x > y ELSE x < y

\* Mutant: a row that is as good on every metric dominates.
DominatesWeakly(a, b) ==
    \A m \in CommonMetrics :
        /\ Value(a, m) # Unmeasured /\ Value(b, m) # Unmeasured
        /\ ~Better(Value(b, m), Value(a, m), m)

\* _dominates: no worse on every metric and better on one; nothing is said of
\* a row that misses a metric.
Dominates(a, b) ==
    /\ \A m \in CommonMetrics :
         /\ Value(a, m) # Unmeasured /\ Value(b, m) # Unmeasured
         /\ ~Better(Value(b, m), Value(a, m), m)
    /\ \E m \in CommonMetrics : Better(Value(a, m), Value(b, m), m)

DominationCount(i) == Cardinality({j \in Scored \ {i} : Dominates(j, i)})

ParetoFront == {i \in Scored : \A j \in Scored \ {i} : ~Dominates(j, i)}

Having(m) == {i \in Scored : Value(i, m) # Unmeasured}

\* rank_by_metric: the rank is one more than the number of better values.
Rank(i, m) ==
    IF i \in Having(m)
    THEN 1 + Cardinality({j \in Having(m) : Better(Value(j, m), Value(i, m), m)})
    ELSE Unmeasured

\* The first of the rows that no row beats on a metric.
BestOn(m) ==
    CHOOSE i \in Having(m) : \A j \in Having(m) :
        ~Better(Value(j, m), Value(i, m), m) /\ (Value(j, m) = Value(i, m) => i <= j)

\* The first of the rows that beat none.
WorstOn(m) ==
    CHOOSE i \in Having(m) : \A j \in Having(m) :
        ~Better(Value(i, m), Value(j, m), m) /\ (Value(j, m) = Value(i, m) => i <= j)

\* Twice the median of the values.
TwiceMedian(m) ==
    LET values == [k \in 1..Cardinality(Having(m)) |-> Value(SetToSortSeq(Having(m), <)[k], m)]
        sorted == SortSeq(values, <)
        n == Len(sorted)
    IN  IF n % 2 = 1 THEN 2 * sorted[(n \div 2) + 1]
        ELSE sorted[n \div 2] + sorted[(n \div 2) + 1]

\* metric_summary
Summary(m) ==
    [best |-> BestOn(m), worst |-> WorstOn(m), median2 |-> TwiceMedian(m),
     count |-> Cardinality(Having(m))]

-----------------------------------------------------------------------------
(* Properties *)

\* Where the five places agree, and where they do not.  The result of the API
\* and the row of the grid name the same winner, with a speedup above 1, timed,
\* and refused by no gate.
OneWinner ==
    /\ SelectBest = BestRow
    /\ BestRow # Unmeasured => BestRow \in TimedEvals \cap GatePassing

\* The run loop's best is that winner, or no candidate with a speedup above 1
\* (completion.py:36-37 says "None when no validated win").
LoopKnowsWinner ==
    IF BestRow # Unmeasured THEN BestSoFar = BestRow
    ELSE BestSoFar # Unmeasured => ~Faster(BestSoFar)

\* No batch answers with a candidate that beats the winner, and one that runs the
\* winner answers with its speedup, in whichever order it runs the candidates.
BatchesKnowWinner ==
    \A S \in SUBSET Ids : \A place \in Orders(S) : LET best == BatchBest(S, place) IN
        /\ best # Unmeasured =>
             /\ best \in S /\ BestRow # Unmeasured
             /\ candidates[BestRow].median <= candidates[best].median
        /\ BestRow \in S =>
             best # Unmeasured /\ candidates[best].median = candidates[BestRow].median

\* The run list shows a winner's speedup, unless its first candidate is wrong or
\* has none; then that candidate is no slower.
ListKnowsWinner ==
    BestRow # Unmeasured =>
        /\ Timed(ListedBest) /\ candidates[ListedBest].median <= candidates[BestRow].median
        /\ HasSpeedup(ListedBest) /\ NotWrong(ListedBest) => ListedBest = BestRow

\* And the counts of the grid's row account for every run, each once.
RunsCounted ==
    Cardinality(GatePassing) + Cardinality(GateFailing) + Cardinality(CompileFailed)
        = Cardinality(TimedEvals) + Cardinality(ValidationOnly)

WinnersAgree ==
    OneWinner /\ LoopKnowsWinner /\ BatchesKnowWinner /\ ListKnowsWinner /\ RunsCounted

\* What an agent that follows the tools relies on: for every metric a row with
\* the best value of the summary is on the Pareto front and has rank 1, and a
\* row off the front is dominated by one on it.  With ties, opposite goals and
\* missing values: rows that miss a metric are neither dominated nor dominate,
\* and stay on the front, against its docstring (multi_objective.py:178-179,
\* "Rows missing any of the common metrics are skipped").  Of the ranks after a
\* tie nothing is said: they leave numbers out, against 97 ("dense ranking").
FrontHoldsTheBest ==
    /\ \A m \in CommonMetrics : Having(m) # {} =>
         \E i \in ParetoFront :
            Value(i, m) = Value(Summary(m).best, m) /\ Rank(i, m) = 1
    /\ \A i \in Scored \ ParetoFront :
         DominationCount(i) > 0 /\ \E j \in ParetoFront : Dominates(j, i)

=============================================================================
