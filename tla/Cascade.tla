------------------------------ MODULE Cascade ------------------------------
(***************************************************************************)
(* The composite harness (archetype_harnesses/cascade.py) under the loop   *)
(* that restarts it: a round of parallel seeds, a judge that admits some   *)
(* of them, then serial refinement with a novelty filter, a keep/revert    *)
(* deadband, one contrastive re-seed on a plateau and an early stop.       *)
(*                                                                         *)
(* The protocol dispatches its tools one at a time, so propose_candidate   *)
(* and run_candidate of a submission are one step here, with the counters  *)
(* they move in the session.  A generation is any text: one without a      *)
(* candidate, or any source.  What a source measures may differ from one   *)
(* submission to the next.                                                 *)
(***************************************************************************)
EXTENDS Integers, Sequences, FiniteSets, SequencesExt

CONSTANTS
    Sources,           \* candidates the model can write
    Form,              \* codec.normalize, as a function of the source
    Speedups,          \* measured speedups, in hundredths
    MaxCandidates,     \* max_candidates of the session
    MaxFailedAttempts, \* its failure cap
    MaxContinuations,  \* continuations run_session grants
    SeedCount,         \* seed_count
    JudgeTopM,         \* judge_top_m
    DeadbandPct,       \* deadband_pct
    PlateauReseed,     \* plateau_reseed
    PlateauStop,       \* plateau_stop
    MaxTurns,          \* max_turns
    C4, C5, C7, C8, C10,  \* toggles: seeds, judge, novelty, deadband, re-seed
    None               \* Python's None

ASSUME CascadeConstants ==
    /\ DOMAIN Form = Sources
    /\ Speedups \subseteq Nat
    /\ MaxCandidates \in Nat \ {0} /\ MaxFailedAttempts \in Nat \ {0}
    /\ MaxContinuations \in Nat /\ SeedCount \in Nat /\ JudgeTopM \in Nat
    /\ DeadbandPct \in Nat /\ MaxTurns \in Nat
    /\ PlateauReseed \in Nat \ {0} /\ PlateauStop \in Nat
    /\ PlateauReseed < PlateauStop
    /\ {C4, C5, C7, C8, C10} \subseteq BOOLEAN
    /\ None \notin Nat

VARIABLES
    pc,          \* "seeding", "refining", "over" or "closed"
    crashed,     \* the run ended in RUN_FAILED
    iteration,   \* of run_session's loop
    left,        \* seeds, then turns, not used yet
    submitted,   \* submissions of this harness run; those that ran are the archive
    rejected,    \* rejected_normalized
    recorded,    \* submissions in history
    incumbent,   \* the submission to beat
    incumbentSpeedup,
    nonImprovements, reseedUsed,   \* the DeadbandController
    slots,       \* slots_remaining as the last result reported it
    succ, failed \* the session's counters

localVars == <<submitted, rejected, recorded, incumbent, incumbentSpeedup,
               nonImprovements, reseedUsed, slots>>
vars == <<pc, crashed, iteration, left, localVars, succ, failed>>

Optional(S) == S \cup {None}

Forms == {Form[s] : s \in Sources}

\* How a submission ends: refused by a ValueError, run without being counted a
\* success (with a speedup if it was timed and found to drift), or a success
\* (without a speedup if baseline or median is 0, or on other objectives).
Outcomes ==
    {o \in [ran : BOOLEAN, ok : BOOLEAN, speedup : Optional(Speedups)] :
        ~o.ran => ~o.ok /\ o.speedup = None}

\* ArchiveEntry.validated: timed, and correctness_ok is not False.
Validated(k) == submitted[k].ok /\ submitted[k].speedup # None

SlotsRemaining(n) == IF n < MaxCandidates THEN MaxCandidates - n ELSE 0

-----------------------------------------------------------------------------
\* The locals of _run_protocol.
FreshRun ==
    [submitted |-> <<>>, rejected |-> {}, recorded |-> {}, incumbent |-> None,
     incumbentSpeedup |-> 100, nonImprovements |-> 0, reseedUsed |-> FALSE,
     slots |-> None]

Init ==
    /\ pc = IF C4 THEN "seeding" ELSE "refining"
    /\ crashed = FALSE
    /\ iteration = 0
    /\ left = IF C4 THEN SeedCount ELSE MaxTurns
    /\ submitted = FreshRun.submitted /\ rejected = FreshRun.rejected
    /\ recorded = FreshRun.recorded /\ incumbent = FreshRun.incumbent
    /\ incumbentSpeedup = FreshRun.incumbentSpeedup
    /\ nonImprovements = FreshRun.nonImprovements
    /\ reseedUsed = FreshRun.reseedUsed /\ slots = FreshRun.slots
    /\ succ = 0 /\ failed = 0

\* C7: the candidate was rejected before in this run.
Refuses(src) == C7 /\ Form[src] \in rejected

\* Mutant: what propose_candidate rejects is not remembered.
SubmitForgetsRefusals(src, o) ==
    /\ submitted' = Append(submitted, [form |-> Form[src], ran |-> o.ran,
                                       ok |-> o.ok, speedup |-> o.speedup])
    /\ rejected' = IF o.ok \/ ~o.ran THEN rejected ELSE rejected \cup {Form[src]}
    /\ succ' = IF o.ok THEN succ + 1 ELSE succ
    /\ failed' = IF o.ran /\ ~o.ok THEN failed + 1 ELSE failed
    /\ slots' = IF o.ran THEN SlotsRemaining(succ') ELSE slots

\* _submit_candidate and the bookkeeping both rounds do with its result.
Submit(src, o) ==
    /\ submitted' = Append(submitted, [form |-> Form[src], ran |-> o.ran,
                                       ok |-> o.ok, speedup |-> o.speedup])
    /\ rejected' = IF o.ok THEN rejected ELSE rejected \cup {Form[src]}
    /\ succ' = IF o.ok THEN succ + 1 ELSE succ
    /\ failed' = IF o.ran /\ ~o.ok THEN failed + 1 ELSE failed
    /\ slots' = IF o.ran THEN SlotsRemaining(succ') ELSE slots

-----------------------------------------------------------------------------
(* C4: the seed round.  The samples were generated together; they are       *)
(* submitted one by one, whatever is left of the budget.                    *)

\* No candidate in the text, or one the novelty filter refuses.
SkipSeed ==
    /\ pc = "seeding" /\ left > 0
    /\ left' = left - 1
    /\ UNCHANGED <<pc, crashed, iteration, localVars, succ, failed>>

SubmitSeed(src, o) ==
    /\ pc = "seeding" /\ left > 0
    /\ ~Refuses(src)
    /\ Submit(src, o)
    /\ left' = left - 1
    /\ UNCHANGED <<pc, crashed, iteration, recorded, incumbent, incumbentSpeedup,
                   nonImprovements, reseedUsed>>

Successes == {k \in DOMAIN submitted : submitted[k].ok}

\* parse_judge_ranking, as a function from positions: the ids the judge named
\* that exist, repetitions included, then the others in order.
Ranking(parsed, ids) ==
    LET named == {i \in DOMAIN parsed : parsed[i] \in ids}
        others == {Len(parsed) + k : k \in ids \ ToSet(parsed)}
    IN  [p \in named \cup others |->
            IF p \in named THEN parsed[p] ELSE p - Len(parsed)]

\* The first m of a ranking.
Top(ranking, m) ==
    [p \in {p \in DOMAIN ranking : Cardinality({q \in DOMAIN ranking : q < p}) < m} |->
        ranking[p]]

\* C5: what is admitted to the timing history.  The judge's answer is any list,
\* repetitions included; without C5, or with one candidate, all are admitted.
Eligible(parsed) ==
    IF C5 /\ Cardinality(Successes) > 1
    THEN Top(Ranking(parsed, Successes), JudgeTopM)
    ELSE [k \in Successes |-> k]

First(S) == CHOOSE i \in S : \A j \in S : i <= j

\* Mutant: the judge's favourite becomes the incumbent.
BestOfFavourite(eligible) ==
    LET favourite == eligible[First(DOMAIN eligible)] IN
    IF DOMAIN eligible # {} /\ submitted[favourite].speedup \in Nat
       /\ submitted[favourite].speedup > 100
    THEN favourite ELSE None

\* The first of the fastest admitted seeds, if it beats the reference.
BestOf(eligible) ==
    LET Beats(i) == /\ submitted[eligible[i]].speedup # None
                    /\ submitted[eligible[i]].speedup > 100
        fastest == {i \in DOMAIN eligible :
                      /\ Beats(i)
                      /\ \A j \in DOMAIN eligible : Beats(j) =>
                           submitted[eligible[j]].speedup <= submitted[eligible[i]].speedup}
    IN  IF fastest = {} THEN None ELSE eligible[First(fastest)]

Judge(parsed) ==
    LET eligible == Eligible(parsed)
        best == BestOf(eligible)
    IN
    /\ pc = "seeding" /\ left = 0
    /\ recorded' = ToSet(eligible)
    /\ incumbent' = best
    /\ incumbentSpeedup' = IF best = None THEN 100 ELSE submitted[best].speedup
    /\ pc' = "refining"
    /\ left' = MaxTurns
    /\ UNCHANGED <<crashed, iteration, submitted, rejected, nonImprovements,
                   reseedUsed, slots, succ, failed>>

-----------------------------------------------------------------------------
(* The serial refinement loop. *)

ShouldStop == C8 /\ nonImprovements >= PlateauStop

\* Mutant: slots_remaining is not looked at.
TurnLeftUnbudgeted == pc = "refining" /\ left > 0 /\ ~ShouldStop

\* A turn begins: range(max_turns) and the two breaks at its top.
TurnLeft == pc = "refining" /\ left > 0 /\ slots # 0 /\ ~ShouldStop

\* Mutant: the plateau has to be exceeded.
ReseedingLate ==
    /\ C8 /\ C10 /\ ~reseedUsed
    /\ nonImprovements > PlateauReseed
    /\ \E k \in DOMAIN submitted : Validated(k)

\* C10: the plateau is reached and the archive has a parent.
Reseeding ==
    /\ C8 /\ C10 /\ ~reseedUsed
    /\ nonImprovements >= PlateauReseed
    /\ \E k \in DOMAIN submitted : Validated(k)

\* Every turn counts, and one that re-seeds uses the re-seed up.
UseTurn ==
    /\ left' = left - 1
    /\ reseedUsed' = (reseedUsed \/ Reseeding)
    /\ UNCHANGED <<pc, crashed, iteration>>

\* No candidate in the text, or one the novelty filter refuses.
SkipTurn ==
    /\ TurnLeft
    /\ UseTurn
    /\ UNCHANGED <<submitted, rejected, recorded, incumbent, incumbentSpeedup,
                   nonImprovements, slots, succ, failed>>

\* propose_candidate or run_candidate answers with an error: a non-improvement.
RefusedTurn(src, o) ==
    /\ TurnLeft
    /\ ~Refuses(src) /\ ~o.ran
    /\ Submit(src, o)
    /\ UseTurn
    /\ nonImprovements' = IF C8 THEN nonImprovements + 1 ELSE nonImprovements
    /\ UNCHANGED <<recorded, incumbent, incumbentSpeedup>>

\* C8: only more than the deadband over the incumbent is kept.
Improves(o) ==
    /\ o.ok /\ o.speedup # None
    /\ 100 * o.speedup > (IF C8 THEN 100 + DeadbandPct ELSE 100) * incumbentSpeedup

\* The candidate ran.  `successful and deadband.consider(...)' evaluates its
\* second part for a success only.
RunTurn(src, o) ==
    LET k == Len(submitted) + 1 IN
    /\ TurnLeft
    /\ ~Refuses(src) /\ o.ran
    /\ Submit(src, o)
    /\ UseTurn
    /\ nonImprovements' = IF ~C8 \/ ~o.ok THEN nonImprovements
                          ELSE IF Improves(o) THEN 0 ELSE nonImprovements + 1
    /\ recorded' = IF o.ok THEN recorded \cup {k} ELSE recorded
    /\ IF Improves(o)
       THEN incumbent' = k /\ incumbentSpeedup' = o.speedup
       ELSE UNCHANGED <<incumbent, incumbentSpeedup>>

\* The loop is left: both reflection tools, then RUN_FINISHED.
Reflect ==
    /\ pc = "refining" /\ ~TurnLeft
    /\ pc' = "over"
    /\ UNCHANGED <<crashed, iteration, left, localVars, succ, failed>>

\* A generation, a tool, a sandbox or a sink raises: RUN_FAILED.  A run in
\* progress may have been counted.
Raise ==
    LET submitting == TurnLeft \/ (pc = "seeding" /\ left > 0) IN
    /\ pc \in {"seeding", "refining"}
    /\ pc' = "over"
    /\ crashed' = TRUE
    /\ \/ UNCHANGED <<succ, failed>>
       \/ submitting /\ succ' = succ + 1 /\ UNCHANGED failed
       \/ submitting /\ failed' = failed + 1 /\ UNCHANGED succ
    /\ UNCHANGED <<iteration, left, localVars>>

-----------------------------------------------------------------------------
(* run_session after the stream has ended. *)

Stops ==
    \/ crashed
    \/ failed >= MaxFailedAttempts
    \/ succ >= MaxCandidates
    \/ iteration >= MaxContinuations

Close ==
    /\ pc = "over" /\ Stops
    /\ pc' = "closed"
    /\ UNCHANGED <<crashed, iteration, left, localVars, succ, failed>>

\* Mutant: continuations are not counted.
ContinueUncounted ==
    /\ pc = "over" /\ ~Stops
    /\ pc' = "refining"
    /\ left' = MaxTurns
    /\ submitted' = FreshRun.submitted /\ rejected' = FreshRun.rejected
    /\ recorded' = FreshRun.recorded /\ incumbent' = FreshRun.incumbent
    /\ incumbentSpeedup' = FreshRun.incumbentSpeedup
    /\ nonImprovements' = FreshRun.nonImprovements
    /\ reseedUsed' = FreshRun.reseedUsed /\ slots' = FreshRun.slots
    /\ UNCHANGED <<crashed, iteration, succ, failed>>

\* build_continuation_request: fresh locals, no seed round.
Continue ==
    /\ pc = "over" /\ ~Stops
    /\ pc' = "refining"
    /\ iteration' = iteration + 1
    /\ left' = MaxTurns
    /\ submitted' = FreshRun.submitted /\ rejected' = FreshRun.rejected
    /\ recorded' = FreshRun.recorded /\ incumbent' = FreshRun.incumbent
    /\ incumbentSpeedup' = FreshRun.incumbentSpeedup
    /\ nonImprovements' = FreshRun.nonImprovements
    /\ reseedUsed' = FreshRun.reseedUsed /\ slots' = FreshRun.slots
    /\ UNCHANGED <<crashed, succ, failed>>

\* Answers of a judge: lists of ids, some of them unknown or repeated.  Only the
\* first JudgeTopM known ones matter.
JudgeAnswers == UNION {[1..n -> DOMAIN submitted] : n \in 0..JudgeTopM}

Next ==
    \/ SkipSeed
    \/ \E src \in Sources, o \in Outcomes :
         SubmitSeed(src, o) \/ RefusedTurn(src, o) \/ RunTurn(src, o)
    \/ \E parsed \in JudgeAnswers : Judge(parsed)
    \/ SkipTurn \/ Reflect \/ Raise
    \/ Close \/ Continue

\* Generations and tools return or raise, and run_session goes on.
Spec == Init /\ [][Next]_vars /\ WF_vars(Next)
-----------------------------------------------------------------------------
(* Properties. *)

\* C7: whatever was rejected in a run, by a tool error, by a gate or by drift, is
\* never submitted again in that run, in either round and however it is
\* reworded (cascade.py:521-543, 654-682).
RejectedStayRejected ==
    C7 => \A i, j \in DOMAIN submitted :
            i < j /\ ~submitted[i].ok => submitted[j].form # submitted[i].form

\* The incumbent the prompts and the row report is never more than the deadband
\* behind the best candidate of the run's history: reverted wins do not add up
\* (cascade.py:574-585, 685-706).
IncumbentNearBest ==
    \A k \in recorded : submitted[k].speedup # None =>
        100 * submitted[k].speedup
            <= (IF C8 THEN 100 + DeadbandPct ELSE 100) * incumbentSpeedup

\* A run that stops early on a plateau has had its re-seed, unless nothing had
\* validated before its last submission (cascade.py:590-610).
EarlyStopAfterReseed ==
    (pc \in {"over", "closed"} /\ ~crashed /\ C10 /\ ShouldStop) =>
        reseedUsed \/ \A k \in DOMAIN submitted : Validated(k) => k = Len(submitted)

\* Only the seed round, which does not look at slots_remaining, can exceed the
\* budget, and by no more than its size; refinement and continuations never do
\* (cascade.py:513-543, 587-589).
BudgetOverrunBounded == succ <= IF C4 /\ SeedCount > MaxCandidates THEN SeedCount ELSE MaxCandidates

\* The harness and its continuations end, whatever the model writes.
CascadeEnds == <>(pc = "closed")
=============================================================================
