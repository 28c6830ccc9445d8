----------------------------- MODULE Archetypes -----------------------------
(***************************************************************************)
(* The five plain archetype harnesses (archetype_harnesses/harness.py,     *)
(* evolution.py, bandit.py, profiler_ma.py) under the loop that restarts   *)
(* them.  They share their plumbing and differ in how generations become   *)
(* submissions and in what they remember:                                  *)
(*                                                                         *)
(*   "sr"    one chain of refinements                                      *)
(*   "bon"   independent samples, gathered first, submitted in order       *)
(*   "evo"   a gathered seed population, then generations of two children  *)
(*   "band"  a UCB1 bandit over strategy arms, with an incumbent           *)
(*   "ma"    Coder and Judge, with an incumbent                            *)
(*                                                                         *)
(* A submission (propose_candidate, then run_candidate) is one step with   *)
(* the session counters it moves, since a harness dispatches one tool at a *)
(* time.  Prompts are left out, and so are the Judge's answer and the      *)
(* profile, which only go into prompts.                                    *)
(***************************************************************************)
EXTENDS Integers, FiniteSets, FiniteSetsExt, Functions

CONSTANTS
    Kinds,             \* archetypes considered
    Speedups,          \* measured speedups, in hundredths
    MaxCandidates,     \* max_candidates of the session
    MaxFailedAttempts, \* its failure cap
    MaxContinuations,  \* continuations run_session grants
    MaxTurns,          \* max_turns
    DefaultN,          \* _DEFAULT_BEST_OF_N and _DEFAULT_POPULATION
    Arms,              \* number of strategy arms
    None               \* Python's None

ASSUME ArchetypeConstants ==
    /\ Kinds \subseteq {"sr", "bon", "evo", "band", "ma"}
    /\ Speedups \subseteq Nat \ {0}
    /\ MaxCandidates \in Nat \ {0} /\ MaxFailedAttempts \in Nat \ {0}
    /\ MaxContinuations \in Nat /\ MaxTurns \in Nat
    /\ DefaultN \in Nat \ {0} /\ Arms \in Nat \ {0, 1}
    /\ None \notin Nat

VARIABLES
    kind,       \* the archetype of this session
    told,       \* the request carries max_candidates in its extra
    pc,         \* "context", "seeding", "turns", "over" or "closed"
    crashed,    \* the run ended in RUN_FAILED
    iteration,  \* of run_session's loop
    left,       \* samples to submit, then turns, pulls or generations
    children,   \* children of this generation still to be generated
    slots,      \* slots_remaining as the last result reported it
    seen,       \* speedups of the successes of this harness run
    hasIncumbent, incumbentSpeedup,
    pulls, rewards,    \* per arm
    succ, failed       \* the session's counters

locals == <<children, slots, seen, hasIncumbent, incumbentSpeedup, pulls, rewards>>
archetypesVars == <<kind, told, pc, crashed, iteration, left, locals, succ, failed>>

Optional(S) == S \cup {None}
ArmIds == 1..Arms
Lesser(a, b) == IF a < b THEN a ELSE b

\* How a submission ends: refused by a ValueError, run without being counted a
\* success, or a success, with a speedup or (baseline or median 0) without.
Outcomes ==
    {o \in [ran : BOOLEAN, ok : BOOLEAN, speedup : Optional(Speedups)] :
        /\ ~o.ran => ~o.ok
        /\ ~o.ok => o.speedup = None}

SlotsRemaining(n) == IF n < MaxCandidates THEN MaxCandidates - n ELSE 0

-----------------------------------------------------------------------------
\* The locals of _run_protocol.
NoPulls == [a \in ArmIds |-> 0]

ForgetLocals ==
    /\ children' = 0 /\ slots' = None /\ seen' = {}
    /\ hasIncumbent' = FALSE /\ incumbentSpeedup' = 100
    /\ pulls' = NoPulls /\ rewards' = NoPulls

ArchetypesInit ==
    /\ kind \in Kinds /\ told \in BOOLEAN
    /\ pc = "context" /\ crashed = FALSE
    /\ iteration = 0 /\ left = 0
    /\ children = 0 /\ slots = None /\ seen = {}
    /\ hasIncumbent = FALSE /\ incumbentSpeedup = 100
    /\ pulls = NoPulls /\ rewards = NoPulls
    /\ succ = 0 /\ failed = 0

\* extra["max_candidates"]: the session's, the default, or what a continuation
\* says is left.
Asked == IF iteration > 0 THEN SlotsRemaining(succ)
         ELSE IF told THEN MaxCandidates ELSE DefaultN

\* Mutant: a continuation seeds a full population again.
SamplesUnadjusted == IF kind = "bon" THEN Asked ELSE DefaultN

\* Samples gathered before anything is submitted: N of best-of-N, the
\* population of evolution.
Samples == IF kind = "bon" THEN Asked ELSE Lesser(DefaultN, Asked)

\* _load_task_context, then the gathered generations of bon and evo.
LoadContext ==
    /\ pc = "context"
    /\ IF kind \in {"bon", "evo"}
       THEN pc' = "seeding" /\ left' = Samples
       ELSE pc' = "turns" /\ left' = MaxTurns
    /\ UNCHANGED <<kind, told, crashed, iteration, locals, succ, failed>>

-----------------------------------------------------------------------------
(* Generations. *)

\* A generation is due: a gathered sample, a child, or a turn.
Due ==
    \/ pc = "seeding" /\ left > 0
    \/ pc = "turns" /\ kind = "evo" /\ children > 0 /\ slots # 0
    \/ pc = "turns" /\ kind # "evo" /\ left > 0 /\ slots # 0

Consume ==
    IF pc = "turns" /\ kind = "evo"
    THEN children' = children - 1 /\ UNCHANGED left
    ELSE left' = left - 1 /\ UNCHANGED children

\* ucb1_select: an arm never pulled first, in index order; then the largest
\* mean + c * sqrt(ln N / n).  Without the arithmetic: no arm is chosen that
\* another one equals or beats in both its mean and its bonus.
Selectable(a) ==
    IF \E b \in ArmIds : pulls[b] = 0
    THEN a = Min({b \in ArmIds : pulls[b] = 0})
    ELSE \A b \in ArmIds \ {a} :
           LET meanGap == rewards[b] * pulls[a] - rewards[a] * pulls[b] IN
           ~ /\ meanGap >= 0
             /\ pulls[b] <= pulls[a]
             /\ meanGap > 0 \/ pulls[b] < pulls[a] \/ b < a

\* The text holds no candidate; a bandit's pull counts all the same.
NoCandidate(a) ==
    /\ Due
    /\ Consume
    /\ IF kind = "band"
       THEN /\ Selectable(a)
            /\ pulls' = [pulls EXCEPT ![a] = @ + 1]
       ELSE UNCHANGED pulls
    /\ UNCHANGED <<kind, told, pc, crashed, iteration, slots, seen, hasIncumbent,
                   incumbentSpeedup, rewards, succ, failed>>

\* run_candidate's counters, and slots_remaining in its result.
Count(o) ==
    /\ succ' = IF o.ok THEN succ + 1 ELSE succ
    /\ failed' = IF o.ran /\ ~o.ok THEN failed + 1 ELSE failed
    /\ slots' = IF o.ran THEN SlotsRemaining(succ') ELSE slots
    /\ seen' = IF o.ok /\ o.speedup # None THEN seen \cup {o.speedup} ELSE seen

\* A faster success than the incumbent.
Beats(o) == o.ok /\ o.speedup # None /\ o.speedup > incumbentSpeedup

\* Mutant: the first success always becomes the incumbent's speedup.
AdoptLatest(o) ==
    IF kind \in {"band", "ma"} /\ o.ok
    THEN /\ hasIncumbent' = TRUE
         /\ incumbentSpeedup' = IF o.speedup # None THEN o.speedup ELSE incumbentSpeedup
    ELSE UNCHANGED <<hasIncumbent, incumbentSpeedup>>

\* The bandit's incumbent starts as the reference and is only ever beaten; that
\* of "ma" starts as nothing, so its first success becomes it, however slow.
Adopt(o) ==
    IF \/ kind = "band" /\ Beats(o)
       \/ kind = "ma" /\ o.ok /\ (~hasIncumbent \/ Beats(o))
    THEN /\ hasIncumbent' = TRUE
         /\ incumbentSpeedup' = IF o.speedup # None THEN o.speedup ELSE incumbentSpeedup
    ELSE UNCHANGED <<hasIncumbent, incumbentSpeedup>>

\* Mutant: the reward is the gain over the reference.
RewardOverReference(a, o) ==
    /\ pulls' = [pulls EXCEPT ![a] = @ + 1]
    /\ rewards' = [rewards EXCEPT
                     ![a] = IF o.speedup # None /\ o.speedup > 100
                            THEN @ + o.speedup - 100 ELSE @]

\* The reward of a pull: the gain over the incumbent at pull time, at least 0.
Reward(a, o) ==
    /\ pulls' = [pulls EXCEPT ![a] = @ + 1]
    /\ rewards' = [rewards EXCEPT
                     ![a] = IF Beats(o) THEN @ + o.speedup - incumbentSpeedup ELSE @]

\* _submit_candidate and what the protocol does with its result.
Submit(a, o) ==
    /\ Due
    /\ Consume
    /\ Count(o)
    /\ Adopt(o)
    /\ IF kind = "band"
       THEN Selectable(a) /\ Reward(a, o)
       ELSE UNCHANGED <<pulls, rewards>>
    /\ UNCHANGED <<kind, told, pc, crashed, iteration>>

-----------------------------------------------------------------------------
(* Evolution: from the seeds to generations. *)

SeedsSubmitted ==
    /\ kind = "evo" /\ pc = "seeding" /\ left = 0
    /\ pc' = "turns" /\ left' = MaxTurns
    /\ UNCHANGED <<kind, told, crashed, iteration, locals, succ, failed>>

\* select_parents: a crossover and a mutation of the fastest validated entry, or
\* one more seed when nothing has validated.
Breed ==
    /\ kind = "evo" /\ pc = "turns" /\ children = 0
    /\ left > 0 /\ slots # 0
    /\ left' = left - 1
    /\ children' = IF seen # {} THEN 2 ELSE 1
    /\ UNCHANGED <<kind, told, pc, crashed, iteration, slots, seen, hasIncumbent,
                   incumbentSpeedup, pulls, rewards, succ, failed>>

\* The budget is met between two children.
DropChild ==
    /\ kind = "evo" /\ pc = "turns" /\ children > 0 /\ slots = 0
    /\ children' = 0
    /\ UNCHANGED <<kind, told, pc, crashed, iteration, left, slots, seen, hasIncumbent,
                   incumbentSpeedup, pulls, rewards, succ, failed>>

-----------------------------------------------------------------------------
(* The end of a harness run, and run_session around it. *)

Finished ==
    \/ kind = "bon" /\ pc = "seeding" /\ left = 0
    \/ pc = "turns" /\ children = 0 /\ (left = 0 \/ slots = 0)

\* _reflect, then RUN_FINISHED.
Reflect ==
    /\ Finished
    /\ pc' = "over"
    /\ UNCHANGED <<kind, told, crashed, iteration, left, locals, succ, failed>>

\* A generation, one of several gathered ones, a tool, a profile or the ledger's
\* assertion raises: RUN_FAILED.  A submission in progress may have been counted.
Raise ==
    /\ pc \in {"context", "seeding", "turns"}
    /\ pc' = "over" /\ crashed' = TRUE
    /\ \/ UNCHANGED <<succ, failed>>
       \/ Due /\ succ' = succ + 1 /\ UNCHANGED failed
       \/ Due /\ failed' = failed + 1 /\ UNCHANGED succ
    /\ UNCHANGED <<kind, told, iteration, left, locals>>

\* DefaultCompletionPolicy after a run: both reflection tools have been called.
Stops ==
    \/ crashed
    \/ failed >= MaxFailedAttempts
    \/ succ >= MaxCandidates
    \/ iteration >= MaxContinuations

Close ==
    /\ pc = "over" /\ Stops
    /\ pc' = "closed"
    /\ UNCHANGED <<kind, told, crashed, iteration, left, locals, succ, failed>>

\* Mutant: continuations are granted without end.
ContinueUncounted ==
    /\ pc = "over" /\ ~Stops
    /\ pc' = "context"
    /\ ForgetLocals
    /\ left' = 0
    /\ UNCHANGED <<kind, told, crashed, iteration, succ, failed>>

\* build_continuation_request: a fresh run that asks for what is left.
Continue ==
    /\ pc = "over" /\ ~Stops
    /\ pc' = "context"
    /\ iteration' = iteration + 1
    /\ ForgetLocals
    /\ left' = 0
    /\ UNCHANGED <<kind, told, crashed, succ, failed>>

\* Arms only matter to the bandit.
Pullable == IF kind = "band" THEN ArmIds ELSE {1}

ArchetypesNext ==
    \/ LoadContext
    \/ \E a \in Pullable :
         \/ NoCandidate(a)
         \/ \E o \in Outcomes : Submit(a, o)
    \/ SeedsSubmitted \/ Breed \/ DropChild
    \/ Reflect \/ Raise
    \/ Close \/ Continue

ArchetypesSpec == ArchetypesInit /\ [][ArchetypesNext]_archetypesVars

-----------------------------------------------------------------------------
(* Properties. *)

\* The validated-candidate budget is never exceeded by a harness that was told
\* it, over all continuations; untold, only the gathered samples of the first run
\* may exceed it (harness.py:417-429, 478; evolution.py:229-236, 300-303).
BudgetKept ==
    succ <= IF ~told /\ kind \in {"bon", "evo"} /\ DefaultN > MaxCandidates
            THEN DefaultN ELSE MaxCandidates

\* No success of the run is faster than the incumbent the prompts are built
\* around and the row reports (bandit.py:214-222, profiler_ma.py:437-449).
IncumbentDominates ==
    kind \in {"band", "ma"} => \A s \in seen : s <= incumbentSpeedup

\* What the arms were paid adds up to what the incumbent gained since the
\* reference: no gain is credited twice, none is lost (bandit.py:169-222).
RewardsTelescope ==
    kind = "band" => SumFunction(rewards) = incumbentSpeedup - 100

\* The incumbent is what the run has found: nothing faster was passed over, and
\* the arms were paid what it gained.
IncumbentEarned == IncumbentDominates /\ RewardsTelescope

\* Whatever the model writes, an archetype that has begun ends: text without a
\* candidate, rejections and failures all use a turn up, and continuations are
\* counted (harness.py:298-560, driver.py of the session).
ArchetypesEnd == (pc \in {"seeding", "turns"}) ~> (pc = "closed")
=============================================================================
