------------------------------ MODULE RunLoop ------------------------------
(***************************************************************************)
(* run_session (session/session.py) driving one session: harness.run,      *)
(* DefaultCompletionPolicy.evaluate (session/completion.py) on a snapshot, *)
(* then either a continuation or the end, after which the caller finalizes *)
(* the session.                                                            *)
(*                                                                         *)
(* The harness is the Harness protocol of harness/base.py: an agent that   *)
(* dispatches any tool call, in any order, a bounded number of times, and  *)
(* ends the stream with RUN_FINISHED or RUN_FAILED once no handler of its  *)
(* own is in flight.                                                       *)
(***************************************************************************)
EXTENDS OptimizationSession

CONSTANTS
    MaxContinuations,  \* max_continuations
    MaxTurns           \* bound: tool calls of one harness.run

ASSUME LoopConstants == MaxContinuations \in Nat /\ MaxTurns \in Nat

VARIABLES
    phase,          \* "harness", "stopped" (run_session returned), "closed",
                    \* or "aborted" (run_session or finalize raised)
    iteration,      \* the for-loop's variable
    turns,          \* tool calls the current harness.run may still make
    toolsCalled,    \* tools_called, restricted to the reflection tools
    reason,         \* decision.reason
    sessionFailed,  \* SESSION_FAILED was emitted
    episode         \* the episode document on disk: None, torn or whole

loopVars == <<phase, iteration, turns, toolsCalled, reason, sessionFailed, episode>>
vars == <<sessionVars, loopVars>>

ReflectionTools == {"synthesize_findings", "compare_runs"}

-----------------------------------------------------------------------------
(* DefaultCompletionPolicy. *)

Reflected(tools) == ReflectionTools \subseteq tools

\* RunSnapshot, taken when the stream of harness.run has ended.
Snapshot(harnessFailed) ==
    [succ |-> succ, failed |-> failed, tools |-> toolsCalled,
     iteration |-> iteration, harnessFailed |-> harnessFailed]

\* evaluate: the order of the tests decides which reason is reported.
Evaluation(snap) ==
    IF snap.harnessFailed THEN "harness_failed"
    ELSE IF snap.failed >= MaxFailedAttempts THEN "failure_cap"
    ELSE IF (snap.succ >= MaxCandidates \/ MaxCandidates = 0) /\ Reflected(snap.tools)
         THEN "budget_met"
    ELSE IF snap.iteration >= MaxContinuations THEN "exhausted"
    ELSE "continue"

-----------------------------------------------------------------------------
Quiet == \A c \in Calls : InPhase(c, "idle")

LoopInit ==
    /\ SessionInit
    /\ phase = "harness"
    /\ iteration = 0
    /\ turns = MaxTurns
    /\ toolsCalled = {}
    /\ reason = "continue"
    /\ sessionFailed = FALSE
    /\ episode = None

\* The agent calls propose_*, run_candidate or run_candidates.
DispatchTool(c) ==
    /\ phase = "harness" /\ turns > 0
    /\ Invoke(c)
    /\ turns' = turns - 1
    /\ UNCHANGED <<phase, iteration, toolsCalled, reason, sessionFailed, episode>>

\* _StreamObserver: the driver sees the tools an agent calls in its stream.
Observe(t) == toolsCalled' = toolsCalled \cup {t}

\* The agent calls a reflection tool; the TOOL_CALL event is what counts, and
\* the tool itself only reads.
DispatchReflection(t) ==
    /\ phase = "harness" /\ turns > 0
    /\ Observe(t)
    /\ turns' = turns - 1
    /\ UNCHANGED <<sessionVars, phase, iteration, reason, sessionFailed, episode>>

HandlerStep(c) ==
    /\ phase = "harness"
    /\ Advance(c)
    /\ UNCHANGED loopVars

\* Mutant: the loop asks for a continuation without counting it.
HarnessEndsUncounted(harnessFailed) ==
    LET decision == Evaluation(Snapshot(harnessFailed)) IN
    /\ phase = "harness"
    /\ Quiet
    /\ reason' = decision
    /\ IF decision = "continue"
       THEN turns' = MaxTurns /\ UNCHANGED <<phase, sessionFailed>>
       ELSE /\ phase' = "stopped"
            /\ sessionFailed' = harnessFailed
            /\ UNCHANGED turns
    /\ UNCHANGED <<sessionVars, iteration, toolsCalled, episode>>

\* The stream ends: the policy is consulted, and the loop breaks or asks the
\* harness for a continuation (RUN_CONTINUATION).  harness.run may end before
\* its turns are used up, and fails whenever an exception escapes it.
HarnessEnds(harnessFailed) ==
    LET decision == Evaluation(Snapshot(harnessFailed)) IN
    /\ phase = "harness"
    /\ Quiet
    /\ reason' = decision
    /\ IF decision = "continue"
       THEN /\ iteration' = iteration + 1
            /\ turns' = MaxTurns
            /\ UNCHANGED <<phase, sessionFailed>>
       ELSE /\ phase' = "stopped"
            /\ sessionFailed' = harnessFailed
            /\ UNCHANGED <<iteration, turns>>
    /\ UNCHANGED <<sessionVars, toolsCalled, episode>>

\* A write of the trace fails in run_session itself: TOOL_CALL_STARTED and the
\* other events of the stream, RUN_CONTINUATION, SESSION_FAILED.  The OSError
\* leaves run_session, and its caller drops the session.
RunSessionRaises ==
    /\ DiskFaults
    /\ phase = "harness"
    /\ phase' = "aborted"
    /\ UNCHANGED <<sessionVars, iteration, turns, toolsCalled, reason,
                   sessionFailed, episode>>

\* What json.dump streams into the file that open("w") has emptied, and what is
\* there when it does not get to the end; EpisodeStore.load cannot read that.
Document(n) ==
    [whole |-> TRUE, successful_count |-> n, failed_attempts |-> failed]
TornDocument == [whole |-> FALSE]

\* Mutant: finalize recounts the successes from the registry.
FinalizeRecounts ==
    /\ phase = "stopped"
    /\ phase' = "closed"
    /\ episode' = Document(Cardinality(Winners))
    /\ UNCHANGED <<sessionVars, iteration, turns, toolsCalled, reason,
                   sessionFailed>>

\* finalize: the episode document is written and SESSION_FINISHED emitted.
Finalize ==
    /\ phase = "stopped"
    /\ phase' = "closed"
    /\ episode' = Document(succ)
    /\ UNCHANGED <<sessionVars, iteration, turns, toolsCalled, reason,
                   sessionFailed>>

\* finalize raises: in EpisodeStore.save before the file is opened or while it is
\* written, or after it in the emit of SESSION_FINISHED.
FinalizeRaises ==
    /\ DiskFaults
    /\ phase = "stopped"
    /\ phase' = "aborted"
    /\ episode' \in {episode, TornDocument, Document(succ)}
    /\ UNCHANGED <<sessionVars, iteration, turns, toolsCalled, reason,
                   sessionFailed>>

LoopNext ==
    \/ \E c \in Calls : DispatchTool(c) \/ HandlerStep(c)
    \/ \E t \in ReflectionTools : DispatchReflection(t)
    \/ \E f \in BOOLEAN : HarnessEnds(f)
    \/ RunSessionRaises \/ Finalize \/ FinalizeRaises

\* Backend calls return, an agent out of turns ends its stream, and callers
\* finalize what they ran; nothing obliges an agent to call a tool.
Fairness ==
    /\ \A c \in Calls : WF_vars(HandlerStep(c))
    /\ WF_vars(\E f \in BOOLEAN : HarnessEnds(f))
    /\ WF_vars(Finalize)

LoopSpec == LoopInit /\ [][LoopNext]_vars /\ Fairness

-----------------------------------------------------------------------------
(* Properties. *)

\* Candidates _best_speedup would consider.
Validated ==
    {x \in registered : /\ result[x] # None
                        /\ HasSpeedup(result[x])
                        /\ result[x].correctness # "drift"}

\* A best speedup is only ever reported to the policy and the prompts when the
\* budget has counted at least as many successes as there are such candidates:
\* _best_speedup and run_candidate classify runs by different code
\* (session.py:1166-1184 and 643-655), and handlers may die in between.
BestIsBanked == Quiet => Cardinality(Validated) <= succ

\* Every session that is driven ends, whatever the agent does, provided handlers
\* return and agents run out of turns; and it ends with its episode document
\* unless a write failed (session.py:1187-1292 and 1052-1094).
SessionCloses == <>(phase = "closed" \/ (DiskFaults /\ phase = "aborted"))

\* The loop implements the episode it promises.
Episode == INSTANCE EpisodeLoop WITH
    Budget <- MaxCandidates,
    FailureCap <- MaxFailedAttempts,
    MaxRestarts <- MaxContinuations,
    status <- IF phase = "harness" THEN "running" ELSE phase,
    banked <- succ,
    spent <- failed,
    starts <- iteration + 1,
    why <- IF phase = "harness" THEN "continue" ELSE reason,
    saved <- episode

\* Refinement of the abstract episode by the loop with all its handlers.
EpisodeRefined == Episode!Spec
=============================================================================
