------------------------ MODULE OptimizationSession ------------------------
(***************************************************************************)
(* The tool surface of one optimization session (session/session.py): the  *)
(* registry of proposed candidates, the budget counters, and the handlers  *)
(* that a harness dispatches tool calls into.                              *)
(*                                                                         *)
(* A handler is plain synchronous Python and the session holds no lock.    *)
(* The archetype and Claude harnesses run one handler at a time on the     *)
(* event loop; pydantic-ai executes the tool calls of one model response   *)
(* concurrently, each in a worker thread.  `Calls' is the set of handlers  *)
(* that can be in flight, so one element models the former and several     *)
(* the latter.  run_candidate is split where another thread can run: the   *)
(* backend work, the updates of the shared record and counters, and each   *)
(* write to the event sink or to the experiment log.                       *)
(***************************************************************************)
EXTENDS Integers, FiniteSets

CONSTANTS
    Candidates,     \* ids _new_candidate_id can return (bounds registrations)
    Calls,          \* tool calls that can be in flight at once
    MaxCandidates,  \* max_candidates: the budget of successful candidates
    FailureFloor,   \* the 8 of max(8, max_candidates * 3)
    FailureFactor,  \* the 3 of max(8, max_candidates * 3)
    Medians,        \* timings a backend can report, in ms; 0 is one of them
    MultiObjective, \* whether the backend implements objectives_for_candidate
    MaxBatch,       \* bound: plans or ids in one propose_/run_candidates call
    MaxRuns,        \* bound: run_candidate executions of a behaviour
    DiskFaults,     \* whether a write to the trace file or the log can fail
    None            \* Python's None

ASSUME SessionConstants ==
    /\ Candidates # {} /\ Calls # {}
    /\ IsFiniteSet(Calls)
    /\ MaxCandidates \in Nat
    /\ FailureFloor \in Nat \ {0} /\ FailureFactor \in Nat
    /\ Medians \subseteq Nat
    /\ MaxBatch \in Nat \ {0} /\ MaxRuns \in Nat
    /\ DiskFaults \in BOOLEAN /\ MultiObjective \in BOOLEAN
    /\ None \notin Nat /\ None \notin Candidates

VARIABLES
    baseline,    \* what construction measured: [ok, median]
    registered,  \* keys of the candidates dict
    result,      \* what the last run recorded in each candidate's entry
    succ,        \* budget_state["successful_count"]
    failed,      \* budget_state["failed_attempts"]
    call,        \* the frame of each call in flight
    progress,    \* payload of the last RUN_PROGRESS event
    log,         \* experiment log: how many rows of each kind
    rejects,     \* CANDIDATE_REJECTED events emitted, by their reason
    faults       \* history: writes that failed and handlers a race killed,
                 \* each counted where it strikes, whatever the run had been

sessionVars == <<baseline, registered, result, succ, failed, call,
                 progress, log, rejects, faults>>

-----------------------------------------------------------------------------
(* Values. *)

Optional(S) == S \cup {None}

\* A number that Python's `if x' takes for true: neither None nor 0.
Truthy(x) == x # None /\ x # 0

Verdicts == {"unchecked", "ok", "drift"}

\* What one evaluation leaves behind.  `objectives' tells whether the
\* multi-objective map is non-empty.
Results ==
    [compiled : BOOLEAN, median : Optional(Medians),
     correctness : Verdicts, objectives : BOOLEAN]

\* What the backend calls of run_candidate can produce together: no timing
\* and no verdict without a compile, no verdict without a compiled baseline;
\* validate_correctness that raises leaves the verdict at None.
Outcomes(baselineOk) ==
    {r \in Results :
        /\ r.objectives => MultiObjective
        /\ ~r.compiled => r.median = None
        /\ (~r.compiled \/ ~baselineOk) => r.correctness = "unchecked"}

HasSignal(r) == r.median # None \/ r.objectives

\* Mutant: a run whose correctness was not checked is not a success.
SuccessfulIfChecked(r) == r.compiled /\ HasSignal(r) /\ r.correctness = "ok"

Successful(r) == r.compiled /\ HasSignal(r) /\ r.correctness # "drift"

Reasons == {"compile_failed", "correctness_drift", "no_timing"}

ReasonOf(r) ==
    IF ~r.compiled THEN "compile_failed"
    ELSE IF r.correctness = "drift" THEN "correctness_drift" ELSE "no_timing"

\* speedup = baseline / median is recorded unless one of the two is 0 or None.
HasSpeedup(r) == Truthy(baseline.median) /\ Truthy(r.median)

MaxFailedAttempts ==
    IF FailureFactor * MaxCandidates > FailureFloor
    THEN FailureFactor * MaxCandidates ELSE FailureFloor

SlotsRemaining(n) == IF n < MaxCandidates THEN MaxCandidates - n ELSE 0

-----------------------------------------------------------------------------
(* Frames.  `todo' is the number of plans or of further ids the call still  *)
(* has to go through; `batch' tells run_candidates from run_candidate.      *)

RunPhases == {"evaluating", "recording", "counting", "reporting",
              "ranking", "iterating", "logging", "finishing"}

Frames ==
    [phase : RunPhases \cup {"idle", "proposing", "choosing"},
     cand : Optional(Candidates), res : Optional(Results),
     slots : Nat, size : Nat, todo : Nat, batch : BOOLEAN]

Idle == [phase |-> "idle", cand |-> None, res |-> None,
         slots |-> 0, size |-> 0, todo |-> 0, batch |-> FALSE]

Goto(c, p) == call' = [call EXCEPT ![c].phase = p]
Return(c) == call' = [call EXCEPT ![c] = Idle]

\* The handler leaves run_candidate, normally or with an exception other than
\* ValueError.  run_candidates catches the latter and goes on with the next id.
LeaveRun(c) ==
    IF call[c].batch /\ call[c].todo > 0
    THEN call' = [call EXCEPT ![c] = [Idle EXCEPT !.phase = "choosing",
                                      !.todo = call[c].todo, !.batch = TRUE]]
    ELSE Return(c)

InPhase(c, p) == call[c].phase = p

InFlight(phases) == {c \in Calls : call[c].phase \in phases}

-----------------------------------------------------------------------------
SessionInit ==
    /\ baseline \in [ok : BOOLEAN, median : Optional(Medians)]
    /\ registered = {}
    /\ result = [x \in Candidates |-> None]
    /\ succ = 0
    /\ failed = 0
    /\ call = [c \in Calls |-> Idle]
    /\ progress = [succ |-> 0, slots |-> MaxCandidates]
    /\ log = [wins |-> 0, failures |-> 0]
    /\ rejects = [compile_failed |-> 0, correctness_drift |-> 0, no_timing |-> 0]
    /\ faults = 0

\* propose_candidate (n = 1) and propose_candidates: the call begins.
BeginPropose(c, n) ==
    /\ InPhase(c, "idle")
    /\ call' = [call EXCEPT ![c].phase = "proposing", ![c].todo = n]
    /\ UNCHANGED <<baseline, registered, result, succ, failed,
                   progress, log, rejects, faults>>

\* _register_candidate on the next plan: every intervention is valid, so the
\* plan gets a fresh id and an entry of its own.
RegisterNext(c) ==
    /\ InPhase(c, "proposing")
    /\ \E x \in Candidates \ registered : registered' = registered \cup {x}
    /\ IF call[c].todo > 1
       THEN call' = [call EXCEPT ![c].todo = @ - 1]
       ELSE Return(c)
    /\ UNCHANGED <<baseline, result, succ, failed, progress, log, rejects, faults>>

\* CANDIDATE_PROPOSED is emitted after the entry is made: if the sink raises,
\* the candidate stays registered and the agent is never told its id.
RegisterUnannounced(c) ==
    /\ DiskFaults
    /\ InPhase(c, "proposing")
    /\ \E x \in Candidates \ registered : registered' = registered \cup {x}
    /\ Return(c)
    /\ UNCHANGED <<baseline, result, succ, failed, progress, log, rejects, faults>>

\* The next plan is empty, malformed or rejected by validate_intervention:
\* ValueError.  Nothing of this plan is kept; the plans before it are.
RejectNext(c) ==
    /\ InPhase(c, "proposing")
    /\ Return(c)
    /\ UNCHANGED <<baseline, registered, result, succ, failed,
                   progress, log, rejects, faults>>

\* run_candidate (batch FALSE) or run_candidates over n ids begins.
BeginRun(c, n, isBatch) ==
    /\ InPhase(c, "idle")
    /\ call' = [call EXCEPT ![c].phase = "choosing", ![c].todo = n,
                            ![c].batch = isBatch]
    /\ UNCHANGED <<baseline, registered, result, succ, failed,
                   progress, log, rejects, faults>>

Executions == succ + failed + Cardinality(InFlight({"evaluating", "recording", "counting"}))

\* The id is in the registry; the same id may be run again.
Enter(c) ==
    /\ InPhase(c, "choosing")
    /\ Executions < MaxRuns
    /\ \E x \in registered :
         call' = [call EXCEPT ![c].phase = "evaluating", ![c].cand = x,
                              ![c].todo = @ - 1]
    /\ UNCHANGED <<baseline, registered, result, succ, failed,
                   progress, log, rejects, faults>>

\* Unknown id: ValueError, which also ends a batch and drops its results.
UnknownId(c) ==
    /\ InPhase(c, "choosing")
    /\ Return(c)
    /\ UNCHANGED <<baseline, registered, result, succ, failed,
                   progress, log, rejects, faults>>

\* reset, interpret_plan, compile, time_workload, validate_correctness and
\* objectives_for_candidate: no session state changes while they run.
Evaluate(c) ==
    /\ InPhase(c, "evaluating")
    /\ \E r \in Outcomes(baseline.ok) :
         call' = [call EXCEPT ![c].phase = "recording", ![c].res = r]
    /\ UNCHANGED <<baseline, registered, result, succ, failed,
                   progress, log, rejects, faults>>

\* interpret_plan, compile, time_workload or the sink raises: nothing is
\* recorded or counted.  A ValueError ends a batch, anything else only this id.
EvaluateRaises(c, valueError) ==
    /\ InPhase(c, "evaluating")
    /\ IF valueError THEN Return(c) ELSE LeaveRun(c)
    /\ UNCHANGED <<baseline, registered, result, succ, failed,
                   progress, log, rejects, faults>>

\* c.update({...}): one dict update of the candidate's entry.
Record(c) ==
    /\ InPhase(c, "recording")
    /\ result' = [result EXCEPT ![call[c].cand] = call[c].res]
    /\ Goto(c, "counting")
    /\ UNCHANGED <<baseline, registered, succ, failed, progress, log, rejects, faults>>

\* Mutant: a success beyond the budget is not counted.
CountUpToBudget(c) ==
    /\ InPhase(c, "counting")
    /\ IF Successful(call[c].res)
       THEN /\ succ' = IF succ < MaxCandidates THEN succ + 1 ELSE succ
            /\ UNCHANGED failed
       ELSE failed' = failed + 1 /\ UNCHANGED succ
    /\ call' = [call EXCEPT ![c].phase = "reporting",
                            ![c].slots = SlotsRemaining(succ')]
    /\ UNCHANGED <<baseline, registered, result, progress, log, rejects, faults>>

\* Mutant: failures use up slots too.
CountFailuresAsSlots(c) ==
    /\ InPhase(c, "counting")
    /\ IF Successful(call[c].res)
       THEN succ' = succ + 1 /\ UNCHANGED failed
       ELSE failed' = failed + 1 /\ UNCHANGED succ
    /\ call' = [call EXCEPT ![c].phase = "reporting",
                            ![c].slots = SlotsRemaining(succ' + failed')]
    /\ UNCHANGED <<baseline, registered, result, progress, log, rejects, faults>>

\* Exactly one counter moves; slots_remaining is computed here and kept.
Count(c) ==
    /\ InPhase(c, "counting")
    /\ IF Successful(call[c].res)
       THEN succ' = succ + 1 /\ UNCHANGED failed
       ELSE failed' = failed + 1 /\ UNCHANGED succ
    /\ call' = [call EXCEPT ![c].phase = "reporting",
                            ![c].slots = SlotsRemaining(succ')]
    /\ UNCHANGED <<baseline, registered, result, progress, log, rejects, faults>>

\* BENCHMARK_COMPLETED and OBJECTIVES_RECORDED, then RUN_PROGRESS, whose
\* counters are read now while its slots_remaining dates from Count.
Report(c) ==
    /\ InPhase(c, "reporting")
    /\ progress' = [succ |-> succ, slots |-> call[c].slots]
    /\ call' = [call EXCEPT ![c].phase = "ranking", ![c].slots = 0]
    /\ UNCHANGED <<baseline, registered, result, succ, failed, log, rejects, faults>>

\* The leaderboard event iterates self.candidates: the iterator remembers the
\* size of the dict ...
BeginRanking(c) ==
    /\ InPhase(c, "ranking")
    /\ call' = [call EXCEPT ![c].phase = "iterating",
                            ![c].size = Cardinality(registered)]
    /\ UNCHANGED <<baseline, registered, result, succ, failed,
                   progress, log, rejects, faults>>

\* ... and every step of it checks that the size is still the same.
EndRanking(c) ==
    /\ InPhase(c, "iterating")
    /\ call[c].size = Cardinality(registered)
    /\ call' = [call EXCEPT ![c].phase = "logging", ![c].size = 0]
    /\ UNCHANGED <<baseline, registered, result, succ, failed,
                   progress, log, rejects, faults>>

\* The run is counted, and the handler dies before it is logged or announced.
LoseRun(c) ==
    /\ faults' = faults + 1
    /\ LeaveRun(c)
    /\ UNCHANGED <<baseline, registered, result, succ, failed, progress, log, rejects>>

\* Another call registered a candidate meanwhile: RuntimeError.
RankingRaises(c) ==
    /\ InPhase(c, "iterating")
    /\ call[c].size # Cardinality(registered)
    /\ LoseRun(c)

\* TraceStore.emit does not catch OSError: BENCHMARK_COMPLETED, RUN_PROGRESS
\* or LEADERBOARD_UPDATED raises out of the handler.
EmitRaises(c) ==
    /\ DiskFaults
    /\ call[c].phase \in {"reporting", "iterating"}
    /\ LoseRun(c)

\* A win and a failed compile leave a row in the experiment log; any other
\* failure leaves none.
LeavesRow(r) == Successful(r) \/ ~r.compiled

\* experiment_log.append swallows its own OSError, and the row is gone.
Log(c) ==
    LET res == call[c].res IN
    /\ InPhase(c, "logging")
    /\ \/ /\ log' = [wins |-> log.wins + (IF Successful(res) THEN 1 ELSE 0),
                    failures |-> log.failures + (IF res.compiled THEN 0 ELSE 1)]
          /\ UNCHANGED faults
       \/ /\ DiskFaults /\ LeavesRow(res)
          /\ faults' = faults + 1
          /\ UNCHANGED log
    /\ Goto(c, "finishing")
    /\ UNCHANGED <<baseline, registered, result, succ, failed, progress, rejects>>

\* Mutant: only failed compiles are announced as rejected.
FinishAnnouncesCompileFailures(c) ==
    LET res == call[c].res IN
    /\ InPhase(c, "finishing")
    /\ IF res.compiled THEN UNCHANGED rejects
       ELSE rejects' = [rejects EXCEPT !.compile_failed = @ + 1]
    /\ LeaveRun(c)
    /\ UNCHANGED <<baseline, registered, result, succ, failed, progress, log, faults>>

\* policy.observe (its exceptions are swallowed), CANDIDATE_REJECTED unless
\* successful, and the reply to the agent.
Finish(c) ==
    LET res == call[c].res IN
    /\ InPhase(c, "finishing")
    /\ \/ /\ IF Successful(res) THEN UNCHANGED rejects
             ELSE rejects' = [rejects EXCEPT ![ReasonOf(res)] = @ + 1]
          /\ UNCHANGED faults
       \/ /\ DiskFaults /\ ~Successful(res)
          /\ faults' = faults + 1
          /\ UNCHANGED rejects
    /\ LeaveRun(c)
    /\ UNCHANGED <<baseline, registered, result, succ, failed, progress, log>>

-----------------------------------------------------------------------------
\* A tool call the harness dispatches.
Invoke(c) ==
    \/ \E n \in 1..MaxBatch : BeginPropose(c, n)
    \/ BeginRun(c, 1, FALSE)
    \/ \E n \in 1..MaxBatch : BeginRun(c, n, TRUE)

\* One step of a handler in flight.
Advance(c) ==
    \/ RegisterNext(c) \/ RegisterUnannounced(c) \/ RejectNext(c)
    \/ Enter(c) \/ UnknownId(c)
    \/ Evaluate(c) \/ \E v \in BOOLEAN : EvaluateRaises(c, v)
    \/ Record(c) \/ Count(c) \/ Report(c)
    \/ BeginRanking(c) \/ EndRanking(c) \/ RankingRaises(c) \/ EmitRaises(c)
    \/ Log(c) \/ Finish(c)

SessionNext == \E c \in Calls : Invoke(c) \/ Advance(c)

SessionSpec == SessionInit /\ [][SessionNext]_sessionVars
-----------------------------------------------------------------------------
(* Properties. *)

\* Type invariant of the session state: the registry, the counters, the frames
\* of the calls in flight and the histories.
SessionTypeOK ==
    /\ baseline \in [ok : BOOLEAN, median : Optional(Medians)]
    /\ registered \subseteq Candidates
    /\ result \in [Candidates -> Optional(Results)]
    /\ succ \in Nat /\ failed \in Nat
    /\ call \in [Calls -> Frames]
    /\ progress \in [succ : Nat, slots : Nat]
    /\ log \in [wins : Nat, failures : Nat]
    /\ rejects \in [Reasons -> Nat]
    /\ faults \in Nat

\* Calls that have counted a win (a failure) and not yet logged (announced) it.
UnloggedWins ==
    {c \in InFlight({"reporting", "ranking", "iterating", "logging"}) :
        Successful(call[c].res)}
UnannouncedFailures ==
    {c \in InFlight({"reporting", "ranking", "iterating", "logging", "finishing"}) :
        ~Successful(call[c].res)}

\* Failed compiles whose row is written, or was tried, and not announced yet.
LoggedCompileFailures == {c \in InFlight({"finishing"}) : ~call[c].res.compiled}

Rejections ==
    rejects.compile_failed + rejects.correctness_drift + rejects.no_timing

\* Counted wins without a row, counted failures without an event, and failed
\* compiles that are in the experiment log but not in the trace.
MissingRows == succ - log.wins - Cardinality(UnloggedWins)
MissingEvents == failed - Rejections - Cardinality(UnannouncedFailures)
UnmatchedFailures ==
    log.failures - rejects.compile_failed - Cardinality(LoggedCompileFailures)

\* Counters, experiment log and trace tell one story.  No row and no event is
\* there that was not counted; what was counted and is missing is no more than
\* the faults that struck, one record for each (so nothing at all without a
\* fault); and the log and the trace disagree about failed compiles by no more
\* than that either (run_candidate, session.py:652-799).  Less than
\* experiment_log.py:3-6 says ("Every successful candidate ... is appended",
\* "Failures are also persisted", drifts too): a handler that a race kills at
\* the leaderboard (698) leaves its success without a row, which is one of the
\* faults, and a drift never has a row (740).
AccountsBalance ==
    /\ MissingRows >= 0 /\ MissingEvents >= 0
    /\ MissingRows + MissingEvents <= faults
    /\ UnmatchedFailures \in -faults..faults

\* RUN_PROGRESS may overstate slots_remaining when calls overlap (it carries a
\* value computed before its counters are read) but never understates it: an
\* agent told "0 slots" has really met the budget (session.py:657-693).
SlotsNeverUnderstated == progress.slots >= SlotsRemaining(progress.succ)

\* Candidates the leaderboard shows as successful.
Winners == {x \in registered : result[x] # None /\ Successful(result[x])}

\* The registry never shows more successful candidates than the budget has
\* counted: whatever the interleaving of calls on the same candidate, a win is
\* visible at most one step (Record to Count) before it is paid for.
WinnersWereCounted ==
    Cardinality(Winners) <=
        succ + Cardinality({c \in InFlight({"counting"}) : Successful(call[c].res)})
=============================================================================
