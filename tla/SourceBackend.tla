--------------------------- MODULE SourceBackend ---------------------------
(***************************************************************************)
(* The triton_source backend.  An evaluation runs a candidate's source in  *)
(* a subprocess, through the gates g1, g2, g3 and g5, and times it there;  *)
(* g4, the lint, runs before.  Three callers use it:                       *)
(*   session   compile, then time_workload, then validate_correctness: the *)
(*             timing comes from a cache keyed by the source, the verdict  *)
(*             from the compile result; calls overlap                      *)
(*   replay    the loose verifier: two gates are reported but not required *)
(*   holdout   a winner again, on another input configuration              *)
(* A fourth kind of call profiles a candidate with ncu.  Which device runs *)
(* the subprocess is GpuLease's subject: here a lease is granted or not.   *)
(***************************************************************************)
EXTENDS Naturals, FiniteSets

CONSTANTS
    Requests,     \* the calls; each of them is made once
    Sources,      \* candidate texts
    Reference,    \* what an empty plan evaluates: the reference module
    Banned,       \* the sources the lint flags
    Trials,       \* the value-randomized trials of an evaluation
    Nothing

ASSUME SourceAssumption ==
    /\ Trials \in Nat \ {0} /\ Banned \subseteq Sources
    /\ Reference \notin Sources /\ Nothing \notin Sources /\ Nothing # "accepted"

Gates == {"g1", "g2", "g3", "g4", "g5"}
SandboxGates == Gates \ {"g4"}

VARIABLES
    caller,      \* who makes each call
    source,      \* and with which text
    step,        \* where the call stands
    trial,       \* trials the subprocess has finished
    found,       \* the evaluation as far as the subprocess has got
    parsed,      \* the evaluation the parent has read
    evalCache,   \* per source, the last evaluation of the session
    served,      \* the evaluation time_workload answered from
    verdict      \* what the caller concludes: accepted, rejected, failed

sourceVars == <<caller, source, step, trial, found, parsed, evalCache, served, verdict>>

Callers == {"session", "replay", "holdout", "profile"}

\* gates maps the gates that have a verdict to it; times is whether the
\* evaluation carries timing samples.
Evaluation(text, gates, compiled, error, times) ==
    [of |-> text, gates |-> gates, compiled |-> compiled, error |-> error,
     times |-> times]

NoGates == [g \in {} |-> FALSE]

\* _failure, and the runner's own report of an exception: nothing but the error.
Failure(c) == Evaluation(source[c], NoGates, FALSE, TRUE, FALSE)

SourceInit ==
    /\ caller \in [Requests -> Callers]
    /\ source \in [Requests -> Sources \cup {Reference}]
    /\ \A c \in Requests : source[c] = Reference => caller[c] = "session"
    /\ step = [c \in Requests |-> "new"]
    /\ trial = [c \in Requests |-> 0]
    /\ found = [c \in Requests |-> Nothing]
    /\ parsed = [c \in Requests |-> Nothing]
    /\ evalCache = [s \in Sources \cup {Reference} |-> Nothing]
    /\ served = [c \in Requests |-> Nothing]
    /\ verdict = [c \in Requests |-> Nothing]

\* The gates a failing candidate is still timed under.
SkipGates(c) == IF caller[c] = "replay" THEN {"g3", "g5"} ELSE {}

\* Mutant: the cache is kept per workload.
PlanKeyOfWorkload(c) == Reference

\* _plan_key: the empty plan and the digest of the source.
PlanKey(c) == source[c]

Goto(c, s) == step' = [step EXCEPT ![c] = s]

(* Parent: compile up to the subprocess. *)

\* A banned call is a failed compile without any GPU work, and it is cached.
Lint(c) ==
    /\ step[c] = "new" /\ caller[c] = "session" /\ source[c] \in Banned
    /\ parsed' = [parsed EXCEPT ![c] =
         Evaluation(source[c], [g \in {"g4"} |-> FALSE], FALSE, TRUE, FALSE)]
    /\ evalCache' = [evalCache EXCEPT ![PlanKey(c)] = parsed'[c]]
    /\ Goto(c, "compiled")
    /\ UNCHANGED <<caller, source, trial, found, served, verdict>>

\* The lease does not come in time: reported like a failing candidate.
LeaseRefused(c) ==
    /\ step[c] = "new" /\ ~(caller[c] = "session" /\ source[c] \in Banned)
    /\ found' = [found EXCEPT ![c] = Failure(c)]
    /\ Goto(c, "ended")
    /\ UNCHANGED <<caller, source, trial, parsed, evalCache, served, verdict>>

Spawn(c) ==
    /\ step[c] = "new" /\ ~(caller[c] = "session" /\ source[c] \in Banned)
    /\ Goto(c, IF caller[c] = "profile" THEN "ncu" ELSE "load")
    /\ UNCHANGED <<caller, source, trial, found, parsed, evalCache, served, verdict>>

(* Child: evaluate. *)

Running(c) == step[c] \in {"load", "trials", "again", "bench"}

\* No CUDA, no ModelNew, an exception anywhere, a hang the parent's timeout
\* ends, an exit without a result: what was found so far is lost.
Crash(c) ==
    /\ Running(c)
    /\ found' = [found EXCEPT ![c] = Failure(c)]
    /\ Goto(c, "ended")
    /\ UNCHANGED <<caller, source, trial, parsed, evalCache, served, verdict>>

\* The runner never got to evaluate: SandboxInfrastructureError.
RunnerFault(c) ==
    /\ step[c] = "load"
    /\ verdict' = [verdict EXCEPT ![c] = "raised"]
    /\ Goto(c, "done")
    /\ UNCHANGED <<caller, source, trial, found, parsed, evalCache, served>>

\* The modules load; the reference alone has nothing to compare and is timed.
Load(c) ==
    /\ step[c] = "load"
    /\ IF source[c] = Reference
       THEN /\ found' = [found EXCEPT ![c] =
                 Evaluation(Reference, [g \in SandboxGates |-> TRUE], TRUE, FALSE, TRUE)]
            /\ Goto(c, "ended")
       ELSE /\ found' = [found EXCEPT ![c] =
                 Evaluation(source[c], [g \in {"g1", "g2", "g3"} |-> TRUE], FALSE, FALSE, FALSE)]
            /\ Goto(c, "trials")
    /\ UNCHANGED <<caller, source, trial, parsed, evalCache, served, verdict>>

\* One trial finds failures F.  A structure mismatch (g1) hides the other two
\* and ends the loop; aliasing or mutation (g3) hides the comparison and ends
\* it only where g3 is required; a drift (g2) ends it.
Breaks(c, F) == F \cap {"g1", "g2"} # {} \/ F \ SkipGates(c) # {}

TrialFindings(c) ==
    {F \in SUBSET {"g1", "g2", "g3"} :
        /\ "g1" \in F => F = {"g1"}
        /\ "g3" \in F \ SkipGates(c) => F = {"g3"}}

Trial(c) ==
    /\ step[c] = "trials"
    /\ \E F \in TrialFindings(c) :
         /\ found' = [found EXCEPT
              ![c].compiled = TRUE,
              ![c].gates = [g \in DOMAIN @ |-> @[g] /\ g \notin F]]
         /\ trial' = [trial EXCEPT ![c] = @ + 1]
         /\ Goto(c, IF Breaks(c, F) \/ trial'[c] = Trials THEN "again" ELSE "trials")
    /\ UNCHANGED <<caller, source, parsed, evalCache, served, verdict>>

\* g5 needs outputs that can be compared and inputs that were left alone.
Determinism(c) ==
    /\ step[c] = "again"
    /\ \E same \in BOOLEAN :
         LET gates == found[c].gates
             g5 == gates["g1"] /\ gates["g3"] /\ same
         IN  found' = [found EXCEPT ![c].gates =
                         [g \in SandboxGates |-> IF g = "g5" THEN g5 ELSE @[g]]]
    /\ Goto(c, "bench")
    /\ UNCHANGED <<caller, source, trial, parsed, evalCache, served, verdict>>

\* Mutant: the replay times under the gates of an ordinary run.
MayBeTimedStrictly(c) == \A g \in SandboxGates : found[c].gates[g]

\* The budget rule: only what passes the required gates is timed.
MayBeTimed(c) == \A g \in SandboxGates \ SkipGates(c) : found[c].gates[g]

Bench(c) ==
    /\ step[c] = "bench"
    /\ found' = [found EXCEPT ![c].times = MayBeTimed(c)]
    /\ Goto(c, "ended")
    /\ UNCHANGED <<caller, source, trial, parsed, evalCache, served, verdict>>

(* Parent again. *)

\* compile merges the lint's verdict and caches the result; replay and holdout
\* read it as it is.
Parse(c) ==
    /\ step[c] = "ended" /\ caller[c] # "profile"
    /\ LET linted == IF caller[c] = "session" /\ source[c] # Reference THEN {"g4"} ELSE {}
           gates == [g \in linted \cup DOMAIN found[c].gates |->
                       g \in linted \/ found[c].gates[g]]
       IN  parsed' = [parsed EXCEPT ![c] = [found[c] EXCEPT !.gates = gates]]
    /\ evalCache' = IF caller[c] = "session"
                    THEN [evalCache EXCEPT ![PlanKey(c)] = parsed'[c]] ELSE evalCache
    /\ Goto(c, "compiled")
    /\ UNCHANGED <<caller, source, trial, found, served, verdict>>

CompileOk(e) == e.compiled /\ ~e.error

\* time_workload: whatever the cache holds for the source by now.
TimeWorkload(c) ==
    /\ step[c] = "compiled" /\ caller[c] = "session" /\ CompileOk(parsed[c])
    /\ LET e == evalCache[PlanKey(c)]
       IN  served' = [served EXCEPT ![c] = IF e.times THEN e ELSE Nothing]
    /\ Goto(c, "timed")
    /\ UNCHANGED <<caller, source, trial, found, parsed, evalCache, verdict>>

\* validate_correctness asks only about the gates that have a verdict.
AllReportedPass(e) == DOMAIN e.gates # {} /\ \A g \in DOMAIN e.gates : e.gates[g]

\* replay_one's admission and the holdout row's `correct`.
Admitted(c, e) ==
    IF caller[c] = "replay"
    THEN CompileOk(e) /\ {"g1", "g2"} \subseteq DOMAIN e.gates /\ e.gates["g1"] /\ e.gates["g2"]
    ELSE SandboxGates \subseteq DOMAIN e.gates /\ \A g \in SandboxGates : e.gates[g]

Conclude(c, accepted) ==
    /\ verdict' = [verdict EXCEPT ![c] = IF accepted THEN "accepted" ELSE "rejected"]
    /\ Goto(c, "done")
    /\ UNCHANGED <<caller, source, trial, found, parsed, evalCache, served>>

Validate(c) ==
    /\ caller[c] = "session"
    /\ \/ step[c] = "timed" /\ Conclude(c, AllReportedPass(parsed[c]))
       \/ step[c] = "compiled" /\ ~CompileOk(parsed[c]) /\ Conclude(c, FALSE)

WriteRow(c) ==
    /\ step[c] = "compiled" /\ caller[c] \in {"replay", "holdout"}
    /\ Conclude(c, Admitted(c, parsed[c]))

\* ncu plainly, then under sudo: a missing binary, a non-zero exit and an
\* empty table move on to the next attempt; a timeout does not.
Profile(c) ==
    /\ step[c] \in {"ncu", "sudo"}
    /\ \/ Conclude(c, TRUE)
       \/ Conclude(c, FALSE)                       \* the timeout
       \/ /\ step[c] = "ncu"
          /\ Goto(c, "sudo")
          /\ UNCHANGED <<caller, source, trial, found, parsed, evalCache, served, verdict>>

ProfileRefused(c) == step[c] = "ended" /\ caller[c] = "profile" /\ Conclude(c, FALSE)

SourceNext == \E c \in Requests :
    \/ Lint(c) \/ LeaseRefused(c) \/ Spawn(c) \/ Crash(c) \/ RunnerFault(c)
    \/ Load(c) \/ Trial(c) \/ Determinism(c) \/ Bench(c) \/ Parse(c)
    \/ TimeWorkload(c) \/ Validate(c) \/ WriteRow(c) \/ Profile(c)
    \/ ProfileRefused(c)

SourceSpec == SourceInit /\ [][SourceNext]_sourceVars

-----------------------------------------------------------------------------
(* Properties *)

\* Every timing time_workload serves was earned: it was measured for the text
\* of this call, in an evaluation that passed all the gates, lint included,
\* whatever other calls put into the cache meanwhile.
ServedTimingsEarned ==
    \A c \in Requests : served[c] # Nothing =>
        /\ served[c].of = source[c] /\ CompileOk(served[c])
        /\ \A g \in DOMAIN served[c].gates : served[c].gates[g]
        /\ source[c] # Reference => DOMAIN served[c].gates = Gates

\* What a caller accepts was tested and measured: all its required gates have
\* a verdict and passed, and its own evaluation carries timings.  The rule
\* that accepts (three different ones, each over the gates that happen to be
\* reported) and the rule that times live in different files and processes.
AcceptedWasMeasured ==
    \A c \in Requests : verdict[c] = "accepted" /\ caller[c] # "profile" =>
        /\ parsed[c].times
        /\ SandboxGates \subseteq DOMAIN parsed[c].gates
        /\ \A g \in SandboxGates \ SkipGates(c) : parsed[c].gates[g]

=============================================================================
