-------------------------- MODULE MeasurementProofs --------------------------
(***************************************************************************)
(* Theorems about the three backends: the triton_source backend, for any   *)
(* number of calls of its callers, candidate texts and trials; the         *)
(* torch_inductor backend, for any threads, plans and keys; the triton     *)
(* backend, for any plans, passes and candidates.  And about what runs on  *)
(* them: the leased episodes, for any number of cells, workers and devices *)
(* and any number of killed processes, and the plain archetypes, for any   *)
(* budget, any number of arms and any speedups.                            *)
(***************************************************************************)
EXTENDS SourceBackend, Interception, StageHook, EpisodeLease, Archetypes, FoldLemmas

GateResults == UNION {[G -> BOOLEAN] : G \in SUBSET Gates}

Evaluations == [of : Sources \cup {Reference}, gates : GateResults, compiled : BOOLEAN,
                error : BOOLEAN, times : BOOLEAN]

Steps == {"new", "load", "trials", "again", "bench", "ended", "compiled", "timed",
          "ncu", "sudo", "done"}

SourceTypes ==
    /\ caller \in [Requests -> Callers]
    /\ source \in [Requests -> Sources \cup {Reference}]
    /\ \A c \in Requests : source[c] = Reference => caller[c] = "session"
    /\ step \in [Requests -> Steps]
    /\ trial \in [Requests -> Nat]
    /\ DOMAIN found = Requests /\ DOMAIN parsed = Requests
    /\ DOMAIN served = Requests /\ DOMAIN verdict = Requests
    /\ DOMAIN evalCache = Sources \cup {Reference}

\* The evaluation e has gone through all gates of the sandbox: it carries times
\* exactly if the required ones passed.
Complete(c, e) ==
    /\ e.compiled /\ ~e.error
    /\ DOMAIN e.gates = SandboxGates
    /\ e.times <=> \A g \in SandboxGates \ SkipGates(c) : e.gates[g]

\* What the subprocess has found so far.
FoundSound(c) ==
    /\ step[c] \in {"trials", "again", "bench", "ended"} =>
         found[c] \in Evaluations /\ found[c].of = source[c]
    /\ step[c] \in {"trials", "again"} =>
         /\ ~found[c].error /\ ~found[c].times
         /\ DOMAIN found[c].gates = {"g1", "g2", "g3"}
    /\ step[c] = "again" => found[c].compiled
    /\ step[c] = "bench" =>
         /\ found[c].compiled /\ ~found[c].error
         /\ DOMAIN found[c].gates = SandboxGates
    /\ step[c] = "ended" => found[c] = Failure(c) \/ Complete(c, found[c])

\* The gates an evaluation of a request reports once the parent has parsed it.
Reported(c) ==
    IF caller[c] = "session" /\ source[c] # Reference THEN Gates ELSE SandboxGates

\* What the parent has read is nothing to accept or complete; only profiles are
\* profiled.
ParsedSound(c) ==
    /\ step[c] \in {"ncu", "sudo"} => caller[c] = "profile"
    /\ step[c] \in {"compiled", "timed"} =>
          /\ caller[c] # "profile"
          /\ parsed[c].of = source[c]
          /\ \/ ~CompileOk(parsed[c]) /\ ~(SandboxGates \subseteq DOMAIN parsed[c].gates)
                /\ ~parsed[c].times
             \/ /\ CompileOk(parsed[c])
                /\ DOMAIN parsed[c].gates = Reported(c)
                /\ parsed[c].times <=>
                     \A g \in Reported(c) \ SkipGates(c) : parsed[c].gates[g]

\* Only a compile that did not fail gets to be timed.
TimedCompiled == \A c \in Requests : step[c] = "timed" => CompileOk(parsed[c])

\* An evaluation of the text s whose times may be served.
Earned(s, e) ==
    /\ e.of = s
    /\ e.times => /\ CompileOk(e)
                  /\ \A g \in DOMAIN e.gates : e.gates[g]
                  /\ s # Reference => DOMAIN e.gates = Gates

\* The cache only has what its key says, whoever put it there last.
CacheSound ==
    \A s \in Sources \cup {Reference} : evalCache[s] # Nothing => Earned(s, evalCache[s])

\* A verdict is the last thing a request gets.
VerdictIsLast == \A c \in Requests : verdict[c] = "accepted" => step[c] = "done"

SourceInv ==
    /\ SourceTypes /\ VerdictIsLast
    /\ \A c \in Requests : FoundSound(c) /\ ParsedSound(c)
    /\ TimedCompiled /\ CacheSound
    /\ ServedTimingsEarned /\ AcceptedWasMeasured

-----------------------------------------------------------------------------

\* No call has been made at the start.
LEMMA SourceInitInv == SourceInit => SourceInv
  <1> SUFFICES ASSUME SourceInit PROVE SourceInv
    OBVIOUS
  <1>1. SourceTypes
    BY DEF SourceInit, SourceTypes, Steps
  <1>2. \A c \in Requests : step[c] = "new" /\ served[c] = Nothing /\ verdict[c] = Nothing
    BY DEF SourceInit
  <1>3. \A c \in Requests : FoundSound(c) /\ ParsedSound(c)
    BY <1>2 DEF FoundSound, ParsedSound
  <1>4. TimedCompiled /\ CacheSound /\ ServedTimingsEarned
    BY <1>2 DEF SourceInit, TimedCompiled, CacheSound, ServedTimingsEarned
  <1>5. AcceptedWasMeasured /\ VerdictIsLast
    BY <1>2, SourceAssumption DEF AcceptedWasMeasured, VerdictIsLast
  <1> QED BY <1>1, <1>3, <1>4, <1>5 DEF SourceInv

\* A failure is an evaluation without a verdict of any gate.
LEMMA FailureIsEmpty ==
    ASSUME SourceTypes, NEW c \in Requests
    PROVE  /\ Failure(c) \in Evaluations /\ Failure(c).of = source[c]
           /\ Failure(c).gates = NoGates /\ DOMAIN NoGates = {}
           /\ ~Failure(c).compiled /\ Failure(c).error /\ ~Failure(c).times
  <1>1. NoGates \in GateResults /\ DOMAIN NoGates = {}
    <2>1. NoGates \in [{} -> BOOLEAN]
      BY DEF NoGates
    <2> QED BY <2>1 DEF GateResults, Gates
  <1> QED BY <1>1 DEF Failure, Evaluation, Evaluations, SourceTypes

\* The child's steps: only found and the step of one request move.
LEMMA ChildKeepsTheRest ==
    ASSUME SourceInv, NEW c \in Requests, NEW s \in {"trials", "again", "bench", "ended"},
           step[c] # "done", step' = [step EXCEPT ![c] = s],
           DOMAIN found' = Requests, \A d \in Requests \ {c} : found'[d] = found[d],
           trial' \in [Requests -> Nat], FoundSound(c)',
           UNCHANGED <<caller, source, parsed, evalCache, served, verdict>>
    PROVE  SourceInv'
  <1>1. SourceTypes'
    BY DEF SourceInv, SourceTypes, Steps
  <1>2. \A d \in Requests \ {c} : FoundSound(d)' /\ ParsedSound(d)'
    <2> SUFFICES ASSUME NEW d \in Requests \ {c}
                 PROVE  FoundSound(d)' /\ ParsedSound(d)'
      OBVIOUS
    <2>1. step'[d] = step[d] /\ found'[d] = found[d] /\ parsed'[d] = parsed[d]
      BY DEF SourceInv, SourceTypes
    <2>2. Failure(d)' = Failure(d) /\ (Complete(d, found[d])' <=> Complete(d, found[d]))
      BY <2>1 DEF Failure, Complete, SkipGates
    <2>3. FoundSound(d)'
      BY <2>1, <2>2 DEF SourceInv, FoundSound
    <2>4. ParsedSound(d)'
      BY <2>1 DEF SourceInv, ParsedSound, Reported, SkipGates
    <2> QED BY <2>3, <2>4
  <1>3. ParsedSound(c)' /\ TimedCompiled' /\ CacheSound'
    BY DEF SourceInv, SourceTypes, ParsedSound, TimedCompiled, CacheSound
  <1>4. ServedTimingsEarned' /\ AcceptedWasMeasured' /\ VerdictIsLast'
    BY DEF SourceInv, SourceTypes, ServedTimingsEarned, AcceptedWasMeasured, SkipGates,
           VerdictIsLast
  <1> QED BY <1>1, <1>2, <1>3, <1>4 DEF SourceInv

\* The lease is refused, or the child ends without a result.
LEMMA FailStep ==
    ASSUME SourceInv, NEW c \in Requests, LeaseRefused(c) \/ Crash(c)
    PROVE  SourceInv'
  <1>1. /\ step' = [step EXCEPT ![c] = "ended"]
        /\ found' = [found EXCEPT ![c] = Failure(c)]
        /\ UNCHANGED <<caller, source, trial, parsed, evalCache, served, verdict>>
    BY DEF LeaseRefused, Crash, Goto
  <1>2. Failure(c)' = Failure(c)
    BY <1>1 DEF Failure
  <1>3. FoundSound(c)'
    BY <1>1, <1>2, FailureIsEmpty DEF SourceInv, SourceTypes, FoundSound
  <1>4. step[c] # "done"
    BY DEF LeaseRefused, Crash, Running
  <1> QED BY <1>1, <1>3, <1>4, ChildKeepsTheRest DEF SourceInv, SourceTypes

\* Loading starts the trials, or ends with the times of the reference.
LEMMA LoadStep ==
    ASSUME SourceInv, NEW c \in Requests, Load(c)
    PROVE  SourceInv'
  <1> USE DEF SourceInv, SourceTypes
  <1>0. step[c] # "done"
    BY DEF Load
  <1>1. CASE source[c] = Reference
    <2> DEFINE gates == [g \in SandboxGates |-> TRUE]
               e == Evaluation(Reference, gates, TRUE, FALSE, TRUE)
    <2>1. gates \in GateResults /\ DOMAIN gates = SandboxGates /\ \A g \in SandboxGates : gates[g]
      <3>1. gates \in [SandboxGates -> BOOLEAN] /\ SandboxGates \in SUBSET Gates
        BY DEF SandboxGates
      <3> QED BY <3>1 DEF GateResults
    <2> HIDE DEF gates
    <2>2. /\ e \in Evaluations /\ e.of = Reference /\ e.gates = gates
          /\ e.compiled /\ ~e.error /\ e.times
      BY <2>1 DEF Evaluation, Evaluations
    <2>3. /\ found' = [found EXCEPT ![c] = e]
          /\ step' = [step EXCEPT ![c] = "ended"]
          /\ UNCHANGED <<caller, source, trial, parsed, evalCache, served, verdict>>
      BY <1>1 DEF Load, Goto, gates
    <2> HIDE DEF e
    <2>4. Complete(c, e)'
      BY <2>1, <2>2 DEF Complete
    <2>5. FoundSound(c)'
      BY <1>1, <2>2, <2>3, <2>4 DEF FoundSound
    <2> QED BY <1>0, <2>3, <2>5, ChildKeepsTheRest
  <1>2. CASE source[c] # Reference
    <2> DEFINE first == {"g1", "g2", "g3"}
               gates == [g \in first |-> TRUE]
               e == Evaluation(source[c], gates, FALSE, FALSE, FALSE)
    <2>1. gates \in GateResults /\ DOMAIN gates = first
      <3>1. gates \in [first -> BOOLEAN] /\ first \in SUBSET Gates
        BY DEF Gates
      <3> QED BY <3>1 DEF GateResults
    <2> HIDE DEF gates
    <2>2. /\ e \in Evaluations /\ e.of = source[c] /\ e.gates = gates
          /\ ~e.error /\ ~e.times
      BY <2>1 DEF Evaluation, Evaluations
    <2>3. /\ found' = [found EXCEPT ![c] = e]
          /\ step' = [step EXCEPT ![c] = "trials"]
          /\ UNCHANGED <<caller, source, trial, parsed, evalCache, served, verdict>>
      BY <1>2 DEF Load, Goto, gates
    <2> HIDE DEF e
    <2>4. FoundSound(c)'
      BY <2>1, <2>2, <2>3 DEF FoundSound
    <2> QED BY <1>0, <2>3, <2>4, ChildKeepsTheRest
  <1> QED BY <1>1, <1>2

\* A trial turns verdicts of gates off and never on.
LEMMA TrialStep ==
    ASSUME SourceInv, NEW c \in Requests, Trial(c)
    PROVE  SourceInv'
  <1> USE DEF SourceInv, SourceTypes
  <1>1. /\ step[c] = "trials" /\ found[c] \in Evaluations
        /\ found[c].of = source[c] /\ ~found[c].error /\ ~found[c].times
        /\ DOMAIN found[c].gates = {"g1", "g2", "g3"}
    BY SMTT(40) DEF Trial, FoundSound
  <1>2. PICK F \in TrialFindings(c) :
          /\ found' = [found EXCEPT
               ![c].compiled = TRUE,
               ![c].gates = [g \in DOMAIN @ |-> @[g] /\ g \notin F]]
          /\ trial' = [trial EXCEPT ![c] = @ + 1]
          /\ Goto(c, IF Breaks(c, F) \/ trial'[c] = Trials THEN "again" ELSE "trials")
    BY DEF Trial
  <1> DEFINE old == found[c].gates
             gates == [g \in {"g1", "g2", "g3"} |-> old[g] /\ g \notin F]
             e == [found[c] EXCEPT !.compiled = TRUE, !.gates = gates]
  <1>3. gates \in GateResults /\ DOMAIN gates = {"g1", "g2", "g3"}
    <2>1. gates \in [{"g1", "g2", "g3"} -> BOOLEAN]
      <3>1. \A g \in {"g1", "g2", "g3"} : (old[g] /\ g \notin F) \in BOOLEAN
        OBVIOUS
      <3> QED BY <3>1
    <2>2. {"g1", "g2", "g3"} \in SUBSET Gates
      BY DEF Gates
    <2> QED BY <2>1, <2>2 DEF GateResults
  <1>4. found' = [found EXCEPT ![c] = e]
    BY <1>1, <1>2
  <1> HIDE DEF gates
  <1>5. /\ e \in Evaluations /\ e.of = source[c] /\ ~e.error /\ ~e.times
        /\ e.compiled /\ DOMAIN e.gates = {"g1", "g2", "g3"}
    BY <1>1, <1>3 DEF Evaluations
  <1> HIDE DEF e
  <1>6. \E s \in {"trials", "again"} : step' = [step EXCEPT ![c] = s]
    BY <1>2 DEF Goto
  <1>7. FoundSound(c)'
    BY <1>4, <1>5, <1>6 DEF FoundSound, Trial
  <1>8. trial' \in [Requests -> Nat]
    BY <1>2
  <1> QED BY <1>4, <1>6, <1>7, <1>8, ChildKeepsTheRest DEF Trial

\* g5 gets its verdict.
LEMMA DeterminismStep ==
    ASSUME SourceInv, NEW c \in Requests, Determinism(c)
    PROVE  SourceInv'
  <1> USE DEF SourceInv, SourceTypes
  <1>1. /\ found[c] \in Evaluations /\ found[c].of = source[c]
        /\ found[c].compiled /\ ~found[c].error /\ ~found[c].times
        /\ DOMAIN found[c].gates = {"g1", "g2", "g3"}
    BY DEF Determinism, FoundSound
  <1> DEFINE old == found[c].gates
  <1>2. PICK same \in BOOLEAN :
          found' = [found EXCEPT ![c].gates =
                     [g \in SandboxGates |->
                        IF g = "g5" THEN old["g1"] /\ old["g3"] /\ same ELSE @[g]]]
    BY DEF Determinism
  <1> DEFINE gates == [g \in SandboxGates |->
                         IF g = "g5" THEN old["g1"] /\ old["g3"] /\ same ELSE old[g]]
             e == [found[c] EXCEPT !.gates = gates]
  <1>3. gates \in GateResults /\ DOMAIN gates = SandboxGates
    <2>1. old \in [{"g1", "g2", "g3"} -> BOOLEAN]
      <3>1. PICK G \in SUBSET Gates : old \in [G -> BOOLEAN]
        BY <1>1 DEF Evaluations, GateResults
      <3>2. G = {"g1", "g2", "g3"}
        BY <1>1, <3>1
      <3> QED BY <3>1, <3>2
    <2>2. gates \in [SandboxGates -> BOOLEAN]
      BY <2>1 DEF SandboxGates, Gates
    <2>3. SandboxGates \in SUBSET Gates
      BY DEF SandboxGates
    <2> QED BY <2>2, <2>3 DEF GateResults
  <1>4. found' = [found EXCEPT ![c] = e]
    BY <1>1, <1>2
  <1> HIDE DEF gates
  <1>5. /\ e \in Evaluations /\ e.of = source[c] /\ ~e.error
        /\ e.compiled /\ DOMAIN e.gates = SandboxGates
    BY <1>1, <1>3 DEF Evaluations
  <1> HIDE DEF e
  <1>6. step' = [step EXCEPT ![c] = "bench"]
    BY DEF Determinism, Goto
  <1>7. FoundSound(c)'
    BY <1>4, <1>5, <1>6 DEF FoundSound, Determinism
  <1> QED BY <1>4, <1>6, <1>7, ChildKeepsTheRest DEF Determinism

\* The times are taken exactly if the required gates passed.
LEMMA BenchStep ==
    ASSUME SourceInv, NEW c \in Requests, Bench(c)
    PROVE  SourceInv'
  <1> USE DEF SourceInv, SourceTypes
  <1>1. /\ found[c] \in Evaluations /\ found[c].of = source[c]
        /\ found[c].compiled /\ ~found[c].error
        /\ DOMAIN found[c].gates = SandboxGates
    BY DEF Bench, FoundSound
  <1> DEFINE e == [found[c] EXCEPT !.times = MayBeTimed(c)]
  <1>2. MayBeTimed(c) \in BOOLEAN
    BY DEF MayBeTimed
  <1>3. /\ e \in Evaluations /\ e.of = source[c] /\ e.compiled /\ ~e.error
        /\ e.gates = found[c].gates /\ e.times = MayBeTimed(c)
    BY <1>1, <1>2 DEF Evaluations
  <1>4. /\ found' = [found EXCEPT ![c] = e] /\ step' = [step EXCEPT ![c] = "ended"]
    BY <1>1 DEF Bench, Goto
  <1> HIDE DEF e
  <1>5. Complete(c, found[c])'
    <2>1. found'[c] = e
      BY <1>4
    <2>2. SkipGates(c)' = SkipGates(c)
      BY DEF Bench, SkipGates
    <2> QED BY <1>1, <1>3, <2>1, <2>2 DEF Complete, MayBeTimed
  <1>6. FoundSound(c)'
    BY <1>3, <1>4, <1>5 DEF FoundSound, Bench
  <1> QED BY <1>4, <1>6, ChildKeepsTheRest DEF Bench

-----------------------------------------------------------------------------
\* The parent's steps: found stays, at most one request moves.
LEMMA ParentKeepsTheRest ==
    ASSUME SourceInv, NEW c \in Requests, NEW s \in Steps \ {"trials", "again", "bench", "ended"},
           step' = [step EXCEPT ![c] = s],
           DOMAIN parsed' = Requests, \A d \in Requests \ {c} : parsed'[d] = parsed[d],
           UNCHANGED <<caller, source, trial, found>>
    PROVE  /\ FoundSound(c)'
           /\ \A d \in Requests \ {c} : FoundSound(d)' /\ ParsedSound(d)'
           /\ \A d \in Requests \ {c} : step'[d] = "timed" => CompileOk(parsed'[d])
  <1>1. FoundSound(c)'
    BY DEF SourceInv, SourceTypes, FoundSound
  <1> SUFFICES ASSUME NEW d \in Requests \ {c}
               PROVE  /\ FoundSound(d)' /\ ParsedSound(d)'
                      /\ step'[d] = "timed" => CompileOk(parsed'[d])
    BY <1>1
  <1>2. step'[d] = step[d] /\ found'[d] = found[d] /\ parsed'[d] = parsed[d]
    BY DEF SourceInv, SourceTypes
  <1>3. Failure(d)' = Failure(d) /\ (Complete(d, found[d])' <=> Complete(d, found[d]))
    BY <1>2 DEF Failure, Complete, SkipGates
  <1>4. FoundSound(d)'
    BY <1>2, <1>3 DEF SourceInv, FoundSound
  <1>5. ParsedSound(d)'
    BY <1>2 DEF SourceInv, ParsedSound, Reported, SkipGates
  <1>6. step[d] = "timed" => CompileOk(parsed[d])
    BY DEF SourceInv, TimedCompiled
  <1> QED BY <1>2, <1>4, <1>5, <1>6

\* Steps that only move one request on, to a place without obligations.
LEMMA MoveStep ==
    ASSUME SourceInv, NEW c \in Requests, NEW s \in {"load", "ncu", "sudo"},
           step[c] # "done", s # "load" => caller[c] = "profile", step' = [step EXCEPT ![c] = s],
           UNCHANGED <<caller, source, trial, found, parsed, evalCache, served, verdict>>
    PROVE  SourceInv'
  <1>1. s \in Steps \ {"trials", "again", "bench", "ended"}
    BY DEF Steps
  <1>2. SourceTypes'
    BY <1>1 DEF SourceInv, SourceTypes
  <1>3. \A d \in Requests : FoundSound(d)' /\ ParsedSound(d)'
    BY <1>1, ParentKeepsTheRest DEF SourceInv, SourceTypes, ParsedSound
  <1>4. TimedCompiled' /\ CacheSound'
    BY <1>1, ParentKeepsTheRest DEF SourceInv, SourceTypes, TimedCompiled, CacheSound
  <1>5. ServedTimingsEarned' /\ AcceptedWasMeasured' /\ VerdictIsLast'
    BY DEF SourceInv, SourceTypes, ServedTimingsEarned, AcceptedWasMeasured, SkipGates,
           VerdictIsLast
  <1> QED BY <1>2, <1>3, <1>4, <1>5 DEF SourceInv

\* A verdict is reached, and if it is to accept, the evaluation was complete.
LEMMA ConcludeStep ==
    ASSUME SourceInv, NEW c \in Requests, NEW v,
           v = "accepted" /\ caller[c] # "profile" =>
             /\ parsed[c].times
             /\ SandboxGates \subseteq DOMAIN parsed[c].gates
             /\ \A g \in SandboxGates \ SkipGates(c) : parsed[c].gates[g],
           step' = [step EXCEPT ![c] = "done"],
           verdict' = [verdict EXCEPT ![c] = v],
           UNCHANGED <<caller, source, trial, found, parsed, evalCache, served>>
    PROVE  SourceInv'
  <1>1. "done" \in Steps \ {"trials", "again", "bench", "ended"}
    BY DEF Steps
  <1>2. SourceTypes'
    BY <1>1 DEF SourceInv, SourceTypes
  <1>3. \A d \in Requests : FoundSound(d)' /\ ParsedSound(d)'
    BY <1>1, ParentKeepsTheRest DEF SourceInv, SourceTypes, ParsedSound
  <1>4. TimedCompiled' /\ CacheSound' /\ ServedTimingsEarned'
    BY <1>1, ParentKeepsTheRest
    DEF SourceInv, SourceTypes, TimedCompiled, CacheSound, ServedTimingsEarned
  <1>5. AcceptedWasMeasured' /\ VerdictIsLast'
    BY DEF SourceInv, SourceTypes, AcceptedWasMeasured, SkipGates, VerdictIsLast
  <1> QED BY <1>2, <1>3, <1>4, <1>5 DEF SourceInv

\* An evaluation enters the parent, and the cache if it is the session's.
LEMMA ReadStep ==
    ASSUME SourceInv, NEW c \in Requests, NEW e,
           step[c] # "done", step' = [step EXCEPT ![c] = "compiled"],
           parsed' = [parsed EXCEPT ![c] = e],
           ParsedSound(c)',
           caller[c] = "session" => Earned(source[c], e),
           evalCache' = IF caller[c] = "session" THEN [evalCache EXCEPT ![source[c]] = e]
                        ELSE evalCache,
           UNCHANGED <<caller, source, trial, found, served, verdict>>
    PROVE  SourceInv'
  <1>1. "compiled" \in Steps \ {"trials", "again", "bench", "ended"}
    BY DEF Steps
  <1>2. SourceTypes'
    BY <1>1 DEF SourceInv, SourceTypes
  <1>3. \A d \in Requests : FoundSound(d)' /\ ParsedSound(d)'
    BY <1>1, ParentKeepsTheRest DEF SourceInv, SourceTypes
  <1>4. TimedCompiled'
    BY <1>1, ParentKeepsTheRest DEF SourceInv, SourceTypes, TimedCompiled
  <1>5. CacheSound'
    BY DEF SourceInv, SourceTypes, CacheSound
  <1>6. ServedTimingsEarned' /\ AcceptedWasMeasured' /\ VerdictIsLast'
    BY DEF SourceInv, SourceTypes, ServedTimingsEarned, AcceptedWasMeasured, SkipGates,
           VerdictIsLast
  <1> QED BY <1>2, <1>3, <1>4, <1>5, <1>6 DEF SourceInv

-----------------------------------------------------------------------------
\* The lint refuses a candidate: nothing to accept, nothing to serve.
LEMMA LintStep ==
    ASSUME SourceInv, NEW c \in Requests, Lint(c)
    PROVE  SourceInv'
  <1> USE DEF SourceInv, SourceTypes
  <1> DEFINE e == Evaluation(source[c], [g \in {"g4"} |-> FALSE], FALSE, TRUE, FALSE)
  <1>1. /\ e.of = source[c] /\ ~e.compiled /\ e.error /\ ~e.times /\ DOMAIN e.gates = {"g4"}
    BY DEF Evaluation
  <1>2. /\ parsed' = [parsed EXCEPT ![c] = e] /\ caller[c] = "session"
        /\ evalCache' = [evalCache EXCEPT ![source[c]] = e]
        /\ step[c] = "new" /\ step' = [step EXCEPT ![c] = "compiled"]
        /\ UNCHANGED <<caller, source, trial, found, served, verdict>>
    BY DEF Lint, PlanKey, Goto
  <1> HIDE DEF e
  <1>3. ParsedSound(c)'
    <2>1. /\ parsed'[c] = e /\ caller'[c] = "session" /\ source'[c] = source[c]
          /\ step'[c] = "compiled"
      BY <1>2
    <2>2. "g1" \in SandboxGates
      BY DEF SandboxGates, Gates
    <2> QED BY <1>1, <2>1, <2>2 DEF ParsedSound, CompileOk
  <1>4. Earned(source[c], e)
    BY <1>1 DEF Earned
  <1> QED BY <1>2, <1>3, <1>4, ReadStep

\* The parent reads a failure, or an evaluation with all gates; a session adds
\* its lint, which has passed.
LEMMA ParseStep ==
    ASSUME SourceInv, NEW c \in Requests, Parse(c)
    PROVE  SourceInv'
  <1> USE DEF SourceInv, SourceTypes
  <1>1. /\ step[c] = "ended" /\ caller[c] # "profile"
        /\ found[c] \in Evaluations /\ found[c].of = source[c]
        /\ found[c] = Failure(c) \/ Complete(c, found[c])
    BY DEF Parse, FoundSound
  <1> DEFINE linted == IF caller[c] = "session" /\ source[c] # Reference THEN {"g4"} ELSE {}
             gates == [g \in linted \cup DOMAIN found[c].gates |->
                         g \in linted \/ found[c].gates[g]]
             e == [found[c] EXCEPT !.gates = gates]
  <1>2. /\ DOMAIN gates = linted \cup DOMAIN found[c].gates
        /\ \A g \in linted : gates[g]
        /\ \A g \in DOMAIN found[c].gates \ linted : gates[g] <=> found[c].gates[g]
    <2>1. found[c].gates \in [DOMAIN found[c].gates -> BOOLEAN]
      BY <1>1 DEF Evaluations, GateResults
    <2> QED BY <2>1
  <1>3. /\ parsed' = [parsed EXCEPT ![c] = e]
        /\ evalCache' = IF caller[c] = "session" THEN [evalCache EXCEPT ![source[c]] = e]
                        ELSE evalCache
        /\ step' = [step EXCEPT ![c] = "compiled"]
        /\ UNCHANGED <<caller, source, trial, found, served, verdict>>
    BY DEF Parse, PlanKey, Goto
  <1>4. /\ e.of = found[c].of /\ e.compiled = found[c].compiled /\ e.error = found[c].error
        /\ e.times = found[c].times /\ e.gates = gates
    BY <1>1 DEF Evaluations
  <1>5. "g1" \in SandboxGates /\ "g4" \notin SandboxGates /\ Gates = SandboxGates \cup {"g4"}
    BY DEF SandboxGates, Gates
  <1>6. "g4" \notin SkipGates(c)
    BY DEF SkipGates
  <1>7. CASE found[c] = Failure(c)
    <2>1. DOMAIN found[c].gates = {} /\ ~e.compiled /\ ~e.times
      BY <1>4, <1>7, FailureIsEmpty
    <2>2. ~(SandboxGates \subseteq DOMAIN e.gates)
      BY <1>2, <1>4, <1>5, <2>1
    <2> HIDE DEF e, gates, linted
    <2>3. ParsedSound(c)'
      <3>1. /\ parsed'[c] = e /\ caller'[c] = caller[c] /\ source'[c] = source[c]
            /\ step'[c] = "compiled"
        BY <1>3
      <3> QED BY <1>1, <1>4, <2>1, <2>2, <3>1 DEF ParsedSound, CompileOk
    <2>4. Earned(source[c], e)
      BY <1>1, <1>4, <2>1 DEF Earned
    <2> QED BY <1>1, <1>3, <2>3, <2>4, ReadStep
  <1>8. CASE Complete(c, found[c])
    <2>1. CompileOk(e)
      BY <1>4, <1>8 DEF Complete, CompileOk
    <2>2. DOMAIN e.gates = Reported(c)
      BY <1>2, <1>4, <1>5, <1>8 DEF Complete, Reported
    <2>3. e.times <=> \A g \in Reported(c) \ SkipGates(c) : e.gates[g]
      <3>1. linted = Reported(c) \ SandboxGates
        BY <1>5 DEF Reported
      <3>2. \A g \in SandboxGates : e.gates[g] <=> found[c].gates[g]
        BY <1>2, <1>4, <1>5, <1>8 DEF Complete
      <3>3. SandboxGates \subseteq Reported(c)
        BY <1>5 DEF Reported
      <3> QED BY <1>2, <1>4, <1>8, <3>1, <3>2, <3>3 DEF Complete
    <2>4. e.of = source[c]
      BY <1>1, <1>4
    <2> HIDE DEF e, gates, linted
    <2>5. ParsedSound(c)'
      <3>1. /\ parsed'[c] = e /\ caller'[c] = caller[c] /\ source'[c] = source[c]
            /\ Reported(c)' = Reported(c) /\ SkipGates(c)' = SkipGates(c)
            /\ step'[c] = "compiled"
        BY <1>3 DEF Reported, SkipGates
      <3> QED BY <1>1, <2>1, <2>2, <2>3, <2>4, <3>1 DEF ParsedSound, CompileOk
    <2>6. caller[c] = "session" => Earned(source[c], e)
      BY <2>1, <2>2, <2>3, <2>4 DEF Earned, Reported, SkipGates
    <2> QED BY <1>1, <1>3, <2>5, <2>6, ReadStep
  <1> QED BY <1>1, <1>7, <1>8

\* What is served comes from the cache, and the cache is sound.
LEMMA TimeStep ==
    ASSUME SourceInv, NEW c \in Requests, TimeWorkload(c)
    PROVE  SourceInv'
  <1> USE DEF SourceInv, SourceTypes
  <1>1. /\ step' = [step EXCEPT ![c] = "timed"]
        /\ step[c] = "compiled" /\ CompileOk(parsed[c])
        /\ UNCHANGED <<caller, source, trial, found, parsed, evalCache, verdict>>
    BY DEF TimeWorkload, Goto
  <1>2. "timed" \in Steps \ {"trials", "again", "bench", "ended"}
    BY DEF Steps
  <1>3. SourceTypes'
    BY <1>1, <1>2 DEF TimeWorkload
  <1>4. \A d \in Requests : FoundSound(d)' /\ ParsedSound(d)'
    <2>1. ParsedSound(c)'
      BY <1>1 DEF ParsedSound, Reported, SkipGates
    <2> QED BY <1>1, <1>2, <2>1, ParentKeepsTheRest
  <1>5. TimedCompiled' /\ CacheSound' /\ VerdictIsLast'
    BY <1>1 DEF TimedCompiled, CacheSound, VerdictIsLast, CompileOk
  <1>6. AcceptedWasMeasured'
    BY <1>1 DEF AcceptedWasMeasured, SkipGates
  <1>7. ServedTimingsEarned'
    <2> DEFINE e == evalCache[source[c]]
    <2>1. served' = [served EXCEPT ![c] = IF e.times THEN e ELSE Nothing]
      BY DEF TimeWorkload, PlanKey
    <2>2. served'[c] # Nothing => e # Nothing /\ e.times /\ served'[c] = e
      BY <2>1
    <2>3. e # Nothing => Earned(source[c], e)
      BY DEF CacheSound
    <2> HIDE DEF e
    <2>4. \A d \in Requests \ {c} : served'[d] = served[d]
      BY <2>1
    <2> QED BY <1>1, <2>2, <2>3, <2>4 DEF ServedTimingsEarned, Earned, CompileOk
  <1> QED BY <1>3, <1>4, <1>5, <1>6, <1>7

\* The three ways of accepting all ask for the times, each in its own words.
LEMMA VerdictStep ==
    ASSUME SourceInv, NEW c \in Requests,
           Validate(c) \/ WriteRow(c) \/ ProfileRefused(c) \/ RunnerFault(c)
    PROVE  SourceInv'
  <1> USE DEF SourceInv, SourceTypes
  <1>1. CASE Validate(c)
    <2>1. PICK a \in BOOLEAN :
            /\ Conclude(c, a)
            /\ a => step[c] = "timed" /\ AllReportedPass(parsed[c])
      BY <1>1 DEF Validate, AllReportedPass
    <2>2. caller[c] = "session" /\ SkipGates(c) = {}
      BY <1>1 DEF Validate, SkipGates
    <2>3. a => /\ parsed[c].times /\ SandboxGates \subseteq DOMAIN parsed[c].gates
               /\ \A g \in SandboxGates \ SkipGates(c) : parsed[c].gates[g]
      <3> SUFFICES ASSUME a
                   PROVE  /\ parsed[c].times /\ SandboxGates \subseteq DOMAIN parsed[c].gates
                          /\ \A g \in SandboxGates \ SkipGates(c) : parsed[c].gates[g]
        OBVIOUS
      <3>1. CompileOk(parsed[c])
        BY <2>1 DEF TimedCompiled
      <3>2. /\ DOMAIN parsed[c].gates = Reported(c)
            /\ parsed[c].times <=> \A g \in Reported(c) \ SkipGates(c) : parsed[c].gates[g]
        BY <2>1, <3>1 DEF ParsedSound
      <3>3. SandboxGates \subseteq Reported(c)
        BY DEF Reported, SandboxGates
      <3> QED BY <2>1, <3>2, <3>3 DEF AllReportedPass
    <2> QED BY <2>1, <2>3, ConcludeStep DEF Conclude, Goto
  <1>2. CASE WriteRow(c)
    <2>1. /\ step[c] = "compiled" /\ caller[c] \in {"replay", "holdout"}
          /\ Conclude(c, Admitted(c, parsed[c]))
      BY <1>2 DEF WriteRow
    <2>2. Reported(c) = SandboxGates
      BY <2>1 DEF Reported
    <2>3. Admitted(c, parsed[c]) =>
            /\ DOMAIN parsed[c].gates = SandboxGates
            /\ parsed[c].times <=> \A g \in SandboxGates \ SkipGates(c) : parsed[c].gates[g]
      BY <2>1, <2>2 DEF ParsedSound, Admitted
    <2>4. Admitted(c, parsed[c]) => \A g \in SandboxGates \ SkipGates(c) : parsed[c].gates[g]
      BY <2>1 DEF Admitted, SkipGates, SandboxGates, Gates
    <2> QED BY <2>1, <2>3, <2>4, ConcludeStep DEF Conclude, Goto
  <1>3. CASE ProfileRefused(c)
    BY <1>3, ConcludeStep DEF ProfileRefused, Conclude, Goto
  <1>4. CASE RunnerFault(c)
    <2>1. "raised" # "accepted"
      OBVIOUS
    <2> QED BY <1>4, <2>1, ConcludeStep DEF RunnerFault, Goto
  <1> QED BY <1>1, <1>2, <1>3, <1>4

\* A profile is no evaluation.
LEMMA ProfileStep ==
    ASSUME SourceInv, NEW c \in Requests, Profile(c) \/ Spawn(c)
    PROVE  SourceInv'
  <1>1. CASE Spawn(c)
    BY <1>1, MoveStep DEF Spawn, Goto
  <1>2. CASE Profile(c)
    <2>1. CASE Conclude(c, FALSE)
      BY <2>1, ConcludeStep DEF Conclude, Goto
    <2>2. CASE Goto(c, "sudo") /\ UNCHANGED <<caller, source, trial, found, parsed, evalCache,
                                              served, verdict>>
      <3>1. caller[c] = "profile" /\ step[c] # "done"
        BY <1>2 DEF Profile, SourceInv, ParsedSound
      <3> QED BY <2>2, <3>1, MoveStep DEF Goto
    <2>3. CASE Conclude(c, TRUE)
      <3>1. caller[c] = "profile"
        BY <1>2 DEF Profile, SourceInv, ParsedSound
      <3> QED BY <2>3, <3>1, ConcludeStep DEF Conclude, Goto
    <2> QED BY <1>2, <2>1, <2>2, <2>3 DEF Profile
  <1> QED BY <1>1, <1>2

-----------------------------------------------------------------------------
\* The invariant is inductive.
THEOREM SourceInvariance == SourceSpec => []SourceInv
  <1>1. SourceInv /\ [SourceNext]_sourceVars => SourceInv'
    <2> SUFFICES ASSUME SourceInv, [SourceNext]_sourceVars
                 PROVE  SourceInv'
      OBVIOUS
    <2>1. CASE UNCHANGED sourceVars
      <3>1. UNCHANGED <<caller, source, step, trial, found, parsed, evalCache, served, verdict>>
        BY <2>1 DEF sourceVars
      <3>2. SourceTypes' /\ VerdictIsLast' /\ TimedCompiled' /\ CacheSound'
        BY <3>1 DEF SourceInv, SourceTypes, VerdictIsLast, TimedCompiled, CacheSound, CompileOk
      <3>3. \A c \in Requests : SkipGates(c)' = SkipGates(c) /\ Failure(c)' = Failure(c)
        BY <3>1 DEF SkipGates, Failure
      <3>4. \A c \in Requests : Complete(c, found[c])' <=> Complete(c, found[c])
        BY <3>1, <3>3 DEF Complete
      <3>5. \A c \in Requests : FoundSound(c)'
        BY <3>1, <3>3, <3>4 DEF SourceInv, FoundSound
      <3>6. \A c \in Requests : ParsedSound(c)'
        BY <3>1, <3>3 DEF SourceInv, ParsedSound, Reported
      <3>7. ServedTimingsEarned' /\ AcceptedWasMeasured'
        BY <3>1, <3>3 DEF SourceInv, ServedTimingsEarned, AcceptedWasMeasured
      <3> QED BY <3>2, <3>5, <3>6, <3>7 DEF SourceInv
    <2>2. CASE SourceNext
      BY <2>2, LintStep, FailStep, LoadStep, TrialStep, DeterminismStep, BenchStep, ParseStep,
         TimeStep, VerdictStep, ProfileStep
      DEF SourceNext
    <2> QED BY <2>1, <2>2
  <1> QED BY <1>1, SourceInitInv, PTL DEF SourceSpec

\* Whatever other calls put into the cache, what time_workload serves was
\* measured for the caller's text under all gates (backend.py:462-500).
THEOREM ServedIsEarned == SourceSpec => []ServedTimingsEarned
  <1>1. SourceInv => ServedTimingsEarned
    BY DEF SourceInv
  <1> QED BY <1>1, SourceInvariance, PTL

\* Session, replay and holdout accept nothing that was not measured under the
\* gates they require, although each has a rule of its own.
THEOREM AcceptedIsMeasured == SourceSpec => []AcceptedWasMeasured
  <1>1. SourceInv => AcceptedWasMeasured
    BY DEF SourceInv
  <1> QED BY <1>1, SourceInvariance, PTL

-----------------------------------------------------------------------------
(* The torch_inductor backend. *)

\* In no manager do two overrides stand for one place that can be patched.
\* (That a projection is a sequence is part of this: the provers know nothing
\* of SelectSeq.)
OneSpelling ==
    \A q \in Plans : \A m \in ToSet(Managers) :
        /\ Len(Projected(q)[m]) \in Nat
        /\ DOMAIN Projected(q)[m] = 1..Len(Projected(q)[m])
        /\ \A i \in DOMAIN Projected(q)[m] :
             /\ Projected(q)[m][i].key \in Spellings
             /\ \A j \in DOMAIN Projected(q)[m] :
                  PlaceOf[Projected(q)[m][i].key] = PlaceOf[Projected(q)[m][j].key] =>
                      i = j \/ PlaceOf[Projected(q)[m][i].key] \in ReadOnly \cup {Unknown}

\* What a place may hold.
Values ==
    {Original} \cup
    UNION {UNION {{Projected(q)[m][i].value : i \in DOMAIN Projected(q)[m]} :
                     m \in ToSet(Managers)} : q \in Plans}

Snapshots == UNION {[S -> Values] : S \in SUBSET Places}

\* g is the recursion FoldLeft chooses a solution of.
IsPatch(g, now, overrides) ==
    g = [s \in SUBSET (DOMAIN overrides) |->
           IF s = {} THEN [now |-> now, prev |-> NoSnapshot]
           ELSE Apply(g[s \ {Max(s)}], overrides[Max(s)])]

Patches(now, overrides) == CHOOSE g : IsPatch(g, now, overrides)

\* Patched is the last value of the recursion.
LEMMA PatchUnfolds ==
    ASSUME NEW now, NEW overrides
    PROVE  Patched(now, overrides) = Patches(now, overrides)[DOMAIN overrides]
  BY DEF Patched, FoldLeft, MapThenFoldSet, Patches, IsPatch

\* The greatest of a set of positions, and what is left without it.
LEMMA LatestIsTaken ==
    ASSUME NEW n \in Nat, NEW k \in Nat, NEW s \in UpTo(1..n, k + 1), s # {}
    PROVE  /\ Max(s) \in s /\ \A i \in s : i <= Max(s)
           /\ s \ {Max(s)} \in UpTo(1..n, k)
  <1>1. IsFiniteSet(1..n)
    BY FS_Interval
  <1>2. s \in SUBSET (1..n) /\ IsFiniteSet(s)
    BY <1>1, FS_Subset DEF UpTo
  <1>3. \E i \in s : \A j \in s : i >= j
    <2>1. PICK i \in s : \A j \in s : j <= i
      BY <1>2, Greatest
    <2> QED BY <1>2, <2>1
  <1>4. Max(s) \in s /\ \A j \in s : Max(s) >= j
    BY <1>3 DEF Max
  <1>5. Cardinality(s \ {Max(s)}) = Cardinality(s) - 1
    BY <1>2, <1>4, FS_RemoveElement
  <1>6. Cardinality(s) \in Nat
    BY <1>2, FS_CardinalityType
  <1>7. \A j \in s : j <= Max(s)
    BY <1>2, <1>4
  <1>8. Cardinality(s) <= k + 1
    BY DEF UpTo
  <1>9. s \ {Max(s)} \in SUBSET (1..n)
    BY <1>2
  <1> HIDE DEF Max
  <1> QED BY <1>4, <1>5, <1>6, <1>7, <1>8, <1>9 DEF UpTo

\* The recursion has a solution: on sets of each size, hence on all.
LEMMA PatchExists ==
    ASSUME NEW now, NEW overrides, NEW n \in Nat, DOMAIN overrides = 1..n
    PROVE  \E g : IsPatch(g, now, overrides)
  <1> DEFINE D == 1..n
             base == [now |-> now, prev |-> NoSnapshot]
             Solves(g, k) ==
               g = [s \in UpTo(D, k) |->
                      IF s = {} THEN base ELSE Apply(g[s \ {Max(s)}], overrides[Max(s)])]
             N == {k \in Nat : \E g : Solves(g, k)}
  <1>0. IsFiniteSet(D)
    BY FS_Interval
  <1> HIDE DEF base
  <1>1. 0 \in N
    <2>1. Solves([s \in UpTo(D, 0) |-> base], 0)
      BY <1>0, OnlyEmpty
    <2> QED BY <2>1
  <1>2. ASSUME NEW k \in Nat, k \in N PROVE k + 1 \in N
    <2>1. PICK g : Solves(g, k)
      BY <1>2
    <2> DEFINE h == [s \in UpTo(D, k + 1) |->
                       IF s = {} THEN base ELSE Apply(g[s \ {Max(s)}], overrides[Max(s)])]
    <2>2. \A s \in UpTo(D, k) : s \in UpTo(D, k + 1)
      <3>1. \A s \in SUBSET D : Cardinality(s) \in Nat
        BY <1>0, FS_Subset, FS_CardinalityType
      <3> QED BY <3>1 DEF UpTo
    <2>3. \A s \in UpTo(D, k) : h[s] = g[s]
      BY <2>1, <2>2
    <2>4. \A s \in UpTo(D, k + 1) : s # {} => g[s \ {Max(s)}] = h[s \ {Max(s)}]
      BY <2>3, LatestIsTaken
    <2>5. \A s \in UpTo(D, k + 1) :
            h[s] = IF s = {} THEN base ELSE Apply(h[s \ {Max(s)}], overrides[Max(s)])
      BY <2>4
    <2>6. h = [s \in UpTo(D, k + 1) |-> h[s]]
      OBVIOUS
    <2>7. Solves(h, k + 1)
      <3> HIDE DEF h
      <3> QED BY <2>5, <2>6
    <2> HIDE DEF h, Solves
    <2> QED BY <2>7
  <1>3. Nat \subseteq N
    <2> HIDE DEF N
    <2> QED BY <1>1, <1>2, SetInduction
  <1>4. PICK k \in Nat : UpTo(D, k) = SUBSET D
    BY <1>0, AllOfThem
  <1>5. PICK g : Solves(g, k)
    BY <1>3
  <1>6. IsPatch(g, now, overrides)
    <2>1. g = [s \in SUBSET (DOMAIN overrides) |->
                 IF s = {} THEN base ELSE Apply(g[s \ {Max(s)}], overrides[Max(s)])]
      BY <1>4, <1>5
    <2> QED BY <2>1 DEF IsPatch, base
  <1> QED BY <1>6

\* So a fold goes through the overrides one by one.
LEMMA PatchedInSteps ==
    ASSUME NEW now, NEW overrides, NEW n \in Nat, DOMAIN overrides = 1..n
    PROVE  \E h : /\ h[0] = [now |-> now, prev |-> NoSnapshot]
                  /\ \A i \in 1..n : h[i] = Apply(h[i - 1], overrides[i])
                  /\ Patched(now, overrides) = h[n]
  <1> DEFINE g == Patches(now, overrides)
             h == [i \in 0..n |-> g[1..i]]
  <1>1. IsPatch(g, now, overrides)
    BY PatchExists DEF Patches
  <1>2. Patched(now, overrides) = g[1..n]
    BY PatchUnfolds
  <1> HIDE DEF g
  <1>3. \A s \in SUBSET (1..n) :
          g[s] = IF s = {} THEN [now |-> now, prev |-> NoSnapshot]
                 ELSE Apply(g[s \ {Max(s)}], overrides[Max(s)])
    BY <1>1 DEF IsPatch
  <1>4. h[0] = [now |-> now, prev |-> NoSnapshot]
    <2>1. 1..0 = {} /\ 0 \in 0..n
      OBVIOUS
    <2>2. {} \in SUBSET (1..n)
      OBVIOUS
    <2> QED BY <1>3, <2>1, <2>2
  <1>5. ASSUME NEW i \in 1..n PROVE h[i] = Apply(h[i - 1], overrides[i])
    <2>1. 1..i \in SUBSET (1..n) /\ i \in 1..i /\ 1..i # {} /\ i \in Nat /\ i - 1 \in 0..n /\ i \in 0..n
      <3>1. i \in Nat /\ 1 <= i /\ i <= n
        OBVIOUS
      <3>2. i \in 1..i /\ i - 1 \in 0..n /\ i \in 0..n
        BY <3>1
      <3>3. 1..i \in SUBSET (1..n)
        BY <3>1
      <3> QED BY <3>1, <3>2, <3>3
    <2>2. Max(1..i) = i
      <3>1. \A j \in 1..i : i >= j
        OBVIOUS
      <3>2. \A k \in 1..i : (\A j \in 1..i : k >= j) => k = i
        BY <2>1
      <3> QED BY <2>1, <3>1, <3>2 DEF Max
    <2>3. (1..i) \ {i} = 1..(i - 1)
      OBVIOUS
    <2>4. g[1..i] = Apply(g[1..(i - 1)], overrides[i])
      BY <1>3, <2>1, <2>2, <2>3
    <2> QED BY <2>1, <2>4
  <1>6. h[n] = g[1..n]
    OBVIOUS
  <1> HIDE DEF h
  <1> QED BY <1>2, <1>4, <1>5, <1>6

\* What the overrides of a manager do to a place, and what its snapshot has.
LEMMA PatchedIs ==
    ASSUME NEW now \in [Places -> Values], NEW overrides, NEW n \in Nat,
           DOMAIN overrides = 1..n,
           \A i \in 1..n :
             /\ overrides[i].key \in Spellings /\ overrides[i].value \in Values
             /\ \A j \in 1..n : PlaceOf[overrides[i].key] = PlaceOf[overrides[j].key] =>
                                  i = j \/ PlaceOf[overrides[i].key] \in ReadOnly \cup {Unknown}
    PROVE  LET acc == Patched(now, overrides)
           IN  /\ acc.now \in [Places -> Values] /\ acc.prev \in Snapshots
               /\ \A p \in Places :
                    IF p \in DOMAIN acc.prev THEN acc.prev[p] = now[p] ELSE acc.now[p] = now[p]
               /\ \A p \in Places :
                    p \in ReadOnly \/ (\A i \in 1..n : PlaceOf[overrides[i].key] # p) =>
                        acc.now[p] = now[p]
               /\ \A i \in 1..n : PlaceOf[overrides[i].key] \in Places \ ReadOnly =>
                        acc.now[PlaceOf[overrides[i].key]] = overrides[i].value
  <1>0. n \in Nat /\ DOMAIN overrides = 1..n
    OBVIOUS
  <1>1. PICK h : /\ h[0] = [now |-> now, prev |-> NoSnapshot]
                 /\ \A i \in 1..n : h[i] = Apply(h[i - 1], overrides[i])
                 /\ Patched(now, overrides) = h[n]
    BY ONLY <1>0, PatchedInSteps
  <1> DEFINE PlaceAt(i) == PlaceOf[overrides[i].key]
             Sound(acc, k) ==
               /\ acc.now \in [Places -> Values] /\ acc.prev \in Snapshots
               /\ \A p \in DOMAIN acc.prev :
                    p \notin ReadOnly /\ \E i \in 1..k : PlaceAt(i) = p
               /\ \A p \in Places :
                    IF p \in DOMAIN acc.prev THEN acc.prev[p] = now[p] ELSE acc.now[p] = now[p]
               /\ \A p \in Places :
                    p \in ReadOnly \/ (\A i \in 1..k : PlaceAt(i) # p) => acc.now[p] = now[p]
               /\ \A i \in 1..k : PlaceAt(i) \in Places \ ReadOnly =>
                    acc.now[PlaceAt(i)] = overrides[i].value
  <1>2. \A i \in 1..n : PlaceAt(i) \in Places \cup {Unknown}
    BY InterceptionAssumption
  <1>3. \A i, j \in 1..n : PlaceAt(i) = PlaceAt(j) => i = j \/ PlaceAt(i) \in ReadOnly \cup {Unknown}
    OBVIOUS
  <1>4. \A i \in 1..n : overrides[i].value \in Values
    OBVIOUS
  <1>5. Unknown \notin Places /\ ReadOnly \subseteq Places
    BY InterceptionAssumption
  <1> HIDE DEF PlaceAt
  <1>6. Sound(h[0], 0)
    <2>1. NoSnapshot \in Snapshots /\ DOMAIN NoSnapshot = {}
      <3>1. NoSnapshot \in [{} -> Values]
        BY DEF NoSnapshot
      <3> QED BY <3>1 DEF Snapshots
    <2>2. 1..0 = {}
      OBVIOUS
    <2>3. h[0].now = now /\ h[0].prev = NoSnapshot
      BY <1>1
    <2> QED BY <2>1, <2>2, <2>3
  <1>7. ASSUME NEW k \in Nat, k + 1 <= n, Sound(h[k], k)
        PROVE  Sound(h[k + 1], k + 1)
    <2> DEFINE acc == h[k]
               new == h[k + 1]
               p == PlaceAt(k + 1)
               v == overrides[k + 1].value
    <2>1. k + 1 \in 1..n /\ 1..(k + 1) = 1..k \cup {k + 1}
      BY <1>7, SMTT(40)
    <2>2. new = IF p = Unknown \/ p \in ReadOnly THEN acc
                ELSE [now  |-> [acc.now EXCEPT ![p] = v],
                      prev |-> [q \in DOMAIN acc.prev \cup {p} |->
                                  IF q = p THEN acc.now[p] ELSE acc.prev[q]]]
      <3>1. h[k + 1] = Apply(h[(k + 1) - 1], overrides[k + 1]) /\ (k + 1) - 1 = k
        BY <1>1, <2>1
      <3> QED BY <3>1 DEF Apply, PlaceAt
    <2>3. p \in Places \cup {Unknown} /\ v \in Values
      BY <1>2, <1>4, <2>1
    <2>4. \A i \in 1..k : p # Unknown /\ p \notin ReadOnly => PlaceAt(i) # p
      <3>1. \A i \in 1..k : i \in 1..n /\ i # k + 1
        BY <1>7
      <3> QED BY <1>3, <2>1, <3>1
    <2>5. Sound(acc, k)
      BY <1>7
    <2>6. CASE p = Unknown \/ p \in ReadOnly
      BY <1>5, <2>1, <2>2, <2>5, <2>6
    <2>7. CASE p # Unknown /\ p \notin ReadOnly
      <3>1. p \in Places /\ p \notin DOMAIN acc.prev /\ acc.now[p] = now[p]
        BY <2>3, <2>4, <2>5, <2>7
      <3>2. new.now = [acc.now EXCEPT ![p] = v] /\ new.now \in [Places -> Values]
        BY <2>2, <2>3, <2>5, <2>7
      <3>3. /\ DOMAIN new.prev = DOMAIN acc.prev \cup {p}
            /\ \A q \in DOMAIN new.prev : new.prev[q] = IF q = p THEN acc.now[p] ELSE acc.prev[q]
            /\ new.prev = [q \in DOMAIN new.prev |-> new.prev[q]]
        <4>1. new.prev = [q \in DOMAIN acc.prev \cup {p} |->
                                  IF q = p THEN acc.now[p] ELSE acc.prev[q]]
          BY <2>2, <2>7
        <4> HIDE DEF new, acc, p
        <4> QED BY <4>1
      <3>4. new.prev \in Snapshots
        <4>1. PICK S \in SUBSET Places : acc.prev \in [S -> Values]
          BY <2>5 DEF Snapshots
        <4>2. acc.now[p] \in Values /\ DOMAIN acc.prev = S /\ \A q \in S : acc.prev[q] \in Values
          BY <2>5, <3>1, <4>1
        <4> HIDE DEF new, acc, p
        <4>3. new.prev \in [S \cup {p} -> Values]
          BY <3>3, <4>2
        <4> QED BY <3>1, <4>3 DEF Snapshots
      <3>5. \A q \in Places : new.now[q] = IF q = p THEN v ELSE acc.now[q]
        BY <2>5, <3>1, <3>2
      <3> HIDE DEF acc, new, p, v
      <3>6. \A q \in DOMAIN new.prev : q \notin ReadOnly /\ \E i \in 1..(k + 1) : PlaceAt(i) = q
        BY <2>1, <2>5, <2>7, <3>3 DEF p
      <3>7. \A q \in Places :
              IF q \in DOMAIN new.prev THEN new.prev[q] = now[q] ELSE new.now[q] = now[q]
        BY <2>5, <3>1, <3>3, <3>5
      <3>8. \A q \in Places : q \in ReadOnly \/ (\A i \in 1..(k + 1) : PlaceAt(i) # q) =>
              new.now[q] = now[q]
        BY <2>1, <2>5, <2>7, <3>5 DEF p
      <3>9. \A i \in 1..(k + 1) : PlaceAt(i) \in Places \ ReadOnly =>
              new.now[PlaceAt(i)] = overrides[i].value
        BY <2>1, <2>4, <2>5, <2>7, <3>1, <3>5 DEF p, v
      <3> QED BY <3>2, <3>4, <3>6, <3>7, <3>8, <3>9 DEF new
    <2> QED BY <2>6, <2>7
  <1> DEFINE N == {k \in Nat : k <= n => Sound(h[k], k)}
  <1>8. Nat \subseteq N
    <2> HIDE DEF Sound
    <2>1. 0 \in N
      BY <1>6
    <2>2. \A k \in Nat : k \in N => k + 1 \in N
      BY <1>7
    <2> HIDE DEF N
    <2> QED BY <2>1, <2>2, SetInduction
  <1>9. Sound(h[n], n)
    BY <1>8
  <1> QED BY <1>1, <1>9 DEF PlaceAt

InterceptionTypes ==
    /\ global \in [Places -> Values]
    /\ driver \in [Drivers -> {"idle", "driving", "entering", "compiling", "leaving"}]
    /\ candidate \in [Drivers -> Plans] /\ plan \in [Drivers -> Plans]
    /\ queue \in [Drivers -> Seq(Plans)]
    /\ entered \in [Drivers -> Nat]
    /\ snapshot \in [Drivers -> Seq(Snapshots)]
    /\ dynamoLock \in Drivers \cup {Unknown}

\* Who is inside the managers has Dynamo's lock, and only he has snapshots.
LockHeld ==
    \A t \in Drivers :
        /\ dynamoLock = t <=> driver[t] \in {"entering", "compiling", "leaving"}
        /\ Len(snapshot[t]) = entered[t] /\ entered[t] <= Len(Managers)
        /\ dynamoLock # t => entered[t] = 0

\* Of the snapshots that have a place, the outermost has what was there at first.
Unwinds ==
    \A t \in Drivers : dynamoLock = t => \A p \in Places :
        \/ global[p] = Original /\ \A i \in 1..entered[t] : p \notin DOMAIN snapshot[t][i]
        \/ \E i \in 1..entered[t] :
             /\ p \in DOMAIN snapshot[t][i] /\ snapshot[t][i][p] = Original
             /\ \A j \in 1..(i - 1) : p \notin DOMAIN snapshot[t][j]

\* On the way in, the places hold what the managers so far have put there.
UnderPlan ==
    \A t \in Drivers :
        /\ driver[t] \in {"entering", "compiling"} =>
             \A p \in Places : global[p] = IntendedBy(plan[t], entered[t], p)
        /\ driver[t] = "compiling" => entered[t] = Len(Managers)

InterceptionInv ==
    /\ InterceptionTypes /\ LockHeld /\ Unwinds /\ UnderPlan /\ ConfigRestored

\* The five context managers of a plan.
LEMMA ManagersAre ==
    /\ Len(Managers) = 5 /\ \A k \in 1..5 : Managers[k] \in ToSet(Managers)
  BY DEF Managers, ToSet

\* What a plan sets is a value of the configuration.
LEMMA ValuesHave ==
    ASSUME NEW q \in Plans, NEW m \in ToSet(Managers), NEW i \in DOMAIN Projected(q)[m]
    PROVE  Projected(q)[m][i].value \in Values
  BY DEF Values

\* The next manager has the last word on the places it touches.
LEMMA IntendedByNext ==
    ASSUME OneSpelling, NEW q \in Plans, NEW n \in Nat, n + 1 <= Len(Managers), NEW p \in Places
    PROVE  LET m == Managers[n + 1]
           IN  /\ (p \in ReadOnly \/ Overriding(q, m, p) = {}) =>
                      IntendedBy(q, n + 1, p) = IntendedBy(q, n, p)
               /\ \A i \in Overriding(q, m, p) : p \notin ReadOnly =>
                      IntendedBy(q, n + 1, p) = Projected(q)[m][i].value
  <1> DEFINE m == Managers[n + 1]
  <1>1. m \in ToSet(Managers) /\ n + 1 \in 1..(n + 1) /\ 1..(n + 1) = 1..n \cup {n + 1}
    BY ManagersAre
  <1>2. CASE p \in ReadOnly
    BY <1>2 DEF IntendedBy
  <1>3. CASE p \notin ReadOnly /\ Overriding(q, m, p) = {}
    <2>1. Touching(q, n + 1, p) = Touching(q, n, p)
      BY <1>1, <1>3 DEF Touching
    <2>2. IntendedBy(q, n + 1, p) = IntendedBy(q, n, p)
      BY <2>1 DEF IntendedBy
    <2> QED BY <1>3, <2>2
  <1>4. ASSUME p \notin ReadOnly, NEW i \in Overriding(q, m, p)
        PROVE  IntendedBy(q, n + 1, p) = Projected(q)[m][i].value
    <2>1. n + 1 \in Touching(q, n + 1, p) /\ Touching(q, n + 1, p) \subseteq 1..(n + 1)
      BY <1>1, <1>4 DEF Touching
    <2>2. Latest(Touching(q, n + 1, p)) = n + 1
      <3>1. \A j \in Touching(q, n + 1, p) : j \in Nat /\ j <= n + 1
        BY <2>1
      <3>2. \A k \in Touching(q, n + 1, p) :
              (\A j \in Touching(q, n + 1, p) : j <= k) => k = n + 1
        BY <2>1, <3>1
      <3> QED BY <2>1, <3>1, <3>2 DEF Latest
    <2>3. PICK d \in Nat : DOMAIN Projected(q)[m] = 1..d
      BY <1>1 DEF OneSpelling
    <2>4. \A j \in Overriding(q, m, p) : j = i
      BY <1>1, <1>4, InterceptionAssumption DEF OneSpelling, Overriding
    <2>5. Latest(Overriding(q, m, p)) = i
      <3>1. i <= i
        BY <1>4, <2>3 DEF Overriding
      <3> QED BY <1>4, <2>4, <3>1 DEF Latest
    <2>6. Touching(q, n + 1, p) # {}
      BY <2>1
    <2> QED BY <1>4, <2>2, <2>5, <2>6 DEF IntendedBy
  <1> QED BY <1>2, <1>3, <1>4

\* Before any manager is entered every place has its original value.
LEMMA IntendedByNobody ==
    ASSUME NEW q, NEW p PROVE IntendedBy(q, 0, p) = Original
  <1>1. 1..0 = {}
    OBVIOUS
  <1> QED BY <1>1 DEF IntendedBy, Touching

\* All drivers are idle and nothing is patched at the start.
LEMMA InterceptionInitInv == InterceptionInit => InterceptionInv
  <1> SUFFICES ASSUME InterceptionInit PROVE InterceptionInv
    OBVIOUS
  <1>1. << >> \in Seq(Plans) /\ << >> \in Seq(Snapshots) /\ << >> \in Plans /\ Len(<< >>) = 0
    BY InterceptionAssumption
  <1>2. Original \in Values
    BY DEF Values
  <1>3. InterceptionTypes
    BY <1>1, <1>2 DEF InterceptionInit, InterceptionTypes
  <1>4. LockHeld
    BY <1>1, ManagersAre, InterceptionAssumption DEF InterceptionInit, LockHeld
  <1>5. Unwinds /\ UnderPlan /\ ConfigRestored
    BY InterceptionAssumption DEF InterceptionInit, Unwinds, UnderPlan, ConfigRestored
  <1> QED BY <1>3, <1>4, <1>5 DEF InterceptionInv

\* Outside the managers a thread moves nothing that matters to the others.
LEMMA OutsideStep ==
    ASSUME InterceptionInv, NEW t \in Drivers,
           UNCHANGED <<global, entered, snapshot, dynamoLock>>,
           driver[t] \in {"idle", "driving"},
           \E s \in {"idle", "driving"} : driver' = [driver EXCEPT ![t] = s],
           candidate' \in [Drivers -> Plans], queue' \in [Drivers -> Seq(Plans)],
           plan' \in [Drivers -> Plans], \A d \in Drivers \ {t} : plan'[d] = plan[d]
    PROVE  InterceptionInv'
  <1> USE DEF InterceptionInv
  <1>1. /\ driver'[t] \in {"idle", "driving"}
        /\ \A d \in Drivers \ {t} : driver'[d] = driver[d]
    BY DEF InterceptionTypes
  <1>2. InterceptionTypes'
    BY DEF InterceptionTypes
  <1>3. LockHeld' /\ ConfigRestored'
    BY <1>1 DEF LockHeld, ConfigRestored
  <1>4. Unwinds'
    BY DEF Unwinds
  <1>5. UnderPlan'
    <2> SUFFICES ASSUME NEW d \in Drivers, driver'[d] \in {"entering", "compiling"}
                 PROVE  /\ \A p \in Places : global'[p] = IntendedBy(plan'[d], entered'[d], p)
                        /\ driver'[d] = "compiling" => entered'[d] = Len(Managers)
      BY DEF UnderPlan
    <2>1. d # t /\ driver'[d] = driver[d] /\ plan'[d] = plan[d]
      BY <1>1
    <2> QED BY <2>1 DEF UnderPlan
  <1> QED BY <1>2, <1>3, <1>4, <1>5

\* A driver's work between compiles leaves the configuration alone.
LEMMA WorkStep ==
    ASSUME InterceptionInv, NEW t \in Drivers,
           Compile(t) \/ TimeCandidate(t) \/ ValidateCorrectness(t) \/ Drive(t)
    PROVE  InterceptionInv'
  <1>0. /\ candidate \in [Drivers -> Plans] /\ plan \in [Drivers -> Plans]
        /\ queue \in [Drivers -> Seq(Plans)]
        /\ driver \in [Drivers -> {"idle", "driving", "entering", "compiling", "leaving"}]
    BY DEF InterceptionInv, InterceptionTypes
  <1>1. \A q \in Plans : <<q>> \in Seq(Plans)
    OBVIOUS
  <1>2. driver[t] = "idle" /\ driver' \in {driver, [driver EXCEPT ![t] = "driving"]}
    BY DEF Compile, TimeCandidate, ValidateCorrectness, Drive, AtRest
  <1>3. \E s \in {"idle", "driving"} : driver' = [driver EXCEPT ![t] = s]
    BY <1>0, <1>2
  <1>4. CASE Compile(t)
    <2>1. PICK q \in Plans : /\ candidate' = [candidate EXCEPT ![t] = q]
                             /\ queue' = [queue EXCEPT ![t] = <<q>>]
      BY <1>4 DEF Compile
    <2>2. queue' \in [Drivers -> Seq(Plans)] /\ candidate' \in [Drivers -> Plans]
      BY <1>0, <1>1, <2>1
    <2> QED BY <1>0, <1>2, <1>3, <1>4, <2>2, OutsideStep DEF Compile
  <1>5. CASE TimeCandidate(t)
    <2>1. queue' \in [Drivers -> Seq(Plans)]
      <3>1. queue' = queue \/ queue' = [queue EXCEPT ![t] = <<candidate[t]>>]
        BY <1>5 DEF TimeCandidate
      <3>2. <<candidate[t]>> \in Seq(Plans)
        BY <1>0, <1>1
      <3> QED BY <1>0, <3>1, <3>2
    <2> QED BY <1>0, <1>2, <1>3, <1>5, <2>1, OutsideStep DEF TimeCandidate
  <1>6. CASE ValidateCorrectness(t)
    <2>1. /\ << >> \in Seq(Plans) /\ << << >> >> \in Seq(Plans) /\ <<candidate[t]>> \in Seq(Plans)
          /\ << << >>, candidate[t]>> \in Seq(Plans)
      BY <1>0, InterceptionAssumption
    <2>2. queue' \in [Drivers -> Seq(Plans)]
      BY <1>0, <1>6, <2>1 DEF ValidateCorrectness
    <2> QED BY <1>0, <1>2, <1>3, <1>6, <2>2, OutsideStep DEF ValidateCorrectness
  <1>7. CASE Drive(t)
    <2>1. Head(queue[t]) \in Plans /\ Tail(queue[t]) \in Seq(Plans)
      BY <1>0, <1>7 DEF Drive
    <2>2. /\ queue' \in [Drivers -> Seq(Plans)] /\ plan' \in [Drivers -> Plans]
          /\ \A d \in Drivers \ {t} : plan'[d] = plan[d]
      BY <1>0, <1>7, <2>1 DEF Drive
    <2> QED BY <1>0, <1>2, <1>3, <1>7, <2>2, OutsideStep DEF Drive
  <1> QED BY <1>4, <1>5, <1>6, <1>7

\* Whoever takes the lock finds every place as it was at first.
LEMMA TakeStep ==
    ASSUME InterceptionInv, NEW t \in Drivers, CallBackend(t)
    PROVE  InterceptionInv'
  <1> USE DEF InterceptionInv
  <1>1. /\ driver[t] = "driving" /\ dynamoLock = Unknown /\ dynamoLock' = t
        /\ driver'[t] = "entering" /\ \A d \in Drivers \ {t} : driver'[d] = driver[d]
        /\ UNCHANGED <<global, plan, entered, snapshot, candidate, operation, queue, done>>
    BY DEF CallBackend, InterceptionTypes, workVars
  <1>2. t # Unknown /\ Unknown \notin Drivers
    BY InterceptionAssumption
  <1>3. InterceptionTypes'
    BY <1>1 DEF CallBackend, InterceptionTypes
  <1>4. \A d \in Drivers : entered[d] = 0
    BY <1>1, <1>2 DEF LockHeld
  <1>5. LockHeld'
    BY <1>1, <1>2, <1>4 DEF LockHeld
  <1>6. \A p \in Places : global[p] = Original
    BY <1>1 DEF ConfigRestored
  <1>7. Unwinds'
    BY <1>1, <1>4, <1>6 DEF Unwinds
  <1>8. UnderPlan'
    <2> SUFFICES ASSUME NEW d \in Drivers, driver'[d] \in {"entering", "compiling"}
                 PROVE  /\ \A p \in Places : global'[p] = IntendedBy(plan'[d], entered'[d], p)
                        /\ driver'[d] = "compiling" => entered'[d] = Len(Managers)
      BY DEF UnderPlan
    <2>1. d = t
      BY <1>1, <1>2 DEF LockHeld
    <2> QED BY <1>1, <1>4, <1>6, <2>1, IntendedByNobody
  <1>9. ConfigRestored'
    BY <1>1, <1>2 DEF ConfigRestored
  <1> QED BY <1>3, <1>5, <1>7, <1>8, <1>9

\* The next manager patches its places, and remembers what was there.
LEMMA EnterStep ==
    ASSUME OneSpelling, InterceptionInv, NEW t \in Drivers, EnterManager(t)
    PROVE  InterceptionInv'
  <1> USE DEF InterceptionInv
  <1> DEFINE n == entered[t]
             m == Managers[n + 1]
             overrides == Projected(plan[t])[m]
             acc == Patched(global, overrides)
  <1>1. /\ driver[t] = "entering" /\ n < Len(Managers) /\ n \in Nat /\ plan[t] \in Plans
        /\ UNCHANGED <<driver, plan, dynamoLock, candidate, operation, queue, done>>
        /\ dynamoLock = t
    BY DEF EnterManager, InterceptionTypes, workVars, LockHeld
  <1>2. /\ global' = acc.now
        /\ snapshot' = [snapshot EXCEPT ![t] = Append(snapshot[t], acc.prev)]
        /\ entered' = [entered EXCEPT ![t] = n + 1]
    BY DEF EnterManager
  <1>3. m \in ToSet(Managers) /\ n + 1 \in Nat /\ n + 1 <= Len(Managers)
    BY <1>1, ManagersAre
  <1>4. PICK k \in Nat : DOMAIN overrides = 1..k
    BY <1>1, <1>3 DEF OneSpelling
  <1>5. \A i \in 1..k :
          /\ overrides[i].key \in Spellings /\ overrides[i].value \in Values
          /\ \A j \in 1..k : PlaceOf[overrides[i].key] = PlaceOf[overrides[j].key] =>
                               i = j \/ PlaceOf[overrides[i].key] \in ReadOnly \cup {Unknown}
    BY <1>1, <1>3, <1>4, ValuesHave DEF OneSpelling
  <1>6. \A p \in Places : Overriding(plan[t], m, p) = {i \in 1..k : PlaceOf[overrides[i].key] = p}
    BY <1>4 DEF Overriding
  <1>7. \A p \in Places :
          /\ (p \in ReadOnly \/ Overriding(plan[t], m, p) = {}) =>
                 IntendedBy(plan[t], n + 1, p) = IntendedBy(plan[t], n, p)
          /\ \A i \in Overriding(plan[t], m, p) : p \notin ReadOnly =>
                 IntendedBy(plan[t], n + 1, p) = overrides[i].value
    BY <1>1, <1>3, IntendedByNext
  <1> HIDE DEF overrides
  <1>8. /\ acc.now \in [Places -> Values] /\ acc.prev \in Snapshots
        /\ \A p \in Places :
             IF p \in DOMAIN acc.prev THEN acc.prev[p] = global[p] ELSE acc.now[p] = global[p]
        /\ \A p \in Places :
             p \in ReadOnly \/ (\A i \in 1..k : PlaceOf[overrides[i].key] # p) =>
                 acc.now[p] = global[p]
        /\ \A i \in 1..k : PlaceOf[overrides[i].key] \in Places \ ReadOnly =>
                 acc.now[PlaceOf[overrides[i].key]] = overrides[i].value
    <2>1. global \in [Places -> Values]
      BY DEF InterceptionTypes
    <2> HIDE DEF m, n
    <2> QED BY ONLY <1>4, <1>5, <2>1, PatchedIs DEF acc
  <1> HIDE DEF acc, m, n
  <1>9. /\ snapshot[t] \in Seq(Snapshots) /\ Len(snapshot[t]) = n
        /\ snapshot'[t] = Append(snapshot[t], acc.prev)
        /\ snapshot'[t] \in Seq(Snapshots) /\ Len(snapshot'[t]) = n + 1
        /\ \A i \in 1..n : snapshot'[t][i] = snapshot[t][i]
        /\ snapshot'[t][n + 1] = acc.prev
    <2>1. snapshot[t] \in Seq(Snapshots) /\ Len(snapshot[t]) = n
      BY DEF InterceptionTypes, LockHeld, n
    <2>2. snapshot'[t] = Append(snapshot[t], acc.prev)
      BY <1>2 DEF InterceptionTypes
    <2> QED BY <1>8, <2>1, <2>2
  <1>10. entered'[t] = n + 1 /\ \A d \in Drivers \ {t} : entered'[d] = entered[d] /\ snapshot'[d] = snapshot[d]
    BY <1>2 DEF InterceptionTypes
  <1>11. InterceptionTypes'
    BY <1>1, <1>2, <1>3, <1>8, <1>9 DEF InterceptionTypes
  <1>12. LockHeld'
    BY <1>1, <1>3, <1>9, <1>10 DEF LockHeld
  <1>13. Unwinds'
    <2> SUFFICES ASSUME NEW p \in Places
                 PROVE  \/ /\ global'[p] = Original
                           /\ \A i \in 1..(n + 1) : p \notin DOMAIN snapshot'[t][i]
                        \/ \E i \in 1..(n + 1) :
                             /\ p \in DOMAIN snapshot'[t][i] /\ snapshot'[t][i][p] = Original
                             /\ \A j \in 1..(i - 1) : p \notin DOMAIN snapshot'[t][j]
      BY <1>1, <1>10 DEF Unwinds
    <2>1. 1..(n + 1) = 1..n \cup {n + 1} /\ (n + 1) - 1 = n /\ n \in Nat
      BY <1>1 DEF n
    <2>2. CASE \E i \in 1..n : /\ p \in DOMAIN snapshot[t][i] /\ snapshot[t][i][p] = Original
                               /\ \A j \in 1..(i - 1) : p \notin DOMAIN snapshot[t][j]
      <3>1. PICK i \in 1..n : /\ p \in DOMAIN snapshot[t][i] /\ snapshot[t][i][p] = Original
                              /\ \A j \in 1..(i - 1) : p \notin DOMAIN snapshot[t][j]
        BY <2>2
      <3>2. \A j \in 1..(i - 1) : j \in 1..n
        BY <2>1
      <3>3. /\ p \in DOMAIN snapshot'[t][i] /\ snapshot'[t][i][p] = Original
            /\ \A j \in 1..(i - 1) : p \notin DOMAIN snapshot'[t][j]
        BY <1>9, <3>1, <3>2
      <3> QED BY <2>1, <3>3
    <2>3. CASE global[p] = Original /\ \A i \in 1..n : p \notin DOMAIN snapshot[t][i]
      <3>1. CASE p \in DOMAIN acc.prev
        <4>1. p \in DOMAIN snapshot'[t][n + 1] /\ snapshot'[t][n + 1][p] = Original
          BY <1>8, <1>9, <2>3, <3>1
        <4>2. \A j \in 1..((n + 1) - 1) : p \notin DOMAIN snapshot'[t][j]
          BY <1>9, <2>1, <2>3
        <4> QED BY <2>1, <4>1, <4>2
      <3>2. CASE p \notin DOMAIN acc.prev
        BY <1>2, <1>8, <1>9, <2>1, <2>3, <3>2
      <3> QED BY <3>1, <3>2
    <2> QED BY <1>1, <2>2, <2>3 DEF Unwinds, n
  <1>14. UnderPlan'
    <2> SUFFICES ASSUME NEW d \in Drivers, driver'[d] \in {"entering", "compiling"}
                 PROVE  /\ \A p \in Places : global'[p] = IntendedBy(plan'[d], entered'[d], p)
                        /\ driver'[d] = "compiling" => entered'[d] = Len(Managers)
      BY DEF UnderPlan
    <2>1. d = t
      BY <1>1 DEF LockHeld
    <2>2. ASSUME NEW p \in Places PROVE acc.now[p] = IntendedBy(plan[t], n + 1, p)
      <3>1. global[p] = IntendedBy(plan[t], n, p)
        BY <1>1 DEF UnderPlan, n
      <3>2. CASE p \in ReadOnly \/ Overriding(plan[t], m, p) = {}
        BY <1>6, <1>7, <1>8, <3>1, <3>2
      <3>3. CASE p \notin ReadOnly /\ Overriding(plan[t], m, p) # {}
        BY <1>6, <1>7, <1>8, <3>3
      <3> QED BY <3>2, <3>3
    <2> QED BY <1>1, <1>2, <1>10, <2>1, <2>2
  <1>15. ConfigRestored'
    BY <1>1, InterceptionAssumption DEF ConfigRestored
  <1> QED BY <1>11, <1>12, <1>13, <1>14, <1>15

\* The compile under way is of the driver that has entered all managers.
LEMMA CompileFxStep ==
    ASSUME InterceptionInv, NEW t \in Drivers, CompileFx(t)
    PROVE  InterceptionInv'
  <1> USE DEF InterceptionInv
  <1>1. /\ driver[t] = "entering" /\ entered[t] = Len(Managers)
        /\ driver'[t] = "compiling" /\ \A d \in Drivers \ {t} : driver'[d] = driver[d]
        /\ UNCHANGED <<global, plan, entered, snapshot, dynamoLock, candidate, queue>>
    BY DEF CompileFx, InterceptionTypes, workVars
  <1>2. InterceptionTypes'
    BY <1>1 DEF CompileFx, InterceptionTypes
  <1>3. LockHeld' /\ Unwinds' /\ ConfigRestored'
    BY <1>1 DEF LockHeld, Unwinds, ConfigRestored
  <1>4. UnderPlan'
    <2> SUFFICES ASSUME NEW d \in Drivers, driver'[d] \in {"entering", "compiling"}
                 PROVE  /\ \A p \in Places : global'[p] = IntendedBy(plan'[d], entered'[d], p)
                        /\ driver'[d] = "compiling" => entered'[d] = Len(Managers)
      BY DEF UnderPlan
    <2>1. driver[d] \in {"entering", "compiling"}
      BY <1>1
    <2> QED BY <1>1, <2>1 DEF UnderPlan
  <1> QED BY <1>2, <1>3, <1>4

\* The innermost manager puts back what its snapshot has.
LEMMA LeaveManagerStep ==
    ASSUME InterceptionInv, NEW t \in Drivers, LeaveManager(t)
    PROVE  InterceptionInv'
  <1> USE DEF InterceptionInv
  <1> DEFINE n == entered[t]
             prev == Last(snapshot[t])
  <1>1. /\ driver[t] \in {"compiling", "leaving"} /\ n > 0 /\ n \in Nat /\ n <= Len(Managers)
        /\ driver'[t] = "leaving" /\ \A d \in Drivers \ {t} : driver'[d] = driver[d]
        /\ UNCHANGED <<plan, dynamoLock, candidate, queue>>
        /\ dynamoLock = t
    BY DEF LeaveManager, InterceptionTypes, workVars, LockHeld
  <1>2. /\ snapshot[t] \in Seq(Snapshots) /\ Len(snapshot[t]) = n /\ n \in 1..n
        /\ prev = snapshot[t][n] /\ prev \in Snapshots
        /\ Front(snapshot[t]) \in Seq(Snapshots) /\ Len(Front(snapshot[t])) = n - 1
        /\ \A i \in 1..(n - 1) : Front(snapshot[t])[i] = snapshot[t][i]
    <2>1. snapshot[t] \in Seq(Snapshots) /\ Len(snapshot[t]) = n /\ n \in 1..n
      BY <1>1 DEF InterceptionTypes, LockHeld
    <2>2. prev = snapshot[t][n] /\ prev \in Snapshots
      BY <2>1 DEF Last
    <2>3. Front(snapshot[t]) = SubSeq(snapshot[t], 1, n - 1)
      BY <2>1 DEF Front
    <2> HIDE DEF n
    <2> QED BY <1>1, <2>1, <2>2, <2>3
  <1>3. /\ global' = [p \in Places |-> IF p \in DOMAIN prev THEN prev[p] ELSE global[p]]
        /\ snapshot' = [snapshot EXCEPT ![t] = Front(snapshot[t])]
        /\ entered' = [entered EXCEPT ![t] = n - 1]
    BY DEF LeaveManager
  <1> HIDE DEF n, prev
  <1>4. /\ entered'[t] = n - 1 /\ snapshot'[t] = Front(snapshot[t])
        /\ \A d \in Drivers \ {t} : entered'[d] = entered[d] /\ snapshot'[d] = snapshot[d]
    BY <1>3 DEF InterceptionTypes
  <1>5. \A p \in DOMAIN prev : prev[p] \in Values
    BY <1>2 DEF Snapshots
  <1>6. InterceptionTypes'
    <2>1. global' \in [Places -> Values]
      BY <1>3, <1>5 DEF InterceptionTypes
    <2>2. n - 1 \in Nat
      BY <1>1
    <2>3. driver' \in [Drivers -> {"idle", "driving", "entering", "compiling", "leaving"}]
      BY DEF LeaveManager, InterceptionTypes
    <2> QED BY <1>1, <1>2, <1>3, <2>1, <2>2, <2>3 DEF InterceptionTypes
  <1>7. LockHeld'
    BY <1>1, <1>2, <1>4 DEF LockHeld
  <1>8. Unwinds'
    <2> SUFFICES ASSUME NEW p \in Places
                 PROVE  \/ /\ global'[p] = Original
                           /\ \A i \in 1..(n - 1) : p \notin DOMAIN snapshot'[t][i]
                        \/ \E i \in 1..(n - 1) :
                             /\ p \in DOMAIN snapshot'[t][i] /\ snapshot'[t][i][p] = Original
                             /\ \A j \in 1..(i - 1) : p \notin DOMAIN snapshot'[t][j]
      BY <1>1, <1>4 DEF Unwinds
    <2>1. 1..n = 1..(n - 1) \cup {n} /\ n \in Nat
      BY <1>1
    <2>2. CASE \E i \in 1..n : /\ p \in DOMAIN snapshot[t][i] /\ snapshot[t][i][p] = Original
                               /\ \A j \in 1..(i - 1) : p \notin DOMAIN snapshot[t][j]
      <3>1. PICK i \in 1..n : /\ p \in DOMAIN snapshot[t][i] /\ snapshot[t][i][p] = Original
                              /\ \A j \in 1..(i - 1) : p \notin DOMAIN snapshot[t][j]
        BY <2>2
      <3>2. CASE i = n
        <4>1. global'[p] = Original
          BY <1>2, <1>3, <3>1, <3>2
        <4>2. \A j \in 1..(n - 1) : p \notin DOMAIN snapshot'[t][j]
          BY <1>2, <1>4, <3>1, <3>2
        <4> QED BY <4>1, <4>2
      <3>3. CASE i # n
        <4>1. i \in 1..(n - 1) /\ \A j \in 1..(i - 1) : j \in 1..(n - 1)
          BY <2>1, <3>3
        <4>2. /\ p \in DOMAIN snapshot'[t][i] /\ snapshot'[t][i][p] = Original
              /\ \A j \in 1..(i - 1) : p \notin DOMAIN snapshot'[t][j]
          BY <1>2, <1>4, <3>1, <4>1
        <4> QED BY <4>1, <4>2
      <3> QED BY <3>2, <3>3
    <2>3. CASE global[p] = Original /\ \A i \in 1..n : p \notin DOMAIN snapshot[t][i]
      <3>1. p \notin DOMAIN prev
        BY <1>2, <2>3
      <3>2. \A i \in 1..(n - 1) : p \notin DOMAIN snapshot'[t][i]
        BY <1>2, <1>4, <2>1, <2>3
      <3> QED BY <1>3, <2>3, <3>1, <3>2
    <2> QED BY <1>1, <2>2, <2>3 DEF Unwinds, n
  <1>9. UnderPlan'
    <2>1. \A d \in Drivers : driver'[d] \notin {"entering", "compiling"}
      BY <1>1 DEF LockHeld
    <2> QED BY <2>1 DEF UnderPlan
  <1>10. ConfigRestored'
    BY <1>1, InterceptionAssumption DEF ConfigRestored
  <1> QED BY <1>6, <1>7, <1>8, <1>9, <1>10

\* The lock is given back with every place as it was at first.
LEMMA ReturnStep ==
    ASSUME InterceptionInv, NEW t \in Drivers, BackendReturns(t)
    PROVE  InterceptionInv'
  <1> USE DEF InterceptionInv
  <1>1. /\ driver[t] = "leaving" /\ entered[t] = 0 /\ dynamoLock' = Unknown
        /\ driver'[t] \in {"idle", "driving"} /\ \A d \in Drivers \ {t} : driver'[d] = driver[d]
        /\ UNCHANGED <<global, plan, entered, snapshot, candidate, queue>>
        /\ dynamoLock = t
    BY DEF BackendReturns, InterceptionTypes, workVars, LockHeld
  <1>2. InterceptionTypes'
    BY <1>1 DEF BackendReturns, InterceptionTypes
  <1>3. \A d \in Drivers : d # Unknown
    BY InterceptionAssumption
  <1>4. LockHeld'
    BY <1>1, <1>3 DEF LockHeld
  <1>5. Unwinds'
    BY <1>1, <1>3 DEF Unwinds
  <1>6. UnderPlan'
    <2>1. \A d \in Drivers : driver'[d] \notin {"entering", "compiling"}
      BY <1>1 DEF LockHeld
    <2> QED BY <2>1 DEF UnderPlan
  <1>7. ConfigRestored'
    <2>1. 1..0 = {}
      OBVIOUS
    <2> QED BY <1>1, <2>1 DEF ConfigRestored, Unwinds
  <1> QED BY <1>2, <1>4, <1>5, <1>6, <1>7

\* The invariant is inductive, if no plan patches a place under two names.
THEOREM InterceptionInvariance ==
    ASSUME OneSpelling
    PROVE  InterceptionSpec => []InterceptionInv
  <1>1. InterceptionInv /\ [InterceptionNext]_interceptionVars => InterceptionInv'
    <2> SUFFICES ASSUME InterceptionInv, [InterceptionNext]_interceptionVars
                 PROVE  InterceptionInv'
      OBVIOUS
    <2>1. CASE UNCHANGED interceptionVars
      BY <2>1 DEF interceptionVars, workVars, InterceptionInv, InterceptionTypes, LockHeld,
                  Unwinds, UnderPlan, ConfigRestored
    <2>2. CASE InterceptionNext
      BY <2>2, WorkStep, TakeStep, EnterStep, CompileFxStep, LeaveManagerStep, ReturnStep
      DEF InterceptionNext
    <2> QED BY <2>1, <2>2
  <1> QED BY <1>1, InterceptionInitInv, PTL DEF InterceptionSpec

\* "restores on exit" (interception.py:22-87), for any threads, plans, defaults
\* and keys, as long as no manager patches a place under two names: the run
\* interception_alias is what happens otherwise.
THEOREM ConfigIsRestored ==
    ASSUME OneSpelling
    PROVE  InterceptionSpec => []ConfigRestored
  <1>1. InterceptionInv => ConfigRestored
    BY DEF InterceptionInv
  <1> QED BY <1>1, InterceptionInvariance, PTL

\* Under the same condition each compile_fx runs under exactly its plan, whatever
\* other threads compile (harness.py:106-145).
THEOREM CompiledUnderOwnPlan ==
    ASSUME OneSpelling
    PROVE  InterceptionSpec => []CompiledUnderItsPlan
  <1>1. InterceptionInv => CompiledUnderItsPlan
    BY DEF InterceptionInv, UnderPlan, CompiledUnderItsPlan, Intended
  <1> QED BY <1>1, InterceptionInvariance, PTL

-----------------------------------------------------------------------------
(* The triton backend. *)

StageTypes ==
    /\ compile \in [Compiles -> {"new", "hooked", "stages", "leaving", "compiled", "failed", "timed"}]
    /\ launch \in [Compiles -> Launches]
    /\ DOMAIN measured = Compiles
    /\ under \in [Compiles -> Compiles \cup {NoPlan}]
    /\ overlapped \in BOOLEAN
    /\ hook \in Compiles \cup {NoPlan}
    /\ before \in [Compiles -> Compiles \cup {NoPlan}]

Hooked(c) == compile[c] \in {"hooked", "stages", "leaving"}

UnderWay(c) == compile[c] \notin {"new", "failed", "timed"}

OneAtATime == \A c, d \in Compiles : UnderWay(c) /\ UnderWay(d) => c = d

\* The knob is free but during a compile, and that compile will free it.
HookIsOwn ==
    /\ \A c \in Compiles : Hooked(c) => hook = c /\ before[c] = NoPlan
    /\ hook # NoPlan => Hooked(hook)

\* What the jit knows under a key without a hook was built without a plan.
PlainIsPlain ==
    \A entry \in jit : entry[1][2] = NoPlan => entry[2].ran = Kept(<< >>)

MeasuredIsPlain == \A c \in Compiles : measured[c] # NoPlan => measured[c].ran = Kept(<< >>)

\* The executor that runs a compile's passes is its own.
ExecutorIsOwn == \A c \in Compiles : compile[c] = "stages" => under[c] = c

\* What holds while candidates are compiled and timed one by one.
StageAlone ==
    StageTypes /\ OneAtATime /\ HookIsOwn /\ ExecutorIsOwn /\ PlainIsPlain /\ MeasuredIsPlain

StageInv == StageTypes /\ (~overlapped => StageAlone)

\* No compile is under way and no hook is installed at the start.
LEMMA StageInitInv == StageInit => StageInv
  BY StageAssumption
  DEF StageInit, StageInv, StageAlone, StageTypes, OneAtATime, UnderWay, HookIsOwn, Hooked,
      ExecutorIsOwn, PlainIsPlain, MeasuredIsPlain

\* A compile moves on, or ends, and leaves the knob and the jit's plain entries
\* as they are.
LEMMA MovesOn ==
    ASSUME StageAlone, NEW c \in Compiles, UnderWay(c),
           NEW s \in {"stages", "leaving", "failed"},
           compile' \in {compile, [compile EXCEPT ![c] = s]},
           Hooked(c) <=> s # "failed",
           UNCHANGED <<launch, measured, hook, before, overlapped>>,
           under' \in {under, [under EXCEPT ![c] = c]},
           s = "stages" => under' = [under EXCEPT ![c] = c],
           \A entry \in jit' : entry \in jit \/ entry[1][2] # NoPlan
    PROVE  StageAlone'
  <1> USE DEF StageAlone
  <1>1. /\ compile'[c] \in {compile[c], s}
        /\ \A d \in Compiles \ {c} : compile'[d] = compile[d]
    BY DEF StageTypes
  <1>2. StageTypes'
    BY DEF StageTypes
  <1>3. \A d \in Compiles : UnderWay(d)' => UnderWay(d)
    BY <1>1 DEF UnderWay
  <1>4. OneAtATime'
    BY <1>3 DEF OneAtATime
  <1>5. \A d \in Compiles : Hooked(d)' <=> Hooked(d)
    BY <1>1 DEF Hooked
  <1>6. HookIsOwn'
    BY <1>5 DEF HookIsOwn, StageTypes
  <1>7. PlainIsPlain' /\ MeasuredIsPlain'
    BY DEF PlainIsPlain, MeasuredIsPlain
  <1>8. ExecutorIsOwn'
    BY <1>1 DEF ExecutorIsOwn, StageTypes
  <1> QED BY <1>2, <1>4, <1>6, <1>7, <1>8

\* A key of a hooked launch says so.
LEMMA HookedKey ==
    ASSUME StageAlone, NEW c \in Compiles, Hooked(c)
    PROVE  hook = c /\ \A options : Key(hook, options)[2] # NoPlan
  BY StageAssumption DEF StageAlone, StageTypes, HookIsOwn, Key

\* Steps inside a compile that leave the hook alone.
LEMMA InsideStep ==
    ASSUME StageAlone, NEW c \in Compiles,
           Fault(c) \/ Launch(c) \/ ExecutePass(c) \/ FinishStages(c) \/ TimingFails(c)
    PROVE  StageAlone'
  <1>1. CASE Fault(c)
    BY <1>1, MovesOn DEF Fault, Advance, Hooked, UnderWay
  <1>2. CASE Launch(c)
    <2>1. compile[c] = "hooked" /\ Hooked(c) /\ UnderWay(c)
      BY <1>2 DEF Launch, Hooked, UnderWay
    <2>2. hook = c /\ Key(hook, launch[c])[2] # NoPlan
      BY <2>1, HookedKey
    <2>3. \A entry \in jit' : entry \in jit \/ entry[1][2] # NoPlan
      BY <1>2, <2>2 DEF Launch
    <2>4. /\ compile' = [compile EXCEPT ![c] = "stages"] \/ compile' = [compile EXCEPT ![c] = "leaving"]
          /\ under' = [under EXCEPT ![c] = c]
          /\ UNCHANGED <<launch, measured, hook, before, overlapped>>
      BY <1>2, <2>2 DEF Launch, Advance
    <2> QED BY <2>1, <2>3, <2>4, MovesOn
  <1>3. CASE ExecutePass(c)
    <2>1. compile[c] = "stages" /\ Hooked(c) /\ UnderWay(c)
      BY <1>3 DEF ExecutePass, Hooked, UnderWay
    <2>2. /\ compile' \in {compile, [compile EXCEPT ![c] = "leaving"]}
          /\ UNCHANGED <<launch, under, measured, hook, before, jit, overlapped>>
      BY <1>3 DEF ExecutePass, Advance
    <2> QED BY <2>1, <2>2, MovesOn
  <1>4. CASE FinishStages(c)
    <2>1. compile[c] = "stages" /\ Hooked(c) /\ UnderWay(c)
      BY <1>4 DEF FinishStages, Hooked, UnderWay
    <2>2. under[c] = c /\ Key(under[c], launch[c])[2] # NoPlan
      BY <2>1, StageAssumption DEF StageAlone, StageTypes, ExecutorIsOwn, Key
    <2>3. \A entry \in jit' : entry \in jit \/ entry[1][2] # NoPlan
      BY <1>4, <2>2 DEF FinishStages
    <2>4. /\ compile' = [compile EXCEPT ![c] = "leaving"]
          /\ UNCHANGED <<launch, under, measured, hook, before, overlapped>>
      BY <1>4 DEF FinishStages, Advance
    <2> QED BY <2>1, <2>3, <2>4, MovesOn
  <1>5. CASE TimingFails(c)
    BY <1>5, MovesOn DEF TimingFails, Advance, Hooked, UnderWay
  <1> QED BY <1>1, <1>2, <1>3, <1>4, <1>5

\* A compile that enters when none is under way finds the knob free.
LEMMA EnterHookStep ==
    ASSUME StageAlone, NEW c \in Compiles, Enter(c), ~overlapped'
    PROVE  StageAlone'
  <1> USE DEF StageAlone
  <1>1. \A d \in Compiles : ~UnderWay(d)
    BY DEF Enter, AtWork, UnderWay
  <1>2. hook = NoPlan
    BY <1>1 DEF HookIsOwn, StageTypes, Hooked, UnderWay
  <1>3. /\ before' = [before EXCEPT ![c] = NoPlan] /\ hook' = c
        /\ compile' = [compile EXCEPT ![c] = "hooked"]
        /\ UNCHANGED <<launch, under, measured, jit>>
    BY <1>2 DEF Enter, Advance
  <1>4. compile'[c] = "hooked" /\ \A d \in Compiles \ {c} : compile'[d] = compile[d]
    BY <1>3 DEF StageTypes
  <1>5. StageTypes' /\ before'[c] = NoPlan
    BY <1>3 DEF StageTypes, Enter
  <1>6. OneAtATime'
    BY <1>1, <1>4 DEF OneAtATime, UnderWay
  <1>7. HookIsOwn'
    BY <1>1, <1>3, <1>4, <1>5 DEF HookIsOwn, Hooked, UnderWay
  <1>8. PlainIsPlain' /\ MeasuredIsPlain' /\ ExecutorIsOwn'
    BY <1>3, <1>4 DEF PlainIsPlain, MeasuredIsPlain, ExecutorIsOwn
  <1> QED BY <1>5, <1>6, <1>7, <1>8

\* It leaves the knob free, however it ended.
LEMMA LeaveHookStep ==
    ASSUME StageAlone, NEW c \in Compiles, Leave(c)
    PROVE  StageAlone'
  <1> USE DEF StageAlone
  <1>1. /\ compile[c] = "leaving" /\ hook' = before[c]
        /\ compile' = [compile EXCEPT ![c] = Outcome(c)]
        /\ UNCHANGED <<launch, under, measured, before, jit, overlapped>>
    BY DEF Leave, Advance
  <1>2. hook = c /\ hook' = NoPlan
    BY <1>1 DEF HookIsOwn, Hooked
  <1>3. Outcome(c) \in {"failed", "compiled"}
    BY DEF Outcome
  <1>4. compile'[c] \in {"failed", "compiled"} /\ \A d \in Compiles \ {c} : compile'[d] = compile[d]
    BY <1>1, <1>3 DEF StageTypes
  <1>5. StageTypes'
    BY <1>1, <1>2, <1>3 DEF StageTypes
  <1>6. OneAtATime'
    BY <1>1, <1>4 DEF OneAtATime, UnderWay
  <1>7. \A d \in Compiles : ~Hooked(d)'
    BY <1>1, <1>4 DEF OneAtATime, UnderWay, Hooked
  <1>8. HookIsOwn'
    BY <1>2, <1>7 DEF HookIsOwn
  <1>9. PlainIsPlain' /\ MeasuredIsPlain' /\ ExecutorIsOwn'
    BY <1>1, <1>4 DEF PlainIsPlain, MeasuredIsPlain, ExecutorIsOwn
  <1> QED BY <1>5, <1>6, <1>8, <1>9

\* What is timed comes from the jit without a hook, or is built without one.
LEMMA TimePlanStep ==
    ASSUME StageAlone, NEW c \in Compiles, TimePlan(c)
    PROVE  StageAlone'
  <1> USE DEF StageAlone
  <1>1. /\ compile[c] = "compiled" /\ compile' = [compile EXCEPT ![c] = "timed"]
        /\ UNCHANGED <<launch, under, hook, before, overlapped>>
    BY DEF TimePlan, Advance
  <1>2. hook = NoPlan
    BY <1>1 DEF HookIsOwn, StageTypes, OneAtATime, UnderWay, Hooked
  <1>3. compile'[c] = "timed" /\ \A d \in Compiles \ {c} : compile'[d] = compile[d]
    BY <1>1 DEF StageTypes
  <1>4. PICK built : /\ measured' = [measured EXCEPT ![c] = built]
                     /\ jit' = jit \cup {<<Key(NoPlan, OwnLaunch), built>>}
                     /\ built.ran = Kept(<< >>)
    <2> DEFINE key == Key(hook, OwnLaunch)
               empty == Build(OwnLaunch, IF hook = NoPlan THEN << >> ELSE passes[hook])
               entry == CHOOSE entry \in Cached(key) : TRUE
               built == IF Cached(key) = {} THEN empty ELSE entry[2]
    <2>1. measured' = [measured EXCEPT ![c] = built] /\ jit' = jit \cup {<<key, built>>}
      BY DEF TimePlan
    <2>2. key = Key(NoPlan, OwnLaunch) /\ key[2] = NoPlan
      BY <1>2 DEF Key
    <2>3. empty.ran = Kept(<< >>)
      BY <1>2 DEF Build, Module
    <2>4. Cached(key) # {} => entry \in Cached(key)
      OBVIOUS
    <2> HIDE DEF key, empty, entry
    <2>5. Cached(key) # {} => entry[2].ran = Kept(<< >>)
      <3> SUFFICES ASSUME Cached(key) # {} PROVE entry[2].ran = Kept(<< >>)
        OBVIOUS
      <3>1. entry \in jit /\ entry[1][2] = NoPlan
        BY <2>2, <2>4 DEF Cached
      <3> QED BY <3>1 DEF PlainIsPlain
    <2>6. built.ran = Kept(<< >>)
      BY <2>3, <2>5
    <2> QED BY <2>1, <2>2, <2>6
  <1>5. StageTypes'
    BY <1>1, <1>4 DEF StageTypes
  <1>6. OneAtATime'
    BY <1>3 DEF OneAtATime, UnderWay
  <1>7. HookIsOwn'
    BY <1>1, <1>2, <1>3 DEF HookIsOwn, Hooked
  <1>8. PlainIsPlain'
    BY <1>4 DEF PlainIsPlain
  <1>9. MeasuredIsPlain' /\ ExecutorIsOwn'
    BY <1>1, <1>3, <1>4 DEF MeasuredIsPlain, ExecutorIsOwn, StageTypes
  <1> QED BY <1>5, <1>6, <1>7, <1>8, <1>9

\* Steps keep the variables in their ranges, overlapping or not.
LEMMA StageTypesStep ==
    ASSUME StageTypes, StageNext
    PROVE  StageTypes'
  <1> USE DEF StageTypes, Advance
  <1> PICK c \in Compiles :
             \/ Enter(c) \/ Fault(c) \/ Launch(c) \/ ExecutePass(c) \/ FinishStages(c)
             \/ Leave(c) \/ TimePlan(c) \/ TimingFails(c)
    BY DEF StageNext
  <1>1. CASE Enter(c)
    BY <1>1 DEF Enter
  <1>2. CASE Fault(c)
    BY <1>2 DEF Fault
  <1>3. CASE Launch(c)
    <2>1. /\ \/ compile' = [compile EXCEPT ![c] = "stages"]
             \/ compile' = [compile EXCEPT ![c] = "leaving"]
          /\ under' = [under EXCEPT ![c] = hook]
          /\ UNCHANGED <<launch, measured, hook, before, overlapped>>
      BY <1>3 DEF Launch
    <2> QED BY <2>1
  <1>4. CASE ExecutePass(c)
    <2>1. /\ compile' \in {compile, [compile EXCEPT ![c] = "leaving"]}
          /\ UNCHANGED <<launch, under, measured, hook, before, overlapped>>
      BY <1>4 DEF ExecutePass
    <2> QED BY <2>1
  <1>5. CASE FinishStages(c)
    BY <1>5 DEF FinishStages
  <1>6. CASE Leave(c)
    BY <1>6 DEF Leave, Outcome
  <1>7. CASE TimePlan(c)
    <2>1. /\ compile' = [compile EXCEPT ![c] = "timed"]
          /\ DOMAIN measured' = Compiles
          /\ UNCHANGED <<launch, under, hook, before, overlapped>>
      BY <1>7 DEF TimePlan
    <2> QED BY <2>1
  <1>8. CASE TimingFails(c)
    BY <1>8 DEF TimingFails
  <1> QED BY <1>1, <1>2, <1>3, <1>4, <1>5, <1>6, <1>7, <1>8

\* Two candidates that were under way at a time have been so for good.
LEMMA OverlapStays ==
    ASSUME StageTypes, StageNext, ~overlapped'
    PROVE  ~overlapped
  BY DEF StageNext, StageTypes, Enter, Fault, Launch, ExecutePass, FinishStages, Leave,
         TimePlan, TimingFails

\* The invariant is inductive.
THEOREM StageInvariance == StageSpec => []StageInv
  <1>1. StageInv /\ [StageNext]_stageVars => StageInv'
    <2> SUFFICES ASSUME StageInv, [StageNext]_stageVars
                 PROVE  StageInv'
      OBVIOUS
    <2>1. CASE UNCHANGED stageVars
      BY <2>1 DEF stageVars, StageInv, StageAlone, StageTypes, OneAtATime, UnderWay, HookIsOwn,
                  Hooked, ExecutorIsOwn, PlainIsPlain, MeasuredIsPlain
    <2>2. CASE StageNext
      <3>1. StageTypes'
        BY <2>2, StageTypesStep DEF StageInv
      <3>2. ~overlapped' => StageAlone
        BY <2>2, OverlapStays DEF StageInv
      <3>3. ~overlapped' => StageAlone'
        BY <2>2, <3>2, InsideStep, EnterHookStep, LeaveHookStep, TimePlanStep DEF StageNext
      <3> QED BY <3>1, <3>3 DEF StageInv
    <2> QED BY <2>1, <2>2
  <1> QED BY <1>1, StageInitInv, PTL DEF StageSpec

\* Whatever compiles ran, raised or failed before, for any passes, plans, launch
\* options and candidates and any number of them under way at a time: until two
\* of them have been, nothing of another candidate is in what is timed, and a
\* hook that is installed is that of a compile in its scope (stages.py:132-157).
THEOREM NothingLeaks == StageSpec => []NothingLeaksIntoTiming
  <1>1. StageInv => NothingLeaksIntoTiming
    BY DEF StageInv, StageAlone, MeasuredIsPlain, HookIsOwn, Hooked, StageTypes,
           TimedUnderOwnPlan, NothingLeaksIntoTiming
  <1> QED BY <1>1, StageInvariance, PTL

-----------------------------------------------------------------------------
(* Episodes and their leases. *)

Holding == {"pinned", "running"}
WithContext == {"running", "done", "failed", "closing"}

ChildStates == {"none", "waiting", "exited"} \cup Holding \cup WithContext

EpisodeTypes ==
    /\ child \in [Cells -> ChildStates]
    /\ leaseOf \in [Pool -> Cells \cup {Nobody}]
    /\ device \in [Cells -> Pool \cup {Nobody}]
    /\ resident \subseteq Cells /\ blind \subseteq Cells
    /\ reported \in [Cells -> {Nobody, "row", "error", "died"}]
    /\ pipe \in [Cells -> {Nobody, "row", "error"}]

\* Between its acquire and its release a child holds the device it has pinned.
PinnedIsLeased ==
    \A c \in Cells : child[c] \in Holding =>
        device[c] \in Pool /\ leaseOf[device[c]] = c

\* A lock file belongs to a child that is between the two, and for its device.
LeaseIsHeld ==
    \A d \in Pool, c \in Cells : leaseOf[d] = c => child[c] \in Holding /\ device[c] = d

\* A context outlives the lease, but not the process.
ContextHasProcess ==
    \A c \in resident : child[c] \in WithContext

\* Who is on a device when it is pinned has released it, and nobody comes to it
\* before the release.  PoolExclusive only speaks of episodes that already run.
Leaving == {"done", "failed", "closing"}

PinnedAlone ==
    \A c \in Cells : child[c] \in Holding =>
        \A other \in resident \ {c} : device[other] = device[c] =>
            CheckMayFail /\ c \in blind /\ child[other] \in Leaving

\* A cell is reported after the join.
ReportedHasExited ==
    \A c \in Cells : reported[c] # Nobody => child[c] = "exited"

EpisodeInv ==
    /\ EpisodeTypes /\ PinnedIsLeased /\ LeaseIsHeld /\ ContextHasProcess
    /\ PinnedAlone /\ ReportedHasExited

-----------------------------------------------------------------------------

\* No episode has been leased at the start.
LEMMA EpisodeInitInv == EpisodeInit => EpisodeInv
  BY EpisodeAssumption
  DEF EpisodeInit, EpisodeInv, EpisodeTypes, PinnedIsLeased, LeaseIsHeld, ContextHasProcess,
      PinnedAlone, ReportedHasExited, Holding, WithContext, ChildStates

\* A device is pinned: nobody holds it, and who is still on it was not seen.
LEMMA PinStep ==
    ASSUME EpisodeInv, NEW c \in Cells, NEW d \in Pool, Pin(c, d)
    PROVE  EpisodeInv'
  <1> USE EpisodeAssumption DEF EpisodeInv, EpisodeTypes
  <1>1. /\ child[c] = "waiting" /\ leaseOf[d] = Nobody /\ {} \in Answers(d)
        /\ blind' = (IF On(d) = {} THEN blind ELSE blind \cup {c})
        /\ device' = [device EXCEPT ![c] = d] /\ child' = [child EXCEPT ![c] = "pinned"]
        /\ leaseOf' = [leaseOf EXCEPT ![d] = c]
        /\ UNCHANGED <<worker, resident, pipe, reported, killed>>
    BY DEF Pin, Grant
  <1>2. EpisodeTypes' /\ ContextHasProcess' /\ ReportedHasExited'
    BY <1>1 DEF ContextHasProcess, ReportedHasExited, Holding, WithContext, ChildStates
  <1>3. PinnedIsLeased'
    BY <1>1 DEF PinnedIsLeased, LeaseIsHeld, Holding
  <1>4. LeaseIsHeld'
    BY <1>1 DEF LeaseIsHeld, Holding
  <1>5. \A k \in Cells : child[k] \in Holding => k # c /\ device[k] # d
    BY <1>1 DEF PinnedIsLeased, Holding
  <1>6. c \notin resident
    BY <1>1 DEF ContextHasProcess, WithContext
  <1>7. \A other \in resident : device[other] = d =>
           CheckMayFail /\ c \in blind' /\ child[other] \in Leaving
    <2> SUFFICES ASSUME NEW other \in resident, device[other] = d
                 PROVE  CheckMayFail /\ c \in blind' /\ child[other] \in Leaving
      OBVIOUS
    <2>1. On(d) # {}
      BY DEF On
    <2>2. child[other] \in Leaving
      BY <1>5 DEF ContextHasProcess, WithContext, Holding, Leaving
    <2> QED BY <1>1, <2>1, <2>2 DEF Answers
  <1>8. PinnedAlone'
    <2> SUFFICES ASSUME NEW k \in Cells, child'[k] \in Holding, NEW other \in resident \ {k},
                        device'[other] = device'[k]
                 PROVE  CheckMayFail /\ k \in blind' /\ child'[other] \in Leaving
      BY <1>1 DEF PinnedAlone
    <2>1. other # c /\ device'[other] = device[other] /\ child'[other] = child[other]
      BY <1>1, <1>6
    <2>2. CASE k = c
      BY <1>1, <1>7, <2>1, <2>2
    <2>3. CASE k # c
      BY <1>1, <2>1, <2>3 DEF PinnedAlone
    <2> QED BY <2>2, <2>3
  <1> QED BY <1>2, <1>3, <1>4, <1>8

\* The context is opened on the device the child holds.
LEMMA RunStep ==
    ASSUME EpisodeInv, NEW c \in Cells, RunCell(c)
    PROVE  EpisodeInv'
  <1> USE EpisodeAssumption DEF EpisodeInv, EpisodeTypes, RunCell
  <1>1. EpisodeTypes' /\ ContextHasProcess' /\ ReportedHasExited'
    BY DEF ContextHasProcess, ReportedHasExited, Holding, WithContext, ChildStates
  <1>2. PinnedIsLeased' /\ LeaseIsHeld'
    BY DEF PinnedIsLeased, LeaseIsHeld, Holding
  <1>3. PinnedAlone'
    <2>1. \A k \in Cells : child'[k] \in Holding => child[k] \in Holding
      BY DEF Holding
    <2>2. \A k \in Cells \ {c} : child[k] \in Holding => device[k] # device[c]
      BY DEF PinnedIsLeased, Holding
    <2>3. \A k \in resident : child[k] \in Leaving => child'[k] \in Leaving
      BY DEF Leaving
    <2> QED BY <2>1, <2>2, <2>3 DEF PinnedAlone, Holding
  <1> QED BY <1>1, <1>2, <1>3

\* What a child does without a device.
LEMMA IdleStep ==
    ASSUME EpisodeInv, NEW c \in Cells,
           LeaseTimesOut(c) \/ Send(c) \/ \E w \in Workers : SpawnChild(w, c)
    PROVE  EpisodeInv'
  <1> USE EpisodeAssumption DEF EpisodeInv, EpisodeTypes
  <1> USE DEF LeaseTimesOut, Send, SpawnChild
  <1>1. EpisodeTypes'
    BY DEF Holding, WithContext, ChildStates
  <1>2. \A k \in Cells : child'[k] \in Holding <=> child[k] \in Holding
    BY DEF Holding
  <1>3. /\ leaseOf' = leaseOf /\ device' = device /\ resident' = resident
        /\ reported' = reported /\ blind' = blind
    OBVIOUS
  <1>4. \A k \in Cells : child[k] \in Leaving => child'[k] \in Leaving
    BY DEF Leaving
  <1>6. PinnedIsLeased' /\ LeaseIsHeld' /\ PinnedAlone'
    BY <1>2, <1>3, <1>4 DEF PinnedIsLeased, LeaseIsHeld, PinnedAlone
  <1>5. ContextHasProcess' /\ ReportedHasExited'
    BY <1>3 DEF ContextHasProcess, ReportedHasExited, WithContext
  <1> QED BY <1>1, <1>5, <1>6

\* run_cell is over: the lease goes, the context stays.
LEMMA EndStep ==
    ASSUME EpisodeInv, NEW c \in Cells, EndCell(c)
    PROVE  EpisodeInv'
  <1> USE EpisodeAssumption DEF EpisodeInv, EpisodeTypes, EndCell
  <1>1. EpisodeTypes' /\ ContextHasProcess' /\ ReportedHasExited'
    BY DEF ContextHasProcess, ReportedHasExited, Holding, WithContext, ChildStates
  <1>2. PinnedIsLeased'
    BY DEF PinnedIsLeased, Holding
  <1>3. LeaseIsHeld'
    BY DEF LeaseIsHeld, Holding
  <1>4. PinnedAlone'
    <2>1. \A k \in Cells : child'[k] \in Holding => k # c /\ child[k] \in Holding
      BY DEF Holding
    <2>2. \A k \in Cells \ {c} : child[k] \in Holding => device[k] # device[c]
      BY DEF PinnedIsLeased, Holding
    <2> QED BY <2>1, <2>2 DEF PinnedAlone
  <1> QED BY <1>1, <1>2, <1>3, <1>4

\* The process is gone, by itself or killed, and everything of it.
LEMMA ExitStep ==
    ASSUME EpisodeInv, NEW c \in Cells, Exit(c) \/ KillChild(c)
    PROVE  EpisodeInv'
  <1> USE EpisodeAssumption DEF EpisodeInv, EpisodeTypes
  <1>1. /\ child[c] \notin Gone /\ Ends(c)
        /\ reported' = reported /\ pipe' = pipe /\ blind' = blind
    BY DEF Exit, KillChild, Gone
  <1> USE DEF Ends
  <1>2. EpisodeTypes' /\ ContextHasProcess' /\ ReportedHasExited'
    BY <1>1 DEF ContextHasProcess, ReportedHasExited, Holding, WithContext, ChildStates
  <1>3. PinnedIsLeased'
    BY <1>1 DEF PinnedIsLeased, Holding
  <1>4. LeaseIsHeld'
    BY <1>1 DEF LeaseIsHeld, Holding
  <1>5. PinnedAlone'
    BY <1>1 DEF PinnedAlone, Holding
  <1> QED BY <1>2, <1>3, <1>4, <1>5

\* The worker joins a child that has exited, or is killed.
LEMMA WorkerStep ==
    ASSUME EpisodeInv, NEW w \in Workers, Join(w) \/ KillWorker(w)
    PROVE  EpisodeInv'
  <1> USE EpisodeAssumption DEF EpisodeInv, EpisodeTypes
  <1>1. /\ child' = child /\ leaseOf' = leaseOf /\ device' = device
        /\ resident' = resident /\ pipe' = pipe /\ blind' = blind
    BY DEF Join, KillWorker
  <1>2. reported' \in [Cells -> {Nobody, "row", "error", "died"}] /\ ReportedHasExited'
    BY DEF Join, KillWorker, Received, ReportedHasExited
  <1> QED BY <1>1, <1>2 DEF PinnedIsLeased, LeaseIsHeld, ContextHasProcess, PinnedAlone

\* The invariant is inductive.
THEOREM EpisodeInvariance == EpisodeSpec => []EpisodeInv
  <1>1. EpisodeInv /\ [EpisodeNext]_episodeVars => EpisodeInv'
    <2> SUFFICES ASSUME EpisodeInv, [EpisodeNext]_episodeVars
                 PROVE  EpisodeInv'
      OBVIOUS
    <2>1. CASE UNCHANGED episodeVars
      BY <2>1 DEF episodeVars, EpisodeInv, EpisodeTypes, PinnedIsLeased, LeaseIsHeld,
                  ContextHasProcess, PinnedAlone, ReportedHasExited
    <2>2. CASE EpisodeNext
      BY <2>2, PinStep, RunStep, IdleStep, EndStep, ExitStep, WorkerStep
      DEF EpisodeNext, ChildStep
    <2> QED BY <2>1, <2>2
  <1> QED BY <1>1, EpisodeInitInv, PTL DEF EpisodeSpec

\* No two episodes ever hold one device, and while the busy check answers nobody
\* else has a context on the device of a timed episode; when it fails open, that
\* can only be an episode that is over.  A cell that has been reported leaves
\* neither lock nor context behind, whoever was killed (run_pilot.py:302-361,
\* gpu_lease.py:53-92).
THEOREM PoolStaysExclusive == EpisodeSpec => []PoolExclusive
  <1>1. EpisodeInv => TimedAlone
    BY DEF EpisodeInv, PinnedAlone, TimedAlone, Holding, Leaving, On
  <1>2. EpisodeInv => NothingLeftBehind
    BY DEF EpisodeInv, EpisodeTypes, ReportedHasExited, ContextHasProcess, LeaseIsHeld,
           NothingLeftBehind, Holding, WithContext
  <1> QED BY <1>1, <1>2, EpisodeInvariance, PTL DEF PoolExclusive

-----------------------------------------------------------------------------
(* The plain archetypes. *)

ArchetypeTypes ==
    /\ kind \in Kinds /\ told \in BOOLEAN /\ crashed \in BOOLEAN
    /\ pc \in {"context", "seeding", "turns", "over", "closed"}
    /\ iteration \in Nat /\ left \in Nat /\ children \in Nat
    /\ succ \in Nat /\ failed \in Nat
    /\ seen \subseteq Nat
    /\ hasIncumbent \in BOOLEAN /\ incumbentSpeedup \in Nat
    /\ pulls \in [ArmIds -> Nat] /\ rewards \in [ArmIds -> Int]

\* What BudgetKept allows.
Allowance ==
    IF ~told /\ kind \in {"bon", "evo"} /\ DefaultN > MaxCandidates
    THEN DefaultN ELSE MaxCandidates

\* The gathered samples fit the allowance, and whoever goes by slots_remaining
\* goes by a figure that is up to date; without one, the budget is not met.
SlotsCurrent ==
    /\ pc = "context" => slots = None /\ succ < MaxCandidates /\ (iteration = 0 => succ = 0)
    /\ pc = "seeding" => kind \in {"bon", "evo"} /\ succ + left <= Allowance
    /\ pc \in {"seeding", "turns"} =>
         IF slots = None THEN succ < MaxCandidates ELSE slots = SlotsRemaining(succ)

\* "ma" has no incumbent only as long as nothing has succeeded with a speedup.
IncumbentFound == kind = "ma" /\ ~hasIncumbent => seen = {}

ArchetypesInv ==
    /\ ArchetypeTypes /\ SlotsCurrent /\ BudgetKept
    /\ IncumbentFound /\ IncumbentEarned

\* There are finitely many arms.
LEMMA ArmsAreFinite == IsFiniteSet(ArmIds)
  BY ArchetypeConstants, FS_Interval DEF ArmIds

\* No arm has been paid at the start.
LEMMA NoRewards == SumFunction(NoPulls) = 0 /\ NoPulls \in [ArmIds -> Nat] /\ NoPulls \in [ArmIds -> Int]
  BY ArmsAreFinite, SumOfZeros DEF NoPulls

\* What one arm is paid, all arms together are.
LEMMA RewardsGrow ==
    ASSUME rewards \in [ArmIds -> Int], NEW a \in ArmIds, NEW d \in Int,
           rewards' \in [ArmIds -> Int],
           \A x \in ArmIds : rewards'[x] = IF x = a THEN rewards[x] + d ELSE rewards[x]
    PROVE  SumFunction(rewards') = SumFunction(rewards) + d
  BY ArmsAreFinite, SumOfChange

\* No slots remain exactly when all candidates have been made.
LEMMA SlotsMeaning ==
    ASSUME NEW n \in Nat
    PROVE  /\ SlotsRemaining(n) \in Nat /\ SlotsRemaining(n) # None
           /\ SlotsRemaining(n) # 0 <=> n < MaxCandidates
  BY ArchetypeConstants DEF SlotsRemaining

\* Nothing has been measured at the start.
LEMMA ArchetypesInitInv == ArchetypesInit => ArchetypesInv
  <1> SUFFICES ASSUME ArchetypesInit PROVE ArchetypesInv
    OBVIOUS
  <1>1. ArchetypeTypes
    BY ArchetypeConstants, NoRewards DEF ArchetypesInit, ArchetypeTypes
  <1>2. SlotsCurrent /\ BudgetKept /\ IncumbentFound /\ IncumbentDominates
    BY ArchetypeConstants
    DEF ArchetypesInit, SlotsCurrent, BudgetKept, IncumbentFound, IncumbentDominates
  <1>3. RewardsTelescope
    BY NoRewards DEF ArchetypesInit, RewardsTelescope
  <1> QED BY <1>1, <1>2, <1>3 DEF ArchetypesInv, IncumbentEarned

\* A run asks for what is left of the budget, or for the default it was not
\* told to lower.
LEMMA ContextStep ==
    ASSUME ArchetypesInv, LoadContext
    PROVE  ArchetypesInv'
  <1> USE ArchetypeConstants DEF ArchetypesInv, ArchetypeTypes, LoadContext, locals
  <1>1. slots = None /\ succ < MaxCandidates /\ (iteration = 0 => succ = 0)
    BY DEF SlotsCurrent
  <1>2. Samples \in Nat /\ (kind \in {"bon", "evo"} => succ + Samples <= Allowance)
    BY <1>1 DEF Samples, Asked, Lesser, SlotsRemaining, Allowance
  <1>3. left' \in Nat
    BY <1>2
  <1>4. ArchetypeTypes'
    BY <1>3
  <1>5. SlotsCurrent'
    BY <1>1, <1>2 DEF SlotsCurrent, Allowance
  <1>6. BudgetKept' /\ IncumbentFound' /\ IncumbentDominates'
    BY DEF BudgetKept, IncumbentFound, IncumbentEarned, IncumbentDominates
  <1>7. RewardsTelescope'
    BY DEF IncumbentEarned, RewardsTelescope
  <1> QED BY <1>4, <1>5, <1>6, <1>7 DEF IncumbentEarned

\* One sample less and at most one success more.
LEMMA OneLess ==
    ASSUME NEW n \in Nat, NEW m \in Nat, NEW samples \in Nat, NEW rest \in Nat,
           NEW most \in Nat, n + samples <= most, m <= n + 1, rest < samples
    PROVE  m + rest <= most
  OBVIOUS

\* OneLess, about the budget before and after a generation.
LEMMA OneUsed ==
    ASSUME succ \in Nat, left \in Nat, succ' \in Nat, left' \in Nat, NEW most \in Nat,
           succ + left <= most, succ' <= succ + 1, left' < left
    PROVE  succ' + left' <= most
  BY OneLess

\* A generation is used up, whatever it yields.
LEMMA GenerationUsed ==
    ASSUME ArchetypesInv, Due, Consume
    PROVE  /\ left' \in Nat /\ children' \in Nat /\ pc \in {"seeding", "turns"}
           /\ pc = "seeding" => left' = left - 1
           /\ succ + 1 <= Allowance
  <1> USE ArchetypeConstants DEF ArchetypesInv, ArchetypeTypes
  <1>1. pc \in {"seeding", "turns"} /\ left' \in Nat /\ children' \in Nat
    BY DEF Due, Consume
  <1>2. pc = "seeding" => left > 0 /\ left' = left - 1
    BY DEF Due, Consume
  <1>3. pc = "turns" => slots # 0
    BY DEF Due
  <1>4. pc = "turns" => succ < MaxCandidates
    BY <1>3, SlotsMeaning DEF SlotsCurrent
  <1>5. MaxCandidates <= Allowance
    BY DEF Allowance
  <1>6. pc = "seeding" => succ + 1 <= Allowance
    BY <1>2 DEF SlotsCurrent, Allowance
  <1>7. Allowance \in Nat
    BY DEF Allowance
  <1> QED BY <1>1, <1>2, <1>4, <1>5, <1>6, <1>7

\* A generation that yields no candidate is used up.
LEMMA NoCandidateStep ==
    ASSUME ArchetypesInv, NEW a \in ArmIds, NoCandidate(a)
    PROVE  ArchetypesInv'
  <1> USE ArchetypeConstants DEF ArchetypesInv, NoCandidate
  <1>1. /\ left' \in Nat /\ children' \in Nat
        /\ pc = "seeding" => left' = left - 1
    BY GenerationUsed
  <1>2. pulls' \in [ArmIds -> Nat]
    BY DEF ArchetypeTypes
  <1>3. ArchetypeTypes'
    BY <1>1, <1>2 DEF ArchetypeTypes
  <1>4. SlotsCurrent'
    <2>1. UNCHANGED <<kind, told, pc, iteration, slots, succ>>
      OBVIOUS
    <2>2. pc = "seeding" => succ + left' <= Allowance
      BY <1>1 DEF SlotsCurrent, Allowance, ArchetypeTypes
    <2> QED BY <2>1, <2>2 DEF SlotsCurrent, SlotsRemaining, Allowance
  <1>5. BudgetKept' /\ IncumbentFound' /\ IncumbentDominates' /\ RewardsTelescope'
    BY DEF BudgetKept, IncumbentFound, IncumbentEarned, IncumbentDominates, RewardsTelescope
  <1> QED BY <1>3, <1>4, <1>5 DEF IncumbentEarned

\* A success is counted against the allowance it was due under, and what it
\* gains over the incumbent is what the arm is paid.
LEMMA SubmitStep ==
    ASSUME ArchetypesInv, NEW a \in ArmIds, NEW o \in Outcomes, Submit(a, o)
    PROVE  ArchetypesInv'
  <1> USE ArchetypeConstants DEF ArchetypesInv
  <1>1. /\ left' \in Nat /\ children' \in Nat /\ pc \in {"seeding", "turns"}
        /\ pc = "seeding" => left' = left - 1
        /\ succ + 1 <= Allowance
    BY GenerationUsed DEF Submit
  <1>2. UNCHANGED <<kind, told, pc, crashed, iteration>>
    BY DEF Submit
  <1>3. /\ o.ok \in BOOLEAN /\ o.ran \in BOOLEAN /\ (o.ok => o.ran)
        /\ o.speedup # None => o.speedup \in Nat
    BY DEF Outcomes, Optional
  <1>4. /\ succ' = (IF o.ok THEN succ + 1 ELSE succ)
        /\ failed' = (IF o.ran /\ ~o.ok THEN failed + 1 ELSE failed)
        /\ slots' = (IF o.ran THEN SlotsRemaining(succ') ELSE slots)
        /\ seen' = (IF o.ok /\ o.speedup # None THEN seen \cup {o.speedup} ELSE seen)
    BY DEF Submit, Count
  <1>5. succ' \in Nat /\ failed' \in Nat /\ succ' <= Allowance /\ succ' <= succ + 1
    BY <1>1, <1>4 DEF ArchetypeTypes, Allowance, BudgetKept
  <1>6. hasIncumbent' \in BOOLEAN /\ incumbentSpeedup' \in Nat
    BY <1>3 DEF Submit, Adopt, Beats, ArchetypeTypes
  <1>7. pulls' \in [ArmIds -> Nat] /\ rewards' \in [ArmIds -> Int]
    <2>1. CASE kind = "band"
      BY <1>3, <2>1 DEF Submit, Reward, Beats, ArchetypeTypes
    <2>2. CASE kind # "band"
      BY <2>2 DEF Submit, ArchetypeTypes
    <2> QED BY <2>1, <2>2
  <1>8. ArchetypeTypes'
    BY <1>1, <1>2, <1>3, <1>4, <1>5, <1>6, <1>7 DEF ArchetypeTypes
  <1>9. SlotsCurrent'
    <2>1. pc = "seeding" => kind \in {"bon", "evo"} /\ succ' + left' <= Allowance
      <3>1. pc = "seeding" => kind \in {"bon", "evo"} /\ succ + left <= Allowance
        BY DEF SlotsCurrent
      <3>2. succ \in Nat /\ left \in Nat /\ Allowance \in Nat
        BY DEF ArchetypeTypes, Allowance
      <3>3. succ' \in Nat /\ left' \in Nat /\ succ' <= succ + 1
        BY <1>1, <1>5
      <3> SUFFICES ASSUME pc = "seeding" PROVE succ' + left' <= Allowance
        BY <3>1
      <3>4. left' < left /\ succ + left <= Allowance
        BY <1>1, <3>1, <3>2
      <3> QED BY <3>2, <3>3, <3>4, OneUsed
    <2>2. slots' = None => succ' = succ /\ slots = None
      BY <1>3, <1>4, <1>5, SlotsMeaning
    <2>3. slots' # None => slots' = SlotsRemaining(succ')
      BY <1>1, <1>3, <1>4 DEF SlotsCurrent
    <2>4. Allowance' = Allowance
      BY <1>2 DEF Allowance
    <2> QED BY <1>1, <1>2, <2>1, <2>2, <2>3, <2>4 DEF SlotsCurrent, SlotsRemaining
  <1>10. BudgetKept'
    BY <1>2, <1>5 DEF BudgetKept, Allowance
  <1>11. IncumbentFound'
    BY <1>2, <1>3, <1>4 DEF IncumbentFound, Submit, Adopt
  <1>12. IncumbentDominates'
    <2> SUFFICES ASSUME kind \in {"band", "ma"}, NEW s \in seen'
                 PROVE  s <= incumbentSpeedup'
      BY <1>2 DEF IncumbentDominates
    <2>1. \A x \in seen : x \in Nat /\ x <= incumbentSpeedup
      BY DEF IncumbentEarned, IncumbentDominates, ArchetypeTypes
    <2>2. incumbentSpeedup \in Nat
      BY DEF ArchetypeTypes
    <2>3. CASE Beats(o)
      BY <1>3, <1>4, <2>1, <2>2, <2>3 DEF Submit, Adopt, Beats
    <2>4. CASE ~Beats(o) /\ (kind = "band" \/ hasIncumbent \/ ~o.ok)
      BY <1>3, <1>4, <2>1, <2>2, <2>4 DEF Submit, Adopt, Beats
    <2>5. CASE kind = "ma" /\ ~hasIncumbent /\ o.ok
      BY <1>3, <1>4, <2>1, <2>2, <2>5 DEF Submit, Adopt, IncumbentFound
    <2> QED BY <2>3, <2>4, <2>5 DEF ArchetypeTypes
  <1>13. RewardsTelescope'
    <2> SUFFICES ASSUME kind = "band"
                 PROVE  SumFunction(rewards') = incumbentSpeedup' - 100
      BY <1>2 DEF RewardsTelescope
    <2>1. SumFunction(rewards) = incumbentSpeedup - 100 /\ incumbentSpeedup \in Nat
          /\ rewards \in [ArmIds -> Int]
      BY DEF IncumbentEarned, RewardsTelescope, ArchetypeTypes
    <2>2. CASE Beats(o)
      <3> DEFINE d == o.speedup - incumbentSpeedup
      <3>1. d \in Int /\ incumbentSpeedup' = incumbentSpeedup + d
        BY <1>3, <2>1, <2>2 DEF Submit, Adopt, Beats
      <3>2. rewards' = [rewards EXCEPT ![a] = @ + d]
        <4>1. rewards' = [rewards EXCEPT ![a] = rewards[a] + o.speedup - incumbentSpeedup]
          BY <2>2 DEF Submit, Reward
        <4>2. rewards[a] + o.speedup - incumbentSpeedup = rewards[a] + d
          BY <1>3, <2>1, <2>2 DEF Beats
        <4> QED BY <4>1, <4>2
      <3> HIDE DEF d
      <3>3. /\ rewards' \in [ArmIds -> Int]
            /\ \A x \in ArmIds : rewards'[x] = IF x = a THEN rewards[x] + d ELSE rewards[x]
        BY <2>1, <3>1, <3>2
      <3>4. SumFunction(rewards') = SumFunction(rewards) + d
        BY <2>1, <3>1, <3>3, RewardsGrow
      <3> QED BY <2>1, <3>1, <3>4
    <2>3. CASE ~Beats(o)
      <3>1. rewards' = rewards /\ incumbentSpeedup' = incumbentSpeedup
        BY <2>1, <2>3 DEF Submit, Reward, Adopt
      <3> QED BY <2>1, <3>1
    <2> QED BY <2>2, <2>3
  <1> QED BY <1>8, <1>9, <1>10, <1>11, <1>12, <1>13 DEF IncumbentEarned

\* What moves neither the counters nor the incumbent.
LEMMA EvolutionStep ==
    ASSUME ArchetypesInv, SeedsSubmitted \/ Breed \/ DropChild \/ Reflect \/ Close
    PROVE  ArchetypesInv'
  <1> USE ArchetypeConstants DEF ArchetypesInv
  <1>1. /\ UNCHANGED <<kind, told, crashed, iteration, slots, seen, hasIncumbent,
                       incumbentSpeedup, pulls, rewards, succ, failed>>
        /\ pc' \in {pc, "turns", "over", "closed"}
    BY DEF SeedsSubmitted, Breed, DropChild, Reflect, Close, locals
  <1>2. left' \in Nat /\ children' \in Nat
    BY DEF SeedsSubmitted, Breed, DropChild, Reflect, Close, locals, ArchetypeTypes
  <1>3. ArchetypeTypes'
    BY <1>1, <1>2 DEF ArchetypeTypes
  <1>4. /\ pc' = "turns" => pc \in {"seeding", "turns"}
        /\ pc' \notin {"context", "seeding"}
    BY DEF SeedsSubmitted, Breed, DropChild, Reflect, Close, Finished
  <1>5. SlotsCurrent'
    BY <1>1, <1>4 DEF SlotsCurrent, SlotsRemaining
  <1>6. BudgetKept' /\ IncumbentFound' /\ IncumbentDominates' /\ RewardsTelescope'
    BY <1>1 DEF BudgetKept, IncumbentFound, IncumbentEarned, IncumbentDominates,
                RewardsTelescope
  <1> QED BY <1>3, <1>5, <1>6 DEF IncumbentEarned

\* A crash may leave one more success counted: the one that was due.
LEMMA RaiseStep ==
    ASSUME ArchetypesInv, Raise
    PROVE  ArchetypesInv'
  <1> USE ArchetypeConstants DEF ArchetypesInv, Raise, locals
  <1>1. succ' = succ \/ (Due /\ succ' = succ + 1)
    OBVIOUS
  <1>2. Due => succ + 1 <= Allowance
    <2>1. Due /\ pc = "seeding" => succ + 1 <= Allowance
      BY DEF Due, SlotsCurrent, ArchetypeTypes, Allowance
    <2>2. Due /\ pc = "turns" => succ < MaxCandidates
      BY SlotsMeaning DEF Due, SlotsCurrent, ArchetypeTypes
    <2> QED BY <2>1, <2>2 DEF ArchetypeTypes, Allowance, Due
  <1>3. ArchetypeTypes'
    BY DEF ArchetypeTypes
  <1>4. BudgetKept'
    BY <1>1, <1>2 DEF BudgetKept, Allowance
  <1>5. SlotsCurrent' /\ IncumbentFound' /\ IncumbentDominates' /\ RewardsTelescope'
    BY DEF SlotsCurrent, IncumbentFound, IncumbentEarned, IncumbentDominates,
           RewardsTelescope
  <1> QED BY <1>3, <1>4, <1>5 DEF IncumbentEarned

\* A continuation is only granted below the budget, and forgets everything.
LEMMA ContinueStep ==
    ASSUME ArchetypesInv, Continue
    PROVE  ArchetypesInv'
  <1> USE ArchetypeConstants DEF ArchetypesInv, Continue, ForgetLocals
  <1>1. succ' = succ /\ succ < MaxCandidates
    BY DEF Stops, ArchetypeTypes
  <1>2. ArchetypeTypes'
    <2>1. pulls' \in [ArmIds -> Nat] /\ rewards' \in [ArmIds -> Int]
      BY NoRewards
    <2>2. iteration' \in Nat /\ seen' \subseteq Nat
      BY DEF ArchetypeTypes
    <2> QED BY <2>1, <2>2 DEF ArchetypeTypes
  <1>3. SlotsCurrent' /\ BudgetKept' /\ IncumbentFound' /\ IncumbentDominates'
    BY <1>1 DEF SlotsCurrent, BudgetKept, IncumbentFound, IncumbentDominates, ArchetypeTypes
  <1>4. RewardsTelescope'
    BY NoRewards DEF RewardsTelescope
  <1> QED BY <1>2, <1>3, <1>4 DEF IncumbentEarned

\* The invariant is inductive.
THEOREM ArchetypesInvariance == ArchetypesSpec => []ArchetypesInv
  <1>1. ArchetypesInv /\ [ArchetypesNext]_archetypesVars => ArchetypesInv'
    <2> SUFFICES ASSUME ArchetypesInv, [ArchetypesNext]_archetypesVars
                 PROVE  ArchetypesInv'
      OBVIOUS
    <2>1. CASE UNCHANGED archetypesVars
      BY <2>1 DEF archetypesVars, locals, ArchetypesInv, ArchetypeTypes, SlotsCurrent,
                  SlotsRemaining, Allowance, BudgetKept, IncumbentFound, IncumbentEarned,
                  IncumbentDominates, RewardsTelescope
    <2>2. CASE ArchetypesNext
      <3>1. Pullable \subseteq ArmIds
        BY ArchetypeConstants DEF Pullable, ArmIds
      <3> QED BY <2>2, <3>1, ContextStep, NoCandidateStep, SubmitStep, EvolutionStep,
                 RaiseStep, ContinueStep
          DEF ArchetypesNext
    <2> QED BY <2>1, <2>2
  <1> QED BY <1>1, ArchetypesInitInv, PTL DEF ArchetypesSpec

\* No archetype validates more than its budget, or than the default it was not
\* told to lower, over any number of continuations and crashes
\* (harness.py:417-429, 478; evolution.py:229-236, 300-303).
THEOREM BudgetIsKept == ArchetypesSpec => []BudgetKept
  <1>1. ArchetypesInv => BudgetKept
    BY DEF ArchetypesInv
  <1> QED BY <1>1, ArchetypesInvariance, PTL

\* The incumbent dominates the run, and what the arms of the bandit were paid
\* adds up to what it gained, for any number of arms and pulls
\* (bandit.py:169-222, profiler_ma.py:437-449).
THEOREM IncumbentIsEarned == ArchetypesSpec => []IncumbentEarned
  <1>1. ArchetypesInv => IncumbentEarned
    BY DEF ArchetypesInv
  <1> QED BY <1>1, ArchetypesInvariance, PTL

==============================================================================
