---------------------------- MODULE Interception ----------------------------
(***************************************************************************)
(* The torch_inductor backend: how a plan reaches the compiler.  Inductor  *)
(* and Dynamo are configured by process-wide state, so a compile patches   *)
(* it for the duration of compile_fx through five context managers and     *)
(* puts it back.  A candidate is compiled, compiled again to be timed, and *)
(* possibly once more, with the baseline, when the two are compared: every *)
(* drive_compile, of any thread, drops the code of all callables.  Threads *)
(* overlap; only Dynamo's own lock keeps their backends apart.             *)
(***************************************************************************)
EXTENDS Naturals, Sequences, FiniteSets, Folds, SequencesExt

CONSTANTS
    Drivers,      \* the threads that run candidates
    Plans,        \* the plans they may run: interventions of a kind, with the
                  \* key they select and the value they set
    Defaults,     \* autotune_safety_defaults, as key and value
    DynamoKeys,   \* the keys that begin with "dynamo."
    Places,       \* what can be patched: config entries, lowerings, ...
    Spellings,    \* the keys a plan may use
    PlaceOf,      \* the place a key stands for, or Unknown
    ReadOnly,     \* places whose assignment raises
    MaxEach,      \* bound: candidates of each thread
    Unknown,
    Original

ASSUME InterceptionAssumption ==
    /\ PlaceOf \in [Spellings -> Places \cup {Unknown}]
    /\ ReadOnly \subseteq Places /\ Unknown \notin Places \cup Drivers
    /\ MaxEach \in Nat /\ << >> \in Plans

\* The order in which the backend enters the managers.
Managers == <<"inductor", "dynamo", "lowering", "choices", "scheduler">>

NoSnapshot == [p \in {} |-> Original]

VARIABLES
    global,       \* what every place holds
    driver,       \* idle, driving, entering, compiling, leaving
    candidate,    \* the plan of each thread's candidate
    operation,    \* what the thread last began with it: none, compile, time
    queue,        \* the plans this operation has still to compile
    plan,         \* the plan each thread compiles
    entered,      \* how many managers it is inside
    snapshot,     \* per thread, what each manager will put back
    dynamoLock,   \* the thread inside torch._dynamo's compile lock
    done          \* candidates each thread has begun

workVars == <<candidate, operation, queue, done>>
interceptionVars == <<global, driver, workVars, plan, entered, snapshot, dynamoLock>>

InterceptionInit ==
    /\ global = [p \in Places |-> Original]
    /\ driver = [t \in Drivers |-> "idle"]
    /\ candidate = [t \in Drivers |-> << >>]
    /\ operation = [t \in Drivers |-> "none"]
    /\ queue = [t \in Drivers |-> << >>]
    /\ plan = [t \in Drivers |-> << >>]
    /\ entered = [t \in Drivers |-> 0]
    /\ snapshot = [t \in Drivers |-> << >>]
    /\ dynamoLock = Unknown
    /\ done = [t \in Drivers |-> 0]

-----------------------------------------------------------------------------
(* From a plan to the managers. *)

Override(iv) == [key |-> IF iv.kind = "choices" THEN "choices" ELSE iv.selector, value |-> iv.value]

\* The items of a dict filled in this order: a key keeps its first place and
\* gets its last value.
Items(overrides) ==
    LET firsts == SelectSeq([i \in DOMAIN overrides |-> i], LAMBDA i :
                     \A j \in 1..(i - 1) : overrides[j].key # overrides[i].key)
        last(key) == CHOOSE i \in DOMAIN overrides : overrides[i].key = key
                       /\ \A j \in DOMAIN overrides : overrides[j].key = key => j <= i
    IN  [i \in DOMAIN firsts |-> overrides[last(overrides[firsts[i]].key)]]

\* _project_plan, with the defaults _make_dynamo_backend puts first.
Projected(q) ==
    LET of(P(_)) == LET picked == SelectSeq(q, P)
                    IN  [i \in DOMAIN picked |-> Override(picked[i])]
        dynamo(iv) == iv.kind = "knob" /\ iv.selector \in DynamoKeys
        inductor(iv) == iv.kind = "knob" /\ iv.selector \notin DynamoKeys
    IN  [m \in ToSet(Managers) |->
            CASE m = "inductor" -> Items(Defaults \o of(inductor))
              [] m = "dynamo"   -> Items(of(dynamo))
              [] OTHER          -> Items(of(LAMBDA iv : iv.kind = m))]

-----------------------------------------------------------------------------
(* What a thread does with a candidate. *)

AtRest(t) == driver[t] = "idle" /\ queue[t] = << >>

Compile(t) ==
    /\ AtRest(t) /\ operation[t] = "none" /\ done[t] < MaxEach
    /\ \E q \in Plans : /\ candidate' = [candidate EXCEPT ![t] = q]
                        /\ queue' = [queue EXCEPT ![t] = <<q>>]
    /\ operation' = [operation EXCEPT ![t] = "compile"]
    /\ done' = [done EXCEPT ![t] = @ + 1]
    /\ UNCHANGED <<global, driver, plan, entered, snapshot, dynamoLock>>

\* Only after a compile that did not fail.
TimeCandidate(t) ==
    /\ AtRest(t) /\ operation[t] = "compile"
    /\ \/ /\ operation' = [operation EXCEPT ![t] = "time"]
          /\ queue' = [queue EXCEPT ![t] = <<candidate[t]>>]
       \/ /\ operation' = [operation EXCEPT ![t] = "none"]
          /\ UNCHANGED queue
    /\ UNCHANGED <<global, driver, candidate, done, plan, entered, snapshot, dynamoLock>>

\* validate_correctness calls the baseline's callable and the candidate's; the
\* code of each may have been dropped since it was compiled.
ValidateCorrectness(t) ==
    /\ AtRest(t) /\ operation[t] = "time"
    /\ operation' = [operation EXCEPT ![t] = "none"]
    /\ \E calls \in {<< >>, << << >> >>, <<candidate[t]>>, << << >>, candidate[t]>>} :
         queue' = [queue EXCEPT ![t] = calls]
    /\ UNCHANGED <<global, driver, candidate, done, plan, entered, snapshot, dynamoLock>>

\* Mutant: the snapshot is taken after the assignment.
ApplyThenSnapshot(acc, override) ==
    LET p == PlaceOf[override.key]
    IN  IF p = Unknown \/ p \in ReadOnly THEN acc
        ELSE [now  |-> [acc.now EXCEPT ![p] = override.value],
              prev |-> [q \in DOMAIN acc.prev \cup {p} |->
                          IF q = p THEN override.value ELSE acc.prev[q]]]

\* One override of a manager's loop: a key that names nothing is skipped, an
\* assignment that raises leaves no snapshot.  acc is the state of the globals
\* and the snapshot so far.
Apply(acc, override) ==
    LET p == PlaceOf[override.key]
    IN  IF p = Unknown \/ p \in ReadOnly THEN acc
        ELSE [now  |-> [acc.now EXCEPT ![p] = override.value],
              prev |-> [q \in DOMAIN acc.prev \cup {p} |->
                          IF q = p THEN acc.now[p] ELSE acc.prev[q]]]

\* The loop of a manager: what the globals hold after it, and its snapshot.
Patched(now, overrides) == FoldLeft(Apply, [now |-> now, prev |-> NoSnapshot], overrides)

\* drive_compile, or the call of a callable without code.
Drive(t) ==
    /\ driver[t] = "idle" /\ queue[t] # << >>
    /\ plan' = [plan EXCEPT ![t] = Head(queue[t])]
    /\ queue' = [queue EXCEPT ![t] = Tail(@)]
    /\ driver' = [driver EXCEPT ![t] = "driving"]
    /\ UNCHANGED <<global, candidate, operation, done, entered, snapshot, dynamoLock>>

\* Mutant: the managers run outside Dynamo's compile lock.
CallBackendUnlocked(t) ==
    /\ driver[t] = "driving"
    /\ dynamoLock' = t
    /\ driver' = [driver EXCEPT ![t] = "entering"]
    /\ UNCHANGED <<global, plan, entered, snapshot, workVars>>

\* Dynamo has traced a graph and calls the backend, under its lock.
CallBackend(t) ==
    /\ driver[t] = "driving" /\ dynamoLock = Unknown
    /\ dynamoLock' = t
    /\ driver' = [driver EXCEPT ![t] = "entering"]
    /\ UNCHANGED <<global, plan, entered, snapshot, workVars>>

\* ExitStack.enter_context of the next manager.
EnterManager(t) ==
    /\ driver[t] = "entering" /\ entered[t] < Len(Managers)
    /\ LET m == Managers[entered[t] + 1]
           patched == Patched(global, Projected(plan[t])[m])
       IN  /\ global' = patched.now
           /\ snapshot' = [snapshot EXCEPT ![t] = Append(@, patched.prev)]
    /\ entered' = [entered EXCEPT ![t] = @ + 1]
    /\ UNCHANGED <<driver, plan, dynamoLock, workVars>>

CompileFx(t) ==
    /\ driver[t] = "entering" /\ entered[t] = Len(Managers)
    /\ driver' = [driver EXCEPT ![t] = "compiling"]
    /\ UNCHANGED <<global, plan, entered, snapshot, dynamoLock, workVars>>

\* compile_fx returns or raises: the stack unwinds either way.
LeaveManager(t) ==
    /\ driver[t] \in {"compiling", "leaving"} /\ entered[t] > 0
    /\ LET prev == Last(snapshot[t])
       IN  global' = [p \in Places |-> IF p \in DOMAIN prev THEN prev[p] ELSE global[p]]
    /\ snapshot' = [snapshot EXCEPT ![t] = Front(@)]
    /\ entered' = [entered EXCEPT ![t] = @ - 1]
    /\ driver' = [driver EXCEPT ![t] = "leaving"]
    /\ UNCHANGED <<plan, dynamoLock, workVars>>

\* The backend is done: with the last graph, or with one before a graph break.
\* A compile that raised ends here too.
BackendReturns(t) ==
    /\ driver[t] = "leaving" /\ entered[t] = 0
    /\ dynamoLock' = Unknown
    /\ \E again \in BOOLEAN :
         driver' = [driver EXCEPT ![t] = IF again THEN "driving" ELSE "idle"]
    /\ UNCHANGED <<global, plan, entered, snapshot, workVars>>

InterceptionNext == \E t \in Drivers :
    \/ Compile(t) \/ TimeCandidate(t) \/ ValidateCorrectness(t)
    \/ Drive(t) \/ CallBackend(t) \/ EnterManager(t) \/ CompileFx(t)
    \/ LeaveManager(t) \/ BackendReturns(t)

InterceptionSpec == InterceptionInit /\ [][InterceptionNext]_interceptionVars

-----------------------------------------------------------------------------
(* Properties *)

\* The overrides of a place by a manager.
Overriding(q, m, p) == {i \in DOMAIN Projected(q)[m] : PlaceOf[Projected(q)[m][i].key] = p}

\* The managers, of the first n, that touch a place.
Touching(q, n, p) == {k \in 1..n : Overriding(q, Managers[k], p) # {}}

Latest(S) == CHOOSE i \in S : \A j \in S : j <= i

\* What the first n managers leave in a place: the value of the last override
\* of the last one that has any.
IntendedBy(q, n, p) ==
    IF Touching(q, n, p) = {} \/ p \in ReadOnly THEN Original
    ELSE LET m == Managers[Latest(Touching(q, n, p))]
         IN  Projected(q)[m][Latest(Overriding(q, m, p))].value

Intended(q, p) == IntendedBy(q, Len(Managers), p)

\* compile_fx runs under its own plan and under nothing else: no override of
\* another thread or of an earlier candidate is in force beside it.
CompiledUnderItsPlan ==
    \A t \in Drivers : driver[t] = "compiling" =>
        \A p \in Places : global[p] = Intended(plan[t], p)

\* "restores on exit": while no backend is inside its managers, every place
\* holds what it held before the first compile.
ConfigRestored ==
    dynamoLock = Unknown => \A p \in Places : global[p] = Original

=============================================================================
