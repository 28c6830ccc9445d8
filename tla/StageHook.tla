----------------------------- MODULE StageHook -----------------------------
(***************************************************************************)
(* The triton backend: how a plan reaches Triton and what is timed.        *)
(* compile installs a hook on Triton's stages, a process-wide knob, lets   *)
(* the kernel's own compile entry launch it once, and puts the knob back.  *)
(* The hook replaces the ttir and ttgir stages by an executor that runs    *)
(* them pass by pass under the plan's interventions.  Triton's jit keeps   *)
(* what it built under the launch options and the key the hook returns.    *)
(* time_workload then calls the forward of a fresh workload instance.      *)
(* Nothing here takes a lock, and a harness may run its tool calls in      *)
(* threads: compiles and timings of several candidates can overlap.        *)
(***************************************************************************)
EXTENDS Naturals, Sequences, FiniteSets, SequencesExt

CONSTANTS
    Compiles,     \* the candidates compiled and timed, the baseline among them
    PassPlans,    \* the pass interventions a plan may have: sequences
    Launches,     \* the launch options a plan may set
    OwnLaunch,    \* those the workload's forward uses
    Ttir, Ttgir,  \* the passes of the two stages for the device
    MaxOverlap,   \* bound: candidates being compiled and timed at a time
    NoPlan

ASSUME StageAssumption ==
    /\ OwnLaunch \in Launches /\ << >> \in PassPlans
    /\ MaxOverlap \in Nat \ {0} /\ NoPlan \notin Compiles \cup Launches

Pipeline == Ttir \o Ttgir

VARIABLES
    compile,      \* per candidate: new, hooked, stages, leaving, compiled,
                  \* failed, timed
    passes,       \* its pass interventions
    launch,       \* its launch options
    at,           \* the pass its executor is at
    ran,          \* the passes it has run
    raised,       \* whether the compile raised
    under,        \* the hook its launch found: its executor and its key
    handle,       \* the module its launch returned
    measured,     \* the module time_workload timed
    hook,         \* knobs.runtime.add_stages_inspection_hook: whose, or NoPlan
    before,       \* what each compile found there
    jit,          \* external: Triton's cache, a set of <<key, module>>
    overlapped    \* history: two candidates have been under way at a time

stageVars == <<compile, passes, launch, at, ran, raised, under, handle, measured,
               hook, before, jit, overlapped>>

StageInit ==
    /\ compile = [c \in Compiles |-> "new"]
    /\ passes \in [Compiles -> PassPlans]
    /\ launch \in [Compiles -> Launches]
    /\ at = [c \in Compiles |-> 1]
    /\ ran = [c \in Compiles |-> << >>]
    /\ raised = [c \in Compiles |-> FALSE]
    /\ under = [c \in Compiles |-> NoPlan]
    /\ handle = [c \in Compiles |-> NoPlan]
    /\ measured = [c \in Compiles |-> NoPlan]
    /\ hook = NoPlan
    /\ before = [c \in Compiles |-> NoPlan]
    /\ jit = {}
    /\ overlapped = FALSE

Module(options, run) == [launch |-> options, ran |-> run]

\* {iv.pass_name: iv}: the stage of a selector has been dropped by now, and of
\* two interventions on a pass the later one counts.  Interventions on passes
\* the device's pipeline does not have are left out.
Intervention(plan, pass) ==
    LET on == {i \in DOMAIN plan : plan[i].pass = pass}
    IN  IF on = {} THEN [pass |-> pass, action |-> "run", args |-> "ok"]
        ELSE plan[CHOOSE i \in on : \A j \in on : j <= i]

Skipped(plan, pass) == Intervention(plan, pass).action = "skip"

\* The passes a plan leaves.
Kept(plan) == SelectSeq(Pipeline, LAMBDA pass : ~Skipped(plan, pass))

\* What a launch builds that no pass fails.
Build(options, plan) == Module(options, Kept(plan))

\* The key material is the compile request: kernel and launch options, without
\* the interventions.  Without a hook it is the launch options alone.
Key(h, options) == <<options, IF h = NoPlan THEN NoPlan ELSE launch[h]>>

Cached(key) == {entry \in jit : entry[1] = key}

Advance(c, s) == compile' = [compile EXCEPT ![c] = s]

\* The candidates whose compile or timing has begun and not ended.
AtWork == {c \in Compiles : compile[c] \notin {"new", "failed", "timed"}}

\* patched_environ and scoped_stage_hook.
Enter(c) ==
    /\ compile[c] = "new"
    /\ Cardinality(AtWork) < MaxOverlap
    /\ overlapped' = (overlapped \/ AtWork # {})
    /\ before' = [before EXCEPT ![c] = hook]
    /\ hook' = c
    /\ Advance(c, "hooked")
    /\ UNCHANGED <<passes, launch, at, ran, raised, under, handle, measured, jit>>

\* The module does not import, the kernel has no entry, the launch fails.
Fault(c) ==
    /\ compile[c] \in {"hooked", "stages"}
    /\ raised' = [raised EXCEPT ![c] = TRUE]
    /\ Advance(c, "leaving")
    /\ UNCHANGED <<passes, launch, at, ran, under, handle, measured, hook, before, jit,
                   overlapped>>

\* compilagent_compile launches the kernel: a build the jit remembers, one the
\* hook only watches (no pass interventions), or one the hook's executor runs.
Launch(c) ==
    /\ compile[c] = "hooked"
    /\ under' = [under EXCEPT ![c] = hook]
    /\ LET key == Key(hook, launch[c])
           plan == IF hook = NoPlan THEN << >> ELSE passes[hook]
           built == IF Cached(key) = {} THEN Build(launch[c], plan)
                    ELSE (CHOOSE entry \in Cached(key) : TRUE)[2]
       IN  IF Cached(key) = {} /\ plan # << >>
           THEN /\ Advance(c, "stages")
                /\ UNCHANGED <<handle, jit>>
           ELSE /\ handle' = [handle EXCEPT ![c] = built]
                /\ jit' = jit \cup {<<key, built>>}
                /\ Advance(c, "leaving")
    /\ UNCHANGED <<passes, launch, at, ran, raised, measured, hook, before, overlapped>>

\* execute_plan, one step.  An action that is not "skip" runs the pass; args
\* it does not take raise out of the compile; a pass that fails ends its stage
\* and nothing else.
ExecutePass(c) ==
    /\ compile[c] = "stages" /\ at[c] <= Len(Pipeline)
    /\ LET pass == Pipeline[at[c]]
           to == Intervention(passes[under[c]], pass)
           nextStage == IF at[c] <= Len(Ttir) THEN Len(Ttir) + 1 ELSE Len(Pipeline) + 1
       IN  \/ /\ to.action = "skip"
              /\ at' = [at EXCEPT ![c] = @ + 1]
              /\ UNCHANGED <<ran, raised, compile>>
           \/ /\ to.action # "skip" /\ to.args = "ok"
              /\ at' = [at EXCEPT ![c] = @ + 1]
              /\ ran' = [ran EXCEPT ![c] = Append(@, pass)]
              /\ UNCHANGED <<raised, compile>>
           \/ /\ to.action # "skip" /\ to.args = "ok"
              /\ at' = [at EXCEPT ![c] = nextStage]
              /\ UNCHANGED <<ran, raised, compile>>
           \/ /\ to.action # "skip" /\ to.args # "ok"
              /\ raised' = [raised EXCEPT ![c] = TRUE]
              /\ Advance(c, "leaving")
              /\ UNCHANGED <<at, ran>>
    /\ UNCHANGED <<passes, launch, under, handle, measured, hook, before, jit, overlapped>>

FinishStages(c) ==
    /\ compile[c] = "stages" /\ at[c] > Len(Pipeline)
    /\ handle' = [handle EXCEPT ![c] = Module(launch[c], ran[c])]
    /\ jit' = jit \cup {<<Key(under[c], launch[c]), handle'[c]>>}
    /\ Advance(c, "leaving")
    /\ UNCHANGED <<passes, launch, at, ran, raised, under, measured, hook, before, overlapped>>

\* TritonBackend.compile: an exception becomes a failed compile.
Outcome(c) == IF raised[c] THEN "failed" ELSE "compiled"

\* Mutant: the hook is put back after a successful compile only: no finally.
LeaveAfterSuccess(c) ==
    /\ compile[c] = "leaving"
    /\ hook' = IF raised[c] THEN hook ELSE before[c]
    /\ Advance(c, Outcome(c))
    /\ UNCHANGED <<passes, launch, at, ran, raised, under, handle, measured, before, jit,
                   overlapped>>

\* The finally blocks.
Leave(c) ==
    /\ compile[c] = "leaving"
    /\ hook' = before[c]
    /\ Advance(c, Outcome(c))
    /\ UNCHANGED <<passes, launch, at, ran, raised, under, handle, measured, before, jit,
                   overlapped>>

Buildable(plan) ==
    \A pass \in ToSet(Pipeline) : Intervention(plan, pass).action = "skip"
                                  \/ Intervention(plan, pass).args = "ok"

\* The warm-up of time_workload compiles what the jit does not have, under the
\* hook it finds.  forward is the workload's own; neither the plan nor the handle
\* reaches it.
TimePlan(c) ==
    /\ compile[c] = "compiled"
    /\ LET key == Key(hook, OwnLaunch)
           plan == IF hook = NoPlan THEN << >> ELSE passes[hook]
           built == IF Cached(key) = {} THEN Build(OwnLaunch, plan)
                    ELSE (CHOOSE entry \in Cached(key) : TRUE)[2]
       IN  /\ Cached(key) # {} \/ Buildable(plan)
           /\ measured' = [measured EXCEPT ![c] = built]
           /\ jit' = jit \cup {<<key, built>>}
    /\ Advance(c, "timed")
    /\ UNCHANGED <<passes, launch, at, ran, raised, under, handle, hook, before, overlapped>>

\* forward raises during warm-up or timing: no signal.
TimingFails(c) ==
    /\ compile[c] = "compiled"
    /\ Advance(c, "failed")
    /\ UNCHANGED <<passes, launch, at, ran, raised, under, handle, measured, hook, before, jit,
                   overlapped>>

StageNext == \E c \in Compiles :
    \/ Enter(c) \/ Fault(c) \/ Launch(c) \/ ExecutePass(c) \/ FinishStages(c)
    \/ Leave(c) \/ TimePlan(c) \/ TimingFails(c)

StageSpec == StageInit /\ [][StageNext]_stageVars

-----------------------------------------------------------------------------
(* Properties *)

\* What a candidate is timed on was built under no plan or under its own.
TimedUnderOwnPlan ==
    \A c \in Compiles : measured[c] # NoPlan =>
        measured[c].ran \in {Kept(<< >>), Kept(passes[c])}

\* Whatever compiles ran, raised or failed before: as long as no two candidates
\* were under way at a time, the knob is free when no compile is in its scope,
\* and nothing of another candidate is in what is timed.  A hook left behind
\* would be compiled into it, or be in the jit's cache for all who come later.
NothingLeaksIntoTiming ==
    overlapped \/ /\ TimedUnderOwnPlan
                  /\ hook # NoPlan => compile[hook] \in {"hooked", "stages", "leaving"}

\* What scoped_stage_hook says (stages.py:139): "Install a Triton stage hook for
\* one experiment and restore previous state".  The knob is the process's, and
\* saved and put back without a lock.
HookForOneExperiment == TimedUnderOwnPlan

=============================================================================
