# compilagent: TLA+ models, model checking and proofs

compilagent lets an LLM agent optimise a workload: the agent proposes
*candidates* (plans of compiler interventions or kernel sources), a *session*
compiles, times and validates them against a budget, and a *run loop* decides
when the agent has done enough. Candidates of the `triton_source` backend are
evaluated in sandbox subprocesses on GPUs shared with other processes, and
`scripts/run_pilot.py` runs whole grids of such sessions in parallel worker
processes. This directory models the parts where order, failure and
concurrency decide whether the numbers that come out can be trusted.

Source paths below are relative to `src/compilagent/` unless they start with
`scripts/`.

## 1. Inventory

| Component | State | Operations | Hard behaviour |
|---|---|---|---|
| Session tool surface (`session/session.py`, `session/tools.py`) | candidate registry, `budget_state`, baseline, event sink, experiment log | `propose_candidate(s)`, `run_candidate(s)`, `synthesize_findings`, `compare_runs` | no lock; pydantic-ai runs the tool calls of one response in threads; sink and backend may raise half-way |
| Run loop and policy (`run_session`, `session/completion.py`, `harness/base.py`) | iteration, `tools_called`, snapshot, decision | drive the harness, evaluate, continue or stop, `finalize` | the agent may do anything, or nothing; several stop conditions at once; failing writes |
| GPU pool (`triton_source/_internal/gpu_lease.py`) | one flock per device, occupancy cache | sweep, lock, ask nvidia-smi, accept or release, time out | several processes, other users' jobs, stale answers, killed holders |
| Sandbox (`triton_source/_internal/sandbox.py`, `sandbox_runner.py`) | a child process on the leased device; gates and timings found so far | spawn, trials, gates, timing, hard timeout, parse, classify faults | the child outlives a killed parent; infrastructure faults must not be charged to candidates |
| Backends (`triton_source/backend.py`, `torch_inductor`, `triton`) | evaluation cache; patches of process-wide configuration; stage hook and jit cache | compile, time, validate | caches and patches outlive one candidate and are shared by threads |
| Grid driver (`scripts/run_pilot.py`) | results file, cell queue, worker processes, episode children | resume, queue, run cell, leased child, locked append, join | killed workers, children and drivers, full disk, resumed grids overlapping with old workers |
| Ledger quarantine (`scripts/quarantine_faulted.py`) | results and quarantine file | read, append, rewrite | runs beside a grid |
| Cascade harness (`archetype_harnesses/cascade.py`) | archive, rejected forms, incumbent, plateau counter, slots | seed round, judge, refinement, re-seed, early stop, continuation | a long protocol with many exits; bookkeeping repeated in two rounds |
| Other archetypes (`harness.py`, `evolution.py`, `bandit.py`, `profiler_ma.py`) | population, arms, incumbent, turn and slot counts | generate, submit, breed, reflect | budget and turn limits, told or not, over continuations |
| Skill memory (`skill_memory.py`) | one JSON file for all workers | load, inject, observe, save | load-modify-save without a lock through one temporary name |
| LLM client (`_llm.py`, `pydantic_ai/_model.py`) | start times of the process, a semaphore per event loop | enter the gate, reserve, send, retry | ids of closed loops come back; retries inside the gate, and inside the model below it |
| Task selection and re-evaluation (`kernelbench_select.py`, `holdout.py`, `replay_loose_verifier.py`, `eval_holdout.py`) | probe cache, manifest, ledgers of the re-evaluations | screen, parse shapes, probe, select, make unseen configurations, evaluate again | interrupted and resumed; a parser that must not guess |
| Ranking (`multi_objective.py`, `leaderboard.py`, `api._select_best`, `run_pilot._best_validated`, `session._best_speedup`, `app._summarise_runs`) | none | order, pick the winner, dominate, rank | ties, missing values, opposite goals; five places that name a best candidate, with tests and orders of their own |
| Observation UI (`observation_ui/app.py`, `static/app.js`) | a task per run, the trace, a page with history and socket | drive, summarise, attach, poll | history and socket race; order of the last events; lost connections |
| Plans, search space, registries; vendor harnesses; storage layout; API and settings | dictionaries filled at start-up | translate, look up, render | none of their own |

How they interact: the harness calls the session's tools; the session calls the
backend, writes events to its sink and rows to the experiment log; `run_session`
consumes the harness's event stream and asks the completion policy; the
triton_source backend takes a lease from the GPU pool around each sandbox; the
grid driver runs `run_session` in each worker, or in a leased child of it, and
appends one row per cell to a file that a later invocation, the quarantine and
the re-evaluations read back; the archetypes share the skill file between
workers and the chat client within one; the page of the UI reads the trace the
session writes.

What would make each correct: the session's three ledgers (counters, log,
events) tell one story; the loop stops, once, for a true reason; a device never
serves two measurements; what is timed is what was submitted; no cell of the
grid is lost silently or paid twice; what is reported as best was measured and
validated. `PROJECT.json` lists the hazards line by line with the properties
that cover them, and a note where a property covers one in part or, for one
hazard, where the code does what must not happen.

## 2. Modules

| Module | What it is | Composes |
|---|---|---|
| `OptimizationSession` | the session's state and every handler step | |
| `RunLoop` | `run_session`, the policy, `finalize` | EXTENDS `OptimizationSession` |
| `EpisodeLoop` | what the loop promises (abstract) | refined by `RunLoop` |
| `GpuLease` | `acquire`, the lease, the sandbox around it, the environment | |
| `DeviceLeases` | exclusive leases that end (abstract) | refined by `GpuLease` |
| `Cascade` | the composite harness and its continuations | |
| `PilotDriver` | `main`, workers, queue, results file | |
| `Quarantine` | the script beside the grid | EXTENDS `PilotDriver` |
| `EpisodeLease` | the leased child process of a cell | |
| `SourceBackend` | triton_source: sandbox, gates, cache, its callers | |
| `Interception` | torch_inductor: the five context managers | |
| `StageHook` | triton: stage hook, pass executor, jit cache | |
| `Archetypes` | the five plain archetypes and their continuations | |
| `SkillMemory` | the rules file and the workers that rewrite it | |
| `LlmClient` | throttle, gate and retries of one process | |
| `ShapeTemplate` | the parser of `get_inputs`, as operators | |
| `TaskSelection` | screen, probes, cache, round robin | EXTENDS `ShapeTemplate` |
| `HoldoutConfigs` | the six unseen configurations | EXTENDS `ShapeTemplate` |
| `Reevaluation` | the two scripts that run candidates again | |
| `Ranking` | leaderboard, winners, fronts, over growing records | |
| `Observation` | server task, trace, list and page | |
| `GpuLeaseProofs`, `SessionProofs`, `PilotProofs`, `CascadeProofs` | theorems about the session and its loop, the pool, the grid and the cascade | EXTEND their component |
| `MeasurementProofs`, `ServiceProofs`, `ScriptProofs` | theorems about the parts of `MCMeasurement` and `MCServices` | EXTEND those parts |
| `FoldLemmas` | induction over finite sets and numbers, sums and orders | EXTENDED by four proof modules |
| `MC*` | small instances for TLC | EXTEND what they instantiate |

`MCMeasurement` puts `SourceBackend`, `Interception`, `StageHook`,
`EpisodeLease` and `Archetypes` into one run, `MCServices` the modules from
`SkillMemory` to `Observation`. Those parts share no state in the program
either, so `part`, chosen by the initial state, says which of them moves: the
state space is the sum of theirs and not the product. Each is a specification
of its own (`SourceSpec`, `SkillSpec`, `EpisodeSpec`, ...), which is what the
theorems speak of.

Operators named as mutations of another (their comment starts with "Mutant:")
are plausible bugs. No specification uses them; each shows that some property
fails when it replaces the definition that follows it.

### OptimizationSession

`call[c]` is the frame of a handler in flight: its phase, the candidate, the
result of the evaluation, the `slots_remaining` it computed, the size of the
dict when its iteration began. `run_candidate` is cut at the points where
another thread can run: entering, the backend work (`Evaluate`), the update of
the candidate's entry (`Record`), the counters (`Count`), the events
(`Report`), the leaderboard's iteration over the registry (`BeginRanking`,
`EndRanking`, `RankingRaises`), the experiment log (`Log`) and the end
(`Finish`). `budget_state[k] += 1` is one step: CPython (3.10 and later) does
not switch threads between the load and the store of that statement. An
evaluation is reduced to what the classification looks at: compiled or not, the
median (`None`, 0, positive), the verdict (unchecked, ok, drift), whether
objectives were reported. `Successful` and `HasSpeedup` use different tests of
the median, as the code does. `log` has the rows of wins and of failures,
`rejects` the events; `faults` is a history that counts the writes that failed
and the handlers that died. `AccountsBalance` compares counters, rows and events
and allows as many differences as there were faults, a handler that dies of a
race among them. Less than the log's own head says (below).

One element of `Calls` is a harness that dispatches one handler at a time
(archetype, Claude); two are pydantic-ai's concurrent tool threads.

### RunLoop and EpisodeLoop

`HarnessEnds` is the end of the harness's stream with the snapshot, the policy
and the branch; `DispatchTool` and `DispatchReflection` are the agent, bounded
by `MaxTurns` per harness run; `Observe` is the set of tools called that the
policy looks at. `DefaultCompletionPolicy.evaluate` is
`Evaluation`, tests in the order of the code. With `DiskFaults`, the event
writes of `run_session` and of `finalize` may raise, which the caller sees as
phase `"aborted"`; handlers of an aborted session are of no consequence any
more, its caller drops the session. `EpisodeStore.save` truncates the document
and streams into it, so `FinalizeRaises` leaves the old document, a torn one or
the new one. `EpisodeLoop` forgets tool calls, handlers
and policy: work is banked or spent, the harness restarts a bounded number of
times, the episode stops for a reason its ledger supports, and what is saved is
that ledger; a save that failed may leave the old document, a torn one or the
ledger, and the episode is then not closed. `RunLoop!Episode` is the refinement mapping.

### GpuLease and DeviceLeases

A worker goes `idle -> sweeping -> inspecting -> leased -> running -> reaped ->
idle`. `Accept` and `Reject` are the moment nvidia-smi looks, or the cached
answer is used; an answer may expire at any time (`Expire`), so every timing of
the one-second TTL is covered. The timeout of `acquire` is a bound on sweeps:
`GiveUp` may happen after any sweep, `NextSweep` only `MaxSweeps` times. The
sandbox is `"starting"` until it has touched CUDA; only a `"resident"` one is
seen by nvidia-smi. `Die` kills a worker: the kernel closes its lock file, and
its child lives on (the file is not inherited, PEP 446). `DeviceLeases` has
only `Grant` and `Revoke`.

### SourceBackend

A request is one call of `compile` by a session, a replay, a holdout or a
profile. Its steps alternate between the parent (`Lint`, `LeaseRefused`,
`Spawn`, `Parse`, `TimeWorkload`, `Validate`, `WriteRow`, `Profile`) and the
sandbox (`Load`, `Trial`, `Determinism`, `Bench`). `TrialFindings` are the sets
of gates one trial can break, given which findings hide which; `Crash` loses
what was found, `RunnerFault` is the infrastructure error. `evalCache` is keyed by
`PlanKey`, and two requests of a session may overlap in it. A gate's numerics
are its outcome, and the sources the lint flags are the constant `Banned`.

### Interception

`global` is the process-wide configuration; a driver thread enters the managers
in the order of the backend, each of which walks its overrides (`Apply`), keeps
a snapshot per place and puts it back in `LeaveManager`. `PlaceOf` sends the
spelling of a key to the attribute it names, so that two keys may be one place
and a key may name nothing. `CallBackend` is Dynamo's compile lock; `Drive`
drops the code of all callables, so `TimeCandidate` and `ValidateCorrectness` may compile
again. `MaxEach` bounds how often a thread does each.

### StageHook

`Enter` installs the hook, `Launch` builds or finds a module in Triton's
`jit` cache under `Key`, `ExecutePass` and `FinishStages` are the executor,
`Leave` the finally blocks. `Kept` are the passes a plan leaves in the
pipeline, `Outcome` what the caller of a compile gets. `TimePlan` warms up the workload's own forward,
with its own launch options, and times what the cache then has. `AtWork` are the
candidates between entering and the end of their timing, at most `MaxOverlap` at
once, and `overlapped` remembers that two of them were: `optimize_kernel` with
the pydantic-ai harness runs its tool calls in threads, and nothing locks the
hook. `NothingLeaksIntoTiming` speaks of behaviours without an overlap, which is
what the harnesses that dispatch one tool at a time have;
`HookForOneExperiment` is the same without that condition, and violated.

### EpisodeLease

The worker's side is `SpawnChild` and `Join`, the child's `Pin`, `RunCell`,
`EndCell`, `Send`, `Exit`. `resident` are the cells with a CUDA context, which
lives until the process ends; the lease is released before. A
lock is granted when the busy check sees nobody: `Answers` is what it may say,
and with `CheckMayFail` also that nobody is there, since it fails open. `blind`
is a history of the episodes that were granted a device in that way; beside
those, a child on its way out may still have a context. `pipe` is what has been sent;
`Received` is `None` while the other end may still be open. `KillChild` and
`KillWorker` share the bound `MaxKilled`.

### Cascade

The protocol dispatches its tools one at a time, so a submission
(`_submit_candidate`: propose, run, and the counters they move) is one step.
`submitted` is the list of submissions of the current harness run; those that
ran are the archive. `Form` is the codec's normal form, so that two sources may
be one candidate to the novelty filter. A generation is any source, or a text
without one; a measurement is any of `Speedups`, in hundredths. `Ranking` is
`parse_judge_ranking` on any answer, with unknown, missing and repeated ids, as
a function from positions: the answer's own, then one per id it left out.
`Improves` is the deadband on integers (`100 s > (100 + pct) i`).
`Stops`, `Close` and `Continue` are `run_session` around it: a continuation
starts with fresh locals and no seed round. Every ingredient is a BOOLEAN
constant, as in `CascadeConfig`.

### Archetypes

One module for five protocols, since they share `_submit_candidate`,
`_reflect`, the turn loop and the failure path; `kind` picks one. `Samples` is
what is gathered before anything is submitted, `Breed` and `DropChild` the
generations of evolution, `Selectable` UCB1 reduced to what its formula
implies (no arm is chosen that another one equals or beats in both mean and bonus),
`Adopt` and `Reward` what the bandit and the profiler remember. `told` is
whether the request carries `max_candidates`; `Asked` is what the harness then
believes.

### PilotDriver and Quarantine

Each invocation of the driver has its own queue and workers, since workers
outlive a killed driver. A line of the results file is one of `good`, `error`,
`cut` (an episode whose harness swallowed an infrastructure fault), `faulted`
(a row from before such faults were recognised) and `junk`. An append writes
the whole line, or breaks off (`BreakOff`, in `WriteFails` and `KillWriter`) with nothing, a piece or
all but the newline there (`Parts`). In the last case the row parses and its
cell counts as finished until the next append continues the line: then both rows
are gone. `garbled` are the cells whose rows were lost so. `KillWorker` inside
`get()` jams the queue, whose reader semaphore is never released. `Quarantine`
adds the script: `ReadRows` (unlocked), `MoveRows`, `RewriteRows` (locked).

### SkillMemory

A file is the frequency of each lesson, absent, or torn. `OpenTmp` truncates
the temporary file whoever writes it, `WriteText` writes over what is there
(`Overwrites` says when the tail of a longer text stays), `Rename` moves the
file, and with it the place the other writers have open. `RenameMisses` and
`SaveFails` are the errors `_save_rules` swallows. A worker that finds no
readable file saves a fresh one first (`seeding`). `observed` and `banked` are
histories: the failures seen, and what the file should hold as long as no two
workers used it at once.

### LlmClient

Time is counted in intervals. A call enters the gate of its loop
(`EnterGate`), queues (`LeaveQueue`), reserves a start (`Reserve`), sends,
at its slot or up to `MaxLate` intervals after it, and is answered, refused or
backs off with its permit held. Inside one request the model's own proxy may
sleep and send again, up to `Attempts` times (`TrySleeps`, `Resend`), without a
slot, so that slots are spaced and requests are not. An id of a loop comes back
when the loop has been closed and no semaphore refers to it (`BoundIds`):
CPython frees it then, and not before, so `StartEpisode` chooses among the
other ids.

### ShapeTemplate, TaskSelection, HoldoutConfigs

A source is a record of its constants, tuples, the statements of `get_inputs`
and the names `get_init_inputs` uses. `Verdict` and `TemplateOf` are
`parse_shape_template`: an axis is mentioned at a place (input, argument, part
of a tuple), and what the code keeps in the order of first mention is a set with
`FirstOf`; `IsSource` says what a source is made of.
`BuiltShapes` is the reference definition: the shapes that `get_inputs` builds
when it runs. `TaskSelection` takes the verdict through the screen, the probes
in chunks (`ProbeChunk`, any prefix of a chunk may be done when it dies), the cache, which
a kill may tear (`Stop`), and `Visit`, one step of the round robin. Nothing is
sorted: a family has a `Turn` and a task a `RankOf`, both counted, `AtVisit` is
the task at a visit, and the chunks are sets.
`HoldoutConfigs` makes the six categories in order, with `CappedScale`,
`ShrunkToFit` (both loops that go down by quarters) and `Nudged` on the integers
of the code; only the budget and the production size are smaller. The loop that
looks for a prime has no bound in the code; `NextPrime` looks up to n! + 1,
where Euclid finds one.

### Reevaluation

`script` is which of the two runs. An invocation reads what is done
(`StartPass`), evaluates candidate after candidate (`Evaluate`), appends
(`AppendRow`) or is cut off in it (`TearRow`, which leaves a piece of the row or
all of it but the newline). `todo` is a set whose least
element is next. `KeptFor` is the row of a candidate that the report counts:
the first that no later one replaces.

### Ranking

`candidates` is the list of records in order of registration; a step appends
one with any outcome (`RunRecord`) or runs one again (`RunAgain`). All else is
operators over it: `Leaderboard` gives each candidate its place, counted and not
sorted. Five places name a best candidate. `SelectBest` (Python API) and
`BestRow` (grid row) ask for a speedup above 1 and no wrong verdict. `BatchBest`
(`run_candidates`) asks for a compile too, of its own batch and in its own
order. `BestSoFar` (`_best_speedup`, for the run loop) asks for any speedup, and
`ListedBest` (the UI's list) takes the first row of the leaderboard.
`WinnersAgree` says where they agree and under which conditions, and that the
counts of the grid's row account for every run once. `Dominates`,
`ParetoFront`, `Rank` and `Summary` are `multi_objective`. `FrontHoldsTheBest`
compares them with each other; rows that miss a metric stay on the front, and
ranks after a tie leave numbers out, both against the docstrings (below).

### Observation

`drive[r]` is the task of a run, `trace` all events in order. `page` is the
page with its active run, whether it wants the history, the request under way
and the status shown; `socket` is the websocket with the server's cursor.
`AttachTo` resets the first; `History` and `Poll` answer in any order. A
connection may be lost at any time (`Drop`) and a request may fail
(`HistoryFails`); the page tries neither again. `ShownAsTold` is what list and
page do promise: what they show as finished is on disk, and a page shows a
failed run as done only if it is live and its socket was accepted after the
failure. What they do not promise, against the comments of `app.js` (below): the
list shows failed runs as finished, and a live page may never learn of the end.
The header's chip is not modelled. `PageLearns` is about pages that asked for the
history, as long as their connection is there.

## 3. Runs

All runs use two TLC workers and finish within five minutes (the longest, `measurement`, takes about three).

| Run | Configuration | Result |
|---|---|---|
| `session` | 2 overlapping calls, 2 candidates, budget 1, 2 executions, batches of 2, failing writes, objectives | `AccountsBalance`, `SlotsNeverUnderstated`, `WinnersWereCounted` hold |
| `run_loop` | 1 call, 2 candidates, budget 1, failure cap 2, 1 continuation of 2 turns, batches of 2, failing writes | `BestIsBanked`, `EpisodeRefined`, `SessionCloses` hold |
| `gpu_lease` | 2 workers (1 mortal), 2 devices, foreign jobs on one, 2 sweeps, 2 evaluations each | `NoLeakedLock`, `LiveSandboxesApart`, `NeverLeasedOccupied`, `LeasesImplemented` hold |
| `pilot` | 2 cells, 2 workers, 2 invocations, 1 kill of a driver, 1 kill of a worker or append that fails | `FinishedOnce`, `CleanExitCoversGrid`, `InvocationReturns` hold |
| `cascade` | 3 seeds, 2 slots, 4 turns, 1 continuation, plateau 2 and 3, 3 spellings of 2 candidates | `RejectedStayRejected`, `IncumbentNearBest`, `EarlyStopAfterReseed`, `BudgetOverrunBounded`, `CascadeEnds` hold |
| `measurement` | 2 overlapping requests of any caller, 2 texts of which 1 is banned, 2 trials; 2 threads with 3 plans that cover known, unknown, read-only, repeated and default keys; 2 overlapping Triton compiles with 4 pass plans, 2 launch options and 3 passes; 3 cells, 2 workers, 1 device, 2 kills, a busy check that may fail; 5 archetypes, budget 2, 3 samples, 4 turns, 1 continuation | `ServedTimingsEarned`, `AcceptedWasMeasured`, `CompiledUnderItsPlan`, `ConfigRestored`, `NothingLeaksIntoTiming`, `PoolExclusive`, `BudgetKept`, `IncumbentEarned`, `EpisodesReported`, `ArchetypesEnd` hold |
| `services` | 2 savers, 2 lessons, 2 failures, 1 fault; 3 calls, gate of 2, 2 loop ids, 2 episodes, 1 retry and 2 tries of the model each, 1 interval late; 7 tasks, quota 3, chunks of 2, 2 invocations; a grid of 3 cells, one failed and run again, 2 invocations, 2 starts, 1 torn line; 2-dimensional sources with sizes 1 to 9 and the odd ones of `MCOddSources`; 3 records of 18 outcomes; 2 runs, 2 attachments (222,000 states) | `LessonsEarned`, `CrashesKeepLessons`, `LimitsKept`, `GateBelongsToLoop`, `ManifestStratified`, `HoldoutFair`, `WinnersAgree`, `FrontHoldsTheBest`, `ShownAsTold`, `LedgerServes` hold |
| `services_ends` | the chat client of `services` with 1 episode, and its UI | `CallsEnd`, `PageLearns` hold |
| `lease_orphan` | as `gpu_lease` | `NoTwoSandboxesShare` fails: the sandbox of a killed worker has not touched the device yet when the next worker is granted it |
| `quarantine` | 1 worker, the script once, an old faulted row | `MovedNotDeleted` fails: a row appended between read and rewrite disappears |
| `interception_alias` | a plan that sets a safety default by its other name | `ConfigRestored` fails: the overridden value is taken for the original one and stays |
| `stage_overlap` | the Triton compiles of `measurement`, 2 at a time | `HookForOneExperiment` fails: one candidate is built under the other's hook |

The runs from `lease_orphan` on check statements of the repository's own
documentation that the code does not keep; `PROJECT.json` quotes them under
`findings`.

Other places where a text of the repository and the code disagree, seen while
modelling and not kept as runs. The models have all of these behaviours unless a
line says otherwise, and the properties say what holds with them.

- `experiment_log.py:3-6` says every success is appended and drifts are too. A
  handler that dies while it iterates the registry (`session.py:698`) has counted
  its success and logs no row; a drift never has one (740).
- `sandbox.py:71-74` says an infrastructure fault aborts the episode and leaves a
  retryable error row. The harness swallows it (`harness.py:308`) and the row
  (`cut`) counts as finished (`run_pilot.py:484`).
- `run_pilot.py:27-28` promises one row per cell and 404-406 that lines are never
  torn or joined. After an append that broke off (414) the next row continues its
  line, both are lost, and the driver exits with 0. `CleanExitCoversGrid` counts
  these rows.
- `run_pilot.py:312-314` says no idle context squats on a pool device. The lease is
  released (332) before the process that has the context exits.
- `_llm.py:12-15` says request starts are spaced. The model below retries
  (`pydantic_ai/_model.py:72`) without reserving a start.
- `completion.py:36-37` says the snapshot's `best_speedup` is `None` without a
  validated win. It may be a candidate slower than the baseline (`session.py:1175`).
- `multi_objective.py:178-179` says rows that miss a metric are skipped; only rows
  without any objective are (184). 97 says ranks are dense; a tie leaves ranks out
  (117).
- `app.js:45-48` makes a failed run stay failed; the server's list takes the last
  event, the `session.finished` of `finalize` (`app.py:158`).
- `app.js:459-461` says the page learns of the end at once. A live page's socket
  starts at the end of the trace when it is accepted (`app.py:463`), and the page
  asks for no history (`app.js:415`).
- `app.js:458-459` says the header's chip shows the terminal status; the close
  event of the socket overwrites it (441). The chip is not modelled.
- `kernelbench_select.py:743` means to leave the round robin when no family has a
  task left, but the buckets are never emptied: with fewer clean tasks than the
  quota it turns for ever, writing no manifest (`Visit`).
- A candidate that ran and failed leaves the plateau counter alone
  (`cascade.py:686` against 51).
- The reflection tools may both be called before the winning candidate is run
  (`completion.py:77` against 8-12).
- `TraceStore.emit` raises out of a handler (`trace_store.py:39` against
  `sink.py:27-28`).
- `time_workload` of the triton backend times the workload's own launch, without
  the plan's interventions.
- A constant written `x_1` beside a tuple `x` is read as the tuple's element, and
  one written `c5` as the literal 5; literal arguments of the model's constructor
  do not fix an axis of the same size.

Why the bounds are enough: two calls are the least that interleave, and all
hazards of the session are pairwise; budget 1 with two executions goes
from below to beyond the budget; `MaxRuns` bounds the executions of a
behaviour, not their order. In `run_loop` the failure floor and factor are
lowered (2 and 1) so that the cap is reached. Two devices and two workers have
every contention the sweep can meet, one sweep after the first distinguishes
"try again" from "give up". Two cells and two workers give a queue that one
worker can empty before the other starts; a killed driver and one more fault, at every
point and in either order. Episodes finish or raise there; the two endings
by an infrastructure fault, which give rows the driver treats alike, are in the
theorems only. In `cascade` there are more seeds than
slots, so the budget is overrun, and as many turns as it takes to re-seed and to
stop early; plateau limits 2 and 3 leave one turn for the re-seed, which an
off-by-one would miss. Two trials distinguish the first from a later one, which
the gates treat differently; a second request can overwrite the cache between the two reads of
the first. Two threads and three plans nest, overlap and follow each other in
all orders. Two kills reach a child and its worker in either order, and a third
cell then wants the device. Two Triton candidates at a time have every
overlap of saving, setting and putting back one hook. Three samples against a budget of two overrun it if anything
does; four turns pull two arms twice. Two savers in all orders show every use of the one temporary
name, and two failures are `MinFrequency`. Three calls against a gate of two
make one wait; two loop ids are one that comes back and one that does not; one interval late is
enough to miss a slot, and `services_ends` needs one episode only, since no
call outlives its own. Three cells are more than one torn line can cost a
re-evaluation, so the bound of two is met and not exceeded. Three records compare a winner with a tie and with a loser. Seven tasks are one
of each kind the selection tells apart, and three that differ only in family.
Deadlock is off in all configurations because every one of these systems ends:
budgets and bounds are used up, or the work is done.

Fairness. In `RunLoop`, handlers and the end of a harness run are weakly fair:
backend calls return, and an agent is bounded by its turn limit; `Finalize` is
fair because callers run it. No tool call is fair: the agent may do nothing. In
`GpuLease`, a worker runs its own code; all its waits have timeouts. Sandboxes
need not end and foreign jobs need not leave. In `PilotDriver`, workers run on
(an episode has bounded turns, continuations and sandbox times) and `main`
joins; nobody has to start the driver again. In `Cascade` and `Archetypes` the
one actor goes on: generations return or raise. In `EpisodeLease` the operating
system runs every child and every joining worker; no cell need be spawned. In
`LlmClient` time passes and the provider answers or refuses; leaving the queue
is strongly fair, since asyncio wakes the waiters of a semaphore in order and
a permit may be gone and come back in between. In `Observation` the server
answers and polls for as long as the connection is there: `Drop` and
`HistoryFails` are always possible, and nobody has to start, end or look at a
run. The weak fairness of `Poll` says no more than that, as a lost connection
disables it for good. `SourceBackend`, `Interception`, `StageHook`, `SkillMemory`,
`TaskSelection`, `HoldoutConfigs`, `Reevaluation` and `Ranking` state safety
only.

## 4. Proofs

All theorems are for any values of the constants that satisfy the named
assumption of the module.

| Module | Theorems (what each states) | Assumption |
|---|---|---|
| `GpuLeaseProofs` | `TypeCorrect` (`TypeOK`), `LocksNeverLeak` (`NoLeakedLock`), `LiveSandboxesNeverShare` (`LiveSandboxesApart`), `OccupiedNeverLeased` (`NeverLeasedOccupied`), `LeasesAreExclusive` (`Leases!SafeSpec`) | `LeaseConstants` |
| `SessionProofs` | `SessionTypeCorrect` (`SessionTypeOK`), `RunsAreAccountedFor` (`AccountsBalance`), `SlotsAreNeverUnderstated` (`SlotsNeverUnderstated`), `WinnersAreCounted` (`WinnersWereCounted`) | `SessionConstants` |
| | `BestIsAlwaysBanked` (`BestIsBanked`), `LoopImplementsEpisode` (`EpisodeRefined`, without its fairness: it has none) | and `LoopConstants` |
| `PilotProofs` | `PilotInvariance` (`PilotInv`), `NoCellPaidTwice` (`FinishedOnce`), `ExitCodesAreHonest` (`CleanExitCoversGrid`) | `PilotConstants`, `OldLedgersFinishedOnce` |
| `CascadeProofs` | `RejectionsLast` (`RejectedStayRejected`), `OverrunIsBounded` (`BudgetOverrunBounded`), `ReseedComesFirst` (`EarlyStopAfterReseed`), `WinsDoNotAddUp` (`IncumbentNearBest`) | `CascadeConstants` |
| `MeasurementProofs` | `ServedIsEarned` (`ServedTimingsEarned`), `AcceptedIsMeasured` (`AcceptedWasMeasured`) | `SourceAssumption` |
| | `ConfigIsRestored` (`ConfigRestored`), `CompiledUnderOwnPlan` (`CompiledUnderItsPlan`) | `InterceptionAssumption`, and `OneSpelling` in the statement |
| | `NothingLeaks` (`NothingLeaksIntoTiming`) | `StageAssumption` |
| | `PoolStaysExclusive` (`PoolExclusive`) | `EpisodeAssumption` |
| | `BudgetIsKept` (`BudgetKept`), `IncumbentIsEarned` (`IncumbentEarned`) | `ArchetypeConstants` |
| `ServiceProofs` | `LessonsAreEarned` (`LessonsEarned`), `CrashesTakeNothing` (`CrashesKeepLessons`) | `SkillConstants` |
| | `LimitsAreKept` (`LimitsKept`), `GatesBelongToLoops` (`GateBelongsToLoop`) | `LlmConstants` |
| | `WhatIsShownWasTold` (`ShownAsTold`) | none |
| | `WinnersAlwaysAgree` (`WinnersAgree`), `FrontIsComplete` (`FrontHoldsTheBest`) | `RankingAssumption` |
| `ScriptProofs` | `ManifestsAreStratified` (`ManifestStratified`) | `SelectionAssumption` |
| | `LedgersServe` (`LedgerServes`) | `ReevaluationAssumption` |
| | `ConfigsAreFair` (`HoldoutFair`) | `HoldoutAssumption` |

Where a theorem has a condition in its statement, the program needs it:
`OneSpelling` says that no manager patches a place under two names, and the run
`interception_alias` is what happens otherwise (TLC evaluates it to true for
the plans of `measurement`). `NothingLeaks` holds for any `MaxOverlap`, but the
property itself ends with the first overlap (`overlapped`): what happens then is
the run `stage_overlap`. `PoolStaysExclusive` names the one process that may be
beside a timed episode, a child that has ended its cell and was not seen by a
check that failed.

GPU pool. `NoLeakedLock` is not inductive: that a device's holder is
in a locking state does not say that a worker in a locking state is its
device's holder. The inductive invariant `IInv` adds the converse
(`HolderIsLocked`), that a worker inspects a device only within its sweep
(`InspectedInSweep`), that a live worker's sandbox is one it waits for
(`SandboxIsAwaited`), and that an answer "empty" is never left in the cache of a
worker still looking (`NoEmptyRemembered`), which is what makes the cache safe.
The only non-obvious part of the assumption is that
the pool is a non-empty sequence of devices, which `acquire` relies on.

Session. The invariant is strengthened by `BatchHasWork` (a call that still has to choose an id
has ids left) and `RegistryFinite`. `AccountsBalance` speaks of cardinalities of
sets of calls; the lemmas `BalanceEarly`, `BalanceLate` and `OneCallMoves` say
how moving one call changes them, and every action is then an instance of one.
`Balanced` is the property as an arithmetic of the counters, which the actions
change by one at most, and `FaultPays` says that a fault pays for what it makes
missing.

Session ledgers. `SlotsNeverUnderstated` needs to know what the frames carry:
`SlotsCarried`, a call that is about to report computed its slots from no later
counters, and counters only grow. `WinnersWereCounted` needs
`ResultsRegistered`: a call in flight runs a registered candidate, so that
`Record` moves the winners by at most the candidate whose call then counts.

Run loop. `LoopInv` is the session's invariant (the loop only takes the
session's steps, `LoopStepsSession`) with `LoopShape` and `ResultsPlausible`: a
result with a median was compiled, so that whatever `_best_speedup` may report,
which other code classifies, is one of the winners the session counts. The refinement needs no more: a step that counts is a
bank or a spend, a continuation a restart, and every reason for stopping is
checked against the counters it was decided on.

Grid driver. `FinishedOnce` counts rows, and a row may come later from a worker
of a dead driver. `FewRows` therefore adds to the rows of a cell the
invocations that may still add one (`Live`: awake workers, and the cell in the
queue or in somebody's hands): together they are at most one more than the
killed drivers. `Invoke` keeps it because a cell it queues has no row, and
whoever is still live for it belongs to a killed driver (`InOrder`,
`KillsCounted`); `Write` keeps it because a cell is in one place within an
invocation (`InOnePlace`), so the invocation that writes the row is not live
for the cell any more. `CleanExitCoversGrid` needs `Accounted`: while `main`
joins, a cell is covered, queued, in hand, or a worker has crashed, which `Join`
sees; and `TornCounted`: a torn line has been paid for by a kill or a full
disk and costs two rows at the most, its own and the one that continues it. `OldLedgersFinishedOnce` says that the file the first invocation
finds is a results file in which no cell was finished twice; without it the claim
is false from the start.

Cascade. `Remembered` (what was not a success is in the novelty filter),
`SlotsCurrent` (the slots a run goes by belong to the counter, and the seeds
left fit the round) and `PlateauHandled` (beyond the plateau without a re-seed,
at most the last submission has validated). `IncumbentNearBest` needs that
the history has submissions of this run (`HistoryTypes`), and one lemma of
arithmetic: a candidate that does not improve leaves the bound as it is, and one
that does exceeds whatever the incumbent was near to.

Episodes. `PoolExclusive` speaks of episodes that already run; `PinnedAlone`
extends it to the ones that are pinned (what is beside them was not seen, and is
leaving), `LeaseIsHeld` and `PinnedIsLeased` tie
lock files to children, `ContextHasProcess` says that a context never outlives its
process, on which the reuse of a device depends.

triton_source. `FoundSound` and `ParsedSound` say what an evaluation has at
each step, in the sandbox and in the parent; `CacheSound` that the cache only
has what its key says, whoever put it there last. With `PlanKeyOfWorkload` in
the place of `PlanKey` the proof fails at `CacheSound`.

torch_inductor. `LockHeld`: only one driver is between the managers, the one
that holds Dynamo's lock. `Unwinds`: of the snapshots that have a place, the
outermost has its original value, and it is the last one to be put back. `UnderPlan`: what
the managers entered so far intend is what is set (`IntendedBy`, by which the
last manager has the last word). Both are about `Patched`, a fold over the
overrides: `FoldLemmas` and `PatchedIs` turn it into what holds of every place,
and there `OneSpelling` is used.

triton. As long as no two candidates have been under way at a time
(`StageAlone`): `OneAtATime`, `HookIsOwn` (the hook is that of the compile under way),
`PlainIsPlain` (what the jit has under a key without a plan was built by the
plain pipeline) and `MeasuredIsPlain`: the hook is off whenever something is
timed, so only plain entries are found or made.

Archetypes. `SlotsCurrent` ties the allowance of a run to the counter,
`IncumbentFound` says that the incumbent is the best of what was found, and a
change of one arm's reward changes the sum of all by as much (`SumOfChange`),
so that the rewards telescope.

Skill memory. Every text, on disk or in a worker's memory, is covered by what
was observed: its frequency of a lesson plus the workers that have seen it and
not yet written it (`Pending`) is at most the number of failures. Racing
writers can lose lessons, but a text is always one that somebody made from a
covered one. `CrashesKeepLessons` is about workers that take turns: until two
overlap, at most one is at work (`OneAtATime`), the file holds what has been
banked (`FileIsBanked`), and what the one worker holds is that text or its own
addition to it (`OwnSave`).

LLM client. `SlotsDistinct` is inductive, since a slot that is reserved lies
before `backlog`, and time moves all of them alike, into the past too.
`PermitsKept` counts: the permits left at the gate of the present
loop and the calls that hold one are the limit, and between episodes every gate
has all of them. `BoundToOwn` says that a semaphore under the key of the
running loop is bound to no other loop, which needs that an id does not come
back while a semaphore refers to it.

Observation. `DriveTold` and `FailsFirst` say what of a run's task is in the
trace and in which order; `DoneHasFinished` and `OpenMeansUnended` relate the
page's status and its socket to a trace that grows between request and answer.

Ranking. No state is needed but that the records are records. Where a place
asks for less than another, its best is compared through the set the other
chooses from. `Dominates` is a
strict order, so whatever is off the front is below a maximal row
(`Maximal` of `FoldLemmas`); `Before` is one too, so places differ
(`PlacesDiffer`) and the first of several fastest is one and the same in
every list that keeps the order.

Task selection. `RoundRobin`: at a visit, what has been chosen is what has come
by (`Reached`: all lower ranks, and the families earlier in the turn). That
such a set is spread evenly is a fact about places: the tasks with fewer than
n ahead of them are n, or all there are (`FirstPlaces`), and turns and ranks of
different families and tasks differ, so that a visit takes one task at the most
(`OneAtVisit`).

Re-evaluation. `FrameSound`: what an invocation takes for done has a row, and
what was measured when it read the ledger it takes for done. For coverage
the candidates whose row continued a torn line, or was continued, are counted
(`Swallowed`): there is a set of them, two for each append cut off, less the two
still at stake while the last line has no newline, outside of which every candidate
of an invocation has a row or is still to come (`Reaches`).

Unseen configurations. `AllDifferent` is nearly inductive; what it needs is that
every category gives every axis a number, and that is most of the proof: the
sizes of a source that parses are positive (`SizesAreNumbers`, over the ways an
axis can be written), the first free axis exists (`FirstIsOne`), shrinking by
quarters stays within its bounds (`ShrunkIsBetween`), a next prime is found
(`PrimeAbove`). Nudging then ends within as many steps as configurations are
taken (`SomeUntaken`, by pigeonholes), which is why the code's loop does. The
model's axes are not free when names are plain (`ModelAxesStay`), and then the
sizes of the template are the shapes that `get_inputs` builds, argument by
argument (`SizesAreBuilt`) and put together (`FlattenIs`). That the second
configuration is twice as large (`ScaleUpDoubles`, part of the invariant) is
arithmetic about products: doubling one factor doubles the product
(`DoubledFactor`), so the budget, twice the largest input, has room for it
(`ScaleUpIs`).

Induction. The library's induction theorems take an operator and are of no use
to the provers here. `FoldLemmas` has induction over numbers and finite sets
stated with sets (a set of numbers that is closed under successor, a set of
subsets that is closed under adding an element), and from it what the proofs
need of the sums and folds of the community modules. Definitions that sort or
filter sequences (`SortSeq`, `SelectSeq`) say nothing to the provers, which is
why the models count places.

Only model-checked: all liveness (`SessionCloses`, `InvocationReturns`,
`CascadeEnds`, `EpisodesReported`, `ArchetypesEnd`, `CallsEnd`, `PageLearns`,
the fair half of `LeasesImplemented`), since fairness and ENABLED are beyond the
prover. All other properties of the passing runs are theorems.

## 5. Not modelled, and why

Token texts, prompts, rendering, HTTP and file layout: no control depends on
them here. The numerics of the gates and the compilers
themselves: an evaluation is its outcome. Registries filled at import, plan
translation and configuration parsing: sequential and covered by tests. Vendor
SDK adapters: they are the nondeterministic agent of `RunLoop`. Of the triton
backend, the parsing of IR dumps and the catalogue of passes. Reports, merges and launchers under
`scripts/`: they read files nobody else writes.

## 6. Plan

The modules were built in the order of their weight for the measurements:
session and loop, GPU pool, grid driver, cascade; then the backends and the
leased episodes, the other archetypes, the shared services and scripts, the
ranking and the UI; and the proofs beside them. What is left, most useful first:

1. The grid driver and the episode protocol composed: `PilotDriver` with
   `EpisodeLease` in the place of its `Episode` step.
2. `validate_correctness` of the triton backend.
3. The rules file that exists and cannot be read (`skill_memory.py:223`), over
   which the seeds are saved.
