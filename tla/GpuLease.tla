------------------------------ MODULE GpuLease ------------------------------
(***************************************************************************)
(* The inter-process GPU pool (triton_source/_internal/gpu_lease.py) and   *)
(* its one client, run_sandboxed_eval (sandbox.py), which holds a lease    *)
(* around the sandbox subprocess.                                          *)
(*                                                                         *)
(* A worker is an OS process with one acquire() at a time.  It sweeps the  *)
(* pool with non-blocking flocks, asks nvidia-smi who is on the device it  *)
(* locked (or reuses an answer less than a second old), and returns a      *)
(* lease on the first device that was reported empty.  Workers, sandboxes  *)
(* and the jobs of other users run concurrently; a worker can be killed at *)
(* any point, and the kernel then closes its lock file.  The sandbox is a  *)
(* child process: it does not inherit the lock file (PEP 446) and does not *)
(* die with its parent.                                                    *)
(***************************************************************************)
EXTENDS Integers, Sequences

CONSTANTS
    Workers,        \* processes that evaluate candidates
    Mortal,         \* the workers that may be killed
    Devices,        \* the devices of COMPILAGENT_GPU_POOL
    Pool,           \* the same devices in the order of the variable
    BusyCheck,      \* COMPILAGENT_GPU_BUSY_CHECK
    QueryMayFail,   \* whether nvidia-smi can fail (the check then fails open)
    Foreigners,     \* devices on which other users' jobs come and go
    MaxSweeps,      \* bound: sweeps after the first before the timeout has passed
    MaxEvals,       \* bound: sandbox evaluations of one worker
    None            \* Python's None

\* What occupancy_cache keeps of a query: whether it found a process.
Answers == {"empty", "occupied"}

ASSUME LeaseConstants ==
    /\ Mortal \subseteq Workers /\ Foreigners \subseteq Devices
    /\ Pool \in Seq(Devices) /\ Len(Pool) > 0
    /\ BusyCheck \in BOOLEAN /\ QueryMayFail \in BOOLEAN
    /\ MaxSweeps \in Nat /\ MaxEvals \in Nat
    /\ None \notin Workers /\ None \notin Devices
    /\ None \notin Answers

VARIABLES
    flock,    \* the worker whose open file holds each device's lock
    pc,       \* where each worker is
    dev,      \* the device the worker has locked, and its sandbox runs on
    offset,   \* acquire's offset into the pool
    step,     \* the i of acquire's inner loop
    sweeps,   \* sweeps acquire has completed
    cache,    \* occupancy_cache, entries older than the TTL forgotten
    child,    \* the worker's sandbox process
    foreign,  \* devices with a job of somebody else on them
    evals     \* evaluations the worker has begun

vars == <<flock, pc, dev, offset, step, sweeps, cache, child, foreign, evals>>

\* Where a worker holds its lock, and where acquire has returned a lease.
Leased == {"leased", "running", "reaped"}
Locking == {"inspecting"} \cup Leased

\* A sandbox that has not touched CUDA yet is not on its device for nvidia-smi.
Alive == {"starting", "resident"}

-----------------------------------------------------------------------------
Init ==
    /\ flock = [d \in Devices |-> None]
    /\ pc = [w \in Workers |-> "idle"]
    /\ dev = [w \in Workers |-> None]
    /\ offset = [w \in Workers |-> 0]
    /\ step = [w \in Workers |-> 0]
    /\ sweeps = [w \in Workers |-> 0]
    /\ cache = [w \in Workers |-> [d \in Devices |-> None]]
    /\ child = [w \in Workers |-> "none"]
    /\ foreign \in SUBSET Foreigners
    /\ evals = [w \in Workers |-> 0]

Occupied(d) ==
    \/ d \in foreign
    \/ \E w \in Workers : child[w] = "resident" /\ dev[w] = d

\* foreign_occupants: any failure of the query reads as "nobody".
ForeignOccupants(d) ==
    {IF Occupied(d) THEN "occupied" ELSE "empty"}
        \cup (IF QueryMayFail THEN {"empty"} ELSE {})

\* Device under the sweep's cursor.
Cursor(w) == Pool[((offset[w] + step[w]) % Len(Pool)) + 1]

-----------------------------------------------------------------------------
(* acquire. *)

\* Mutant: the occupancy cache outlives the acquire call.
BeginKeepsCache(w) ==
    /\ pc[w] = "idle" /\ evals[w] < MaxEvals
    /\ pc' = [pc EXCEPT ![w] = "sweeping"]
    /\ \E o \in 0..(Len(Pool) - 1) : offset' = [offset EXCEPT ![w] = o]
    /\ step' = [step EXCEPT ![w] = 0]
    /\ sweeps' = [sweeps EXCEPT ![w] = 0]
    /\ evals' = [evals EXCEPT ![w] = @ + 1]
    /\ UNCHANGED <<flock, dev, cache, child, foreign>>

\* Random starting offset, empty occupancy cache.
Begin(w) ==
    /\ pc[w] = "idle" /\ evals[w] < MaxEvals
    /\ pc' = [pc EXCEPT ![w] = "sweeping"]
    /\ \E o \in 0..(Len(Pool) - 1) : offset' = [offset EXCEPT ![w] = o]
    /\ step' = [step EXCEPT ![w] = 0]
    /\ sweeps' = [sweeps EXCEPT ![w] = 0]
    /\ cache' = [cache EXCEPT ![w] = [d \in Devices |-> None]]
    /\ evals' = [evals EXCEPT ![w] = @ + 1]
    /\ UNCHANGED <<flock, dev, child, foreign>>

\* _try_lock finds the device locked by somebody else.
Skip(w) ==
    /\ pc[w] = "sweeping" /\ step[w] < Len(Pool)
    /\ flock[Cursor(w)] # None
    /\ step' = [step EXCEPT ![w] = @ + 1]
    /\ UNCHANGED <<flock, pc, dev, offset, sweeps, cache, child, foreign, evals>>

\* Mutant: the lock is shared (LOCK_SH).
LockShared(w) ==
    /\ pc[w] = "sweeping" /\ step[w] < Len(Pool)
    /\ flock' = [flock EXCEPT ![Cursor(w)] = w]
    /\ dev' = [dev EXCEPT ![w] = Cursor(w)]
    /\ pc' = [pc EXCEPT ![w] = IF BusyCheck THEN "inspecting" ELSE "leased"]
    /\ UNCHANGED <<offset, step, sweeps, cache, child, foreign, evals>>

Lock(w) ==
    /\ pc[w] = "sweeping" /\ step[w] < Len(Pool)
    /\ flock[Cursor(w)] = None
    /\ flock' = [flock EXCEPT ![Cursor(w)] = w]
    /\ dev' = [dev EXCEPT ![w] = Cursor(w)]
    /\ pc' = [pc EXCEPT ![w] = IF BusyCheck THEN "inspecting" ELSE "leased"]
    /\ UNCHANGED <<offset, step, sweeps, cache, child, foreign, evals>>

\* Nobody is on the locked device, or nobody was less than a second ago.  The
\* step is the moment nvidia-smi looks; returning the lease touches nothing.
Accept(w) ==
    /\ pc[w] = "inspecting"
    /\ IF cache[w][dev[w]] = None
       THEN "empty" \in ForeignOccupants(dev[w])
       ELSE cache[w][dev[w]] = "empty"
    /\ cache' = [cache EXCEPT ![w][dev[w]] = "empty"]
    /\ pc' = [pc EXCEPT ![w] = "leased"]
    /\ UNCHANGED <<flock, dev, offset, step, sweeps, child, foreign, evals>>

\* Mutant: the lock of an occupied device is not released.
RejectKeepsLock(w) ==
    /\ pc[w] = "inspecting"
    /\ IF cache[w][dev[w]] = None
       THEN "occupied" \in ForeignOccupants(dev[w])
       ELSE cache[w][dev[w]] = "occupied"
    /\ cache' = [cache EXCEPT ![w][dev[w]] = "occupied"]
    /\ dev' = [dev EXCEPT ![w] = None]
    /\ step' = [step EXCEPT ![w] = @ + 1]
    /\ pc' = [pc EXCEPT ![w] = "sweeping"]
    /\ UNCHANGED <<flock, offset, sweeps, child, foreign, evals>>

\* Somebody is, or was: the lock is released and the sweep goes on.
Reject(w) ==
    /\ pc[w] = "inspecting"
    /\ IF cache[w][dev[w]] = None
       THEN "occupied" \in ForeignOccupants(dev[w])
       ELSE cache[w][dev[w]] = "occupied"
    /\ cache' = [cache EXCEPT ![w][dev[w]] = "occupied"]
    /\ flock' = [flock EXCEPT ![dev[w]] = None]
    /\ dev' = [dev EXCEPT ![w] = None]
    /\ step' = [step EXCEPT ![w] = @ + 1]
    /\ pc' = [pc EXCEPT ![w] = "sweeping"]
    /\ UNCHANGED <<offset, sweeps, child, foreign, evals>>

\* An answer grows older than occupancy_ttl_s.
Expire(w, d) ==
    /\ pc[w] \in {"sweeping", "inspecting"}
    /\ cache[w][d] # None
    /\ cache' = [cache EXCEPT ![w][d] = None]
    /\ UNCHANGED <<flock, pc, dev, offset, step, sweeps, child, foreign, evals>>

\* The sweep found nothing and the timeout has not passed.
NextSweep(w) ==
    /\ pc[w] = "sweeping" /\ step[w] = Len(Pool)
    /\ sweeps[w] < MaxSweeps
    /\ sweeps' = [sweeps EXCEPT ![w] = @ + 1]
    /\ offset' = [offset EXCEPT ![w] = (@ + 1) % Len(Pool)]
    /\ step' = [step EXCEPT ![w] = 0]
    /\ UNCHANGED <<flock, pc, dev, cache, child, foreign, evals>>

\* The sweep found nothing and the timeout has passed: GpuLeaseTimeoutError,
\* which run_sandboxed_eval returns as a failed evaluation.
GiveUp(w) ==
    /\ pc[w] = "sweeping" /\ step[w] = Len(Pool)
    /\ pc' = [pc EXCEPT ![w] = "idle"]
    /\ UNCHANGED <<flock, dev, offset, step, sweeps, cache, child, foreign, evals>>

\* A lock file cannot be opened: OSError leaves acquire, and becomes a failed
\* evaluation too.
OpenFails(w) ==
    /\ pc[w] = "sweeping" /\ step[w] < Len(Pool)
    /\ pc' = [pc EXCEPT ![w] = "idle"]
    /\ UNCHANGED <<flock, dev, offset, step, sweeps, cache, child, foreign, evals>>

-----------------------------------------------------------------------------
(* run_sandboxed_eval, inside `with lease'. *)

Spawn(w) ==
    /\ pc[w] = "leased"
    /\ pc' = [pc EXCEPT ![w] = "running"]
    /\ child' = [child EXCEPT ![w] = "starting"]
    /\ UNCHANGED <<flock, dev, offset, step, sweeps, cache, foreign, evals>>

\* subprocess.run cannot start the interpreter: a failed evaluation.
SpawnFails(w) ==
    /\ pc[w] = "leased"
    /\ pc' = [pc EXCEPT ![w] = "reaped"]
    /\ UNCHANGED <<flock, dev, offset, step, sweeps, cache, child, foreign, evals>>

\* The child has exited by itself; its output is parsed, or the runner's own
\* fault is raised: the lease is left either way.
Reap(w) ==
    /\ pc[w] = "running" /\ child[w] = "none"
    /\ pc' = [pc EXCEPT ![w] = "reaped"]
    /\ UNCHANGED <<flock, dev, offset, step, sweeps, cache, child, foreign, evals>>

\* Mutant: the subprocess is run without a timeout.
KillNever(w) == FALSE /\ UNCHANGED vars

\* The hard timeout: subprocess.run kills the child and waits for its death.
Kill(w) ==
    /\ pc[w] = "running" /\ child[w] \in Alive
    /\ pc' = [pc EXCEPT ![w] = "reaped"]
    /\ child' = [child EXCEPT ![w] = "none"]
    /\ UNCHANGED <<flock, dev, offset, step, sweeps, cache, foreign, evals>>

\* GpuLease.release.
Release(w) ==
    /\ pc[w] = "reaped"
    /\ flock' = [flock EXCEPT ![dev[w]] = None]
    /\ dev' = [dev EXCEPT ![w] = None]
    /\ pc' = [pc EXCEPT ![w] = "idle"]
    /\ UNCHANGED <<offset, step, sweeps, cache, child, foreign, evals>>

-----------------------------------------------------------------------------
(* The environment. *)

\* The sandbox creates its CUDA context.
TouchDevice(w) ==
    /\ child[w] = "starting"
    /\ child' = [child EXCEPT ![w] = "resident"]
    /\ UNCHANGED <<flock, pc, dev, offset, step, sweeps, cache, foreign, evals>>

\* The sandbox exits, crashes or is killed by the kernel.
ChildExits(w) ==
    /\ child[w] \in Alive
    /\ child' = [child EXCEPT ![w] = "none"]
    /\ UNCHANGED <<flock, pc, dev, offset, step, sweeps, cache, foreign, evals>>

\* The worker is killed.  Its lock file is closed, its sandbox lives on.
Die(w) ==
    /\ w \in Mortal /\ pc[w] # "dead"
    /\ pc' = [pc EXCEPT ![w] = "dead"]
    /\ flock' = [d \in Devices |-> IF flock[d] = w THEN None ELSE flock[d]]
    /\ UNCHANGED <<dev, offset, step, sweeps, cache, child, foreign, evals>>

ForeignMoves(d) ==
    /\ d \in Foreigners
    /\ foreign' = IF d \in foreign THEN foreign \ {d} ELSE foreign \cup {d}
    /\ UNCHANGED <<flock, pc, dev, offset, step, sweeps, cache, child, evals>>

\* The code of the worker, once it has called acquire.
WorkerStep(w) ==
    \/ Skip(w) \/ Lock(w) \/ Accept(w) \/ Reject(w)
    \/ NextSweep(w) \/ GiveUp(w) \/ OpenFails(w)
    \/ Spawn(w) \/ SpawnFails(w) \/ Reap(w) \/ Kill(w) \/ Release(w)

Environment ==
    \/ \E w \in Workers : TouchDevice(w) \/ ChildExits(w) \/ Die(w)
    \/ \E w \in Workers, d \in Devices : Expire(w, d)
    \/ \E d \in Devices : ForeignMoves(d)

Next == (\E w \in Workers : Begin(w) \/ WorkerStep(w)) \/ Environment

\* A live worker keeps running its own code: every wait in it is bounded by
\* a timeout.  Sandboxes may hang for good and foreign jobs may never leave.
Fairness == \A w \in Workers : WF_vars(WorkerStep(w))

Spec == Init /\ [][Next]_vars /\ Fairness
-----------------------------------------------------------------------------
(* Properties. *)

\* Type invariant of locks, workers and sandboxes.
TypeOK ==
    /\ flock \in [Devices -> Workers \cup {None}]
    /\ pc \in [Workers -> {"idle", "sweeping", "dead"} \cup Locking]
    /\ dev \in [Workers -> Devices \cup {None}]
    /\ offset \in [Workers -> 0..(Len(Pool) - 1)]
    /\ step \in [Workers -> 0..Len(Pool)]
    /\ sweeps \in [Workers -> 0..MaxSweeps]
    /\ cache \in [Workers -> [Devices -> Answers \cup {None}]]
    /\ child \in [Workers -> Alive \cup {"none"}]
    /\ foreign \subseteq Devices
    /\ evals \in [Workers -> 0..MaxEvals]

\* No lock is leaked on any path out of acquire or of the lease, and a dead
\* worker wedges nothing: a locked device belongs to a live worker that is
\* between taking and releasing exactly this lock (gpu_lease.py:18-21, 152-234).
NoLeakedLock ==
    \A d \in Devices : flock[d] # None =>
        pc[flock[d]] \in Locking /\ dev[flock[d]] = d

\* Timing validity among live workers: two of them never have sandboxes on one
\* device, whatever the sweeps, stale occupancy answers, timeouts and kills
\* (gpu_lease.py:6-9, sandbox.py:151-163).
LiveSandboxesApart ==
    \A v, w \in Workers :
        (/\ v # w /\ pc[v] # "dead" /\ pc[w] # "dead"
         /\ child[v] \in Alive /\ child[w] \in Alive) => dev[v] # dev[w]

\* While nvidia-smi answers, a device with somebody on it is never leased: the
\* occupancy cache can only delay a lease, an old "empty" never grants one
\* (gpu_lease.py:177-192 and 203-213).
NeverLeasedOccupied ==
    [][\A w \in Workers :
         (BusyCheck /\ ~QueryMayFail /\ pc[w] \notin Leased /\ pc'[w] \in Leased)
            => ~Occupied(dev[w])]_vars

\* The pool implements exclusive leases that always end.
Leases == INSTANCE DeviceLeases WITH
    lease <- [d \in Devices |->
                IF flock[d] # None /\ pc[flock[d]] \in Leased THEN flock[d] ELSE None]

LeasesImplemented == Leases!Spec

\* The invariant gpu_lease.py:6-9 says timing validity requires and the module
\* enforces across processes: no two sandboxes share a device.
NoTwoSandboxesShare ==
    \A v, w \in Workers :
        (v # w /\ child[v] \in Alive /\ child[w] \in Alive) => dev[v] # dev[w]
=============================================================================
