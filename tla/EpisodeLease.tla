---------------------------- MODULE EpisodeLease ----------------------------
(***************************************************************************)
(* How the grid driver runs a cell whose backend compiles in process       *)
(* (run_pilot.py): the worker spawns a child; the child leases a device    *)
(* for the whole episode, pins it, runs the cell, releases the lease,      *)
(* sends the row and exits.  A CUDA context lives until its process exits. *)
(* Worker and child can each be killed; the child is not a daemon and      *)
(* outlives its worker.                                                    *)
(***************************************************************************)
EXTENDS Integers, FiniteSets

CONSTANTS
    Cells,          \* one child per cell
    Workers,        \* processes of the driver
    Pool,           \* the pool's devices
    CheckMayFail,   \* the busy check may be off or nvidia-smi not answer
    MaxKilled,      \* bound: processes killed
    Nobody          \* no process, no device, no message

ASSUME EpisodeAssumption ==
    /\ Nobody \notin Cells \cup Pool
    /\ {"free", "killed"} \cap Cells = {}
    /\ CheckMayFail \in BOOLEAN /\ MaxKilled \in Nat

VARIABLES
    worker,     \* the cell each worker waits for, "free" or "killed"
    child,      \* where each cell's child is
    leaseOf,    \* the child whose lock file holds each device
    device,     \* what each child has set CUDA_VISIBLE_DEVICES to
    resident,   \* the children with a CUDA context
    pipe,       \* the message in each child's pipe
    reported,   \* what the worker reported for each cell
    killed,     \* processes killed so far
    blind       \* history: children given a device somebody was on, unseen

episodeVars == <<worker, child, leaseOf, device, resident, pipe, reported, killed,
                 blind>>

EpisodeInit ==
    /\ worker = [w \in Workers |-> "free"]
    /\ child = [c \in Cells |-> "none"]
    /\ leaseOf = [d \in Pool |-> Nobody]
    /\ device = [c \in Cells |-> Nobody]
    /\ resident = {}
    /\ pipe = [c \in Cells |-> Nobody]
    /\ reported = [c \in Cells |-> Nobody]
    /\ killed = 0
    /\ blind = {}

Gone == {"none", "exited"}

-----------------------------------------------------------------------------
(* The child: _leased_cell_main. *)

\* The processes with a context on a device, and what the busy check may answer:
\* it fails open, as "nobody", when nvidia-smi does, and is skipped when it is off.
On(d) == {c \in resident : device[c] = d}
Answers(d) == {On(d)} \cup (IF CheckMayFail THEN {{}} ELSE {})

\* gpu_lease.acquire: a device nobody has locked and nobody is seen on.
Grant(c, d) ==
    /\ child[c] = "waiting"
    /\ leaseOf[d] = Nobody /\ {} \in Answers(d)
    /\ blind' = IF On(d) = {} THEN blind ELSE blind \cup {c}
    /\ device' = [device EXCEPT ![c] = d]
    /\ child' = [child EXCEPT ![c] = "pinned"]
    /\ UNCHANGED <<worker, resident, pipe, reported, killed>>

\* Mutant: the lock is given back as soon as the device is known.
PinAlone(c, d) == Grant(c, d) /\ UNCHANGED leaseOf

\* The lease is taken; CUDA_VISIBLE_DEVICES is set before torch is imported.
Pin(c, d) == Grant(c, d) /\ leaseOf' = [leaseOf EXCEPT ![d] = c]

\* run_cell opens the context with the first thing it does on the device.
RunCell(c) ==
    /\ child[c] = "pinned"
    /\ resident' = resident \cup {c}
    /\ child' = [child EXCEPT ![c] = "running"]
    /\ UNCHANGED <<worker, leaseOf, device, pipe, reported, killed, blind>>

LeaseTimesOut(c) ==
    /\ child[c] = "waiting" /\ \A d \in Pool : leaseOf[d] # Nobody \/ On(d) # {}
    /\ child' = [child EXCEPT ![c] = "failed"]
    /\ UNCHANGED <<worker, leaseOf, device, resident, pipe, reported, killed, blind>>

\* run_cell returns or raises; either way the lease is released first.
EndCell(c) ==
    /\ child[c] \in {"pinned", "running"}
    /\ leaseOf' = [d \in Pool |-> IF leaseOf[d] = c THEN Nobody ELSE leaseOf[d]]
    /\ \E end \in (IF child[c] = "running" THEN {"done", "failed"} ELSE {"failed"}) :
         child' = [child EXCEPT ![c] = end]
    /\ UNCHANGED <<worker, device, resident, pipe, reported, killed, blind>>

\* conn.send: without a reader it raises, in the handler too, and finally
\* closes the connection all the same.
Send(c) ==
    /\ child[c] \in {"done", "failed"}
    /\ pipe' = IF \E w \in Workers : worker[w] = c
               THEN [pipe EXCEPT ![c] = IF child[c] = "done" THEN "row" ELSE "error"]
               ELSE pipe
    /\ child' = [child EXCEPT ![c] = "closing"]
    /\ UNCHANGED <<worker, leaseOf, device, resident, reported, killed, blind>>

\* The process ends: its context and its lock file with it.
Ends(c) ==
    /\ child' = [child EXCEPT ![c] = "exited"]
    /\ resident' = resident \ {c}
    /\ device' = [device EXCEPT ![c] = Nobody]
    /\ leaseOf' = [d \in Pool |-> IF leaseOf[d] = c THEN Nobody ELSE leaseOf[d]]

Exit(c) ==
    /\ child[c] = "closing"
    /\ Ends(c)
    /\ UNCHANGED <<worker, pipe, reported, killed, blind>>

KillChild(c) ==
    /\ child[c] \notin Gone /\ killed < MaxKilled
    /\ Ends(c)
    /\ killed' = killed + 1
    /\ UNCHANGED <<worker, pipe, reported, blind>>

-----------------------------------------------------------------------------
(* The worker: _run_cell_with_episode_lease. *)

SpawnChild(w, c) ==
    /\ worker[w] = "free" /\ child[c] = "none"
    /\ worker' = [worker EXCEPT ![w] = c]
    /\ child' = [child EXCEPT ![c] = "waiting"]
    /\ UNCHANGED <<leaseOf, device, resident, pipe, reported, killed, blind>>

\* Mutant: the worker keeps its copy of the sending end, so that end is never
\* closed.
ReceivedOwnEnd(c) == pipe[c]

\* recv returns a message, or raises EOFError once the other end is closed:
\* the worker closed its own copy of that end after the start.
Received(c) ==
    IF pipe[c] # Nobody THEN pipe[c]
    ELSE IF child[c] = "exited" THEN "died" ELSE Nobody

\* Mutant: a worker that has the row does not join the child.
JoinErrorsOnly(w) ==
    /\ worker[w] \in Cells /\ Received(worker[w]) # Nobody
    /\ Received(worker[w]) = "row" \/ child[worker[w]] = "exited"
    /\ reported' = [reported EXCEPT ![worker[w]] = Received(worker[w])]
    /\ worker' = [worker EXCEPT ![w] = "free"]
    /\ UNCHANGED <<child, leaseOf, device, resident, pipe, killed, blind>>

\* recv, then join in the finally, then the row, or a RuntimeError that
\* becomes a driver_error row.
Join(w) ==
    /\ worker[w] \in Cells /\ Received(worker[w]) # Nobody
    /\ child[worker[w]] = "exited"
    /\ reported' = [reported EXCEPT ![worker[w]] = Received(worker[w])]
    /\ worker' = [worker EXCEPT ![w] = "free"]
    /\ UNCHANGED <<child, leaseOf, device, resident, pipe, killed, blind>>

KillWorker(w) ==
    /\ worker[w] # "killed" /\ killed < MaxKilled
    /\ worker' = [worker EXCEPT ![w] = "killed"]
    /\ killed' = killed + 1
    /\ UNCHANGED <<child, leaseOf, device, resident, pipe, reported, blind>>

ChildStep(c) ==
    \/ \E d \in Pool : Pin(c, d)
    \/ RunCell(c) \/ LeaseTimesOut(c) \/ EndCell(c) \/ Send(c) \/ Exit(c)

EpisodeNext ==
    \/ \E c \in Cells : ChildStep(c) \/ KillChild(c)
    \/ \E w \in Workers : (\E c \in Cells : SpawnChild(w, c)) \/ Join(w) \/ KillWorker(w)

\* The operating system runs every process; a cell ends because its session
\* has a budget.  Nobody needs to be killed, and no cell needs to be spawned.
EpisodeFairness ==
    /\ \A c \in Cells : WF_episodeVars(ChildStep(c))
    /\ \A w \in Workers : WF_episodeVars(Join(w))

EpisodeSpec == EpisodeInit /\ [][EpisodeNext]_episodeVars /\ EpisodeFairness

-----------------------------------------------------------------------------
(* Properties *)

\* "in pool mode their GPU work must be pinned to an exclusively leased
\* device": two episodes never hold one device, whatever the check answers.  A
\* process with a context on the device of an episode that is being timed is one
\* whose own cell is over and whose exit is under way, and even that only if the
\* check did not answer when the device was granted (gpu_lease.py:63-64, 81-84).
\* Not claimed, against run_pilot.py:312-314 ("no idle context ever squats on a
\* pool device"): the lease is released (332) before the process exits.
TimedAlone ==
    \A c \in Cells : child[c] = "running" =>
        \A other \in On(device[c]) \ {c} :
            CheckMayFail /\ c \in blind /\ child[other] \in {"done", "failed", "closing"}

\* Once the worker has reported a cell, nothing of its child is left on the pool,
\* neither lock nor context: it joins the child before it does.
NothingLeftBehind ==
    \A c \in Cells : reported[c] # Nobody =>
        c \notin resident /\ \A d \in Pool : leaseOf[d] # c

\* One episode per device, and nobody left behind when it is over.
PoolExclusive == TimedAlone /\ NothingLeftBehind

\* A worker waiting for a child gets a row or an error however the child
\* ended, unless it is killed itself.
EpisodesReported ==
    \A w \in Workers : (worker[w] \in Cells) ~> (worker[w] \in {"free", "killed"})

=============================================================================
