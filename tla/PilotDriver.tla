---------------------------- MODULE PilotDriver ----------------------------
(***************************************************************************)
(* The grid driver scripts/run_pilot.py: main() reads the results file,    *)
(* queues the cells that have no non-error row, starts worker processes    *)
(* and joins them; each worker drains the queue, runs one episode per cell *)
(* and appends a row under a file lock.  An interrupted or failed grid is  *)
(* resumed by running the driver again.                                    *)
(*                                                                         *)
(* Workers are spawned with daemon=False: they outlive a driver that is    *)
(* killed and keep draining its queue, so every invocation has a queue and *)
(* workers of its own here.  An episode is abstracted to how it ends.      *)
(***************************************************************************)
EXTENDS Integers, Sequences, FiniteSets, SequencesExt

CONSTANTS
    Cells,           \* the grid
    Slots,           \* workers of one invocation
    Endings,         \* ways an episode can end
    OldLedgers,      \* results files the first invocation may find
    MaxInvocations,  \* bound: times the driver is run
    MaxDriverKills,  \* bound: drivers killed
    MaxFaults,       \* bound: workers killed and appends that fail on the way
    None

Invocations == 1..MaxInvocations

ASSUME PilotConstants ==
    /\ Endings \subseteq {"finished", "raised", "baseline_fault", "candidate_fault"}
    /\ MaxInvocations \in Nat /\ MaxDriverKills \in Nat /\ MaxFaults \in Nat
    /\ None \notin Cells /\ None \notin Invocations \X Slots
    /\ Slots # {}

\* What a line of the file is: a row of an episode that ran ("good"), of one
\* the driver saw fail ("error"), of one whose harness swallowed an
\* infrastructure fault ("cut"), of one whose candidates were charged with the
\* fault before the sandbox could tell ("faulted"), or nothing json.loads
\* accepts ("junk").
Kinds == {"good", "error", "cut", "faulted", "junk"}

\* The files are results files, and no cell has been finished twice before.
ASSUME OldLedgersFinishedOnce ==
    \A old \in OldLedgers :
        /\ old \in Seq([cell : Cells \cup {None}, kind : Kinds])
        /\ \A c \in Cells : \A j, k \in DOMAIN old :
              /\ old[j].cell = c /\ old[j].kind \notin {"error", "junk"}
              /\ old[k].cell = c /\ old[k].kind \notin {"error", "junk"}
              => j = k

VARIABLES
    ledger,    \* lines of the results file
    torn,      \* its last line has no newline
    flock,     \* the worker inside _append_row's critical section
    driver,    \* per invocation: "unstarted", "joining", "killed", exit codes
    queue,     \* per invocation: cells nobody has taken
    jammed,    \* per invocation: the queue's reader lock died with a worker
    worker,    \* per invocation and slot: [pc, cell, kind]
    workerKills, driverKills, diskFaults,
    garbled    \* history: cells whose row ended up on one line with another's

vars == <<ledger, torn, flock, driver, queue, jammed, worker,
          workerKills, driverKills, diskFaults, garbled>>

Line(cell, kind) == [cell |-> cell, kind |-> kind]

Off == [pc |-> "off", cell |-> None, kind |-> None]
Getting == [Off EXCEPT !.pc = "getting"]
Ended(p) == [Off EXCEPT !.pc = p]

Stopped == {"off", "exited", "crashed"}

-----------------------------------------------------------------------------
Init ==
    /\ ledger \in OldLedgers
    /\ torn = FALSE
    /\ flock = None
    /\ driver = [i \in Invocations |-> "unstarted"]
    /\ queue = [i \in Invocations |-> {}]
    /\ jammed = [i \in Invocations |-> FALSE]
    /\ worker = [i \in Invocations |-> [s \in Slots |-> Off]]
    /\ workerKills = 0 /\ driverKills = 0 /\ diskFaults = 0
    /\ garbled = {}

\* Mutant: the set of keys is replaced by each row instead of added to.
CompletedByLastRow ==
    LET done == SelectSeq(ledger, LAMBDA l : l.kind \notin {"error", "junk"})
    IN  IF done = <<>> THEN {} ELSE {Last(done).cell}

\* _completed_keys: the keys of rows that parse and carry no "error".
Completed == {l.cell : l \in {k \in ToSet(ledger) : k.kind \notin {"error", "junk"}}}

\* main: the previous invocation is over, one way or another.
Invoke(i) ==
    /\ driver[i] = "unstarted"
    /\ \A j \in Invocations : j < i => driver[j] \notin {"unstarted", "joining"}
    /\ queue' = [queue EXCEPT ![i] = Cells \ Completed]
    /\ IF Cells \subseteq Completed
       THEN /\ driver' = [driver EXCEPT ![i] = "exit0"]
            /\ UNCHANGED worker
       ELSE /\ driver' = [driver EXCEPT ![i] = "joining"]
            /\ worker' = [worker EXCEPT ![i] = [s \in Slots |-> Getting]]
    /\ UNCHANGED <<ledger, torn, flock, jammed, workerKills, driverKills,
                   diskFaults, garbled>>

\* Mutant: the exit codes of the workers are not looked at.
JoinIgnoresExitCodes(i) ==
    /\ driver[i] = "joining"
    /\ \A s \in Slots : worker[i][s].pc \in Stopped
    /\ driver' = [driver EXCEPT ![i] = "exit0"]
    /\ UNCHANGED <<ledger, torn, flock, queue, jammed, worker, workerKills,
                   driverKills, diskFaults, garbled>>

\* All workers are joined; 1 if one of them exited non-zero.
Join(i) ==
    /\ driver[i] = "joining"
    /\ \A s \in Slots : worker[i][s].pc \in Stopped
    /\ driver' = [driver EXCEPT ![i] =
                    IF \E s \in Slots : worker[i][s].pc = "crashed"
                    THEN "exit1" ELSE "exit0"]
    /\ UNCHANGED <<ledger, torn, flock, queue, jammed, worker, workerKills,
                   driverKills, diskFaults, garbled>>

-----------------------------------------------------------------------------
(* _worker.  The queue's feeder thread is taken to fill the pipe faster     *)
(* than the one second get() waits.                                         *)

Get(i, s) ==
    /\ worker[i][s].pc = "getting" /\ ~jammed[i]
    /\ \E c \in queue[i] :
         /\ queue' = [queue EXCEPT ![i] = @ \ {c}]
         /\ worker' = [worker EXCEPT ![i][s] = [Off EXCEPT !.pc = "running", !.cell = c]]
    /\ UNCHANGED <<ledger, torn, flock, driver, jammed, workerKills,
                   driverKills, diskFaults, garbled>>

\* Mutant: queue.get() without a timeout.
EmptyBlocks(i, s) ==
    /\ worker[i][s].pc = "getting"
    /\ queue[i] = {} /\ ~jammed[i]
    /\ worker' = [worker EXCEPT ![i][s] = Ended("exited")]
    /\ UNCHANGED <<ledger, torn, flock, driver, queue, jammed, workerKills,
                   driverKills, diskFaults, garbled>>

\* Empty: nothing in the queue, or no way to read it.
Empty(i, s) ==
    /\ worker[i][s].pc = "getting"
    /\ queue[i] = {} \/ jammed[i]
    /\ worker' = [worker EXCEPT ![i][s] = Ended("exited")]
    /\ UNCHANGED <<ledger, torn, flock, driver, queue, jammed, workerKills,
                   driverKills, diskFaults, garbled>>

\* Where SandboxInfrastructureError goes.  Raised while the session measures
\* its baseline it leaves run_cell like any exception; raised from a handler
\* it is caught by the harness, which ends its stream with RUN_FAILED, and
\* run_cell builds a row as after any other episode.
EscapesRunCell(ending) == ending \in {"raised", "baseline_fault"}

RowKind(ending) ==
    IF EscapesRunCell(ending) THEN "error"
    ELSE IF ending = "candidate_fault" THEN "cut" ELSE "good"

\* _execute_cell returns a row, or raises and gets a driver_error row.
Episode(i, s, ending) ==
    /\ worker[i][s].pc = "running"
    /\ worker' = [worker EXCEPT ![i][s].pc = "appending",
                                ![i][s].kind = RowKind(ending)]
    /\ UNCHANGED <<ledger, torn, flock, driver, queue, jammed, workerKills,
                   driverKills, diskFaults, garbled>>

\* _append_row: the sidecar lock, then ...
TakeLock(i, s) ==
    /\ worker[i][s].pc = "appending"
    /\ flock = None
    /\ flock' = <<i, s>>
    /\ UNCHANGED <<ledger, torn, driver, queue, jammed, worker, workerKills,
                   driverKills, diskFaults, garbled>>

\* The text that reached the file: some of the line, all but its newline, all.
Parts == {"some", "bare", "whole"}

\* The file ends in what arrived of the row.  If it ended in a torn line the two
\* are one line now, which json.loads refuses, and the torn one may have been a
\* whole row that only missed its newline.
Appended(row, part) ==
    /\ ledger' = IF torn THEN Append(Front(ledger), Line(None, "junk"))
                 ELSE Append(ledger, IF part = "some" THEN Line(None, "junk")
                                     ELSE Line(row.cell, row.kind))
    /\ torn' = (part # "whole")
    /\ garbled' = IF torn THEN garbled \cup ({Last(ledger).cell, row.cell} \ {None})
                  ELSE garbled

\* Mutant: the line is written without its newline.
WriteUnterminated(i, s) ==
    /\ flock = <<i, s>>
    /\ Appended(worker[i][s], "bare")
    /\ flock' = None
    /\ worker' = [worker EXCEPT ![i][s] = Getting]
    /\ UNCHANGED <<driver, queue, jammed, workerKills, driverKills, diskFaults>>

\* ... the line, and the unlock.
Write(i, s) ==
    /\ flock = <<i, s>>
    /\ Appended(worker[i][s], "whole")
    /\ flock' = None
    /\ worker' = [worker EXCEPT ![i][s] = Getting]
    /\ UNCHANGED <<driver, queue, jammed, workerKills, driverKills, diskFaults>>

\* The worker ends inside the append: nothing or any part of the line is there.
BreakOff(i, s) ==
    /\ flock = <<i, s>>
    /\ \/ UNCHANGED <<ledger, torn, garbled>>
       \/ \E part \in Parts : Appended(worker[i][s], part)
    /\ flock' = None
    /\ worker' = [worker EXCEPT ![i][s] = Ended("crashed")]
    /\ UNCHANGED <<driver, queue, jammed, driverKills>>

\* The disk fills up, or fsync fails: _append_row is called outside the worker's
\* try, so the OSError ends the worker.
WriteFails(i, s) ==
    /\ workerKills + diskFaults < MaxFaults
    /\ BreakOff(i, s)
    /\ diskFaults' = diskFaults + 1
    /\ UNCHANGED workerKills

\* The worker is killed inside the write of a row of several pages.
KillWriter(i, s) ==
    /\ workerKills + diskFaults < MaxFaults
    /\ BreakOff(i, s)
    /\ workerKills' = workerKills + 1
    /\ UNCHANGED diskFaults

\* A worker is killed: the kernel drops its flock, and the semaphore of a
\* multiprocessing queue is never released if it died inside get().
KillWorker(i, s, insideGet) ==
    /\ workerKills + diskFaults < MaxFaults
    /\ worker[i][s].pc \notin Stopped
    /\ insideGet => worker[i][s].pc = "getting"
    /\ worker' = [worker EXCEPT ![i][s] = Ended("crashed")]
    /\ jammed' = [jammed EXCEPT ![i] = @ \/ insideGet]
    /\ flock' = IF flock = <<i, s>> THEN None ELSE flock
    /\ workerKills' = workerKills + 1
    /\ UNCHANGED <<ledger, torn, driver, queue, driverKills, diskFaults, garbled>>

\* The driver is killed; its workers are not.
KillDriver(i) ==
    /\ driverKills < MaxDriverKills
    /\ driver[i] = "joining"
    /\ driver' = [driver EXCEPT ![i] = "killed"]
    /\ driverKills' = driverKills + 1
    /\ UNCHANGED <<ledger, torn, flock, queue, jammed, worker, workerKills,
                   diskFaults, garbled>>

WorkerStep(i, s) ==
    \/ Get(i, s) \/ Empty(i, s)
    \/ \E ending \in Endings : Episode(i, s, ending)
    \/ TakeLock(i, s) \/ Write(i, s) \/ WriteFails(i, s)

Next ==
    \E i \in Invocations :
        \/ Invoke(i) \/ Join(i) \/ KillDriver(i)
        \/ \E s \in Slots :
             \/ WorkerStep(i, s)
             \/ KillWriter(i, s)
             \/ \E b \in BOOLEAN : KillWorker(i, s, b)

\* Episodes end (their turns, continuations and sandboxes are bounded), every
\* worker runs on and main joins; nobody has to run the driver again.
Fairness ==
    \A i \in Invocations :
        /\ WF_vars(Join(i))
        /\ \A s \in Slots : WF_vars(WorkerStep(i, s))

Spec == Init /\ [][Next]_vars /\ Fairness
-----------------------------------------------------------------------------
(* Properties. *)

\* A finished cell is not paid for twice: it has one non-error row, and one
\* more for each killed driver whose workers were still running it when the
\* grid was resumed (run_pilot.py:31-32).
FinishedOnce ==
    \A c \in Cells :
        Cardinality({k \in DOMAIN ledger :
                       ledger[k].cell = c /\ ledger[k].kind \notin {"error", "junk"}})
            <= 1 + driverKills

\* Exit code 0 means the grid was covered: every cell has a readable row, good
\* or error, but for rows an append destroyed without a sign of it, at most two
\* for each append that a full disk or a kill broke off: the row it left without
\* a newline and the next one (run_pilot.py:403-420, 484-500, 683-688).  The
\* file's head (27-28, "one suite-row JSON per cell") and _append_row (404-406,
\* "can never tear or interleave lines") make no such exception.
CleanExitCoversGrid ==
    /\ Cardinality(garbled) <= 2 * (diskFaults + workerKills)
    /\ \A i \in Invocations : driver[i] = "exit0" =>
        \A c \in Cells : c \in garbled \/ \E l \in ToSet(ledger) : l.cell = c

\* A driver that is not killed returns, whatever happens to its workers.
InvocationReturns ==
    \A i \in Invocations : driver[i] = "joining" ~> driver[i] # "joining"
=============================================================================
