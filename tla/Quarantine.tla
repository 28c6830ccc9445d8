----------------------------- MODULE Quarantine -----------------------------
(***************************************************************************)
(* scripts/quarantine_faulted.py next to a running grid: it reads a        *)
(* results file, appends the rows the sandbox fault touched to a           *)
(* quarantine file, and rewrites the results file with the others.  The    *)
(* lock the workers append under is taken for the rewrite only.            *)
(***************************************************************************)
EXTENDS PilotDriver

CONSTANT MaxQuarantines   \* bound: times the script is run

VARIABLES
    qpc,          \* where the script is
    kept,         \* the rows it will leave in the results file
    moved,        \* the rows it moves
    quarantined,  \* lines of the quarantine file
    quarantines   \* times the script was started

qVars == <<qpc, kept, moved, quarantined, quarantines>>
allVars == <<vars, qVars>>

IsFaulted(l) == l.kind = "faulted"
IsKept(l) == l.kind # "faulted"

QInit ==
    /\ Init
    /\ qpc = "idle"
    /\ kept = <<>> /\ moved = <<>>
    /\ quarantined = <<>>
    /\ quarantines = 0

\* _read_rows and classify; a line that does not parse ends the script, and
\* so does a file without faulted rows.
ReadRows ==
    /\ qpc = "idle" /\ quarantines < MaxQuarantines
    /\ \A l \in ToSet(ledger) : l.kind # "junk"
    /\ \E l \in ToSet(ledger) : IsFaulted(l)
    /\ kept' = SelectSeq(ledger, IsKept)
    /\ moved' = SelectSeq(ledger, IsFaulted)
    /\ qpc' = "moving"
    /\ quarantines' = quarantines + 1
    /\ UNCHANGED <<vars, quarantined>>

\* _append_rows, without a lock.
MoveRows ==
    /\ qpc = "moving"
    /\ quarantined' = quarantined \o moved
    /\ qpc' = "rewriting"
    /\ UNCHANGED <<vars, kept, moved, quarantines>>

\* _write_rows: under the lock, the new file replaces the old one.
RewriteRows ==
    /\ qpc = "rewriting" /\ flock = None
    /\ ledger' = kept
    /\ torn' = FALSE
    /\ qpc' = "idle"
    /\ kept' = <<>> /\ moved' = <<>>
    /\ UNCHANGED <<flock, driver, queue, jammed, worker, workerKills, driverKills,
                   diskFaults, garbled, quarantined, quarantines>>

\* The script is interrupted.
Interrupt ==
    /\ qpc # "idle"
    /\ qpc' = "idle"
    /\ kept' = <<>> /\ moved' = <<>>
    /\ UNCHANGED <<vars, quarantined, quarantines>>

QNext ==
    \/ Next /\ UNCHANGED qVars
    \/ ReadRows \/ MoveRows \/ RewriteRows \/ Interrupt

QSpec == QInit /\ [][QNext]_allVars /\ WF_allVars(MoveRows) /\ WF_allVars(RewriteRows)

\* What quarantine_faulted.py:31-32 says of the ledger: rows are moved (not
\* deleted).  A row that was in the results file stays in it or is found in
\* the quarantine file.
MovedNotDeleted ==
    [][\A l \in ToSet(ledger) :
         l.kind # "junk" => l \in ToSet(ledger') \cup ToSet(quarantined')]_allVars
=============================================================================
