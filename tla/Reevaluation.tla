---------------------------- MODULE Reevaluation ----------------------------
(***************************************************************************)
(* The two scripts that run candidates of a finished grid again and append *)
(* one row each to a ledger of their own: replay_loose_verifier.py (the    *)
(* rejected ones, under a loose check) and eval_holdout.py (the winners,   *)
(* on unseen shapes).  Both are resumed by being started again; several    *)
(* invocations may run at once; each can be killed, while it writes too.   *)
(***************************************************************************)
EXTENDS Integers, Sequences, FiniteSets

CONSTANTS
    Grid,           \* the lines of the grid's ledger: the cell, whether the
                    \* row is good, and its candidates with their verdict
    Invocations,    \* processes running the script
    MaxStarts,      \* bound: invocations in all
    MaxTears,       \* bound: appends cut off
    TornLine        \* a line that does not parse

ASSUME ReevaluationAssumption ==
    /\ \A i \in DOMAIN Grid : \A c \in Grid[i].candidates :
         c.id \in Nat /\ c.verdict \in {"rejected", "won", "lost"}
    /\ MaxStarts \in Nat /\ MaxTears \in Nat
    /\ TornLine \notin [of : Nat, error : {"null", "absent", "set"}, real : BOOLEAN]

VARIABLES
    script,     \* which of the two it is
    rows,       \* the lines of its ledger
    ragged,     \* whether the last line, whole or not, has no newline
    pass,       \* each invocation: where it is, and what it has found out
    starts, tears

reevaluationVars == <<script, rows, ragged, pass, starts, tears>>

Off == [at |-> "off", done |-> {}, todo |-> {}, row |-> TornLine, read |-> 0]

ReevaluationInit ==
    /\ script \in {"replay", "holdout"}
    /\ rows = << >> /\ ragged = FALSE
    /\ pass = [p \in Invocations |-> Off]
    /\ starts = 0 /\ tears = 0

-----------------------------------------------------------------------------
(* What is evaluated. *)

\* load_good_rows: for each cell its last good row.
GoodRows ==
    {i \in DOMAIN Grid : Grid[i].good
        /\ \A j \in DOMAIN Grid : (j > i /\ Grid[j].good) => Grid[j].cell # Grid[i].cell}

\* population, and _winner_rows, which does not look for a later row of the
\* same cell.
Population ==
    IF script = "replay"
    THEN UNION {{c.id : c \in {x \in Grid[i].candidates : x.verdict = "rejected"}}
                    : i \in GoodRows}
    ELSE UNION {{c.id : c \in {x \in Grid[i].candidates : x.verdict = "won"}}
                    : i \in DOMAIN Grid}

\* The rows a candidate can get.  replay_one always has the key `error`;
\* eval_holdout has it only if the artifact or the workload is missing, and a
\* sandbox that got no device is one more configuration that is not correct.
RowsFor(c) ==
    LET row(error, real) == [of |-> c, error |-> error, real |-> real]
    IN  IF script = "replay" THEN {row("null", TRUE), row("set", FALSE)}
        ELSE {row("absent", TRUE), row("absent", FALSE), row("set", FALSE)}

\* Mutant: replay with the helper of run_pilot, which looks for the key.
CompletedByKey(lines) ==
    {lines[i].of : i \in {j \in DOMAIN lines : lines[j] # TornLine /\ lines[j].error = "absent"}}

\* _completed_keys, of the script and of run_pilot: lines that do not parse
\* are passed over.
Completed(lines) ==
    LET done(line) == line # TornLine /\ (IF script = "replay" THEN line.error # "set"
                                      ELSE line.error = "absent")
    IN  {lines[i].of : i \in {j \in DOMAIN lines : done(lines[j])}}

StartPass(p) ==
    /\ pass[p].at = "off" /\ starts < MaxStarts
    /\ starts' = starts + 1
    /\ pass' = [pass EXCEPT ![p] =
          [at |-> "looking", done |-> Completed(rows), row |-> TornLine, read |-> Len(rows),
           todo |-> Population]]
    /\ UNCHANGED <<script, rows, ragged, tears>>

\* The loop of main: the next candidate that is not done is evaluated, which
\* takes minutes, during which others may append.  Ids are in the order of the
\* population.
Evaluate(p) ==
    /\ pass[p].at = "looking"
    /\ \E c \in pass[p].todo :
         /\ \A d \in pass[p].todo : c <= d
         /\ IF c \in pass[p].done
            THEN pass' = [pass EXCEPT ![p].todo = @ \ {c}]
            ELSE \E row \in RowsFor(c) :
                   pass' = [pass EXCEPT ![p].todo = @ \ {c}, ![p].row = row,
                                        ![p].at = "appending"]
    /\ UNCHANGED <<script, rows, ragged, starts, tears>>

-----------------------------------------------------------------------------
(* _append_row, under the lock of the sidecar file. *)

\* Mutant: the file is opened with "w".
WrittenOver(row) == <<row>>

\* A line after one that was cut off continues it, and neither parses.
Written(row) ==
    IF ragged THEN [rows EXCEPT ![Len(rows)] = TornLine] ELSE Append(rows, row)

AppendRow(p) ==
    /\ pass[p].at = "appending"
    /\ rows' = Written(pass[p].row)
    /\ ragged' = FALSE
    /\ pass' = [pass EXCEPT ![p].at = "looking", ![p].row = TornLine]
    /\ UNCHANGED <<script, starts, tears>>

\* The invocation ends in the middle of a write: the disk is full, or the
\* machine goes down.  What is left may be the whole row without its newline,
\* which parses until a line continues it.
TearRow(p) ==
    /\ pass[p].at = "appending" /\ tears < MaxTears
    /\ \E left \in {TornLine, pass[p].row} : rows' = Written(left)
    /\ ragged' = TRUE
    /\ tears' = tears + 1
    /\ pass' = [pass EXCEPT ![p] = Off]
    /\ UNCHANGED <<script, starts>>

Finish(p) ==
    /\ pass[p].at = "looking" /\ pass[p].todo = {}
    /\ pass' = [pass EXCEPT ![p] = [Off EXCEPT !.at = "finished"]]
    /\ UNCHANGED <<script, rows, ragged, starts, tears>>

\* A finished process is gone; a killed one has lost its row.
Leave(p) ==
    /\ pass[p].at # "off"
    /\ pass' = [pass EXCEPT ![p] = Off]
    /\ UNCHANGED <<script, rows, ragged, starts, tears>>

ReevaluationNext ==
    \E p \in Invocations :
        StartPass(p) \/ Evaluate(p) \/ AppendRow(p) \/ TearRow(p) \/ Finish(p) \/ Leave(p)

ReevaluationSpec == ReevaluationInit /\ [][ReevaluationNext]_reevaluationVars

-----------------------------------------------------------------------------
(* --summary *)

\* Mutant: the last row of a candidate wins.
SupersedesAlways(new, old) == TRUE

\* Whether load_replay_rows puts a row in the place of an earlier one.
Supersedes(new, old) == ~(new.error = "set" /\ old.error # "set")

\* The line it keeps for c: the first one that no later one replaces.
Stays(lines, i) ==
    \A j \in DOMAIN lines :
        (j > i /\ lines[j].of = lines[i].of) => ~Supersedes(lines[j], lines[i])

KeptFor(lines, c) ==
    CHOOSE i \in DOMAIN lines :
        /\ lines[i].of = c /\ Stays(lines, i)
        /\ \A j \in DOMAIN lines : (lines[j].of = c /\ Stays(lines, j)) => i <= j

-----------------------------------------------------------------------------
(* Properties *)

\* "the pass is resumable", "rows whose key is already present (without error)
\* are skipped": no invocation evaluates a candidate again that had a row with
\* a measurement when it started.
MeasuredOnce ==
    [][\A p \in Invocations :
         (pass[p].at = "looking" /\ pass'[p].at = "appending") =>
            \A i \in 1..pass[p].read :
                (rows[i] # TornLine /\ rows[i].real) => rows[i].of # pass'[p].row.of]_reevaluationVars

\* "an error row never supersedes a good one": whichever of two concurrent
\* invocations was the last to append, the summary counts the measurement.
SummaryKeepsMeasurements ==
    (script = "replay" /\ \A i \in DOMAIN rows : rows[i] # TornLine) =>
        \A i \in DOMAIN rows : rows[i].real => rows[KeptFor(rows, rows[i].of)].real

\* An invocation that gets to its end leaves a row for every candidate, but
\* for two for each append that was ever cut off: the row that continues the
\* line, and the one that was whole but for its newline, which invocations took
\* for done before it was destroyed with it.
FinishedCovers ==
    (\E p \in Invocations : pass[p].at = "finished") =>
        Cardinality(Population \ {rows[i].of : i \in {j \in DOMAIN rows : rows[j] # TornLine}})
            <= 2 * tears

\* What the ledger of a re-evaluation is relied on for, over kills, torn lines
\* and concurrent invocations: it saves evaluations, it forgets none, and in the
\* end it has all of them.
LedgerServes == MeasuredOnce /\ [](SummaryKeepsMeasurements /\ FinishedCovers)

=============================================================================
