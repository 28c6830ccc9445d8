---------------------------- MODULE EpisodeLoop ----------------------------
(***************************************************************************)
(* What run_session and the caller that finalizes the session promise,     *)
(* with no tool call, no handler and no completion policy in sight: work   *)
(* is banked or spent while the episode runs, the harness is restarted a   *)
(* bounded number of times, the episode stops once and for a reason its    *)
(* ledger supports, and a document that is whole is the ledger at the      *)
(* stop.  A closing that fails may leave a document that is not.           *)
(***************************************************************************)
EXTENDS Integers

CONSTANTS
    Budget,       \* successes asked for
    FailureCap,   \* failures tolerated
    MaxRestarts,  \* restarts of the harness
    None

VARIABLES
    status,   \* "running", "stopped", "closed" or "aborted"
    banked,   \* successes
    spent,    \* failures
    starts,   \* harness runs started
    why,      \* the reason of the stop
    saved     \* the episode document

episodeVars == <<status, banked, spent, starts, why, saved>>

Reasons == {"budget_met", "failure_cap", "exhausted", "harness_failed"}

Init ==
    /\ status = "running"
    /\ banked = 0 /\ spent = 0
    /\ starts = 1
    /\ why = "continue"
    /\ saved = None

Work ==
    /\ status = "running"
    /\ \/ banked' = banked + 1 /\ UNCHANGED spent
       \/ spent' = spent + 1 /\ UNCHANGED banked
    /\ UNCHANGED <<status, starts, why, saved>>

\* The harness is restarted only while a restart is left and the failures are
\* below the cap.
Restart ==
    /\ status = "running"
    /\ starts <= MaxRestarts
    /\ spent < FailureCap
    /\ starts' = starts + 1
    /\ UNCHANGED <<status, banked, spent, why, saved>>

Stop(r) ==
    /\ status = "running"
    /\ r = "budget_met" => banked >= Budget
    /\ r = "failure_cap" => spent >= FailureCap
    /\ r = "exhausted" => starts = MaxRestarts + 1 /\ spent < FailureCap
    /\ status' = "stopped"
    /\ why' = r
    /\ UNCHANGED <<banked, spent, starts, saved>>

Ledger == [whole |-> TRUE, successful_count |-> banked, failed_attempts |-> spent]
Torn == [whole |-> FALSE]

Close ==
    /\ status = "stopped"
    /\ status' = "closed"
    /\ saved' = Ledger
    /\ UNCHANGED <<banked, spent, starts, why>>

\* The driver or the closing raises; the document may have been written by
\* then, or a part of it.  An episode with a torn document is never closed.
Abort ==
    /\ \/ status = "running" /\ UNCHANGED saved
       \/ status = "stopped" /\ saved' \in {saved, Torn, Ledger}
    /\ status' = "aborted"
    /\ UNCHANGED <<banked, spent, starts, why>>

Next == Work \/ Restart \/ (\E r \in Reasons : Stop(r)) \/ Close \/ Abort

Spec == Init /\ [][Next]_episodeVars
=============================================================================
