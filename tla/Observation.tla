---------------------------- MODULE Observation ----------------------------
(***************************************************************************)
(* A run as the observation UI sees it: the server's task that drives it   *)
(* (app.py), the events it appends to the trace (storage/trace_store), the *)
(* episode it saves (storage/episode_store), the list of runs, and a page  *)
(* (static/app.js) that attaches to a run: it asks for the history and     *)
(* opens a websocket, and the two answer independently.                    *)
(***************************************************************************)
EXTENDS Integers, Sequences, FiniteSets

CONSTANTS
    RunIds,
    MaxAttached,    \* bound: times the page attaches to a run
    NoRun           \* the page shows no run, or waits for none

VARIABLES
    drive,      \* where the task of each run is
    trace,      \* the events: session.started, session.failed, session.finished
    saved,      \* the runs whose episode is on disk
    page,       \* what the page shows and waits for
    socket,     \* the page's websocket, and the server's cursor for it
    attached    \* times the page has attached

observationVars == <<drive, trace, saved, page, socket, attached>>

Shut == [at |-> "closed", cursor |-> 0]

ObservationInit ==
    /\ drive = [r \in RunIds |-> "none"]
    /\ trace = << >>
    /\ saved = {}
    /\ page = [run |-> NoRun, live |-> FALSE, history |-> NoRun, since |-> 0,
               asked |-> NoRun, status |-> "none", from |-> 0]
    /\ socket = Shut
    /\ attached = 0

Event(r, kind) == [run |-> r, kind |-> kind]

Happened(r, kind) == \E i \in DOMAIN trace : trace[i] = Event(r, kind)

Ended(r) == Happened(r, "failed") \/ Happened(r, "finished")

-----------------------------------------------------------------------------
(* The server's task: _drive. *)

\* The form is submitted; the handler creates the task and answers.
Submit(r) ==
    /\ drive[r] = "none" /\ page.asked = NoRun
    /\ drive' = [drive EXCEPT ![r] = "created"]
    /\ page' = [page EXCEPT !.asked = r]
    /\ UNCHANGED <<trace, saved, socket, attached>>

\* The session is constructed, outside the try: if that raises, before or
\* after the first event, the task ends without another word.
Construct(r) ==
    /\ drive[r] = "created"
    /\ \/ /\ trace' = Append(trace, Event(r, "started"))
          /\ \E next \in {"looping", "dead"} : drive' = [drive EXCEPT ![r] = next]
       \/ drive' = [drive EXCEPT ![r] = "dead"] /\ UNCHANGED trace
    /\ UNCHANGED <<saved, page, socket, attached>>

\* run_session: it returns, or reports a failed harness itself, or raises and
\* _drive reports it.
RunSession(r) ==
    /\ drive[r] = "looping"
    /\ trace' \in {trace, Append(trace, Event(r, "failed"))}
    /\ drive' = [drive EXCEPT ![r] = "finalizing"]
    /\ UNCHANGED <<saved, page, socket, attached>>

\* finalize, in the finally: the episode, then session.finished.
SaveAndFinish(r) ==
    \/ /\ drive[r] = "finalizing"
       /\ saved' = saved \cup {r}
       /\ drive' = [drive EXCEPT ![r] = "saved"]
       /\ UNCHANGED <<trace, page, socket, attached>>
    \/ /\ drive[r] = "saved"
       /\ trace' = Append(trace, Event(r, "finished"))
       /\ drive' = [drive EXCEPT ![r] = "ended"]
       /\ UNCHANGED <<saved, page, socket, attached>>

\* _summarise_runs: the status of the last event.
ListedStatus(r) ==
    LET of == {i \in DOMAIN trace : trace[i].run = r}
    IN  IF of = {} THEN "unlisted"
        ELSE IF trace[CHOOSE i \in of : \A j \in of : j <= i].kind = "started" THEN "running"
        ELSE trace[CHOOSE i \in of : \A j \in of : j <= i].kind

-----------------------------------------------------------------------------
(* The page. *)

\* attachToRun: the latch is cleared, the old socket closed, the history
\* asked for unless only the live events are wanted, and a socket opened.
AttachTo(r, live) ==
    /\ attached < MaxAttached
    /\ attached' = attached + 1
    /\ page' = [page EXCEPT !.run = r, !.live = live, !.status = "none", !.from = 0,
                            !.history = IF live THEN @ ELSE r,
                            !.since = Len(trace),
                            !.asked = IF live THEN NoRun ELSE @]
    /\ socket' = [Shut EXCEPT !.at = "connecting"]
    /\ UNCHANGED <<drive, trace, saved>>

\* The answer to Submit, or a click on a run of the list.
Attach ==
    \/ page.asked # NoRun /\ AttachTo(page.asked, TRUE)
    \/ \E r \in RunIds : ListedStatus(r) # "unlisted" /\ AttachTo(r, FALSE)

\* Mutant: every socket starts with the events that come after it.
CursorAtEnd == Len(trace)

\* ws_events: a live socket starts at the end of the trace.
Cursor == IF page.live THEN Len(trace) ELSE 0

Accept ==
    /\ socket.at = "connecting"
    /\ socket' = [at |-> "open", cursor |-> Cursor]
    /\ page' = [page EXCEPT !.from = Cursor]
    /\ UNCHANGED <<drive, trace, saved, attached>>

\* The connection is lost (WebSocketDisconnect at the server): the page's
\* listeners change a chip in the header, and nothing connects again.
Drop ==
    /\ socket.at \in {"connecting", "open"}
    /\ socket' = [Shut EXCEPT !.at = "dropped"]
    /\ UNCHANGED <<drive, trace, saved, page, attached>>

\* Mutant: without the latch.
StatusAfterLast(status, kind) ==
    IF kind = "failed" THEN "failed" ELSE IF kind = "finished" THEN "done" ELSE status

\* finalizeRun: `done` does not replace `failed`.
StatusAfter(status, kind) ==
    IF kind = "failed" THEN "failed"
    ELSE IF kind = "finished" /\ status # "failed" THEN "done" ELSE status

\* The loop of ws_events sends the next event; handleEvent drops what is not
\* of the active run; a terminal event ends the run and closes the socket.
Poll ==
    /\ socket.at = "open" /\ socket.cursor < Len(trace)
    /\ LET event == trace[socket.cursor + 1]
       IN  IF event.run = page.run /\ event.kind # "started"
           THEN /\ page' = [page EXCEPT !.status = StatusAfter(@, event.kind)]
                /\ socket' = Shut
           ELSE /\ socket' = [socket EXCEPT !.cursor = @ + 1]
                /\ UNCHANGED page
    /\ UNCHANGED <<drive, trace, saved, attached>>

\* Whatever became of the history, the page waits for it no more.
HistoryOver == page' = [page EXCEPT !.history = NoRun] /\ UNCHANGED socket

\* The history arrives, read at some moment since it was asked for: all its
\* events are handled in order, unless the page has moved on to another run.
History ==
    /\ page.history # NoRun
    /\ \E read \in page.since..Len(trace) :
         LET kinds == {trace[i].kind : i \in {j \in 1..read : trace[j].run = page.history}}
             one == IF "failed" \in kinds THEN StatusAfter(page.status, "failed") ELSE page.status
             status == IF "finished" \in kinds THEN StatusAfter(one, "finished") ELSE one
         IN  IF page.history = page.run /\ kinds \cap {"failed", "finished"} # {}
             THEN /\ page' = [page EXCEPT !.history = NoRun, !.status = status]
                  /\ socket' = Shut
             ELSE HistoryOver
    /\ UNCHANGED <<drive, trace, saved, attached>>

\* The request fails: a toast, and nothing asks again.
HistoryFails ==
    /\ page.history # NoRun /\ HistoryOver
    /\ UNCHANGED <<drive, trace, saved, attached>>

ObservationNext ==
    \/ \E r \in RunIds : Submit(r) \/ Construct(r) \/ RunSession(r) \/ SaveAndFinish(r)
    \/ Attach \/ Accept \/ Drop \/ Poll \/ History \/ HistoryFails

\* The server answers, and polls every half second while the socket is there.
\* Nobody has to start or to end a run, or to look at one.
ObservationFairness ==
    WF_observationVars(Accept) /\ WF_observationVars(Poll) /\ WF_observationVars(History)

-----------------------------------------------------------------------------
(* Properties *)

\* A run that is listed or shown as finished has its episode on disk.
FinishedIsSaved ==
    \A r \in RunIds :
        (ListedStatus(r) = "finished" \/ (page.run = r /\ page.status = "done")) => r \in saved

\* A page shows a failed run as done only if the failure is older than the
\* socket of a page that is live and so has no history: whichever of history and
\* socket answers first, and however often, a page that can have been told of
\* the failure shows it.
FailureIsShown ==
    (page.run # NoRun /\ page.status = "done") =>
        \A i \in DOMAIN trace : trace[i] = Event(page.run, "failed") => page.live /\ i <= page.from

\* What the list and the page show of the end of a run, as far as the trace
\* and the disk bear it out.  Not claimed, against app.js:45-48 and 459-461: the
\* list shows a failed run as finished, since finalize adds session.finished and
\* the server's fold keeps the last event (app.py:158-175); and a live page, whose
\* socket starts at the end of the trace (app.py:463), may show no end at all.
ShownAsTold == FinishedIsSaved /\ FailureIsShown

\* The page shows a run that has ended as if it had not, and its connection has
\* not been lost.
Unaware ==
    /\ page.run # NoRun /\ Ended(page.run) /\ page.status = "none"
    /\ socket.at # "dropped"

\* "so the UI updates immediately, without waiting for the user to start a
\* new run": no event falls between the history and the socket, so a page that
\* asked for the history learns of the end, from either, unless its connection
\* is lost first (app.js:403-425, 457-476).
PageLearns == (Unaware /\ ~page.live) ~> ~(Unaware /\ ~page.live)

=============================================================================
