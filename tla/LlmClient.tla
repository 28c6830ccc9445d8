----------------------------- MODULE LlmClient -----------------------------
(***************************************************************************)
(* The direct chat client of the archetype harnesses (_llm.py) in one      *)
(* worker process: episode after episode, each under an event loop of its  *)
(* own, with the calls an episode gathers.                                 *)
(*                                                                         *)
(* Every call takes a permit of the semaphore kept under the id of its     *)
(* event loop, reserves the next start (process-wide, min_interval apart)  *)
(* and sends its request, again after a backoff and a new reservation when *)
(* the error can be retried.  The model it sends through retries by itself *)
(* (RetryingModel, _model.py), after pauses of its own and without any     *)
(* reservation.  Time is counted in intervals: a Tick shortens every wait. *)
(*                                                                         *)
(* The id of a closed loop is free for the next one, unless something      *)
(* still refers to the loop: an asyncio.Semaphore refers to the loop on    *)
(* which a call first had to wait for it.                                  *)
(***************************************************************************)
EXTENDS Integers, FiniteSets

CONSTANTS
    Calls,       \* calls an episode gathers
    LoopIds,     \* addresses an event loop can have
    Limit,       \* llm_max_concurrent
    Retries,     \* llm_429_retries
    Attempts,    \* retry_max_attempts of the model
    MaxBackoff,  \* intervals a backoff can last: a bound
    MaxLate,     \* intervals the loop can be late for a slot: a bound
    MaxEpisodes, \* episodes of the process: a bound
    Nobody       \* no loop, no gate

ASSUME LlmConstants ==
    /\ Limit \in Nat \ {0} /\ Retries \in Nat /\ MaxBackoff \in Nat
    /\ Attempts \in Nat \ {0} /\ MaxLate \in Nat
    /\ MaxEpisodes \in Nat \ {0} /\ IsFiniteSet(Calls)
    /\ Nobody \notin LoopIds
    /\ Nobody \notin [permits : Nat, bound : [id : LoopIds, of : Nat] \cup {Nobody}]

VARIABLES
    episode,   \* the current episode, 0 before the first
    loop,      \* the id of its event loop
    gates,     \* _loop_semaphores: per key, Nobody or [permits, bound]
    phase,     \* of each call
    attempt,   \* of each call
    tries,     \* of the model for the current attempt of each call
    pause,     \* intervals to each call's slot, negative when it is late, or
               \* to the end of its backoff
    backlog    \* intervals from now to _next_start

llmVars == <<episode, loop, gates, phase, attempt, tries, pause, backlog>>

\* Calls that hold a permit.
Holding == {c \in Calls : phase[c] \in {"reserve", "wait", "sent", "again", "backoff"}}
Live == {c \in Calls : phase[c] \in {"gate", "queued"}} \cup Holding

LlmInit ==
    /\ episode = 0 /\ loop = Nobody
    /\ gates = [i \in LoopIds |-> Nobody]
    /\ phase = [c \in Calls |-> "none"]
    /\ attempt = [c \in Calls |-> 0]
    /\ tries = [c \in Calls |-> 0]
    /\ pause = [c \in Calls |-> 0]
    /\ backlog = 0

-----------------------------------------------------------------------------
(* Episodes. *)

\* Mutant: one semaphore for the whole process, whatever the loop.
KeyOfProcess == CHOOSE i \in LoopIds : TRUE

\* The key of the running loop's semaphore: id(asyncio.get_running_loop()).
Key == loop

ThisLoop == [id |-> loop, of |-> episode]

\* A loop that a semaphore refers to is not freed and its id not used again.
BoundIds == {gates[k].bound.id : k \in
               {j \in LoopIds : gates[j] # Nobody /\ gates[j].bound # Nobody}}

\* asyncio.run: a new loop; its harness gathers some calls.
StartEpisode ==
    /\ loop = Nobody /\ episode < MaxEpisodes
    /\ episode' = episode + 1
    /\ loop' \in LoopIds \ BoundIds
    /\ \E S \in SUBSET Calls : phase' = [c \in Calls |-> IF c \in S THEN "gate" ELSE "none"]
    /\ UNCHANGED <<gates, attempt, tries, pause, backlog>>

\* asyncio.run returns: calls left over by one that raised are cancelled, and
\* leave the `async with` on their way out.
EndEpisode ==
    /\ loop # Nobody
    /\ Live = {} \/ \E c \in Calls : phase[c] = "raised"
    /\ loop' = Nobody
    /\ gates' = IF gates[Key] = Nobody THEN gates
                ELSE [gates EXCEPT ![Key].permits = @ + Cardinality(Holding)]
    /\ phase' = [c \in Calls |-> "none"]
    /\ pause' = [c \in Calls |-> 0]
    /\ attempt' = [c \in Calls |-> 0]
    /\ tries' = [c \in Calls |-> 0]
    /\ UNCHANGED <<episode, backlog>>

-----------------------------------------------------------------------------
(* The gate. *)

NewGate == [permits |-> Limit, bound |-> Nobody]

\* Mutant: a semaphore for every call.
GateAfresh == NewGate

\* _concurrency_gate: the semaphore kept under the key, or a new one.
Gate == IF gates[Key] = Nobody THEN NewGate ELSE gates[Key]

\* Semaphore.acquire: a permit, unless others wait for one; or the queue, which
\* binds the semaphore to the loop of its first waiter.
EnterGate(c) ==
    /\ loop # Nobody /\ phase[c] = "gate"
    /\ IF Gate.permits > 0 /\ \A d \in Calls : phase[d] # "queued"
       THEN /\ gates' = [gates EXCEPT ![Key] = [Gate EXCEPT !.permits = @ - 1]]
            /\ phase' = [phase EXCEPT ![c] = "reserve"]
       ELSE /\ gates' = [gates EXCEPT ![Key] =
                           [Gate EXCEPT !.bound = IF @ = Nobody THEN ThisLoop ELSE @]]
            /\ phase' = [phase EXCEPT ![c] = "queued"]
    /\ UNCHANGED <<episode, loop, attempt, tries, pause, backlog>>

\* A permit comes free for a call that waits.
LeaveQueue(c) ==
    /\ phase[c] = "queued" /\ gates[Key].permits > 0
    /\ gates' = [gates EXCEPT ![Key].permits = @ - 1]
    /\ phase' = [phase EXCEPT ![c] = "reserve"]
    /\ UNCHANGED <<episode, loop, attempt, tries, pause, backlog>>

-----------------------------------------------------------------------------
(* The request. *)

\* Mutant: the next start is one interval from now, whoever is queued already.
AfterReservingNow == 1

\* _next_start after a reservation: one interval after the start reserved.
AfterReserving == backlog + 1

\* reserve_request_start: the caller sleeps until its slot.
Reserve(c) ==
    /\ phase[c] = "reserve"
    /\ phase' = [phase EXCEPT ![c] = "wait"]
    /\ pause' = [pause EXCEPT ![c] = backlog]
    /\ backlog' = AfterReserving
    /\ UNCHANGED <<episode, loop, gates, attempt, tries>>

\* model_request, at the slot or later when the loop was busy: the model's
\* first try.
Send(c) ==
    /\ phase[c] = "wait" /\ pause[c] <= 0
    /\ phase' = [phase EXCEPT ![c] = "sent"]
    /\ tries' = [tries EXCEPT ![c] = 1]
    /\ pause' = [pause EXCEPT ![c] = 0]
    /\ UNCHANGED <<episode, loop, gates, attempt, backlog>>

\* RetryingModel.request: 408, 425, 429 or 5xx but for the last try; it sleeps
\* and requests again.
TrySleeps(c) ==
    /\ phase[c] = "sent" /\ tries[c] < Attempts
    /\ phase' = [phase EXCEPT ![c] = "again"]
    /\ \E d \in 0..MaxBackoff : pause' = [pause EXCEPT ![c] = d]
    /\ UNCHANGED <<episode, loop, gates, attempt, tries, backlog>>

Resend(c) ==
    /\ phase[c] = "again" /\ pause[c] = 0
    /\ phase' = [phase EXCEPT ![c] = "sent"]
    /\ tries' = [tries EXCEPT ![c] = @ + 1]
    /\ UNCHANGED <<episode, loop, gates, attempt, pause, backlog>>

\* The call ends and gives its permit back.
End(c, how) ==
    /\ phase' = [phase EXCEPT ![c] = how]
    /\ gates' = [gates EXCEPT ![Key].permits = @ + 1]
    /\ attempt' = [attempt EXCEPT ![c] = 0]
    /\ tries' = [tries EXCEPT ![c] = 0]
    /\ UNCHANGED <<episode, loop, pause, backlog>>

Answered(c) == phase[c] = "sent" /\ End(c, "done")

\* An error that neither retries, or the last attempt.
Raised(c) == phase[c] = "sent" /\ End(c, "raised")

\* Mutant: retried for as long as the provider refuses.
MayRetryForever(c) == TRUE

MayRetry(c) == attempt[c] < Retries

\* 429 or 5xx after the model's last try, or a timeout, which the model does not
\* retry: the backoff is slept with the permit held.
BackOff(c) ==
    /\ phase[c] = "sent" /\ MayRetry(c)
    /\ phase' = [phase EXCEPT ![c] = "backoff"]
    /\ attempt' = [attempt EXCEPT ![c] = IF @ < Retries THEN @ + 1 ELSE @]
    /\ tries' = [tries EXCEPT ![c] = 0]
    /\ \E d \in 0..MaxBackoff : pause' = [pause EXCEPT ![c] = d]
    /\ UNCHANGED <<episode, loop, gates, backlog>>

TryAgain(c) ==
    /\ phase[c] = "backoff" /\ pause[c] = 0
    /\ phase' = [phase EXCEPT ![c] = "reserve"]
    /\ UNCHANGED <<episode, loop, gates, attempt, tries, pause, backlog>>

\* One interval passes; the loop does not miss a slot by more than MaxLate.
Tick ==
    /\ backlog > 0 \/ \E c \in Calls : pause[c] > 0 \/ phase[c] = "wait"
    /\ \A c \in Calls : pause[c] > -MaxLate \/ phase[c] # "wait"
    /\ backlog' = IF backlog > 0 THEN backlog - 1 ELSE 0
    /\ pause' = [c \in Calls |-> IF pause[c] > 0 \/ phase[c] = "wait" THEN pause[c] - 1 ELSE 0]
    /\ UNCHANGED <<episode, loop, gates, phase, attempt, tries>>

Advance(c) ==
    \/ EnterGate(c) \/ LeaveQueue(c) \/ Reserve(c) \/ Send(c)
    \/ TrySleeps(c) \/ Resend(c) \/ Answered(c) \/ Raised(c) \/ BackOff(c) \/ TryAgain(c)

LlmNext ==
    \/ StartEpisode \/ EndEpisode
    \/ \E c \in Calls : Advance(c)
    \/ Tick

\* Time passes, the provider answers or refuses, and the loop runs what is ready.
\* (Semaphore waiters are woken in order.)
LlmFairness ==
    /\ WF_llmVars(Tick) /\ WF_llmVars(EndEpisode)
    /\ \A c \in Calls : SF_llmVars(LeaveQueue(c)) /\ WF_llmVars(Advance(c))

LlmSpec == LlmInit /\ [][LlmNext]_llmVars /\ LlmFairness
-----------------------------------------------------------------------------
(* Properties. *)

\* Slots are reserved an interval apart, over all calls, retries and loops of the
\* process, however late the loop is for some: no two calls have one slot, and
\* the next call to reserve gets another (_llm.py:41-53).
SlotsDistinct ==
    \A c \in Calls : phase[c] = "wait" =>
        /\ pause[c] < backlog
        /\ \A d \in Calls \ {c} : phase[d] = "wait" => pause[c] # pause[d]

\* No more than llm_max_concurrent calls are in flight, although permits are held
\* over backoffs and given back by cancellations, and although a closed loop
\* leaves its gate to whoever gets its id (_llm.py:15, 56-66).
InFlightBounded ==
    /\ Cardinality(Holding) <= Limit
    /\ loop = Nobody => \A i \in LoopIds : gates[i] # Nobody => gates[i].permits = Limit

\* The two limits for the provider: the slots and the calls in flight.
LimitsKept == SlotsDistinct /\ InFlightBounded

\* No call waits on a semaphore that is bound to another loop, which asyncio
\* refuses with a RuntimeError (_llm.py:60-61, "stale entries ... are harmless").
GateBelongsToLoop ==
    \A c \in Calls : phase[c] = "queued" => gates[Key].bound = ThisLoop

\* All the calls an episode gathers answer, raise or are cancelled: the queue
\* behind calls that back off moves on (_llm.py:69-126).
CallsEnd == (Live # {}) ~> (Live = {})
=============================================================================
