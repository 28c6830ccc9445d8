---------------------------- MODULE SessionProofs ----------------------------
(***************************************************************************)
(* Theorems about the tool surface of a session, for any number of calls   *)
(* in flight, candidates, budgets and backends; and about the loop that    *)
(* drives it, which implements the episode it promises.                    *)
(***************************************************************************)
EXTENDS RunLoop, FiniteSetTheorems, TLAPS

\* A batch that still has to choose an id has ids left.
BatchHasWork ==
    \A c \in Calls : InPhase(c, "choosing") => call[c].todo > 0

\* The registry is finite, so len(self.candidates) is a number.
RegistryFinite == IsFiniteSet(registered)

TypeInv == SessionTypeOK /\ BatchHasWork /\ RegistryFinite

-----------------------------------------------------------------------------

\* No call in flight is a frame too.
LEMMA IdleIsFrame == Idle \in Frames
  BY DEF Idle, Frames, Optional

\* max(0, max_candidates - n) is a natural number.
LEMMA SlotsNat ==
    ASSUME NEW n \in Nat
    PROVE  SlotsRemaining(n) \in Nat
  BY SessionConstants DEF SlotsRemaining

\* Whatever leaves run_candidate leaves a frame: idle, or choosing its next id.
LEMMA LeaveRunType ==
    ASSUME TypeInv, NEW c \in Calls, LeaveRun(c)
    PROVE  /\ call' \in [Calls -> Frames]
           /\ call'[c].phase \in {"idle", "choosing"}
           /\ call'[c].phase = "choosing" => call'[c].todo > 0
           /\ \A d \in Calls : d # c => call'[d] = call[d]
  <1> USE DEF TypeInv, SessionTypeOK
  <1>1. CASE call[c].batch /\ call[c].todo > 0
    <2> DEFINE f == [Idle EXCEPT !.phase = "choosing", !.todo = call[c].todo,
                                 !.batch = TRUE]
    <2>1. call[c].todo \in Nat
      BY DEF Frames
    <2>2. f \in Frames /\ f.phase = "choosing" /\ f.todo > 0
      BY <1>1, <2>1 DEF Idle, Frames, Optional
    <2>3. call' = [call EXCEPT ![c] = f]
      BY <1>1 DEF LeaveRun
    <2> HIDE DEF f
    <2> QED BY <2>2, <2>3
  <1>2. CASE ~(call[c].batch /\ call[c].todo > 0)
    <2>1. call' = [call EXCEPT ![c] = Idle] /\ Idle.phase = "idle"
      BY <1>2 DEF LeaveRun, Return, Idle
    <2> QED BY <2>1, IdleIsFrame
  <1> QED BY <1>1, <1>2

\* Changing the phase of a call, to one that is not "choosing", keeps the types.
LEMMA GotoType ==
    ASSUME TypeInv, NEW c \in Calls, NEW p \in RunPhases \cup {"idle", "proposing"},
           Goto(c, p)
    PROVE  call' \in [Calls -> Frames] /\ BatchHasWork'
  <1> USE DEF TypeInv, SessionTypeOK
  <1>1. call' = [call EXCEPT ![c] = [call[c] EXCEPT !.phase = p]]
    BY DEF Goto
  <1>2. [call[c] EXCEPT !.phase = p] \in Frames
    BY DEF Frames
  <1>3. p # "choosing"
    BY DEF RunPhases
  <1> QED BY <1>1, <1>2, <1>3 DEF BatchHasWork, InPhase, Frames

\* One call gets a frame; the others keep theirs.
LEMMA FrameType ==
    ASSUME TypeInv, NEW c \in Calls, NEW f \in Frames,
           call' = [call EXCEPT ![c] = f],
           f.phase = "choosing" => f.todo > 0
    PROVE  call' \in [Calls -> Frames] /\ BatchHasWork'
  BY DEF TypeInv, SessionTypeOK, BatchHasWork, InPhase

\* Proposals.
LEMMA ProposeType ==
    ASSUME TypeInv, NEW c \in Calls,
           \/ \E n \in 1..MaxBatch : BeginPropose(c, n)
           \/ RegisterNext(c) \/ RegisterUnannounced(c) \/ RejectNext(c)
    PROVE  TypeInv'
  <1> USE SessionConstants
  <1>0. Idle \in Frames /\ Idle.phase = "idle"
    BY IdleIsFrame DEF Idle
  <1>a. /\ call[c] \in Frames
        /\ call[c].todo \in Nat
    BY DEF TypeInv, SessionTypeOK, Frames
  <1>1. ASSUME NEW n \in 1..MaxBatch, BeginPropose(c, n) PROVE TypeInv'
    <2> DEFINE f == [call[c] EXCEPT !.phase = "proposing", !.todo = n]
    <2>0. n \in Nat
      BY MaxBatch \in Nat
    <2>1. f \in Frames /\ f.phase = "proposing"
      BY <1>a, <2>0 DEF Frames
    <2>2. call' = [call EXCEPT ![c] = f]
      BY <1>1 DEF BeginPropose
    <2> HIDE DEF f
    <2>3. call' \in [Calls -> Frames] /\ BatchHasWork'
      BY <2>1, <2>2, FrameType
    <2> QED BY <1>1, <2>3 DEF BeginPropose, TypeInv, SessionTypeOK, RegistryFinite
  <1>2. ASSUME NEW x \in Candidates, registered' = registered \cup {x},
               UNCHANGED <<baseline, result, succ, failed, progress, log, rejects, faults>>,
               call' \in [Calls -> Frames] /\ BatchHasWork'
        PROVE  TypeInv'
    <2>1. IsFiniteSet(registered')
      BY <1>2, FS_AddElement DEF TypeInv, RegistryFinite
    <2> QED BY <1>2, <2>1 DEF TypeInv, SessionTypeOK, RegistryFinite
  <1>3. ASSUME Return(c) PROVE call' \in [Calls -> Frames] /\ BatchHasWork'
    <2>1. call' = [call EXCEPT ![c] = Idle]
      BY <1>3 DEF Return
    <2> QED BY <1>0, <2>1, FrameType
  <1>4. CASE RegisterNext(c)
    <2>1. PICK x \in Candidates : registered' = registered \cup {x}
      BY <1>4 DEF RegisterNext
    <2>2. call' \in [Calls -> Frames] /\ BatchHasWork'
      <3>1. CASE call[c].todo > 1
        <4> DEFINE f == [call[c] EXCEPT !.todo = @ - 1]
        <4>1. f \in Frames /\ f.phase = "proposing"
          BY <1>4, <1>a, <3>1 DEF RegisterNext, InPhase, Frames
        <4>2. call' = [call EXCEPT ![c] = f]
          BY <1>4, <3>1 DEF RegisterNext
        <4> HIDE DEF f
        <4> QED BY <4>1, <4>2, FrameType
      <3>2. CASE ~(call[c].todo > 1)
        BY <1>3, <1>4, <3>2 DEF RegisterNext
      <3> QED BY <3>1, <3>2
    <2> QED BY <1>2, <1>4, <2>1, <2>2 DEF RegisterNext
  <1>5. CASE RegisterUnannounced(c)
    <2>1. PICK x \in Candidates : registered' = registered \cup {x}
      BY <1>5 DEF RegisterUnannounced
    <2> QED BY <1>2, <1>3, <1>5, <2>1 DEF RegisterUnannounced
  <1>6. CASE RejectNext(c)
    BY <1>3, <1>6 DEF RejectNext, TypeInv, SessionTypeOK, RegistryFinite
  <1> QED BY <1>1, <1>4, <1>5, <1>6

\* Runs, up to the moment the outcome is recorded.
LEMMA RunType ==
    ASSUME TypeInv, NEW c \in Calls,
           \/ \E n \in 1..MaxBatch, b \in BOOLEAN : BeginRun(c, n, b)
           \/ Enter(c) \/ UnknownId(c) \/ Evaluate(c)
           \/ \E v \in BOOLEAN : EvaluateRaises(c, v)
           \/ Record(c)
    PROVE  TypeInv'
  <1> USE SessionConstants
  <1>0. Idle \in Frames /\ Idle.phase = "idle"
    BY IdleIsFrame DEF Idle
  <1>a. call[c] \in Frames /\ call[c].todo \in Nat /\ call[c].res \in Optional(Results)
    BY DEF TypeInv, SessionTypeOK, Frames
  <1>b. ASSUME call' \in [Calls -> Frames] /\ BatchHasWork',
               UNCHANGED <<baseline, registered, result, succ, failed,
                           progress, log, rejects, faults>>
        PROVE  TypeInv'
    BY <1>b DEF TypeInv, SessionTypeOK, RegistryFinite
  <1>c. ASSUME Return(c) PROVE call' \in [Calls -> Frames] /\ BatchHasWork'
    <2>1. call' = [call EXCEPT ![c] = Idle]
      BY <1>c DEF Return
    <2> QED BY <1>0, <2>1, FrameType
  <1>d. ASSUME LeaveRun(c) PROVE call' \in [Calls -> Frames] /\ BatchHasWork'
    BY <1>d, LeaveRunType DEF TypeInv, BatchHasWork, InPhase
  <1>1. ASSUME NEW n \in 1..MaxBatch, NEW b \in BOOLEAN, BeginRun(c, n, b)
        PROVE  TypeInv'
    <2> DEFINE f == [call[c] EXCEPT !.phase = "choosing", !.todo = n, !.batch = b]
    <2>0. n \in Nat /\ n > 0
      BY MaxBatch \in Nat
    <2>1. f \in Frames /\ f.todo > 0
      BY <1>a, <2>0 DEF Frames
    <2>2. call' = [call EXCEPT ![c] = f]
      BY <1>1 DEF BeginRun
    <2> HIDE DEF f
    <2>3. call' \in [Calls -> Frames] /\ BatchHasWork'
      BY <2>1, <2>2, FrameType
    <2> QED BY <1>1, <1>b, <2>3 DEF BeginRun
  <1>2. CASE Enter(c)
    <2>1. PICK x \in registered :
            call' = [call EXCEPT ![c].phase = "evaluating", ![c].cand = x,
                                 ![c].todo = @ - 1]
      BY <1>2 DEF Enter
    <2> DEFINE f == [call[c] EXCEPT !.phase = "evaluating", !.cand = x, !.todo = @ - 1]
    <2>0. call[c].todo > 0
      BY <1>2 DEF Enter, TypeInv, BatchHasWork, InPhase
    <2>1a. call[c].todo - 1 \in Nat
      BY <1>a, <2>0
    <2>1b. x \in Optional(Candidates)
      BY DEF TypeInv, SessionTypeOK, Optional
    <2>2. call[c].todo - 1 \in Nat /\ x \in Optional(Candidates)
      BY <2>1a, <2>1b
    <2>a. "evaluating" \in RunPhases
      BY DEF RunPhases
    <2> DEFINE left == call[c].todo - 1
    <2>b. f = [[[call[c] EXCEPT !.phase = "evaluating"] EXCEPT !.cand = x] EXCEPT !.todo = left]
      BY <1>a DEF Frames
    <2>3. f \in Frames /\ f.phase = "evaluating"
      <3> HIDE DEF left
      <3> QED BY <1>a, <2>2, <2>a, <2>b DEF Frames
    <2>4. call' = [call EXCEPT ![c] = f]
      BY <2>1
    <2> HIDE DEF f
    <2>5. call' \in [Calls -> Frames] /\ BatchHasWork'
      BY <2>3, <2>4, FrameType
    <2> QED BY <1>2, <1>b, <2>5 DEF Enter
  <1>3. CASE UnknownId(c)
    BY <1>3, <1>b, <1>c DEF UnknownId
  <1>4. CASE Evaluate(c)
    <2>1. PICK r \in Outcomes(baseline.ok) :
            call' = [call EXCEPT ![c].phase = "recording", ![c].res = r]
      BY <1>4 DEF Evaluate
    <2> DEFINE f == [call[c] EXCEPT !.phase = "recording", !.res = r]
    <2>2. r \in Results
      BY <2>1 DEF Outcomes
    <2>3. f \in Frames /\ f.phase = "recording"
      BY <1>a, <2>2 DEF Frames, RunPhases, Optional
    <2>4. call' = [call EXCEPT ![c] = f]
      BY <2>1
    <2> HIDE DEF f
    <2>5. call' \in [Calls -> Frames] /\ BatchHasWork'
      BY <2>3, <2>4, FrameType
    <2> QED BY <1>4, <1>b, <2>5 DEF Evaluate
  <1>5. ASSUME NEW v \in BOOLEAN, EvaluateRaises(c, v) PROVE TypeInv'
    BY <1>5, <1>b, <1>c, <1>d DEF EvaluateRaises
  <1>6. CASE Record(c)
    <2>1. result' \in [Candidates -> Optional(Results)]
      BY <1>6, <1>a DEF Record, TypeInv, SessionTypeOK
    <2>2. call' \in [Calls -> Frames] /\ BatchHasWork'
      BY <1>6, GotoType DEF Record, RunPhases
    <2> QED BY <1>6, <2>1, <2>2 DEF Record, TypeInv, SessionTypeOK, RegistryFinite
  <1> QED BY <1>1, <1>2, <1>3, <1>4, <1>5, <1>6

\* Counting, reporting and ranking.
LEMMA CountType ==
    ASSUME TypeInv, NEW c \in Calls,
           Count(c) \/ Report(c) \/ BeginRanking(c) \/ EndRanking(c)
    PROVE  TypeInv'
  <1>a. /\ call[c] \in Frames /\ call[c].slots \in Nat
        /\ {"reporting", "ranking", "iterating", "logging"} \subseteq RunPhases
    BY DEF TypeInv, SessionTypeOK, Frames, RunPhases
  <1>1. ASSUME NEW p \in {"reporting", "ranking", "iterating", "logging"},
               NEW n \in Nat,
               \/ call' = [call EXCEPT ![c].phase = p, ![c].slots = n]
               \/ call' = [call EXCEPT ![c].phase = p, ![c].size = n]
        PROVE  call' \in [Calls -> Frames] /\ BatchHasWork'
    <2>1. CASE call' = [call EXCEPT ![c].phase = p, ![c].slots = n]
      <3> DEFINE f == [call[c] EXCEPT !.phase = p, !.slots = n]
      <3>1. f \in Frames /\ f.phase = p
        BY <1>a DEF Frames
      <3>2. call' = [call EXCEPT ![c] = f]
        BY <2>1
      <3> HIDE DEF f
      <3> QED BY <3>1, <3>2, FrameType
    <2>2. CASE call' = [call EXCEPT ![c].phase = p, ![c].size = n]
      <3> DEFINE f == [call[c] EXCEPT !.phase = p, !.size = n]
      <3>1. f \in Frames /\ f.phase = p
        BY <1>a DEF Frames
      <3>2. call' = [call EXCEPT ![c] = f]
        BY <2>2
      <3> HIDE DEF f
      <3> QED BY <3>1, <3>2, FrameType
    <2> QED BY <1>1, <2>1, <2>2
  <1>2. CASE Count(c)
    <2>1. succ' \in Nat /\ failed' \in Nat
      BY <1>2 DEF Count, TypeInv, SessionTypeOK
    <2>2. SlotsRemaining(succ') \in Nat
      BY <2>1, SlotsNat
    <2>3. PICK n \in Nat : n = SlotsRemaining(succ')
      BY <2>2
    <2>4. call' = [call EXCEPT ![c].phase = "reporting", ![c].slots = n]
      BY <1>2, <2>3 DEF Count
    <2>5. call' \in [Calls -> Frames] /\ BatchHasWork'
      BY <1>1, <2>4
    <2> QED BY <1>2, <2>1, <2>5 DEF Count, TypeInv, SessionTypeOK, RegistryFinite
  <1>3. CASE Report(c)
    <2>1. call' \in [Calls -> Frames] /\ BatchHasWork'
      BY <1>1, <1>3 DEF Report
    <2>2. progress' \in [succ : Nat, slots : Nat]
      BY <1>3, <1>a DEF Report, TypeInv, SessionTypeOK
    <2> QED BY <1>3, <2>1, <2>2 DEF Report, TypeInv, SessionTypeOK, RegistryFinite
  <1>4. CASE BeginRanking(c)
    <2>1. Cardinality(registered) \in Nat
      BY FS_CardinalityType DEF TypeInv, RegistryFinite
    <2>2. PICK n \in Nat : n = Cardinality(registered)
      BY <2>1
    <2>3. call' = [call EXCEPT ![c].phase = "iterating", ![c].size = n]
      BY <1>4, <2>2 DEF BeginRanking
    <2>4. call' \in [Calls -> Frames] /\ BatchHasWork'
      BY <1>1, <2>3
    <2> QED BY <1>4, <2>4 DEF BeginRanking, TypeInv, SessionTypeOK, RegistryFinite
  <1>5. CASE EndRanking(c)
    <2>1. call' \in [Calls -> Frames] /\ BatchHasWork'
      BY <1>1, <1>5 DEF EndRanking
    <2> QED BY <1>5, <2>1 DEF EndRanking, TypeInv, SessionTypeOK, RegistryFinite
  <1> QED BY <1>2, <1>3, <1>4, <1>5

\* The end of a run: cut short, logged, announced.
LEMMA EndType ==
    ASSUME TypeInv, NEW c \in Calls,
           LoseRun(c) \/ Log(c) \/ Finish(c)
    PROVE  TypeInv'
  <1>a. /\ faults \in Nat /\ rejects \in [Reasons -> Nat]
        /\ log.wins \in Nat /\ log.failures \in Nat
    BY DEF TypeInv, SessionTypeOK
  <1>b. ASSUME LeaveRun(c) PROVE call' \in [Calls -> Frames] /\ BatchHasWork'
    BY <1>b, LeaveRunType DEF TypeInv, BatchHasWork, InPhase
  <1>1. CASE LoseRun(c)
    <2>1. faults' \in Nat
      BY <1>1, <1>a DEF LoseRun
    <2> QED BY <1>1, <1>b, <2>1 DEF LoseRun, TypeInv, SessionTypeOK, RegistryFinite
  <1>2. CASE Log(c)
    <2>a. log \in [wins : Nat, failures : Nat]
      BY DEF TypeInv, SessionTypeOK
    <2>1. /\ faults' \in Nat
          /\ log' \in [wins : Nat, failures : Nat]
      BY <1>2, <1>a, <2>a DEF Log
    <2>2. call' \in [Calls -> Frames] /\ BatchHasWork'
      BY <1>2, GotoType DEF Log, RunPhases
    <2> QED BY <1>2, <2>1, <2>2 DEF Log, TypeInv, SessionTypeOK, RegistryFinite
  <1>3. CASE Finish(c)
    <2>1. faults' \in Nat
      BY <1>3, <1>a DEF Finish
    <2>2. rejects' \in [Reasons -> Nat]
      <3>1. ReasonOf(call[c].res) \in Reasons
        BY DEF ReasonOf, Reasons
      <3> QED BY <1>3, <1>a, <3>1 DEF Finish
    <2> QED BY <1>3, <1>b, <2>1, <2>2 DEF Finish, TypeInv, SessionTypeOK, RegistryFinite
  <1> QED BY <1>1, <1>2, <1>3

\* The session starts empty.
LEMMA TypeInit == SessionInit => TypeInv
  <1> SUFFICES ASSUME SessionInit PROVE TypeInv
    OBVIOUS
  <1>1. SessionTypeOK
    BY IdleIsFrame, SessionConstants DEF SessionInit, SessionTypeOK, Optional, Reasons
  <1>2. BatchHasWork
    BY DEF SessionInit, BatchHasWork, InPhase, Idle
  <1>3. RegistryFinite
    BY FS_EmptySet DEF SessionInit, RegistryFinite
  <1> QED BY <1>1, <1>2, <1>3 DEF TypeInv

\* Every step of a handler keeps the types.
LEMMA TypeStep == TypeInv /\ [SessionNext]_sessionVars => TypeInv'
  <1> SUFFICES ASSUME TypeInv, [SessionNext]_sessionVars PROVE TypeInv'
    OBVIOUS
  <1>1. ASSUME NEW c \in Calls, Invoke(c) PROVE TypeInv'
    <2>1. \/ \E n \in 1..MaxBatch : BeginPropose(c, n)
          \/ \E n \in 1..MaxBatch, b \in BOOLEAN : BeginRun(c, n, b)
      <3>1. 1 \in 1..MaxBatch
        BY SessionConstants
      <3> QED BY <1>1, <3>1 DEF Invoke
    <2> QED BY <2>1, ProposeType, RunType
  <1>2. ASSUME NEW c \in Calls, Advance(c) PROVE TypeInv'
    <2>1. CASE RegisterNext(c) \/ RegisterUnannounced(c) \/ RejectNext(c)
      BY <2>1, ProposeType
    <2>2. CASE \/ Enter(c) \/ UnknownId(c) \/ Evaluate(c)
               \/ \E v \in BOOLEAN : EvaluateRaises(c, v)
               \/ Record(c)
      BY <2>2, RunType
    <2>3. CASE Count(c) \/ Report(c) \/ BeginRanking(c) \/ EndRanking(c)
      BY <2>3, CountType
    <2>4. CASE RankingRaises(c) \/ EmitRaises(c) \/ Log(c) \/ Finish(c)
      BY <2>4, EndType DEF RankingRaises, EmitRaises
    <2> QED BY <1>2, <2>1, <2>2, <2>3, <2>4 DEF Advance
  <1>3. CASE UNCHANGED sessionVars
    BY <1>3 DEF sessionVars, TypeInv, SessionTypeOK, BatchHasWork, InPhase, RegistryFinite
  <1> QED BY <1>1, <1>2, <1>3 DEF SessionNext

\* The registry, the counters, the frames and the histories keep their types,
\* and the iteration over the registry always has a size to compare with
\* (run_candidate and the proposals, session.py:343-799).
THEOREM SessionTypeCorrect == SessionSpec => []SessionTypeOK
  <1>1. TypeInv => SessionTypeOK
    BY DEF TypeInv
  <1> QED BY <1>1, TypeInit, TypeStep, PTL DEF SessionSpec

-----------------------------------------------------------------------------
(* The accounts of a run. *)

\* The call owes the experiment log a win (the trace a rejection).
OwesWin(c) ==
    /\ call[c].phase \in {"reporting", "ranking", "iterating", "logging"}
    /\ Successful(call[c].res)
OwesNotice(c) ==
    /\ call[c].phase \in {"reporting", "ranking", "iterating", "logging", "finishing"}
    /\ ~Successful(call[c].res)

\* It has logged a failed compile and not announced it.
OwesMatch(c) == call[c].phase = "finishing" /\ ~call[c].res.compiled

Wins == Cardinality(UnloggedWins)
Notices == Cardinality(UnannouncedFailures)
Matches == Cardinality(LoggedCompileFailures)

\* Taking an element in or out of a finite set.
LEMMA OneElement ==
    ASSUME NEW S, IsFiniteSet(S), NEW c
    PROVE  /\ Cardinality(S \cup {c}) = IF c \in S THEN Cardinality(S) ELSE Cardinality(S) + 1
           /\ Cardinality(S \ {c}) = IF c \in S THEN Cardinality(S) - 1 ELSE Cardinality(S)
  BY FS_AddElement, FS_RemoveElement

\* Sets of calls are finite.
LEMMA CountsNat ==
    /\ IsFiniteSet(UnloggedWins) /\ Wins \in Nat
    /\ IsFiniteSet(UnannouncedFailures) /\ Notices \in Nat
    /\ IsFiniteSet(LoggedCompileFailures) /\ Matches \in Nat
  <1>1. /\ UnloggedWins \subseteq Calls /\ UnannouncedFailures \subseteq Calls
        /\ LoggedCompileFailures \subseteq Calls
    BY DEF UnloggedWins, UnannouncedFailures, LoggedCompileFailures, InFlight
  <1> QED BY <1>1, FS_Subset, FS_CardinalityType, SessionConstants DEF Wins, Notices, Matches

\* When one call moves, what is pending changes by what it owed before and owes
\* now.
LEMMA OneCallMoves ==
    ASSUME NEW c \in Calls, \A d \in Calls : d # c => call'[d] = call[d]
    PROVE  /\ OwesWin(c)' => Wins' = IF OwesWin(c) THEN Wins ELSE Wins + 1
           /\ ~OwesWin(c)' => Wins' = IF OwesWin(c) THEN Wins - 1 ELSE Wins
           /\ OwesNotice(c)' => Notices' = IF OwesNotice(c) THEN Notices ELSE Notices + 1
           /\ ~OwesNotice(c)' => Notices' = IF OwesNotice(c) THEN Notices - 1 ELSE Notices
           /\ OwesMatch(c)' => Matches' = IF OwesMatch(c) THEN Matches ELSE Matches + 1
           /\ ~OwesMatch(c)' => Matches' = IF OwesMatch(c) THEN Matches - 1 ELSE Matches
  <1>1. ASSUME NEW S, NEW T, IsFiniteSet(S), \A d : d # c => (d \in T <=> d \in S)
        PROVE  /\ c \in T => Cardinality(T) = IF c \in S THEN Cardinality(S)
                                              ELSE Cardinality(S) + 1
               /\ c \notin T => Cardinality(T) = IF c \in S THEN Cardinality(S) - 1
                                                 ELSE Cardinality(S)
    <2>1. /\ c \in T => T = S \cup {c}
          /\ c \notin T => T = S \ {c}
      BY <1>1
    <2> QED BY <1>1, <2>1, OneElement
  <1>2. /\ \A d : d # c => (d \in UnloggedWins' <=> d \in UnloggedWins)
        /\ \A d : d # c => (d \in UnannouncedFailures' <=> d \in UnannouncedFailures)
        /\ \A d : d # c => (d \in LoggedCompileFailures' <=> d \in LoggedCompileFailures)
    BY DEF UnloggedWins, UnannouncedFailures, LoggedCompileFailures, InFlight
  <1>3. /\ c \in UnloggedWins <=> OwesWin(c)
        /\ c \in UnannouncedFailures <=> OwesNotice(c)
        /\ c \in LoggedCompileFailures <=> OwesMatch(c)
    BY DEF UnloggedWins, UnannouncedFailures, LoggedCompileFailures, InFlight,
           OwesWin, OwesNotice, OwesMatch
  <1>4. /\ c \in UnloggedWins' <=> OwesWin(c)'
        /\ c \in UnannouncedFailures' <=> OwesNotice(c)'
        /\ c \in LoggedCompileFailures' <=> OwesMatch(c)'
    BY DEF UnloggedWins, UnannouncedFailures, LoggedCompileFailures, InFlight,
           OwesWin, OwesNotice, OwesMatch
  <1>5. /\ Wins' = Cardinality(UnloggedWins') /\ Wins = Cardinality(UnloggedWins)
        /\ Notices' = Cardinality(UnannouncedFailures')
        /\ Notices = Cardinality(UnannouncedFailures)
        /\ Matches' = Cardinality(LoggedCompileFailures')
        /\ Matches = Cardinality(LoggedCompileFailures)
    BY DEF Wins, Notices, Matches
  <1>6. /\ OwesWin(c)' => Wins' = IF OwesWin(c) THEN Wins ELSE Wins + 1
        /\ ~OwesWin(c)' => Wins' = IF OwesWin(c) THEN Wins - 1 ELSE Wins
    BY <1>1, <1>2, <1>3, <1>4, <1>5, CountsNat
  <1>7. /\ OwesNotice(c)' => Notices' = IF OwesNotice(c) THEN Notices ELSE Notices + 1
        /\ ~OwesNotice(c)' => Notices' = IF OwesNotice(c) THEN Notices - 1 ELSE Notices
    BY <1>1, <1>2, <1>3, <1>4, <1>5, CountsNat
  <1>8. /\ OwesMatch(c)' => Matches' = IF OwesMatch(c) THEN Matches ELSE Matches + 1
        /\ ~OwesMatch(c)' => Matches' = IF OwesMatch(c) THEN Matches - 1 ELSE Matches
    BY <1>1, <1>2, <1>3, <1>4, <1>5, CountsNat
  <1> QED BY <1>6, <1>7, <1>8

\* What the accounts say, in the numbers that the steps move.
Balanced(rows, events, unmatched, n) ==
    /\ rows >= 0 /\ events >= 0
    /\ rows + events <= n
    /\ unmatched \in -n..n

LEMMA AccountsInNumbers ==
    AccountsBalance <=>
        Balanced(succ - log.wins - Wins, failed - Rejections - Notices,
                 log.failures - rejects.compile_failed - Matches, faults)
  BY DEF AccountsBalance, Balanced, MissingRows, MissingEvents, UnmatchedFailures,
         Wins, Notices, Matches

\* A fault may cost a row, an event, and the agreement of log and trace.
LEMMA FaultPays ==
    ASSUME NEW rows \in Int, NEW events \in Int, NEW unmatched \in Int, NEW n \in Nat,
           Balanced(rows, events, unmatched, n),
           NEW r \in Int, NEW e \in Int, NEW u \in Int,
           r \in {rows, rows + 1}, e \in {events, events + 1},
           r = rows \/ e = events,
           u \in {unmatched - 1, unmatched, unmatched + 1}
    PROVE  Balanced(r, e, u, n + 1)
  BY DEF Balanced

\* The numbers are numbers.
LEMMA NumbersTyped ==
    ASSUME TypeInv
    PROVE  /\ succ \in Nat /\ failed \in Nat /\ faults \in Nat
           /\ log.wins \in Nat /\ log.failures \in Nat
           /\ rejects.compile_failed \in Nat /\ rejects.correctness_drift \in Nat
           /\ rejects.no_timing \in Nat /\ Rejections \in Nat
           /\ Wins \in Nat /\ Notices \in Nat /\ Matches \in Nat
           /\ succ - log.wins - Wins \in Int
           /\ failed - Rejections - Notices \in Int
           /\ log.failures - rejects.compile_failed - Matches \in Int
  <1>1. /\ succ \in Nat /\ failed \in Nat /\ faults \in Nat
        /\ log.wins \in Nat /\ log.failures \in Nat
        /\ rejects \in [Reasons -> Nat]
    BY DEF TypeInv, SessionTypeOK
  <1>2. /\ rejects.compile_failed \in Nat /\ rejects.correctness_drift \in Nat
        /\ rejects.no_timing \in Nat
    BY <1>1 DEF Reasons
  <1>3. Rejections \in Nat
    BY <1>2 DEF Rejections
  <1>4. Wins \in Nat /\ Notices \in Nat /\ Matches \in Nat
    BY CountsNat
  <1> QED BY <1>1, <1>2, <1>3, <1>4

\* A step that moves one call and no account.
LEMMA Undisturbed ==
    ASSUME TypeInv, AccountsBalance, NEW c \in Calls,
           \A d \in Calls : d # c => call'[d] = call[d],
           UNCHANGED <<succ, failed, log, rejects, faults>>,
           OwesWin(c)' <=> OwesWin(c), OwesNotice(c)' <=> OwesNotice(c),
           OwesMatch(c)' <=> OwesMatch(c)
    PROVE  AccountsBalance'
  <1>1. Wins' = Wins /\ Notices' = Notices /\ Matches' = Matches
    BY OneCallMoves
  <1>2. Rejections' = Rejections
    BY DEF Rejections
  <1>3. AccountsBalance' <=>
            Balanced(succ' - log'.wins - Wins', failed' - Rejections' - Notices',
                     log'.failures - rejects'.compile_failed - Matches', faults')
    BY DEF AccountsBalance, Balanced, MissingRows, MissingEvents, UnmatchedFailures,
           Wins, Notices, Matches
  <1> QED BY <1>1, <1>2, <1>3, AccountsInNumbers

\* Before the run is counted nothing is owed.
LEMMA BalanceEarly ==
    ASSUME TypeInv, AccountsBalance, NEW c \in Calls,
           \/ \E n \in 1..MaxBatch : BeginPropose(c, n)
           \/ RegisterNext(c) \/ RegisterUnannounced(c) \/ RejectNext(c)
           \/ \E n \in 1..MaxBatch, b \in BOOLEAN : BeginRun(c, n, b)
           \/ Enter(c) \/ UnknownId(c) \/ Evaluate(c)
           \/ \E v \in BOOLEAN : EvaluateRaises(c, v)
           \/ Record(c)
    PROVE  AccountsBalance'
  <1> DEFINE Early == {"idle", "proposing", "choosing", "evaluating", "recording", "counting"}
  <1>a. call \in [Calls -> Frames]
    BY DEF TypeInv, SessionTypeOK
  <1>b. ASSUME Return(c)
        PROVE  call'[c].phase \in Early /\ \A d \in Calls : d # c => call'[d] = call[d]
    BY <1>a, <1>b DEF Return, Idle
  <1>c. ASSUME LeaveRun(c)
        PROVE  call'[c].phase \in Early /\ \A d \in Calls : d # c => call'[d] = call[d]
    BY <1>c, LeaveRunType
  <1>1. /\ call[c].phase \in Early /\ call'[c].phase \in Early
        /\ \A d \in Calls : d # c => call'[d] = call[d]
        /\ UNCHANGED <<succ, failed, log, rejects, faults>>
    <2>1. CASE \E n \in 1..MaxBatch : BeginPropose(c, n)
      BY <1>a, <2>1, ZenonT(60) DEF BeginPropose, InPhase, Frames
    <2>2. CASE RegisterNext(c)
      <3>1. CASE call[c].todo > 1
        BY <1>a, <2>2, <3>1 DEF RegisterNext, InPhase, Frames
      <3>2. CASE ~(call[c].todo > 1)
        BY <1>b, <2>2, <3>2 DEF RegisterNext, InPhase
      <3> QED BY <3>1, <3>2
    <2>3. CASE RegisterUnannounced(c) \/ RejectNext(c)
      BY <1>b, <2>3 DEF RegisterUnannounced, RejectNext, InPhase
    <2>4. CASE \E n \in 1..MaxBatch, b \in BOOLEAN : BeginRun(c, n, b)
      <3>1. PICK n \in 1..MaxBatch, b \in BOOLEAN : BeginRun(c, n, b)
        BY <2>4
      <3>2. call' = [call EXCEPT ![c] = [call[c] EXCEPT !.phase = "choosing", !.todo = n,
                                                        !.batch = b]]
        BY <3>1 DEF BeginRun
      <3>3. call'[c].phase = "choosing"
        BY <1>a, <3>2 DEF Frames
      <3> QED BY <1>a, <3>1, <3>2, <3>3 DEF BeginRun, InPhase
    <2>5. CASE Enter(c) \/ Evaluate(c) \/ Record(c)
      BY <1>a, <2>5, ZenonT(60) DEF Enter, Evaluate, Record, Goto, InPhase, Frames
    <2>6. CASE UnknownId(c)
      BY <1>b, <2>6 DEF UnknownId, InPhase
    <2>7. CASE \E v \in BOOLEAN : EvaluateRaises(c, v)
      BY <1>b, <1>c, <2>7 DEF EvaluateRaises, InPhase
    <2> QED BY <2>1, <2>2, <2>3, <2>4, <2>5, <2>6, <2>7
  <1>2. /\ ~OwesWin(c) /\ ~OwesNotice(c) /\ ~OwesMatch(c)
        /\ ~OwesWin(c)' /\ ~OwesNotice(c)' /\ ~OwesMatch(c)'
    BY <1>1 DEF OwesWin, OwesNotice, OwesMatch
  <1> QED BY <1>1, <1>2, Undisturbed

\* Counting creates the debt that logging or announcing pays.
LEMMA BalanceLate ==
    ASSUME TypeInv, AccountsBalance, NEW c \in Calls,
           \/ Count(c) \/ Report(c) \/ BeginRanking(c) \/ EndRanking(c)
           \/ RankingRaises(c) \/ EmitRaises(c) \/ Log(c) \/ Finish(c)
    PROVE  AccountsBalance'
  <1> DEFINE rows == succ - log.wins - Wins
             events == failed - Rejections - Notices
             unmatched == log.failures - rejects.compile_failed - Matches
  <1>a. call \in [Calls -> Frames] /\ rejects \in [Reasons -> Nat]
    BY DEF TypeInv, SessionTypeOK
  <1>b. /\ succ \in Nat /\ failed \in Nat /\ faults \in Nat
        /\ log.wins \in Nat /\ log.failures \in Nat
        /\ rejects.compile_failed \in Nat /\ rejects.correctness_drift \in Nat
        /\ rejects.no_timing \in Nat /\ Rejections \in Nat
        /\ Wins \in Nat /\ Notices \in Nat /\ Matches \in Nat
    BY NumbersTyped
  <1>c. Balanced(rows, events, unmatched, faults)
    BY AccountsInNumbers
  <1>d. AccountsBalance' <=> Balanced(rows', events', unmatched', faults')
    BY DEF AccountsBalance, Balanced, MissingRows, MissingEvents, UnmatchedFailures,
           Wins, Notices, Matches
  <1>e. log \in [wins : Nat, failures : Nat]
    BY DEF TypeInv, SessionTypeOK
  <1>f. ASSUME rows' = rows, events' = events, unmatched' = unmatched, faults' = faults
        PROVE  AccountsBalance'
    BY <1>c, <1>d, <1>f
  <1>g. ASSUME rows' \in {rows, rows + 1}, events' \in {events, events + 1},
               rows' = rows \/ events' = events,
               unmatched' \in {unmatched - 1, unmatched, unmatched + 1},
               faults' = faults + 1
        PROVE  AccountsBalance'
    <2>1. /\ rows \in Int /\ events \in Int /\ unmatched \in Int /\ faults \in Nat
          /\ rows' \in Int /\ events' \in Int /\ unmatched' \in Int
      BY <1>b, <1>g
    <2> HIDE DEF rows, events, unmatched
    <2> QED BY <1>c, <1>d, <1>g, <2>1, FaultPays
  <1>1. CASE Count(c)
    <2>1. /\ call[c].phase = "counting" /\ call'[c].phase = "reporting"
          /\ call'[c].res = call[c].res
          /\ \A d \in Calls : d # c => call'[d] = call[d]
      BY <1>1, <1>a DEF Count, InPhase, Frames
    <2>2. /\ ~OwesWin(c) /\ ~OwesNotice(c) /\ ~OwesMatch(c) /\ ~OwesMatch(c)'
      BY <2>1 DEF OwesWin, OwesNotice, OwesMatch
    <2>3. UNCHANGED <<log, rejects, faults, Rejections>>
      BY <1>1 DEF Count, Rejections
    <2>4. Matches' = Matches
      BY <2>1, <2>2, OneCallMoves
    <2>5. CASE Successful(call[c].res)
      <3>1. OwesWin(c)' /\ ~OwesNotice(c)'
        BY <2>1, <2>5 DEF OwesWin, OwesNotice, Successful, HasSignal
      <3>2. Wins' = Wins + 1 /\ Notices' = Notices
        BY <2>1, <2>2, <3>1, OneCallMoves
      <3>3. succ' = succ + 1 /\ failed' = failed
        BY <1>1, <2>5 DEF Count
      <3> QED BY <1>b, <1>f, <2>3, <2>4, <3>2, <3>3
    <2>6. CASE ~Successful(call[c].res)
      <3>1. ~OwesWin(c)' /\ OwesNotice(c)'
        BY <2>1, <2>6 DEF OwesWin, OwesNotice, Successful, HasSignal
      <3>2. Wins' = Wins /\ Notices' = Notices + 1
        BY <2>1, <2>2, <3>1, OneCallMoves
      <3>3. succ' = succ /\ failed' = failed + 1
        BY <1>1, <2>6 DEF Count
      <3> QED BY <1>b, <1>f, <2>3, <2>4, <3>2, <3>3
    <2> QED BY <2>5, <2>6
  <1>2. CASE Report(c) \/ BeginRanking(c) \/ EndRanking(c)
    <2>1. /\ call[c].phase \in {"reporting", "ranking", "iterating"}
          /\ call'[c].phase \in {"ranking", "iterating", "logging"}
          /\ call'[c].res = call[c].res
          /\ \A d \in Calls : d # c => call'[d] = call[d]
      BY <1>2, <1>a DEF Report, BeginRanking, EndRanking, InPhase, Frames
    <2>2. OwesWin(c)' <=> OwesWin(c)
      BY <2>1 DEF OwesWin, Successful, HasSignal
    <2>3. OwesNotice(c)' <=> OwesNotice(c)
      BY <2>1 DEF OwesNotice, Successful, HasSignal
    <2>4. UNCHANGED <<succ, failed, log, rejects, faults>>
      BY <1>2 DEF Report, BeginRanking, EndRanking
    <2>5. OwesMatch(c)' <=> OwesMatch(c)
      BY <2>1 DEF OwesMatch
    <2> QED BY <2>1, <2>2, <2>3, <2>4, <2>5, Undisturbed
  <1>3. CASE RankingRaises(c) \/ EmitRaises(c)
    <2>1. call[c].phase \in {"reporting", "iterating"} /\ LoseRun(c)
      BY <1>3 DEF RankingRaises, EmitRaises, InPhase
    <2>2. /\ call'[c].phase \in {"idle", "choosing"}
          /\ \A d \in Calls : d # c => call'[d] = call[d]
      BY <2>1, LeaveRunType DEF LoseRun
    <2>3. ~OwesWin(c)' /\ ~OwesNotice(c)' /\ ~OwesMatch(c)' /\ ~OwesMatch(c)
      BY <2>1, <2>2 DEF OwesWin, OwesNotice, OwesMatch
    <2>4. /\ UNCHANGED <<succ, failed, log, rejects, Rejections>>
          /\ faults' = faults + 1
      BY <2>1 DEF LoseRun, Rejections
    <2>5. Matches' = Matches
      BY <2>2, <2>3, OneCallMoves
    <2>6. CASE Successful(call[c].res)
      <3>1. OwesWin(c) /\ ~OwesNotice(c)
        BY <2>1, <2>6 DEF OwesWin, OwesNotice
      <3>2. Wins' = Wins - 1 /\ Notices' = Notices
        BY <2>2, <2>3, <3>1, OneCallMoves
      <3>3. rows' = rows + 1 /\ events' = events /\ unmatched' = unmatched
        BY <1>b, <2>4, <2>5, <3>2
      <3> HIDE DEF rows, events, unmatched
      <3> QED BY <1>g, <2>4, <3>3
    <2>7. CASE ~Successful(call[c].res)
      <3>1. ~OwesWin(c) /\ OwesNotice(c)
        BY <2>1, <2>7 DEF OwesWin, OwesNotice
      <3>2. Wins' = Wins /\ Notices' = Notices - 1
        BY <2>2, <2>3, <3>1, OneCallMoves
      <3>3. rows' = rows /\ events' = events + 1 /\ unmatched' = unmatched
        BY <1>b, <2>4, <2>5, <3>2
      <3> HIDE DEF rows, events, unmatched
      <3> QED BY <1>g, <2>4, <3>3
    <2> QED BY <2>6, <2>7
  <1>4. CASE Log(c)
    <2>1. /\ call[c].phase = "logging" /\ call'[c].phase = "finishing"
          /\ call'[c].res = call[c].res
          /\ \A d \in Calls : d # c => call'[d] = call[d]
      BY <1>4, <1>a DEF Log, Goto, InPhase, Frames
    <2>2. /\ ~OwesWin(c)' /\ (OwesNotice(c)' <=> OwesNotice(c))
          /\ ~OwesMatch(c) /\ (OwesMatch(c)' <=> ~call[c].res.compiled)
          /\ (OwesWin(c) <=> Successful(call[c].res))
      BY <2>1 DEF OwesWin, OwesNotice, OwesMatch, Successful, HasSignal
    <2>3. /\ Notices' = Notices
          /\ Wins' = IF Successful(call[c].res) THEN Wins - 1 ELSE Wins
          /\ Matches' = IF call[c].res.compiled THEN Matches ELSE Matches + 1
      BY <2>1, <2>2, OneCallMoves
    <2>4. UNCHANGED <<succ, failed, rejects, Rejections>>
      BY <1>4 DEF Log, Rejections
    <2>5. Successful(call[c].res) => call[c].res.compiled
      BY DEF Successful
    <2>6. CASE UNCHANGED faults
      <3>1. /\ log'.wins = IF Successful(call[c].res) THEN log.wins + 1 ELSE log.wins
            /\ log'.failures = IF call[c].res.compiled THEN log.failures
                               ELSE log.failures + 1
        <4>1. faults' # faults + 1
          BY <1>b, <2>6
        <4>2. log' = [wins |-> log.wins + (IF Successful(call[c].res) THEN 1 ELSE 0),
                      failures |-> log.failures + (IF call[c].res.compiled THEN 0 ELSE 1)]
          BY <1>4, <4>1 DEF Log
        <4> QED BY <1>b, <4>2
      <3>2. unmatched' = unmatched
        BY <1>b, <2>3, <2>4, <3>1
      <3>3. events' = events
        BY <1>b, <2>3, <2>4
      <3>4. rows' = rows
        BY <1>b, <2>3, <2>4, <3>1
      <3> HIDE DEF rows, events, unmatched
      <3> QED BY <1>f, <2>6, <3>2, <3>3, <3>4
    <2>7. CASE faults' # faults
      <3>1. log' = log /\ LeavesRow(call[c].res) /\ faults' = faults + 1
        BY <1>4, <2>7 DEF Log
      <3>2. /\ rows' \in {rows, rows + 1} /\ events' = events
            /\ unmatched' \in {unmatched - 1, unmatched}
        BY <1>b, <2>3, <2>4, <3>1
      <3> HIDE DEF rows, events, unmatched
      <3> QED BY <1>g, <3>1, <3>2
    <2> QED BY <2>6, <2>7
  <1>5. CASE Finish(c)
    <2> DEFINE why == ReasonOf(call[c].res)
    <2>1. /\ call[c].phase = "finishing"
          /\ call'[c].phase \in {"idle", "choosing"}
          /\ \A d \in Calls : d # c => call'[d] = call[d]
      BY <1>5, LeaveRunType DEF Finish, InPhase
    <2>2. /\ ~OwesWin(c) /\ ~OwesWin(c)' /\ ~OwesNotice(c)' /\ ~OwesMatch(c)'
          /\ (OwesNotice(c) <=> ~Successful(call[c].res))
          /\ (OwesMatch(c) <=> ~call[c].res.compiled)
      BY <2>1 DEF OwesWin, OwesNotice, OwesMatch
    <2>3. /\ Wins' = Wins
          /\ Notices' = IF Successful(call[c].res) THEN Notices ELSE Notices - 1
          /\ Matches' = IF call[c].res.compiled THEN Matches ELSE Matches - 1
      BY <2>1, <2>2, OneCallMoves
    <2>4. UNCHANGED <<succ, failed, log>>
      BY <1>5 DEF Finish
    <2>5. /\ Successful(call[c].res) => call[c].res.compiled
          /\ why = "compile_failed" <=> ~call[c].res.compiled
          /\ why \in Reasons
      BY DEF Successful, ReasonOf, Reasons
    <2>6. CASE UNCHANGED faults
      <3>1. CASE Successful(call[c].res)
        <4>1. UNCHANGED <<rejects, Rejections>>
          BY <1>5, <1>b, <2>6, <3>1 DEF Finish, Rejections
        <4>2. rows' = rows /\ events' = events /\ unmatched' = unmatched
          BY <1>b, <2>3, <2>4, <2>5, <3>1, <4>1
        <4> HIDE DEF rows, events, unmatched
        <4> QED BY <1>f, <2>6, <4>2
      <3>2. CASE ~Successful(call[c].res)
        <4>1. rejects' = [rejects EXCEPT ![why] = rejects[why] + 1]
          <5>1. faults' # faults + 1
            BY <1>b, <2>6
          <5> QED BY <1>5, <3>2, <5>1 DEF Finish
        <4>2. /\ rejects'.compile_failed = IF why = "compile_failed"
                     THEN rejects.compile_failed + 1 ELSE rejects.compile_failed
              /\ rejects'.correctness_drift = IF why = "correctness_drift"
                     THEN rejects.correctness_drift + 1 ELSE rejects.correctness_drift
              /\ rejects'.no_timing = IF why = "no_timing"
                     THEN rejects.no_timing + 1 ELSE rejects.no_timing
          <5> HIDE DEF why
          <5>1. /\ DOMAIN rejects = Reasons
                /\ "compile_failed" \in Reasons /\ "correctness_drift" \in Reasons
                /\ "no_timing" \in Reasons
            BY <1>a DEF Reasons
          <5> QED BY <4>1, <5>1
        <4>3. Rejections' = Rejections + 1
          BY <1>b, <2>5, <4>2 DEF Rejections, Reasons
        <4>4. rows' = rows /\ events' = events /\ unmatched' = unmatched
          BY <1>b, <2>3, <2>4, <2>5, <3>2, <4>2, <4>3
        <4> HIDE DEF rows, events, unmatched
        <4> QED BY <1>f, <2>6, <4>4
      <3> QED BY <3>1, <3>2
    <2>7. CASE faults' # faults
      <3>1. /\ UNCHANGED <<rejects, Rejections>> /\ ~Successful(call[c].res)
            /\ faults' = faults + 1
        BY <1>5, <2>7 DEF Finish, Rejections
      <3>2. /\ rows' = rows /\ events' = events + 1
            /\ unmatched' \in {unmatched, unmatched + 1}
        BY <1>b, <2>3, <2>4, <3>1
      <3> HIDE DEF rows, events, unmatched
      <3> QED BY <1>g, <3>1, <3>2
    <2> QED BY <2>6, <2>7
  <1> QED BY <1>1, <1>2, <1>3, <1>4, <1>5

\* Every step of a handler keeps the accounts.
LEMMA BalanceStep ==
    TypeInv /\ AccountsBalance /\ [SessionNext]_sessionVars => AccountsBalance'
  <1> SUFFICES ASSUME TypeInv, AccountsBalance, [SessionNext]_sessionVars
               PROVE  AccountsBalance'
    OBVIOUS
  <1>1. ASSUME NEW c \in Calls, Invoke(c) PROVE AccountsBalance'
    <2>1. \/ \E n \in 1..MaxBatch : BeginPropose(c, n)
          \/ \E n \in 1..MaxBatch, b \in BOOLEAN : BeginRun(c, n, b)
      <3>1. 1 \in 1..MaxBatch
        BY SessionConstants
      <3> QED BY <1>1, <3>1 DEF Invoke
    <2> QED BY <2>1, BalanceEarly
  <1>2. ASSUME NEW c \in Calls, Advance(c) PROVE AccountsBalance'
    <2>1. CASE \/ RegisterNext(c) \/ RegisterUnannounced(c) \/ RejectNext(c)
               \/ Enter(c) \/ UnknownId(c) \/ Evaluate(c)
               \/ \E v \in BOOLEAN : EvaluateRaises(c, v)
               \/ Record(c)
      BY <2>1, BalanceEarly
    <2>2. CASE \/ Count(c) \/ Report(c) \/ BeginRanking(c) \/ EndRanking(c)
               \/ RankingRaises(c) \/ EmitRaises(c) \/ Log(c) \/ Finish(c)
      BY <2>2, BalanceLate
    <2> QED BY <1>2, <2>1, <2>2 DEF Advance
  <1>3. CASE UNCHANGED sessionVars
    BY <1>3 DEF sessionVars, AccountsBalance, MissingRows, MissingEvents, Rejections,
                UnmatchedFailures, UnloggedWins, UnannouncedFailures,
                LoggedCompileFailures, InFlight, Successful, HasSignal
  <1> QED BY <1>1, <1>2, <1>3 DEF SessionNext

\* The budget counters, the experiment log and the trace agree on every run,
\* up to the calls that still owe a row or an event and one record for each
\* fault: for any number of concurrent calls.
THEOREM RunsAreAccountedFor == SessionSpec => []AccountsBalance
  <1>1. SessionInit => AccountsBalance
    <2> SUFFICES ASSUME SessionInit PROVE AccountsBalance
      OBVIOUS
    <2>1. UnloggedWins = {} /\ UnannouncedFailures = {} /\ LoggedCompileFailures = {}
      BY DEF SessionInit, UnloggedWins, UnannouncedFailures, LoggedCompileFailures,
             InFlight, Idle
    <2>2. /\ Cardinality(UnloggedWins) = 0 /\ Cardinality(UnannouncedFailures) = 0
          /\ Cardinality(LoggedCompileFailures) = 0
      BY <2>1, FS_EmptySet
    <2> QED BY <2>2 DEF SessionInit, AccountsBalance, MissingRows, MissingEvents,
                        UnmatchedFailures, Rejections
  <1> QED BY <1>1, TypeInit, TypeStep, BalanceStep, PTL DEF SessionSpec

-----------------------------------------------------------------------------
(* What the session tells the agent and shows on the leaderboard, against  *)
(* its budget counters, for any number of overlapping calls.               *)

\* A call about to report its slots computed them from no later counters.
SlotsCarried ==
    \A c \in Calls : InPhase(c, "reporting") => call[c].slots >= SlotsRemaining(succ)

\* Results belong to registered candidates, and so do the runs in flight.
ResultsRegistered ==
    /\ \A x \in Candidates : result[x] # None => x \in registered
    /\ \A c \in InFlight({"evaluating", "recording"}) : call[c].cand \in registered

\* Wins that are in the registry and not in the counters yet.
Uncounted == {c \in InFlight({"counting"}) : Successful(call[c].res)}

LedgerInv ==
    /\ TypeInv /\ SlotsCarried /\ ResultsRegistered
    /\ SlotsNeverUnderstated /\ WinnersWereCounted

-----------------------------------------------------------------------------
\* Counting a success can only use slots up.
LEMMA SlotsShrink ==
    ASSUME NEW n \in Nat
    PROVE  /\ SlotsRemaining(n) \in Nat /\ SlotsRemaining(n + 1) \in Nat
           /\ SlotsRemaining(n + 1) <= SlotsRemaining(n)
  BY SessionConstants DEF SlotsRemaining

\* Winners and uncounted wins can be counted.
LEMMA LedgersFinite ==
    ASSUME TypeInv
    PROVE  /\ IsFiniteSet(Winners) /\ Cardinality(Winners) \in Nat
           /\ IsFiniteSet(Uncounted) /\ Cardinality(Uncounted) \in Nat
  <1>1. Winners \subseteq registered /\ Uncounted \subseteq Calls
    BY DEF Winners, Uncounted, InFlight
  <1> QED BY <1>1, FS_Subset, FS_CardinalityType, SessionConstants DEF TypeInv, RegistryFinite

\* A step that neither records, counts nor reports.
LEMMA LedgersUntouched ==
    ASSUME LedgerInv, TypeInv', NEW c \in Calls,
           \A d \in Calls : d # c => call'[d] = call[d],
           UNCHANGED <<succ, progress, result>>, registered \subseteq registered',
           call[c].phase # "counting", call'[c].phase \notin {"counting", "reporting"},
           call'[c].phase \in {"evaluating", "recording"} => call'[c].cand \in registered'
    PROVE  LedgerInv'
  <1> USE DEF LedgerInv
  <1>1. SlotsCarried'
    BY DEF SlotsCarried, InPhase, SlotsRemaining
  <1>2. ResultsRegistered'
    BY DEF ResultsRegistered, InFlight
  <1>3. SlotsNeverUnderstated'
    BY DEF SlotsNeverUnderstated, SlotsRemaining
  <1>4. WinnersWereCounted'
    <2>1. Uncounted' = Uncounted
      BY DEF Uncounted, InFlight, Successful, HasSignal
    <2>2. Winners' = Winners
      <3>1. registered' \subseteq Candidates /\ registered \subseteq Candidates
        BY DEF TypeInv, SessionTypeOK
      <3> QED BY <3>1 DEF Winners, ResultsRegistered, Successful, HasSignal
    <2> QED BY <2>1, <2>2 DEF WinnersWereCounted, Uncounted
  <1> QED BY <1>1, <1>2, <1>3, <1>4

\* Proposals, and a run up to its evaluation.
LEMMA EarlyLedgers ==
    ASSUME LedgerInv, TypeInv', NEW c \in Calls,
           \/ \E n \in 1..MaxBatch : BeginPropose(c, n)
           \/ RegisterNext(c) \/ RegisterUnannounced(c) \/ RejectNext(c)
           \/ \E n \in 1..MaxBatch, b \in BOOLEAN : BeginRun(c, n, b)
           \/ Enter(c) \/ UnknownId(c) \/ Evaluate(c)
           \/ \E v \in BOOLEAN : EvaluateRaises(c, v)
    PROVE  LedgerInv'
  <1>a. call \in [Calls -> Frames] /\ TypeInv
    BY DEF LedgerInv, TypeInv, SessionTypeOK
  <1>b. ASSUME Return(c)
        PROVE  call'[c].phase = "idle" /\ \A d \in Calls : d # c => call'[d] = call[d]
    BY <1>a, <1>b DEF Return, Idle
  <1>c. ASSUME LeaveRun(c)
        PROVE  /\ call'[c].phase \in {"idle", "choosing"}
               /\ \A d \in Calls : d # c => call'[d] = call[d]
    BY <1>a, <1>c, LeaveRunType
  <1>d. call[c].phase \in {"idle", "proposing", "choosing", "evaluating"}
    BY DEF BeginPropose, RegisterNext, RegisterUnannounced, RejectNext, BeginRun, Enter,
           UnknownId, Evaluate, EvaluateRaises, InPhase
  <1>e. UNCHANGED <<succ, progress, result>> /\ registered \subseteq registered'
    BY DEF BeginPropose, RegisterNext, RegisterUnannounced, RejectNext, BeginRun, Enter,
           UnknownId, Evaluate, EvaluateRaises
  <1>1. CASE \E n \in 1..MaxBatch : BeginPropose(c, n)
    <2>1. call'[c].phase = "proposing" /\ \A d \in Calls : d # c => call'[d] = call[d]
      BY <1>a, <1>1 DEF BeginPropose, Frames
    <2> QED BY <1>d, <1>e, <2>1, LedgersUntouched
  <1>2. CASE RegisterNext(c)
    <2>1. /\ call'[c].phase \in {"idle", "proposing"}
          /\ \A d \in Calls : d # c => call'[d] = call[d]
      <3>1. CASE call[c].todo > 1
        BY <1>a, <1>2, <3>1 DEF RegisterNext, InPhase, Frames
      <3>2. CASE ~(call[c].todo > 1)
        BY <1>b, <1>2, <3>2 DEF RegisterNext
      <3> QED BY <3>1, <3>2
    <2> QED BY <1>d, <1>e, <2>1, LedgersUntouched
  <1>3. CASE RegisterUnannounced(c) \/ RejectNext(c) \/ UnknownId(c)
    <2>1. Return(c)
      BY <1>3 DEF RegisterUnannounced, RejectNext, UnknownId
    <2> QED BY <1>b, <1>d, <1>e, <2>1, LedgersUntouched
  <1>4. CASE \E n \in 1..MaxBatch, b \in BOOLEAN : BeginRun(c, n, b)
    <2>1. PICK n \in 1..MaxBatch, b \in BOOLEAN : BeginRun(c, n, b)
      BY <1>4
    <2>2. call' = [call EXCEPT ![c] = [call[c] EXCEPT !.phase = "choosing", !.todo = n,
                                                      !.batch = b]]
      BY <2>1 DEF BeginRun
    <2>3. call'[c].phase = "choosing" /\ \A d \in Calls : d # c => call'[d] = call[d]
      BY <1>a, <2>2 DEF Frames
    <2> QED BY <1>d, <1>e, <2>3, LedgersUntouched
  <1>5. CASE Enter(c)
    <2>1. /\ call'[c].phase = "evaluating" /\ call'[c].cand \in registered'
          /\ \A d \in Calls : d # c => call'[d] = call[d]
      BY <1>a, <1>5, ZenonT(60) DEF Enter, Frames
    <2> QED BY <1>d, <1>e, <2>1, LedgersUntouched
  <1>6. CASE Evaluate(c)
    <2>1. /\ call'[c].phase = "recording" /\ call'[c].cand = call[c].cand
          /\ call[c].phase = "evaluating" /\ UNCHANGED registered
          /\ \A d \in Calls : d # c => call'[d] = call[d]
      BY <1>a, <1>6, ZenonT(60) DEF Evaluate, InPhase, Frames
    <2>2. call'[c].cand \in registered'
      BY <2>1 DEF LedgerInv, ResultsRegistered, InFlight
    <2> QED BY <1>d, <1>e, <2>1, <2>2, LedgersUntouched
  <1>7. CASE \E v \in BOOLEAN : EvaluateRaises(c, v)
    <2>1. Return(c) \/ LeaveRun(c)
      BY <1>7 DEF EvaluateRaises
    <2> QED BY <1>b, <1>c, <1>d, <1>e, <2>1, LedgersUntouched
  <1> QED BY <1>1, <1>2, <1>3, <1>4, <1>5, <1>6, <1>7

\* The end of a run, after its report.
LEMMA LateLedgers ==
    ASSUME LedgerInv, TypeInv', NEW c \in Calls,
           \/ BeginRanking(c) \/ EndRanking(c) \/ RankingRaises(c) \/ EmitRaises(c)
           \/ Log(c) \/ Finish(c)
    PROVE  LedgerInv'
  <1>1. call \in [Calls -> Frames] /\ TypeInv
    BY DEF LedgerInv, TypeInv, SessionTypeOK
  <1>2. call[c].phase \in {"ranking", "iterating", "reporting", "logging", "finishing"}
    BY DEF BeginRanking, EndRanking, RankingRaises, EmitRaises, Log, Finish, InPhase
  <1>3. UNCHANGED <<succ, progress, result, registered>>
    BY DEF BeginRanking, EndRanking, RankingRaises, EmitRaises, LoseRun, Log, Finish
  <1>4. /\ call'[c].phase \in {"iterating", "logging", "finishing", "idle", "choosing"}
        /\ \A d \in Calls : d # c => call'[d] = call[d]
    <2>1. CASE BeginRanking(c) \/ EndRanking(c) \/ Log(c)
      BY <1>1, <2>1 DEF BeginRanking, EndRanking, Log, Goto, Frames
    <2>2. CASE RankingRaises(c) \/ EmitRaises(c) \/ Finish(c)
      <3>1. LeaveRun(c)
        BY <2>2 DEF RankingRaises, EmitRaises, LoseRun, Finish
      <3> QED BY <1>1, <3>1, LeaveRunType
    <2> QED BY <2>1, <2>2
  <1> QED BY <1>2, <1>3, <1>4, LedgersUntouched

-----------------------------------------------------------------------------
\* A recorded win is at most one more winner, and its call is about to pay for it.
LEMMA RecordLedgers ==
    ASSUME LedgerInv, TypeInv', NEW c \in Calls, Record(c)
    PROVE  LedgerInv'
  <1> USE DEF LedgerInv
  <1>1. /\ call \in [Calls -> Frames] /\ result \in [Candidates -> Optional(Results)]
        /\ registered \subseteq Candidates /\ succ \in Nat
    BY DEF TypeInv, SessionTypeOK
  <1>2. /\ call[c].phase = "recording" /\ call'[c].phase = "counting"
        /\ call'[c].res = call[c].res /\ call[c].cand \in registered
        /\ \A d \in Calls : d # c => call'[d] = call[d]
        /\ result' = [result EXCEPT ![call[c].cand] = call[c].res]
        /\ UNCHANGED <<registered, succ, progress>>
    BY <1>1 DEF Record, Goto, InPhase, Frames, ResultsRegistered, InFlight
  <1>3. SlotsCarried' /\ SlotsNeverUnderstated'
    BY <1>2 DEF SlotsCarried, InPhase, SlotsRemaining, SlotsNeverUnderstated
  <1>4. ResultsRegistered'
    BY <1>1, <1>2 DEF ResultsRegistered, InFlight
  <1>5. WinnersWereCounted'
    <2>1. /\ Cardinality(Winners) <= succ + Cardinality(Uncounted)
          /\ IsFiniteSet(Winners) /\ Cardinality(Winners) \in Nat
          /\ IsFiniteSet(Uncounted) /\ Cardinality(Uncounted) \in Nat
      BY LedgersFinite DEF WinnersWereCounted, Uncounted
    <2>2. c \notin Uncounted
      BY <1>2 DEF Uncounted, InFlight
    <2>3. CASE Successful(call[c].res)
      <3>1. Winners' \subseteq Winners \cup {call[c].cand}
        BY <1>1, <1>2 DEF Winners, Successful, HasSignal
      <3>2. Uncounted' = Uncounted \cup {c}
        BY <1>2, <2>3 DEF Uncounted, InFlight, Successful, HasSignal
      <3>3. /\ IsFiniteSet(Winners \cup {call[c].cand})
            /\ Cardinality(Winners \cup {call[c].cand}) <= Cardinality(Winners) + 1
        <4>1. IsFiniteSet(Winners \cup {call[c].cand})
          BY <2>1, FS_AddElement
        <4>2. \/ Cardinality(Winners \cup {call[c].cand}) = Cardinality(Winners)
              \/ Cardinality(Winners \cup {call[c].cand}) = Cardinality(Winners) + 1
          BY <2>1, OneElement
        <4> QED BY <2>1, <4>1, <4>2
      <3>4. Cardinality(Winners') <= Cardinality(Winners \cup {call[c].cand})
        BY <3>1, <3>3, FS_Subset
      <3>5. Cardinality(Uncounted') = Cardinality(Uncounted) + 1
        BY <2>1, <2>2, <3>2, FS_AddElement
      <3>6. Cardinality(Winners') \in Nat /\ Cardinality(Winners \cup {call[c].cand}) \in Nat
        BY <3>1, <3>3, FS_Subset, FS_CardinalityType
      <3>7. Cardinality(Winners') <= succ' + Cardinality(Uncounted')
        BY <1>1, <1>2, <2>1, <3>3, <3>4, <3>5, <3>6
      <3> QED BY <3>7 DEF WinnersWereCounted, Uncounted
    <2>4. CASE ~Successful(call[c].res)
      <3>1. Winners' \subseteq Winners
        BY <1>1, <1>2, <2>4 DEF Winners, Successful, HasSignal
      <3>2. Uncounted' = Uncounted
        BY <1>2, <2>2, <2>4 DEF Uncounted, InFlight, Successful, HasSignal
      <3>3. Cardinality(Winners') <= Cardinality(Winners) /\ Cardinality(Winners') \in Nat
        BY <2>1, <3>1, FS_Subset, FS_CardinalityType
      <3>4. Cardinality(Winners') <= succ' + Cardinality(Uncounted')
        BY <1>1, <1>2, <2>1, <3>2, <3>3
      <3> QED BY <3>4 DEF WinnersWereCounted, Uncounted
    <2> QED BY <2>3, <2>4
  <1> QED BY <1>3, <1>4, <1>5

\* Counting moves a win from the uncounted to the counter.
LEMMA CountLedgers ==
    ASSUME LedgerInv, TypeInv', NEW c \in Calls, Count(c)
    PROVE  LedgerInv'
  <1> USE DEF LedgerInv
  <1>1. /\ call \in [Calls -> Frames] /\ succ \in Nat /\ progress.slots \in Nat
        /\ progress.succ \in Nat
    BY DEF TypeInv, SessionTypeOK
  <1>2. /\ call[c].phase = "counting" /\ call'[c].phase = "reporting"
        /\ call'[c].slots = SlotsRemaining(succ')
        /\ \A d \in Calls : d # c => call'[d] = call[d]
        /\ UNCHANGED <<registered, result, progress>>
    BY <1>1 DEF Count, InPhase, Frames
  <1>3. succ' = IF Successful(call[c].res) THEN succ + 1 ELSE succ
    BY DEF Count
  <1>4. /\ SlotsRemaining(succ') \in Nat /\ SlotsRemaining(succ) \in Nat
        /\ SlotsRemaining(succ') <= SlotsRemaining(succ)
    BY <1>1, <1>3, SlotsShrink
  <1>5. SlotsCarried'
    <2> SUFFICES ASSUME NEW d \in Calls, call'[d].phase = "reporting"
                 PROVE  call'[d].slots >= SlotsRemaining(succ')
      BY DEF SlotsCarried, InPhase, SlotsRemaining
    <2>1. CASE d = c
      BY <1>2, <1>4, <2>1
    <2>2. CASE d # c
      <3>1. call[d].slots >= SlotsRemaining(succ) /\ call[d].slots \in Nat
        BY <1>1, <1>2, <2>2 DEF SlotsCarried, InPhase, Frames
      <3> QED BY <1>2, <1>4, <2>2, <3>1
    <2> QED BY <2>1, <2>2
  <1>6. ResultsRegistered' /\ SlotsNeverUnderstated'
    BY <1>2 DEF ResultsRegistered, InFlight, SlotsNeverUnderstated, SlotsRemaining
  <1>7. WinnersWereCounted'
    <2>1. /\ Cardinality(Winners) <= succ + Cardinality(Uncounted)
          /\ Cardinality(Winners) \in Nat
          /\ IsFiniteSet(Uncounted) /\ Cardinality(Uncounted) \in Nat
      BY LedgersFinite DEF WinnersWereCounted, Uncounted
    <2>2. Winners' = Winners
      BY <1>2 DEF Winners, Successful, HasSignal
    <2>3. Uncounted' = Uncounted \ {c}
      BY <1>2 DEF Uncounted, InFlight, Successful, HasSignal
    <2>4. c \in Uncounted <=> Successful(call[c].res)
      BY <1>2 DEF Uncounted, InFlight
    <2>5. Cardinality(Uncounted') =
            IF Successful(call[c].res) THEN Cardinality(Uncounted) - 1 ELSE Cardinality(Uncounted)
      BY <2>1, <2>3, <2>4, OneElement
    <2>6. Cardinality(Winners') <= succ' + Cardinality(Uncounted')
      BY <1>1, <1>3, <2>1, <2>2, <2>5
    <2> QED BY <2>6 DEF WinnersWereCounted, Uncounted
  <1> QED BY <1>5, <1>6, <1>7

\* The report carries slots of its own and the counter of now.
LEMMA ReportLedgers ==
    ASSUME LedgerInv, TypeInv', NEW c \in Calls, Report(c)
    PROVE  LedgerInv'
  <1> USE DEF LedgerInv
  <1>1. call \in [Calls -> Frames]
    BY DEF TypeInv, SessionTypeOK
  <1>2. /\ call[c].phase = "reporting" /\ call'[c].phase = "ranking"
        /\ progress' = [succ |-> succ, slots |-> call[c].slots]
        /\ \A d \in Calls : d # c => call'[d] = call[d]
        /\ UNCHANGED <<registered, result, succ>>
    BY <1>1 DEF Report, InPhase, Frames
  <1>3. SlotsNeverUnderstated'
    BY <1>2 DEF SlotsCarried, InPhase, SlotsNeverUnderstated, SlotsRemaining
  <1>4. SlotsCarried'
    BY <1>2 DEF SlotsCarried, InPhase, SlotsRemaining
  <1>5. ResultsRegistered'
    BY <1>2 DEF ResultsRegistered, InFlight
  <1>6. WinnersWereCounted'
    <2>1. Winners' = Winners /\ Uncounted' = Uncounted
      BY <1>2 DEF Winners, Uncounted, InFlight, Successful, HasSignal
    <2> QED BY <1>2, <2>1 DEF WinnersWereCounted, Uncounted
  <1> QED BY <1>3, <1>4, <1>5, <1>6

-----------------------------------------------------------------------------

\* The counters and the registry start empty.
LEMMA LedgerInit == SessionInit => LedgerInv
  <1> SUFFICES ASSUME SessionInit PROVE LedgerInv
    OBVIOUS
  <1>1. SlotsCarried /\ ResultsRegistered
    BY DEF SessionInit, SlotsCarried, ResultsRegistered, InPhase, InFlight, Idle
  <1>2. SlotsNeverUnderstated
    <2>1. progress.slots = MaxCandidates /\ progress.succ = 0
      BY DEF SessionInit
    <2> QED BY <2>1, SessionConstants DEF SlotsNeverUnderstated, SlotsRemaining
  <1>3. WinnersWereCounted
    <2>1. Winners = {} /\ Uncounted = {} /\ succ = 0
      BY DEF SessionInit, Winners, Uncounted, InFlight, Idle
    <2> QED BY <2>1, FS_EmptySet DEF WinnersWereCounted, Uncounted
  <1> QED BY <1>1, <1>2, <1>3, TypeInit DEF LedgerInv

\* Every step of a handler keeps the ledgers.
LEMMA LedgerStep == LedgerInv /\ [SessionNext]_sessionVars => LedgerInv'
  <1> SUFFICES ASSUME LedgerInv, [SessionNext]_sessionVars PROVE LedgerInv'
    OBVIOUS
  <1>0. TypeInv'
    BY TypeStep DEF LedgerInv
  <1>1. ASSUME NEW c \in Calls, Invoke(c) PROVE LedgerInv'
    <2>1. \/ \E n \in 1..MaxBatch : BeginPropose(c, n)
          \/ \E n \in 1..MaxBatch, b \in BOOLEAN : BeginRun(c, n, b)
      <3>1. 1 \in 1..MaxBatch
        BY SessionConstants
      <3> QED BY <1>1, <3>1 DEF Invoke
    <2> QED BY <1>0, <2>1, EarlyLedgers
  <1>2. ASSUME NEW c \in Calls, Advance(c) PROVE LedgerInv'
    <2>1. CASE \/ RegisterNext(c) \/ RegisterUnannounced(c) \/ RejectNext(c)
               \/ Enter(c) \/ UnknownId(c) \/ Evaluate(c)
               \/ \E v \in BOOLEAN : EvaluateRaises(c, v)
      BY <1>0, <2>1, EarlyLedgers
    <2>2. CASE Record(c) \/ Count(c) \/ Report(c)
      BY <1>0, <2>2, RecordLedgers, CountLedgers, ReportLedgers
    <2>3. CASE \/ BeginRanking(c) \/ EndRanking(c) \/ RankingRaises(c) \/ EmitRaises(c)
               \/ Log(c) \/ Finish(c)
      BY <1>0, <2>3, LateLedgers
    <2> QED BY <1>2, <2>1, <2>2, <2>3 DEF Advance
  <1>3. CASE UNCHANGED sessionVars
    BY <1>0, <1>3 DEF sessionVars, LedgerInv, SlotsCarried, ResultsRegistered, InPhase, InFlight,
                SlotsRemaining, SlotsNeverUnderstated, WinnersWereCounted, Winners,
                Successful, HasSignal
  <1> QED BY <1>1, <1>2, <1>3 DEF SessionNext

\* The invariant is inductive.
THEOREM LedgerInvariance == SessionSpec => []LedgerInv
  BY LedgerInit, LedgerStep, PTL DEF SessionSpec

\* An agent told that no slot is left has really met the budget, however many
\* calls overlap (session.py:657-693).
THEOREM SlotsAreNeverUnderstated == SessionSpec => []SlotsNeverUnderstated
  <1>1. LedgerInv => SlotsNeverUnderstated
    BY DEF LedgerInv
  <1> QED BY <1>1, LedgerInvariance, PTL

\* The leaderboard never shows more winners than the budget has counted or is
\* about to count, whichever calls run the same candidate (session.py:652-667).
THEOREM WinnersAreCounted == SessionSpec => []WinnersWereCounted
  <1>1. LedgerInv => WinnersWereCounted
    BY DEF LedgerInv
  <1> QED BY <1>1, LedgerInvariance, PTL

-----------------------------------------------------------------------------
(* The loop around the session. *)

\* What the backends' calls leave behind, in the registry and in the frames.
Plausible(r) == ~r.compiled => r.median = None

ResultsPlausible ==
    /\ \A x \in Candidates : result[x] # None => Plausible(result[x])
    /\ \A c \in InFlight({"recording"}) : Plausible(call[c].res)

\* The loop's own variables.
LoopShape ==
    /\ phase \in {"harness", "stopped", "closed", "aborted"}
    /\ iteration \in 0..MaxContinuations
    /\ phase = "harness" => reason = "continue"

LoopInv == LedgerInv /\ ResultsPlausible /\ LoopShape

\* Every step of the loop is a step of the session or leaves it alone.
LEMMA LoopStepsSession == LoopNext => [SessionNext]_sessionVars
  BY DEF LoopNext, DispatchTool, HandlerStep, DispatchReflection, HarnessEnds,
         RunSessionRaises, Finalize, FinalizeRaises, SessionNext

\* Only Evaluate makes a result and only Record moves one to the registry.
LEMMA ResultsStayPlausible ==
    ASSUME LedgerInv, ResultsPlausible, [SessionNext]_sessionVars
    PROVE  ResultsPlausible'
  <1>1. call \in [Calls -> Frames] /\ result \in [Candidates -> Optional(Results)]
    BY DEF LedgerInv, TypeInv, SessionTypeOK
  <1>2. ASSUME NEW c \in Calls, Record(c) PROVE ResultsPlausible'
    <2>1. Plausible(call[c].res) /\ call[c].phase = "recording"
      BY <1>2 DEF Record, InPhase, InFlight, ResultsPlausible
    <2>2. /\ result' = [result EXCEPT ![call[c].cand] = call[c].res]
          /\ call'[c].phase = "counting"
          /\ \A d \in Calls : d # c => call'[d] = call[d]
      BY <1>1, <1>2 DEF Record, Goto, Frames
    <2> QED BY <1>1, <2>1, <2>2 DEF ResultsPlausible, InFlight, Plausible
  <1>3. ASSUME NEW c \in Calls, Evaluate(c) PROVE ResultsPlausible'
    <2>1. PICK r \in Outcomes(baseline.ok) :
             call' = [call EXCEPT ![c].phase = "recording", ![c].res = r]
      BY <1>3 DEF Evaluate
    <2>2. Plausible(r)
      BY DEF Outcomes, Plausible
    <2>3. call'[c].res = r /\ \A d \in Calls : d # c => call'[d] = call[d]
      BY <1>1, <2>1 DEF Frames
    <2>4. UNCHANGED result
      BY <1>3 DEF Evaluate
    <2> QED BY <2>2, <2>3, <2>4 DEF ResultsPlausible, InFlight, Plausible
  <1>4. ASSUME NEW c \in Calls, Invoke(c) \/ Advance(c), ~Record(c), ~Evaluate(c)
        PROVE  ResultsPlausible'
    <2>1. UNCHANGED result
      BY <1>4 DEF Invoke, Advance, BeginPropose, BeginRun, RegisterNext, RegisterUnannounced,
           RejectNext, Enter, UnknownId, EvaluateRaises, Count, Report, BeginRanking,
           EndRanking, RankingRaises, EmitRaises, LoseRun, Log, Finish
    <2>2. call'[c].phase # "recording" /\ \A d \in Calls : d # c => call'[d] = call[d]
      <3>a. ASSUME Return(c) \/ LeaveRun(c)
            PROVE  call'[c].phase # "recording" /\ \A d \in Calls : d # c => call'[d] = call[d]
        BY <1>1, <3>a, LeaveRunType DEF LedgerInv, Return, Idle
      <3>1. CASE Invoke(c)
        <4>1. CASE \E n \in 1..MaxBatch : BeginPropose(c, n)
          BY <1>1, <4>1 DEF BeginPropose, Frames
        <4>2. ASSUME NEW n, NEW b, BeginRun(c, n, b)
              PROVE  call'[c].phase # "recording" /\ \A d \in Calls : d # c => call'[d] = call[d]
          <5>1. call' = [call EXCEPT ![c] = [call[c] EXCEPT !.phase = "choosing", !.todo = n,
                                                            !.batch = b]]
            BY <4>2 DEF BeginRun
          <5> QED BY <1>1, <5>1 DEF Frames
        <4> QED BY <3>1, <4>1, <4>2 DEF Invoke
      <3>2. CASE RegisterNext(c)
        BY <1>1, <3>a, <3>2 DEF RegisterNext, InPhase, Frames
      <3>3. CASE RegisterUnannounced(c) \/ RejectNext(c) \/ UnknownId(c)
                 \/ \E v \in BOOLEAN : EvaluateRaises(c, v)
        BY <3>a, <3>3 DEF RegisterUnannounced, RejectNext, UnknownId, EvaluateRaises
      <3>4. CASE Enter(c) \/ Count(c) \/ Report(c) \/ BeginRanking(c) \/ EndRanking(c) \/ Log(c)
        BY <1>1, <3>4, ZenonT(60) DEF Enter, Count, Report, BeginRanking, EndRanking, Log, Goto, Frames
      <3>5. CASE RankingRaises(c) \/ EmitRaises(c) \/ Finish(c)
        BY <3>a, <3>5 DEF RankingRaises, EmitRaises, LoseRun, Finish
      <3> QED BY <1>4, <3>1, <3>2, <3>3, <3>4, <3>5 DEF Advance
    <2> QED BY <2>1, <2>2 DEF ResultsPlausible, InFlight, Plausible
  <1>5. CASE UNCHANGED sessionVars
    BY <1>5 DEF sessionVars, ResultsPlausible, InFlight, Plausible
  <1> QED BY <1>2, <1>3, <1>4, <1>5 DEF SessionNext

\* The loop starts in the harness with an empty session.
LEMMA LoopInvInit == LoopInit => LoopInv
  <1> SUFFICES ASSUME LoopInit PROVE LoopInv
    OBVIOUS
  <1>1. LedgerInv
    BY LedgerInit DEF LoopInit
  <1>2. ResultsPlausible
    BY DEF LoopInit, SessionInit, ResultsPlausible, InFlight, Idle
  <1>3. LoopShape
    BY LoopConstants DEF LoopInit, LoopShape
  <1> QED BY <1>1, <1>2, <1>3 DEF LoopInv

\* Every step of the loop keeps its invariant.
LEMMA LoopInvStep == LoopInv /\ [LoopNext]_vars => LoopInv'
  <1> SUFFICES ASSUME LoopInv, [LoopNext]_vars PROVE LoopInv'
    OBVIOUS
  <1>1. [SessionNext]_sessionVars
    BY LoopStepsSession DEF vars
  <1>2. LedgerInv' /\ ResultsPlausible'
    BY <1>1, LedgerStep, ResultsStayPlausible DEF LoopInv
  <1>3. LoopShape'
    <2> USE DEF LoopInv, LoopShape
    <2>1. ASSUME NEW c \in Calls, DispatchTool(c) \/ HandlerStep(c) PROVE LoopShape'
      BY <2>1 DEF DispatchTool, HandlerStep, loopVars
    <2>2. ASSUME NEW t \in ReflectionTools, DispatchReflection(t) PROVE LoopShape'
      BY <2>2 DEF DispatchReflection, Observe
    <2>3. ASSUME NEW f \in BOOLEAN, HarnessEnds(f) PROVE LoopShape'
      <3>1. CASE Evaluation(Snapshot(f)) = "continue"
        <4>1. ~(iteration >= MaxContinuations)
          BY <3>1 DEF Evaluation, Snapshot
        <4> QED BY <2>3, <3>1, <4>1, LoopConstants DEF HarnessEnds
      <3>2. CASE Evaluation(Snapshot(f)) # "continue"
        BY <2>3, <3>2 DEF HarnessEnds
      <3> QED BY <3>1, <3>2
    <2>4. CASE RunSessionRaises \/ Finalize \/ FinalizeRaises \/ UNCHANGED vars
      BY <2>4 DEF RunSessionRaises, Finalize, FinalizeRaises, vars, loopVars
    <2> QED BY <2>1, <2>2, <2>3, <2>4 DEF LoopNext
  <1> QED BY <1>2, <1>3 DEF LoopInv

\* The invariant of the loop and its session.
THEOREM LoopInvariance == LoopSpec => []LoopInv
  BY LoopInvInit, LoopInvStep, PTL DEF LoopSpec

\* At rest the budget has counted at least as many successes as there are
\* candidates a best speedup is computed from (session.py:1166-1184).
THEOREM BestIsAlwaysBanked == LoopSpec => []BestIsBanked
  <1>1. LoopInv => BestIsBanked
    <2> SUFFICES ASSUME LoopInv, Quiet PROVE Cardinality(Validated) <= succ
      BY DEF BestIsBanked
    <2>1. TypeInv /\ succ \in Nat /\ baseline.median \in Optional(Medians)
      BY DEF LoopInv, LedgerInv, TypeInv, SessionTypeOK
    <2>2. Validated \subseteq Winners
      BY DEF LoopInv, ResultsPlausible, LedgerInv, TypeInv, SessionTypeOK, Validated, Winners,
             HasSpeedup, Truthy, Successful, HasSignal, Plausible
    <2>3. {c \in InFlight({"counting"}) : Successful(call[c].res)} = {}
      BY DEF Quiet, InPhase, InFlight
    <2>4. Cardinality(Winners) <= succ
      BY <2>1, <2>3, FS_EmptySet, LedgersFinite DEF LoopInv, LedgerInv, WinnersWereCounted
    <2>5. Cardinality(Validated) <= Cardinality(Winners) /\ Cardinality(Validated) \in Nat
      BY <2>1, <2>2, LedgersFinite, FS_Subset, FS_CardinalityType
    <2> QED BY <2>1, <2>4, <2>5, LedgersFinite
  <1> QED BY <1>1, LoopInvariance, PTL

-----------------------------------------------------------------------------
(* The loop implements the abstract episode. *)

\* No step of a call in flight but Count moves a counter, and Count moves one.
LEMMA CountersMove ==
    ASSUME NEW c \in Calls, Advance(c)
    PROVE  \/ UNCHANGED <<succ, failed>>
           \/ succ' = succ + 1 /\ failed' = failed
           \/ failed' = failed + 1 /\ succ' = succ
  <1>1. CASE Count(c)
    BY <1>1 DEF Count
  <1>2. CASE ~Count(c)
    BY <1>2 DEF Advance, RegisterNext, RegisterUnannounced, RejectNext, Enter, UnknownId,
       Evaluate, EvaluateRaises, Record, Report, BeginRanking, EndRanking, RankingRaises,
       EmitRaises, LoseRun, Log, Finish
  <1> QED BY <1>1, <1>2

\* Every step of the loop is one of the episode, or none.
LEMMA EpisodeStep ==
    ASSUME LoopInv, LoopNext
    PROVE  [Episode!Next]_(Episode!episodeVars)
  <1> USE DEF LoopInv, LoopShape
  <1>1. /\ succ \in Nat /\ failed \in Nat
        /\ MaxCandidates \in Nat /\ MaxFailedAttempts \in Nat
    BY SessionConstants DEF LedgerInv, TypeInv, SessionTypeOK, MaxFailedAttempts
  <1> DEFINE Idles == UNCHANGED Episode!episodeVars
  <1>2. ASSUME NEW c \in Calls, DispatchTool(c) PROVE Idles
    BY <1>2 DEF DispatchTool, Invoke, BeginPropose, BeginRun, Episode!episodeVars
  <1>3. ASSUME NEW c \in Calls, HandlerStep(c) PROVE Idles \/ Episode!Next
    <2>1. phase = "harness" /\ UNCHANGED loopVars
      BY <1>3 DEF HandlerStep
    <2>2. CASE UNCHANGED <<succ, failed>>
      BY <2>1, <2>2 DEF loopVars, Episode!episodeVars
    <2>3. CASE ~UNCHANGED <<succ, failed>>
      <3>1. Episode!Work
        BY <1>3, <2>1, <2>3, CountersMove DEF HandlerStep, loopVars, Episode!Work
      <3> QED BY <3>1 DEF Episode!Next
    <2> QED BY <2>2, <2>3
  <1>4. ASSUME NEW t \in ReflectionTools, DispatchReflection(t) PROVE Idles
    BY <1>4 DEF DispatchReflection, Observe, sessionVars, Episode!episodeVars
  <1>5. ASSUME NEW f \in BOOLEAN, HarnessEnds(f) PROVE Episode!Next
    <2> DEFINE d == Evaluation(Snapshot(f))
    <2>1. /\ phase = "harness" /\ reason' = d
          /\ UNCHANGED <<succ, failed, episode>>
      BY <1>5 DEF HarnessEnds, sessionVars
    <2>2. CASE d = "continue"
      <3>1. iteration' = iteration + 1 /\ phase' = phase
        BY <1>5, <2>2 DEF HarnessEnds
      <3>2. ~(iteration >= MaxContinuations) /\ ~(failed >= MaxFailedAttempts)
        BY <2>2 DEF Evaluation, Snapshot
      <3>3. Episode!Restart
        BY <1>1, <2>1, <3>1, <3>2, LoopConstants DEF Episode!Restart
      <3> QED BY <3>3 DEF Episode!Next
    <2>3. CASE d # "continue"
      <3>1. phase' = "stopped" /\ iteration' = iteration
        BY <1>5, <2>3 DEF HarnessEnds
      <3>2. /\ d \in Episode!Reasons
            /\ d = "budget_met" => succ >= MaxCandidates
            /\ d = "failure_cap" => failed >= MaxFailedAttempts
            /\ d = "exhausted" => iteration >= MaxContinuations /\ ~(failed >= MaxFailedAttempts)
        BY <1>1, <2>3 DEF Evaluation, Snapshot, Episode!Reasons
      <3>3. Episode!Stop(d)
        <4> HIDE DEF d
        <4>1. d = "exhausted" =>
                iteration + 1 = MaxContinuations + 1 /\ failed < MaxFailedAttempts
          BY <1>1, <3>2, LoopConstants
        <4> QED BY <2>1, <3>1, <3>2, <4>1 DEF Episode!Stop
      <3> QED BY <3>2, <3>3 DEF Episode!Next
    <2> QED BY <2>2, <2>3
  <1>6. CASE RunSessionRaises
    <2>1. Episode!Abort
      BY <1>6 DEF RunSessionRaises, sessionVars, Episode!Abort
    <2> QED BY <2>1 DEF Episode!Next
  <1>7. CASE Finalize
    <2>1. Episode!Close
      BY <1>7 DEF Finalize, Document, sessionVars, Episode!Close, Episode!Ledger
    <2> QED BY <2>1 DEF Episode!Next
  <1>8. CASE FinalizeRaises
    <2>1. Episode!Abort
      BY <1>8 DEF FinalizeRaises, Document, TornDocument, sessionVars, Episode!Abort,
                  Episode!Ledger, Episode!Torn
    <2> QED BY <2>1 DEF Episode!Next
  <1> QED BY <1>2, <1>3, <1>4, <1>5, <1>6, <1>7, <1>8 DEF LoopNext

\* run_session, with any agent, any number of tool calls in flight and any
\* failure, implements the episode of EpisodeLoop: it stops once, for a reason
\* its counters support, and a document that is not torn holds the counters of
\* the stop.
THEOREM LoopImplementsEpisode == LoopSpec => EpisodeRefined
  <1>1. LoopInit => Episode!Init
    BY DEF LoopInit, SessionInit, Episode!Init
  <1>2. LoopInv /\ [LoopNext]_vars => [Episode!Next]_(Episode!episodeVars)
    <2>1. ASSUME UNCHANGED vars PROVE UNCHANGED Episode!episodeVars
      BY <2>1 DEF vars, sessionVars, loopVars, Episode!episodeVars
    <2> QED BY <2>1, EpisodeStep
  <1> QED BY <1>1, <1>2, LoopInvariance, PTL DEF LoopSpec, EpisodeRefined, Episode!Spec
=============================================================================
