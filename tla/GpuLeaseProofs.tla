--------------------------- MODULE GpuLeaseProofs ---------------------------
(***************************************************************************)
(* Proofs about the GPU pool, for any number of workers and devices, any   *)
(* order of the pool, and any bounds.                                      *)
(***************************************************************************)
EXTENDS GpuLease, TLAPS

\* A worker that holds a lock is the one the lock names.
HolderIsLocked ==
    \A w \in Workers : pc[w] \in Locking =>
        dev[w] \in Devices /\ flock[dev[w]] = w

\* A device under inspection is the one under the cursor of an unfinished sweep.
InspectedInSweep ==
    \A w \in Workers : pc[w] = "inspecting" => step[w] < Len(Pool)

\* A live worker has a sandbox only while it waits for it.
SandboxIsAwaited ==
    \A w \in Workers : child[w] \in Alive /\ pc[w] # "dead" => pc[w] = "running"

\* While acquire runs, it remembers no device as empty.
NoEmptyRemembered ==
    \A w \in Workers : pc[w] \in {"sweeping", "inspecting"} =>
        \A d \in Devices : cache[w][d] # "empty"

\* No answer of nvidia-smi is taken for none.
LEMMA NoneIsNoAnswer == None \notin Answers
  BY LeaseConstants

\* The inductive invariant.
IInv ==
    /\ TypeOK
    /\ NoLeakedLock
    /\ HolderIsLocked
    /\ InspectedInSweep
    /\ SandboxIsAwaited
    /\ NoEmptyRemembered

-----------------------------------------------------------------------------
\* The remainder of a division by the length of the pool is a valid offset.
LEMMA RemainderInRange ==
    ASSUME NEW a \in Nat, NEW n \in Nat \ {0}
    PROVE  a % n \in 0..(n - 1)
  OBVIOUS

\* The sweep's cursor stands on a device of the pool (gpu_lease.py:188).
LEMMA CursorIsDevice ==
    ASSUME TypeOK, NEW w \in Workers
    PROVE  Cursor(w) \in Devices
  <1>1. Len(Pool) \in Nat \ {0} /\ Pool \in [1..Len(Pool) -> Devices]
    BY LeaseConstants
  <1>2. offset[w] + step[w] \in Nat
    BY <1>1 DEF TypeOK
  <1>3. (offset[w] + step[w]) % Len(Pool) \in 0..(Len(Pool) - 1)
    BY <1>1, <1>2, RemainderInRange
  <1>4. ((offset[w] + step[w]) % Len(Pool)) + 1 \in 1..Len(Pool)
    BY <1>1, <1>3
  <1> QED BY <1>1, <1>4 DEF Cursor

\* The pool starts with every lock free and no sandbox.
LEMMA InitInvariant == Init => IInv
  BY LeaseConstants
  DEF Init, IInv, TypeOK, NoLeakedLock, HolderIsLocked, InspectedInSweep,
      SandboxIsAwaited, NoEmptyRemembered, Locking, Leased, Alive, Answers

-----------------------------------------------------------------------------
\* Every step keeps the types.
LEMMA TypeStep ==
    TypeOK /\ HolderIsLocked /\ InspectedInSweep /\ [Next]_vars => TypeOK'
  <1> SUFFICES ASSUME TypeOK, HolderIsLocked, InspectedInSweep, [Next]_vars
               PROVE  TypeOK'
    OBVIOUS
  <1> USE DEF TypeOK
  <1>1. ASSUME NEW w \in Workers, Begin(w) PROVE TypeOK'
    BY <1>1, LeaseConstants, SMTT(30) DEF Begin, Locking, Leased
  <1>2. ASSUME NEW w \in Workers, Skip(w) PROVE TypeOK'
    BY <1>2, LeaseConstants DEF Skip
  <1>3. ASSUME NEW w \in Workers, Lock(w) PROVE TypeOK'
    <2>1. Cursor(w) \in Devices
      BY CursorIsDevice
    <2> QED BY <1>3, <2>1 DEF Lock, Locking, Leased
  <1>4. ASSUME NEW w \in Workers, Accept(w) PROVE TypeOK'
    <2>1. dev[w] \in Devices
      BY <1>4 DEF Accept, HolderIsLocked, Locking
    <2> QED BY <1>4, <2>1 DEF Accept, Locking, Leased, Answers
  <1>5. ASSUME NEW w \in Workers, Reject(w) PROVE TypeOK'
    <2>1. pc[w] = "inspecting" /\ dev[w] \in Devices
      BY <1>5 DEF Reject, HolderIsLocked, Locking
    <2>2. step[w] + 1 \in 0..Len(Pool)
      BY <2>1, LeaseConstants DEF InspectedInSweep
    <2>3. cache' \in [Workers -> [Devices -> Answers \cup {None}]]
      BY <1>5, <2>1 DEF Reject, Answers
    <2>4. flock' \in [Devices -> Workers \cup {None}]
      BY <1>5, <2>1 DEF Reject
    <2> QED BY <1>5, <2>2, <2>3, <2>4 DEF Reject
  <1>6. ASSUME NEW w \in Workers, NextSweep(w) PROVE TypeOK'
    <2>1. Len(Pool) \in Nat \ {0} /\ offset[w] + 1 \in Nat
      BY LeaseConstants
    <2>2. (offset[w] + 1) % Len(Pool) \in 0..(Len(Pool) - 1)
      BY <2>1, RemainderInRange
    <2>3. sweeps[w] + 1 \in 0..MaxSweeps
      BY <1>6, LeaseConstants DEF NextSweep
    <2> QED BY <1>6, <2>1, <2>2, <2>3 DEF NextSweep
  <1>7. ASSUME NEW w \in Workers, GiveUp(w) \/ OpenFails(w) PROVE TypeOK'
    BY <1>7 DEF GiveUp, OpenFails
  <1>8. ASSUME NEW w \in Workers,
               Spawn(w) \/ SpawnFails(w) \/ Reap(w) \/ Kill(w)
        PROVE  TypeOK'
    BY <1>8 DEF Spawn, SpawnFails, Reap, Kill, Locking, Leased, Alive
  <1>9. ASSUME NEW w \in Workers, Release(w) PROVE TypeOK'
    <2>1. dev[w] \in Devices
      BY <1>9 DEF Release, HolderIsLocked, Locking, Leased
    <2> QED BY <1>9, <2>1 DEF Release
  <1>10. ASSUME NEW w \in Workers, TouchDevice(w) \/ ChildExits(w) PROVE TypeOK'
    BY <1>10 DEF TouchDevice, ChildExits, Alive
  <1>11. ASSUME NEW w \in Workers, Die(w) PROVE TypeOK'
    BY <1>11 DEF Die
  <1>12. ASSUME NEW w \in Workers, NEW d \in Devices, Expire(w, d) PROVE TypeOK'
    BY <1>12 DEF Expire
  <1>13. ASSUME NEW d \in Devices, ForeignMoves(d) PROVE TypeOK'
    BY <1>13 DEF ForeignMoves
  <1>14. CASE UNCHANGED vars
    BY <1>14 DEF vars
  <1> QED
    BY <1>1, <1>2, <1>3, <1>4, <1>5, <1>6, <1>7, <1>8, <1>9, <1>10, <1>11,
       <1>12, <1>13, <1>14 DEF Next, WorkerStep, Environment

\* A step that moves no lock and nobody in or out of Locking.
LEMMA LocksUndisturbed ==
    ASSUME TypeOK, NoLeakedLock, HolderIsLocked, flock' = flock, dev' = dev,
           \A v \in Workers : pc'[v] \in Locking <=> pc[v] \in Locking
    PROVE  NoLeakedLock' /\ HolderIsLocked'
  <1>1. Locking' = Locking
    BY DEF Locking, Leased
  <1>2. \A d \in Devices : flock[d] # None => flock[d] \in Workers
    BY DEF TypeOK
  <1>3. NoLeakedLock'
    BY <1>1, <1>2 DEF NoLeakedLock
  <1>4. HolderIsLocked'
    BY <1>1 DEF HolderIsLocked
  <1> QED BY <1>3, <1>4

\* Every step keeps locks and their holders together: the device a worker has
\* locked is the one it releases, on every path.
LEMMA LockStep ==
    TypeOK /\ NoLeakedLock /\ HolderIsLocked /\ [Next]_vars
        => NoLeakedLock' /\ HolderIsLocked'
  <1> SUFFICES ASSUME TypeOK, NoLeakedLock, HolderIsLocked, [Next]_vars
               PROVE  NoLeakedLock' /\ HolderIsLocked'
    OBVIOUS
  <1> USE LeaseConstants DEF TypeOK, NoLeakedLock, HolderIsLocked, Locking, Leased
  <1>1. ASSUME NEW w \in Workers, Begin(w) \/ Skip(w) \/ NextSweep(w) \/ GiveUp(w) \/ OpenFails(w)
        PROVE  NoLeakedLock' /\ HolderIsLocked'
    <2>1. /\ flock' = flock /\ dev' = dev
          /\ \A v \in Workers : pc'[v] \in Locking <=> pc[v] \in Locking
      BY <1>1 DEF Begin, Skip, NextSweep, GiveUp, OpenFails
    <2> QED BY <2>1, LocksUndisturbed
  <1>2. ASSUME NEW w \in Workers, Lock(w) PROVE NoLeakedLock' /\ HolderIsLocked'
    <2> DEFINE d == Cursor(w)
    <2>1. d \in Devices
      BY CursorIsDevice
    <2>2. /\ flock[d] = None /\ pc[w] = "sweeping"
          /\ flock' = [flock EXCEPT ![d] = w] /\ dev' = [dev EXCEPT ![w] = d]
          /\ pc'[w] \in Locking /\ pc' = [pc EXCEPT ![w] = pc'[w]]
      BY <1>2 DEF Lock
    <2> HIDE DEF d
    <2>3. \A v \in Workers : pc[v] \in Locking => v # w /\ dev[v] # d
      BY <2>2
    <2>4. HolderIsLocked'
      BY <2>1, <2>2, <2>3
    <2>5. \A v \in Workers : v # w => pc'[v] = pc[v] /\ dev'[v] = dev[v]
      BY <2>2
    <2>6. dev'[w] = d /\ flock'[d] = w /\ \A e \in Devices : e # d => flock'[e] = flock[e]
      BY <2>1, <2>2
    <2>7. \A e \in Devices : flock[e] # None => flock[e] \in Workers /\ flock[e] # w
      <3>1. pc[w] \notin Locking
        BY <2>2
      <3>2. \A e \in Devices : flock[e] \in Workers \cup {None}
        OBVIOUS
      <3> QED BY <3>1, <3>2
    <2>8. NoLeakedLock'
      BY <2>2, <2>5, <2>6, <2>7, SMTT(30)
    <2> QED BY <2>4, <2>8
  <1>3. ASSUME NEW w \in Workers, Accept(w) PROVE NoLeakedLock' /\ HolderIsLocked'
    BY <1>3 DEF Accept
  <1>4. ASSUME NEW w \in Workers, Reject(w) PROVE NoLeakedLock' /\ HolderIsLocked'
    BY <1>4, SMTT(30) DEF Reject
  <1>5. ASSUME NEW w \in Workers,
               Spawn(w) \/ SpawnFails(w) \/ Reap(w) \/ Kill(w)
        PROVE  NoLeakedLock' /\ HolderIsLocked'
    <2>1. /\ flock' = flock /\ dev' = dev
          /\ \A v \in Workers : pc'[v] \in Locking <=> pc[v] \in Locking
      BY <1>5 DEF Spawn, SpawnFails, Reap, Kill
    <2> QED BY <2>1, LocksUndisturbed
  <1>6. ASSUME NEW w \in Workers, Release(w) PROVE NoLeakedLock' /\ HolderIsLocked'
    BY <1>6 DEF Release
  <1>7. ASSUME NEW w \in Workers, Die(w) PROVE NoLeakedLock' /\ HolderIsLocked'
    <2>1. pc' = [pc EXCEPT ![w] = "dead"] /\ dev' = dev
      BY <1>7 DEF Die
    <2>2. \A d \in Devices : flock'[d] = IF flock[d] = w THEN None ELSE flock[d]
      BY <1>7 DEF Die
    <2>3. NoLeakedLock'
      BY <2>1, <2>2
    <2>4. HolderIsLocked'
      BY <2>1, <2>2
    <2> QED BY <2>3, <2>4
  <1>8. ASSUME NEW w \in Workers,
               TouchDevice(w) \/ ChildExits(w) \/ \E d \in Devices : Expire(w, d)
        PROVE  NoLeakedLock' /\ HolderIsLocked'
    BY <1>8 DEF TouchDevice, ChildExits, Expire
  <1>9. ASSUME NEW d \in Devices, ForeignMoves(d)
        PROVE  NoLeakedLock' /\ HolderIsLocked'
    BY <1>9 DEF ForeignMoves
  <1>10. CASE UNCHANGED vars
    BY <1>10 DEF vars
  <1> QED
    BY <1>1, <1>2, <1>3, <1>4, <1>5, <1>6, <1>7, <1>8, <1>9, <1>10
    DEF Next, WorkerStep, Environment

\* A device is locked during a sweep, and inspected before the cursor moves.
LEMMA SweepStep == TypeOK /\ InspectedInSweep /\ [Next]_vars => InspectedInSweep'
  <1> SUFFICES ASSUME TypeOK, InspectedInSweep, [Next]_vars
               PROVE  InspectedInSweep'
    OBVIOUS
  <1> USE DEF TypeOK, InspectedInSweep
  <1>1. ASSUME NEW w \in Workers, Begin(w) \/ WorkerStep(w) PROVE InspectedInSweep'
    <2>1. CASE Begin(w) \/ Skip(w) \/ Lock(w) \/ Accept(w) \/ Reject(w)
      BY <2>1 DEF Begin, Skip, Lock, Accept, Reject
    <2>2. CASE NextSweep(w) \/ GiveUp(w) \/ OpenFails(w) \/ Spawn(w) \/ SpawnFails(w)
      BY <2>2 DEF NextSweep, GiveUp, OpenFails, Spawn, SpawnFails
    <2>3. CASE Reap(w) \/ Kill(w) \/ Release(w)
      BY <2>3 DEF Reap, Kill, Release
    <2> QED BY <1>1, <2>1, <2>2, <2>3 DEF WorkerStep
  <1>2. CASE Environment
    BY <1>2 DEF Environment, TouchDevice, ChildExits, Die, Expire, ForeignMoves
  <1>3. CASE UNCHANGED vars
    BY <1>3 DEF vars
  <1> QED BY <1>1, <1>2, <1>3 DEF Next

\* A sandbox is started and reaped by the worker that waits for it.
LEMMA SandboxStep ==
    TypeOK /\ SandboxIsAwaited /\ [Next]_vars => SandboxIsAwaited'
  <1> SUFFICES ASSUME TypeOK, SandboxIsAwaited, [Next]_vars
               PROVE  SandboxIsAwaited'
    OBVIOUS
  <1> USE DEF TypeOK, SandboxIsAwaited, Alive
  <1>1. ASSUME NEW w \in Workers, Begin(w) \/ WorkerStep(w) PROVE SandboxIsAwaited'
    <2>1. CASE Begin(w) \/ Skip(w) \/ Lock(w) \/ Accept(w) \/ Reject(w)
      BY <2>1 DEF Begin, Skip, Lock, Accept, Reject
    <2>2. CASE NextSweep(w) \/ GiveUp(w) \/ OpenFails(w) \/ Spawn(w) \/ SpawnFails(w)
      BY <2>2 DEF NextSweep, GiveUp, OpenFails, Spawn, SpawnFails
    <2>3. CASE Reap(w) \/ Kill(w) \/ Release(w)
      BY <2>3 DEF Reap, Kill, Release
    <2> QED BY <1>1, <2>1, <2>2, <2>3 DEF WorkerStep
  <1>2. CASE Environment
    BY <1>2 DEF Environment, TouchDevice, ChildExits, Die, Expire, ForeignMoves
  <1>3. CASE UNCHANGED vars
    BY <1>3 DEF vars
  <1> QED BY <1>1, <1>2, <1>3 DEF Next

\* The only answer acquire keeps while it goes on is "occupied".
LEMMA CacheStep ==
    TypeOK /\ HolderIsLocked /\ NoEmptyRemembered /\ [Next]_vars => NoEmptyRemembered'
  <1> SUFFICES ASSUME TypeOK, HolderIsLocked, NoEmptyRemembered, [Next]_vars
               PROVE  NoEmptyRemembered'
    OBVIOUS
  <1> USE DEF TypeOK, NoEmptyRemembered
  <1>1. ASSUME NEW w \in Workers, Begin(w) PROVE NoEmptyRemembered'
    <2>1. \A d \in Devices : cache'[w][d] = None
      BY <1>1 DEF Begin
    <2>2. \A v \in Workers : v # w => pc'[v] = pc[v] /\ cache'[v] = cache[v]
      BY <1>1 DEF Begin
    <2> QED BY <2>1, <2>2, NoneIsNoAnswer DEF Answers
  <1>2. ASSUME NEW w \in Workers, WorkerStep(w) PROVE NoEmptyRemembered'
    <2>1. CASE Skip(w) \/ Lock(w) \/ NextSweep(w) \/ GiveUp(w) \/ OpenFails(w)
      <3>1. /\ cache' = cache
            /\ \A v \in Workers : v # w => pc'[v] = pc[v]
            /\ pc[w] = "sweeping"
        BY <2>1 DEF Skip, Lock, NextSweep, GiveUp, OpenFails
      <3> QED BY <3>1
    <2>2. CASE Accept(w)
      <3>1. pc'[w] = "leased"
        BY <2>2 DEF Accept
      <3>2. \A v \in Workers : v # w => pc'[v] = pc[v] /\ cache'[v] = cache[v]
        BY <2>2 DEF Accept
      <3> QED BY <3>1, <3>2
    <2>3. CASE Reject(w)
      <3>1. pc[w] = "inspecting"
        BY <2>3 DEF Reject
      <3>2. \A d \in Devices : cache'[w][d] = "occupied" \/ cache'[w][d] = cache[w][d]
        BY <2>3 DEF Reject
      <3>3. \A v \in Workers : v # w => pc'[v] = pc[v] /\ cache'[v] = cache[v]
        BY <2>3 DEF Reject
      <3> QED BY <3>1, <3>2, <3>3
    <2>4. CASE Spawn(w) \/ SpawnFails(w) \/ Reap(w) \/ Kill(w) \/ Release(w)
      <3>1. /\ cache' = cache
            /\ \A v \in Workers : v # w => pc'[v] = pc[v]
            /\ pc'[w] \notin {"sweeping", "inspecting"}
        BY <2>4 DEF Spawn, SpawnFails, Reap, Kill, Release
      <3> QED BY <3>1
    <2> QED BY <1>2, <2>1, <2>2, <2>3, <2>4 DEF WorkerStep
  <1>3. CASE Environment
    <2>1. CASE \E w \in Workers : TouchDevice(w) \/ ChildExits(w) \/ Die(w)
      BY <2>1 DEF TouchDevice, ChildExits, Die
    <2>2. CASE \E w \in Workers, d \in Devices : Expire(w, d)
      <3>1. PICK w \in Workers, d \in Devices : Expire(w, d)
        BY <2>2
      <3>2. pc' = pc
        BY <3>1 DEF Expire
      <3>3. \A v \in Workers, e \in Devices :
              cache'[v][e] = None \/ cache'[v][e] = cache[v][e]
        BY <3>1 DEF Expire
      <3> QED BY <3>2, <3>3, NoneIsNoAnswer DEF Answers
    <2>3. CASE \E d \in Devices : ForeignMoves(d)
      BY <2>3 DEF ForeignMoves
    <2> QED BY <1>3, <2>1, <2>2, <2>3 DEF Environment
  <1>4. CASE UNCHANGED vars
    BY <1>4 DEF vars
  <1> QED BY <1>1, <1>2, <1>3, <1>4 DEF Next

\* The invariant is inductive.
THEOREM Invariance == Spec => []IInv
  <1>1. Init => IInv
    BY InitInvariant
  <1>2. IInv /\ [Next]_vars => IInv'
    BY TypeStep, LockStep, SweepStep, SandboxStep, CacheStep DEF IInv
  <1> QED BY <1>1, <1>2, PTL DEF Spec

\* Locks, workers and sandboxes keep their types.
THEOREM TypeCorrect == Spec => []TypeOK
  <1>1. IInv => TypeOK
    BY DEF IInv
  <1> QED BY <1>1, Invariance, PTL

\* No path through acquire, release or death leaks a lock.
THEOREM LocksNeverLeak == Spec => []NoLeakedLock
  <1>1. IInv => NoLeakedLock
    BY DEF IInv
  <1> QED BY <1>1, Invariance, PTL

\* Two live workers never have sandboxes on one device: each waits for its own
\* under a lock, and a lock has one holder.
THEOREM LiveSandboxesNeverShare == Spec => []LiveSandboxesApart
  <1>1. IInv => LiveSandboxesApart
    BY DEF IInv, TypeOK, HolderIsLocked, SandboxIsAwaited, LiveSandboxesApart,
           Locking, Leased
  <1> QED BY <1>1, Invariance, PTL

\* While nvidia-smi answers, no device is leased with a process on it: an answer
\* old enough to be wrong is an "occupied".
THEOREM OccupiedNeverLeased == Spec => NeverLeasedOccupied
  <1> DEFINE Sound(w) ==
        (BusyCheck /\ ~QueryMayFail /\ pc[w] \notin Leased /\ pc'[w] \in Leased)
            => ~Occupied(dev[w])
  <1>1. ASSUME IInv, [Next]_vars PROVE \A w \in Workers : Sound(w)
    <2> USE DEF IInv, TypeOK
    <2>1. ASSUME NEW v \in Workers, Accept(v) PROVE \A w \in Workers : Sound(w)
      <3>1. \A w \in Workers : w # v => pc'[w] = pc[w]
        BY <2>1 DEF Accept
      <3>2. pc[v] = "inspecting"
        BY <2>1 DEF Accept
      <3>3. dev[v] \in Devices
        BY <3>2, <1>1 DEF HolderIsLocked, Locking
      <3>a. cache[v][dev[v]] # "empty"
        BY <1>1, <3>2, <3>3 DEF NoEmptyRemembered
      <3>4. "empty" \in ForeignOccupants(dev[v])
        BY <2>1, <3>a DEF Accept
      <3>5. Sound(v)
        BY <3>4 DEF ForeignOccupants
      <3> QED BY <3>1, <3>5
    <2>2. ASSUME NEW v \in Workers, Lock(v) PROVE \A w \in Workers : Sound(w)
      BY <2>2, LeaseConstants DEF Lock, Leased
    <2>3. ASSUME NEW v \in Workers,
                 \/ Begin(v) \/ Skip(v) \/ Reject(v) \/ NextSweep(v) \/ GiveUp(v) \/ OpenFails(v)
                 \/ Spawn(v) \/ SpawnFails(v) \/ Reap(v) \/ Kill(v) \/ Release(v)
          PROVE  \A w \in Workers : Sound(w)
      <3>1. \A w \in Workers : w # v => pc'[w] = pc[w]
        <4>1. CASE Begin(v) \/ Skip(v) \/ Reject(v) \/ NextSweep(v) \/ GiveUp(v) \/ OpenFails(v)
          BY <1>1, <4>1 DEF Begin, Skip, Reject, NextSweep, GiveUp, OpenFails
        <4>2. CASE Spawn(v) \/ SpawnFails(v) \/ Reap(v) \/ Kill(v) \/ Release(v)
          BY <1>1, <4>2 DEF Spawn, SpawnFails, Reap, Kill, Release
        <4> QED BY <2>3, <4>1, <4>2
      <3>2. pc'[v] \notin Leased \/ pc[v] \in Leased
        <4>1. CASE Begin(v) \/ Skip(v) \/ Reject(v) \/ NextSweep(v) \/ GiveUp(v) \/ OpenFails(v)
          BY <1>1, <4>1 DEF Begin, Skip, Reject, NextSweep, GiveUp, OpenFails, Leased
        <4>2. CASE Spawn(v) \/ SpawnFails(v) \/ Reap(v) \/ Kill(v) \/ Release(v)
          BY <4>2 DEF Spawn, SpawnFails, Reap, Kill, Release, Leased
        <4> QED BY <2>3, <4>1, <4>2
      <3> QED BY <3>1, <3>2
    <2>4. CASE Environment
      <3>1. \A w \in Workers : pc'[w] = pc[w] \/ pc'[w] = "dead"
        BY <1>1, <2>4 DEF Environment, TouchDevice, ChildExits, Die, Expire, ForeignMoves
      <3>2. "dead" \notin Leased
        BY DEF Leased
      <3> QED BY <3>1, <3>2
    <2>5. CASE UNCHANGED vars
      BY <2>5 DEF vars
    <2> QED BY <1>1, <2>1, <2>2, <2>3, <2>4, <2>5 DEF Next, WorkerStep
  <1>2. IInv /\ [Next]_vars => [\A w \in Workers : Sound(w)]_vars
    BY <1>1
  <1> QED BY <1>2, Invariance, PTL DEF Spec, NeverLeasedOccupied

-----------------------------------------------------------------------------
(* The pool implements exclusive leases. *)

\* The abstract lease table.
Table == [d \in Devices |->
            IF flock[d] # None /\ pc[flock[d]] \in Leased THEN flock[d] ELSE None]

\* A step in which nobody's standing towards a lease changes.
LEMMA TableUndisturbed ==
    ASSUME TypeOK, NoLeakedLock, flock' = flock,
           \A v \in Workers : pc'[v] \in Leased <=> pc[v] \in Leased
    PROVE  Table' = Table
  <1>1. Leased' = Leased
    BY DEF Leased
  <1>2. \A d \in Devices : flock[d] # None => flock[d] \in Workers
    BY DEF TypeOK
  <1> QED BY <1>1, <1>2 DEF Table

\* Accepting a device (or locking it, with the busy check off) grants it.
LEMMA GrantsOne ==
    ASSUME IInv, NEW w \in Workers, NEW d \in Devices,
           pc[w] \notin Leased, pc'[w] \in Leased,
           \A v \in Workers : v # w => pc'[v] = pc[v],
           flock' = [flock EXCEPT ![d] = w],
           \/ pc[w] \notin Locking /\ flock[d] = None
           \/ dev[w] = d /\ flock[d] = w
    PROVE  Leases!Next
  <1> USE DEF IInv, TypeOK
  <1>1. Leased' = Leased
    BY DEF Leased
  <1>2. Table[d] = None /\ \A e \in Devices : Table[e] # w
    BY LeaseConstants DEF Table
  <1>3. Table' = [Table EXCEPT ![d] = w]
    <2>1. \A e \in Devices : e # d => flock'[e] = flock[e]
      OBVIOUS
    <2>2. flock'[d] = w
      OBVIOUS
    <2>3. \A e \in Devices : e # d => Table'[e] = Table[e]
      <3> SUFFICES ASSUME NEW e \in Devices, e # d PROVE Table'[e] = Table[e]
        OBVIOUS
      <3>1. CASE flock[e] = None
        BY <1>1, <2>1, <3>1 DEF Table
      <3>2. CASE flock[e] = w
        <4>1. pc[w] \in Locking /\ dev[w] = e
          BY <3>2, LeaseConstants DEF NoLeakedLock
        <4> QED BY <4>1
      <3>3. CASE flock[e] # None /\ flock[e] # w
        <4>1. flock[e] \in Workers /\ pc'[flock[e]] = pc[flock[e]]
          BY <3>3
        <4> QED BY <1>1, <2>1, <3>3, <4>1 DEF Table
      <3> QED BY <3>1, <3>2, <3>3
    <2>4. Table'[d] = w
      BY <1>1, <2>2, LeaseConstants DEF Table
    <2> QED BY <2>3, <2>4 DEF Table
  <1>4. Leases!Grant(w, d)
    BY <1>2, <1>3 DEF Leases!Grant, Table
  <1> HIDE DEF IInv, TypeOK
  <1> QED BY <1>4 DEF Leases!Next

\* Release and death revoke what the worker had, and nothing else.
LEMMA RevokesOwn ==
    ASSUME IInv, NEW w \in Workers,
           \A v \in Workers : v # w => pc'[v] = pc[v],
           flock' = [d \in Devices |-> IF flock[d] = w THEN None ELSE flock[d]]
    PROVE  Table' = Table \/ Leases!Next
  <1> USE DEF IInv, TypeOK
  <1>1. Leased' = Leased
    BY DEF Leased
  <1>2. \A d \in Devices : flock[d] # w => Table'[d] = Table[d]
    <2> SUFFICES ASSUME NEW d \in Devices, flock[d] # w PROVE Table'[d] = Table[d]
      OBVIOUS
    <2>1. flock'[d] = flock[d] /\ (flock[d] # None => pc'[flock[d]] = pc[flock[d]])
      OBVIOUS
    <2> QED BY <1>1, <2>1 DEF Table
  <1>3. \A d \in Devices : flock[d] = w => Table'[d] = None
    BY DEF Table
  <1>4. CASE pc[w] \notin Leased
    <2>1. \A d \in Devices : flock[d] = w => Table[d] = None
      BY <1>4 DEF Table
    <2> QED BY <1>2, <1>3, <2>1 DEF Table
  <1>5. CASE pc[w] \in Leased
    <2>1. dev[w] \in Devices /\ flock[dev[w]] = w
      BY <1>5 DEF HolderIsLocked, Locking
    <2>2. PICK d \in Devices : d = dev[w]
      BY <2>1
    <2>3. Table[d] = w /\ w # None
      BY <1>5, <2>1, <2>2, LeaseConstants DEF Table
    <2>4. \A e \in Devices : e # d => flock[e] # w
      BY <2>2, LeaseConstants DEF NoLeakedLock
    <2>5. Table' = [Table EXCEPT ![d] = None]
      BY <1>2, <1>3, <2>1, <2>2, <2>4, ZenonT(60) DEF Table
    <2>6. Leases!Revoke(d)
      BY <2>3, <2>5 DEF Leases!Revoke, Table
    <2> QED BY <2>6 DEF Leases!Next
  <1> QED BY <1>4, <1>5

\* The sweeps, locks, occupancy answers, sandboxes and deaths of the pool
\* implement exclusive leases (the safety half of LeasesImplemented).
THEOREM LeasesAreExclusive == Spec => Leases!SafeSpec
  <1>1. Init => Leases!Init
    BY DEF Init, Leases!Init
  <1>2. ASSUME IInv, [Next]_vars
        PROVE  Table' = Table \/ Leases!Next
    <2> USE DEF IInv, TypeOK
    <2>1. ASSUME NEW w \in Workers, Accept(w) PROVE Leases!Next
      <3>1. pc[w] = "inspecting" /\ pc' = [pc EXCEPT ![w] = "leased"] /\ flock' = flock
        BY <2>1 DEF Accept
      <3>2. dev[w] \in Devices /\ flock[dev[w]] = w
        BY <1>2, <3>1 DEF HolderIsLocked, Locking
      <3>3. flock' = [flock EXCEPT ![dev[w]] = w]
        BY <1>2, <3>1, <3>2
      <3>4. pc[w] \notin Leased /\ pc'[w] \in Leased
        BY <1>2, <3>1 DEF Leased
      <3>5. \A v \in Workers : v # w => pc'[v] = pc[v]
        BY <1>2, <3>1
      <3> HIDE DEF IInv, TypeOK
      <3> QED BY <1>2, <3>2, <3>3, <3>4, <3>5, GrantsOne
    <2>2. ASSUME NEW w \in Workers, Lock(w) PROVE Table' = Table \/ Leases!Next
      <3> DEFINE d == Cursor(w)
      <3>1. d \in Devices
        BY <1>2, CursorIsDevice
      <3>2. /\ pc[w] = "sweeping" /\ flock[d] = None
            /\ flock' = [flock EXCEPT ![d] = w]
            /\ pc' = [pc EXCEPT ![w] = IF BusyCheck THEN "inspecting" ELSE "leased"]
        BY <2>2 DEF Lock
      <3> HIDE DEF d
      <3>3. pc[w] \notin Leased /\ pc[w] \notin Locking
        BY <3>2 DEF Leased, Locking
      <3>4. \A v \in Workers : v # w => pc'[v] = pc[v]
        BY <1>2, <3>2
      <3>5. CASE BusyCheck
        <4>1. Leased' = Leased /\ pc'[w] \notin Leased
          BY <1>2, <3>2, <3>5 DEF Leased
        <4>2. \A e \in Devices : e # d => flock'[e] = flock[e]
          BY <1>2, <3>2
        <4>3. \A e \in Devices : flock[e] # None => flock[e] \in Workers /\ flock[e] # w
          BY <1>2, <3>3 DEF NoLeakedLock
        <4>4. flock'[d] = w
          BY <1>2, <3>1, <3>2
        <4>5. Table'[d] = None /\ Table[d] = None
          BY <3>1, <3>2, <4>1, <4>4 DEF Table
        <4>6. \A e \in Devices : e # d => Table'[e] = Table[e]
          BY <3>4, <4>1, <4>2, <4>3 DEF Table
        <4> QED BY <4>5, <4>6 DEF Table
      <3>6. CASE ~BusyCheck
        <4>1. pc'[w] \in Leased
          BY <1>2, <3>2, <3>6 DEF Leased
        <4> HIDE DEF IInv, TypeOK
        <4> QED BY <1>2, <3>1, <3>2, <3>3, <3>4, <4>1, GrantsOne
      <3> QED BY <3>5, <3>6
    <2>3. ASSUME NEW w \in Workers, Reject(w) \/ Release(w)
          PROVE  Table' = Table \/ Leases!Next
      <3>1. pc[w] \in Locking
        BY <2>3 DEF Reject, Release, Locking, Leased
      <3>2. dev[w] \in Devices /\ flock[dev[w]] = w
        BY <1>2, <3>1 DEF HolderIsLocked
      <3>3. flock' = [flock EXCEPT ![dev[w]] = None]
        BY <2>3 DEF Reject, Release
      <3>4. \A d \in Devices : d # dev[w] => flock[d] # w
        BY <1>2, LeaseConstants DEF NoLeakedLock
      <3>5. flock' = [d \in Devices |-> IF flock[d] = w THEN None ELSE flock[d]]
        BY <1>2, <3>2, <3>3, <3>4
      <3>6. \A v \in Workers : v # w => pc'[v] = pc[v]
        BY <1>2, <2>3 DEF Reject, Release
      <3> HIDE DEF IInv, TypeOK
      <3> QED BY <1>2, <3>5, <3>6, RevokesOwn
    <2>4. ASSUME NEW w \in Workers, Die(w) PROVE Table' = Table \/ Leases!Next
      <3>1. \A v \in Workers : v # w => pc'[v] = pc[v]
        BY <1>2, <2>4 DEF Die
      <3> HIDE DEF IInv, TypeOK
      <3> QED BY <1>2, <2>4, <3>1, RevokesOwn DEF Die
    <2>5. ASSUME NEW w \in Workers,
                 Begin(w) \/ Skip(w) \/ NextSweep(w) \/ GiveUp(w) \/ OpenFails(w)
          PROVE  Table' = Table
      <3>1. flock' = flock /\ \A v \in Workers : v # w => pc'[v] = pc[v]
        BY <1>2, <2>5 DEF Begin, Skip, NextSweep, GiveUp, OpenFails
      <3>2. pc'[w] \notin Leased /\ pc[w] \notin Leased
        BY <1>2, <2>5 DEF Begin, Skip, NextSweep, GiveUp, OpenFails, Leased
      <3> QED BY <1>2, <3>1, <3>2, TableUndisturbed
    <2>6. ASSUME NEW w \in Workers,
                 Spawn(w) \/ SpawnFails(w) \/ Reap(w) \/ Kill(w)
          PROVE  Table' = Table
      <3>1. flock' = flock /\ \A v \in Workers : v # w => pc'[v] = pc[v]
        BY <1>2, <2>6 DEF Spawn, SpawnFails, Reap, Kill
      <3>2. pc'[w] \in Leased /\ pc[w] \in Leased
        BY <1>2, <2>6 DEF Spawn, SpawnFails, Reap, Kill, Leased
      <3> QED BY <1>2, <3>1, <3>2, TableUndisturbed
    <2>7. CASE \/ \E w \in Workers : TouchDevice(w) \/ ChildExits(w)
               \/ \E w \in Workers, d \in Devices : Expire(w, d)
               \/ \E d \in Devices : ForeignMoves(d)
               \/ UNCHANGED vars
      <3>1. flock' = flock /\ pc' = pc
        BY <2>7 DEF TouchDevice, ChildExits, Expire, ForeignMoves, vars
      <3> QED BY <1>2, <3>1, TableUndisturbed
    <2> QED
      BY <1>2, <2>1, <2>2, <2>3, <2>4, <2>5, <2>6, <2>7
      DEF Next, WorkerStep, Environment
  <1>3. IInv /\ [Next]_vars => [Leases!Next]_Table
    BY <1>2
  <1> QED BY <1>1, <1>3, Invariance, PTL DEF Spec, Leases!SafeSpec, Table
=============================================================================
