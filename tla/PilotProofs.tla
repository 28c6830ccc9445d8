---------------------------- MODULE PilotProofs ----------------------------
(***************************************************************************)
(* Theorems about the grid driver, for any grid, number of workers and of  *)
(* invocations, and any number of kills and full disks.                    *)
(***************************************************************************)
EXTENDS PilotDriver, FiniteSetTheorems, SequenceTheorems, TLAPS

Lines == [cell : Cells \cup {None}, kind : Kinds]
PCs == {"off", "getting", "running", "appending", "exited", "crashed"}
Workers == [pc : PCs, cell : Cells \cup {None}, kind : Kinds \cup {None}]

\* A worker that has a cell in hand, and one that may still take one.
Holds(i, s, c) == worker[i][s].pc \in {"running", "appending"} /\ worker[i][s].cell = c
Awake(i) == \E s \in Slots : worker[i][s].pc \notin Stopped
Crashed(i) == \E s \in Slots : worker[i][s].pc = "crashed"

\* The rows that finish a cell, and the invocations that may add one more.
Rows(c) == {k \in DOMAIN ledger : ledger[k].cell = c /\ ledger[k].kind \notin {"error", "junk"}}
Live(c) == {i \in Invocations : Awake(i) /\ (c \in queue[i] \/ \E s \in Slots : Holds(i, s, c))}

HasLine(c) == \E k \in DOMAIN ledger : ledger[k].cell = c
Covered(c) == c \in garbled \/ HasLine(c)

PilotTypes ==
    /\ ledger \in Seq(Lines) /\ torn \in BOOLEAN
    /\ driver \in [Invocations -> {"unstarted", "joining", "killed", "exit0", "exit1"}]
    /\ queue \in [Invocations -> SUBSET Cells]
    /\ jammed \in [Invocations -> BOOLEAN]
    /\ worker \in [Invocations -> [Slots -> Workers]]
    /\ workerKills \in Nat /\ driverKills \in Nat /\ diskFaults \in Nat
    /\ garbled \subseteq Cells /\ IsFiniteSet(garbled)

\* A worker at work has a cell, one that appends has a row of it.
AtWork ==
    \A i \in Invocations, s \in Slots :
        /\ worker[i][s].pc \in {"running", "appending"} => worker[i][s].cell \in Cells
        /\ worker[i][s].pc = "appending" => worker[i][s].kind \in {"good", "error", "cut"}

\* The lock is held to append, and a torn line is the last one.
LockHeld ==
    \A i \in Invocations, s \in Slots : flock = <<i, s>> => worker[i][s].pc = "appending"
TornLast ==
    torn => ledger # <<>>

\* Within an invocation a cell is in the queue or in one pair of hands.
InOnePlace ==
    \A i \in Invocations, s \in Slots, c \in Cells :
        Holds(i, s, c) => c \notin queue[i] /\ \A t \in Slots : Holds(i, t, c) => t = s

\* Invocations come one after the other and exit without leaving workers.
InOrder ==
    \A i \in Invocations :
        /\ driver[i] = "unstarted" =>
             /\ \A j \in Invocations : j > i => driver[j] = "unstarted"
             /\ \A s \in Slots : worker[i][s].pc = "off"
        /\ driver[i] \in {"exit0", "exit1"} => ~Awake(i)

Killed == {i \in Invocations : driver[i] = "killed"}
KillsCounted == driverKills = Cardinality(Killed)

\* A row now and one more for every invocation that may still add one.
FewRows == \A c \in Cells : Cardinality(Rows(c)) + Cardinality(Live(c)) <= 1 + driverKills

\* While main joins, no cell gets lost without a crash that it will see.
Accounted ==
    \A i \in Invocations :
        /\ jammed[i] => Crashed(i)
        /\ driver[i] = "joining" =>
             /\ \A s \in Slots : worker[i][s].pc # "off"
             /\ \A s \in Slots : worker[i][s].pc = "exited" => queue[i] = {} \/ Crashed(i)
             /\ \A c \in Cells : \/ Covered(c) \/ c \in queue[i] \/ Crashed(i)
                                 \/ \E s \in Slots : Holds(i, s, c)
        /\ driver[i] = "exit0" => \A c \in Cells : Covered(c)

\* A line is torn by a full disk or a kill, and costs at most two rows.
TornCounted ==
    /\ Cardinality(garbled) <= 2 * (diskFaults + workerKills)
    /\ torn => Cardinality(garbled) + 2 <= 2 * (diskFaults + workerKills)

PilotInv ==
    /\ PilotTypes /\ AtWork /\ LockHeld /\ TornLast /\ InOnePlace /\ InOrder
    /\ KillsCounted /\ FewRows /\ Accounted /\ TornCounted

-----------------------------------------------------------------------------
(* The ledger. *)

\* The records of workers and lines that actions write are typed.
LEMMA RecordsTyped ==
    /\ Off \in Workers /\ Getting \in Workers
    /\ \A p \in PCs : Ended(p) \in Workers /\ Ended(p).pc = p
    /\ Getting.pc = "getting" /\ Line(None, "junk") \in Lines
    /\ Line(None, "junk").cell = None /\ Line(None, "junk").kind = "junk"
  BY DEF Off, Getting, Ended, Workers, PCs, Line, Lines, Kinds

\* One line more.
LEMMA LineAppended ==
    ASSUME ledger \in Seq(Lines), NEW l \in Lines, ledger' = Append(ledger, l)
    PROVE  /\ ledger' \in Seq(Lines) /\ ledger' # <<>> /\ ledger'[Len(ledger')] = l
           /\ Len(ledger) + 1 \in DOMAIN ledger' /\ ledger'[Len(ledger) + 1] = l
           /\ DOMAIN ledger' = DOMAIN ledger \cup {Len(ledger) + 1}
           /\ \A k \in DOMAIN ledger : ledger'[k] = ledger[k] /\ k # Len(ledger) + 1
  <1>1. /\ ledger' \in Seq(Lines) /\ Len(ledger') = Len(ledger) + 1 /\ Len(ledger) \in Nat
        /\ DOMAIN ledger = 1..Len(ledger) /\ DOMAIN ledger' = 1..(Len(ledger) + 1)
        /\ \A k \in 1..Len(ledger) : ledger'[k] = ledger[k]
        /\ ledger'[Len(ledger) + 1] = l
    OBVIOUS
  <1> QED BY <1>1

\* A torn line and the next row become one line that is neither.
LEMMA TornJoined ==
    ASSUME ledger \in Seq(Lines), ledger # <<>>, NEW l \in Lines,
           ledger' = Append(Front(ledger), l)
    PROVE  /\ ledger' \in Seq(Lines) /\ ledger' # <<>> /\ DOMAIN ledger' = DOMAIN ledger
           /\ \A k \in DOMAIN ledger : ledger'[k] = IF k = Len(ledger) THEN l ELSE ledger[k]
           /\ Last(ledger) = ledger[Len(ledger)] /\ ledger[Len(ledger)] \in Lines
  <1> DEFINE n == Len(ledger)
  <1>1. ledger \in Seq(Lines) /\ n \in Nat /\ n > 0 /\ DOMAIN ledger = 1..n
    <2>1. n \in Nat \ {0}
      BY EmptySeq
    <2>2. DOMAIN ledger = 1..n
      BY LenProperties
    <2> QED BY <2>1, <2>2
  <1>2. /\ Front(ledger) \in Seq(Lines) /\ Len(Front(ledger)) = n - 1
        /\ \A k \in 1..(n - 1) : Front(ledger)[k] = ledger[k]
    <2>1. \A k \in 1..(n - 1) : ledger[k] \in Lines
      BY <1>1, ElementOfSeq
    <2>2. /\ SubSeq(ledger, 1, n - 1) \in Seq(Lines)
          /\ Len(SubSeq(ledger, 1, n - 1)) = IF 1 <= n - 1 THEN n - 1 - 1 + 1 ELSE 0
          /\ \A k \in 1..(n - 1 - 1 + 1) : SubSeq(ledger, 1, n - 1)[k] = ledger[1 + k - 1]
      BY <1>1, <2>1, SubSeqProperties
    <2> QED BY <1>1, <2>2 DEF Front
  <1> DEFINE new == Append(Front(ledger), l)
  <1>3. /\ new \in Seq(Lines) /\ Len(new) = n - 1 + 1
        /\ \A k \in 1..(n - 1) : new[k] = Front(ledger)[k]
        /\ new[n - 1 + 1] = l
    BY <1>2, AppendProperties
  <1>4. ledger' = new
    OBVIOUS
  <1>5. Last(ledger) = ledger[n] /\ ledger[n] \in Lines
    BY <1>1, ElementOfSeq DEF Last
  <1> HIDE DEF new, n
  <1>6. n - 1 + 1 = n /\ \A k \in 1..n : k \in 1..(n - 1) \/ k = n
    BY <1>1
  <1>7. \A k \in 1..n : new[k] = IF k = n THEN l ELSE ledger[k]
    BY <1>1, <1>2, <1>3, <1>6
  <1>8. DOMAIN new = 1..n /\ new # <<>>
    <2>1. Len(new) = n
      BY <1>3, <1>6
    <2>2. DOMAIN new = 1..n
      BY <1>3, <2>1, LenProperties
    <2>3. new # <<>>
      BY <1>1, <1>3, <2>1, EmptySeq
    <2> QED BY <2>2, <2>3
  <1> QED BY <1>1, <1>3, <1>4, <1>5, <1>7, <1>8 DEF n

\* Rows and invocations can be counted.
LEMMA CountsFinite ==
    ASSUME PilotTypes, NEW c
    PROVE  /\ IsFiniteSet(Rows(c)) /\ Cardinality(Rows(c)) \in Nat
           /\ IsFiniteSet(Live(c)) /\ Cardinality(Live(c)) \in Nat
           /\ IsFiniteSet(Killed) /\ Cardinality(Killed) \in Nat
  <1>1. IsFiniteSet(DOMAIN ledger) /\ IsFiniteSet(Invocations)
    <2>1. Len(ledger) \in Nat /\ DOMAIN ledger = 1..Len(ledger)
      BY LenProperties DEF PilotTypes
    <2>2. MaxInvocations \in Int /\ Invocations = 1..MaxInvocations
      BY PilotConstants DEF Invocations
    <2> QED BY <2>1, <2>2, FS_Interval
  <1>2. Rows(c) \subseteq DOMAIN ledger /\ Live(c) \subseteq Invocations /\ Killed \subseteq Invocations
    BY DEF Rows, Live, Killed
  <1> QED BY <1>1, <1>2, FS_Subset, FS_CardinalityType

\* No more rows, and no invocation newly live: the bound stays.
LEMMA NoNewRows ==
    ASSUME PilotTypes, PilotTypes', FewRows, driverKills' >= driverKills,
           \A c \in Cells : Rows(c)' \subseteq Rows(c) /\ Live(c)' \subseteq Live(c)
    PROVE  FewRows'
  <1> SUFFICES ASSUME NEW c \in Cells
               PROVE  Cardinality(Rows(c)') + Cardinality(Live(c)') <= 1 + driverKills'
    BY DEF FewRows
  <1>1. /\ Cardinality(Rows(c)') \in Nat /\ Cardinality(Rows(c)') <= Cardinality(Rows(c))
        /\ Cardinality(Live(c)') \in Nat /\ Cardinality(Live(c)') <= Cardinality(Live(c))
        /\ Cardinality(Rows(c)) \in Nat /\ Cardinality(Live(c)) \in Nat
    BY CountsFinite, FS_Subset, FS_CardinalityType
  <1>2. driverKills \in Nat /\ driverKills' \in Nat
    BY DEF PilotTypes
  <1>3. Cardinality(Rows(c)) + Cardinality(Live(c)) <= 1 + driverKills
    BY DEF FewRows
  <1> QED BY <1>1, <1>2, <1>3

-----------------------------------------------------------------------------
(* The steps of main. *)

\* What the invariant says of workers, rows and cells, of the steps that leave
\* the workers, the queues, the lock and the files alone.
LEMMA DriverMoves ==
    ASSUME PilotInv, NEW i \in Invocations, NEW d,
           d \in {"killed", "exit0", "exit1"}, driver[i] = "joining",
           driver' = [driver EXCEPT ![i] = d],
           d = "killed" => driverKills' = driverKills + 1,
           d # "killed" => driverKills' = driverKills /\ ~Awake(i),
           d = "exit0" => \A c \in Cells : Covered(c),
           UNCHANGED <<ledger, torn, flock, queue, jammed, worker, workerKills, diskFaults,
                       garbled>>
    PROVE  PilotInv'
  <1> USE DEF PilotInv
  <1>1. PilotTypes' /\ AtWork' /\ LockHeld' /\ TornLast' /\ TornCounted'
    <2>1. PilotTypes'
      BY DEF PilotTypes
    <2>2. AtWork' /\ LockHeld'
      BY DEF AtWork, LockHeld
    <2>3. TornLast' /\ TornCounted'
      BY DEF TornLast, TornCounted
    <2> QED BY <2>1, <2>2, <2>3
  <1>2. \A c \in Cells : \A j \in Invocations, s \in Slots : Holds(j, s, c)' <=> Holds(j, s, c)
    BY DEF Holds
  <1>3. \A j \in Invocations : (Awake(j)' <=> Awake(j)) /\ (Crashed(j)' <=> Crashed(j))
    BY DEF Awake, Crashed
  <1>4. InOnePlace'
    BY DEF InOnePlace, Holds
  <1>5. \A j \in Invocations : driver'[j] = IF j = i THEN d ELSE driver[j]
    BY DEF PilotTypes
  <1>6. InOrder'
    BY <1>3, <1>5 DEF InOrder
  <1>7. KillsCounted'
    <2>1. i \notin Killed /\ IsFiniteSet(Killed)
      BY CountsFinite DEF Killed
    <2>2. CASE d = "killed"
      <3>1. Killed' = Killed \cup {i}
        BY <1>5, <2>2 DEF Killed
      <3> QED BY <2>1, <2>2, <3>1, FS_AddElement DEF KillsCounted
    <2>3. CASE d # "killed"
      <3>1. Killed' = Killed
        BY <1>5, <2>1, <2>3 DEF Killed
      <3> QED BY <2>3, <3>1 DEF KillsCounted, PilotTypes
    <2> QED BY <2>2, <2>3
  <1>8. FewRows'
    <2>1. \A c \in Cells : Rows(c)' \subseteq Rows(c) /\ Live(c)' \subseteq Live(c)
      BY <1>2, <1>3 DEF Rows, Live
    <2>2. driverKills' >= driverKills
      BY DEF PilotTypes
    <2> QED BY <1>1, <2>1, <2>2, NoNewRows
  <1>9. Accounted'
    <2>1. \A c \in Cells : Covered(c)' <=> Covered(c)
      BY DEF Covered, HasLine
    <2> QED BY <1>2, <1>3, <1>5, <2>1 DEF Accounted
  <1> QED BY <1>1, <1>4, <1>6, <1>7, <1>8, <1>9

\* main returns 0 only if no worker crashed, and then every cell got somewhere.
LEMMA JoinStep ==
    ASSUME PilotInv, NEW i \in Invocations, Join(i) \/ KillDriver(i)
    PROVE  PilotInv'
  <1>1. CASE KillDriver(i)
    BY <1>1, DriverMoves DEF KillDriver
  <1>2. CASE Join(i)
    <2> DEFINE d == IF Crashed(i) THEN "exit1" ELSE "exit0"
    <2>1. /\ driver[i] = "joining" /\ \A s \in Slots : worker[i][s].pc \in Stopped
          /\ driver' = [driver EXCEPT ![i] = d]
      BY <1>2 DEF Join, Crashed
    <2>2. ~Awake(i)
      BY <2>1 DEF Awake
    <2>3. d = "exit0" => \A c \in Cells : Covered(c)
      <3> SUFFICES ASSUME ~Crashed(i), NEW c \in Cells PROVE Covered(c)
        OBVIOUS
      <3>1. \A s \in Slots : worker[i][s].pc = "exited"
        BY <2>1 DEF PilotInv, Accounted, Crashed, Stopped
      <3>2. queue[i] = {}
        BY <2>1, <3>1, PilotConstants DEF PilotInv, Accounted
      <3>3. ~\E s \in Slots : Holds(i, s, c)
        BY <3>1 DEF Holds
      <3> QED BY <2>1, <3>2, <3>3 DEF PilotInv, Accounted
    <2>4. d \in {"killed", "exit0", "exit1"} /\ d # "killed"
      OBVIOUS
    <2>5. driverKills' = driverKills
      BY <1>2 DEF Join
    <2> HIDE DEF d
    <2> QED BY <1>2, <2>1, <2>2, <2>3, <2>4, <2>5, DriverMoves DEF Join
  <1> QED BY <1>1, <1>2

\* A new invocation queues what has no finishing row; whoever may still add one
\* belongs to a killed driver.
LEMMA InvokeStep ==
    ASSUME PilotInv, NEW i \in Invocations, Invoke(i)
    PROVE  PilotInv'
  <1> USE DEF PilotInv
  <1>1. /\ driver[i] = "unstarted"
        /\ \A j \in Invocations : j < i => driver[j] \notin {"unstarted", "joining"}
        /\ queue' = [queue EXCEPT ![i] = Cells \ Completed]
        /\ \/ /\ Cells \subseteq Completed
              /\ driver' = [driver EXCEPT ![i] = "exit0"] /\ worker' = worker
           \/ /\ ~(Cells \subseteq Completed)
              /\ driver' = [driver EXCEPT ![i] = "joining"]
              /\ worker' = [worker EXCEPT ![i] = [s \in Slots |-> Getting]]
        /\ UNCHANGED <<ledger, torn, flock, jammed, workerKills, driverKills, diskFaults,
                       garbled>>
    BY DEF Invoke
  <1>2. \A j \in Invocations : j # i => /\ queue'[j] = queue[j] /\ driver'[j] = driver[j]
                                       /\ worker'[j] = worker[j] /\ driver[j] # "joining"
    <2>1. \A j \in Invocations : j > i => driver[j] = "unstarted"
      BY <1>1 DEF InOrder
    <2>2. \A j \in Invocations : j # i => j < i \/ j > i
      BY DEF Invocations
    <2> QED BY <1>1, <2>1, <2>2 DEF PilotTypes
  <1>3. /\ queue'[i] = Cells \ Completed /\ \A s \in Slots : worker[i][s].pc = "off"
        /\ \/ /\ driver'[i] = "exit0" /\ worker'[i] = worker[i] /\ Cells \subseteq Completed
           \/ /\ driver'[i] = "joining" /\ \A s \in Slots : worker'[i][s] = Getting
    BY <1>1 DEF PilotTypes, InOrder
  <1>4. PilotTypes'
    BY <1>1, RecordsTyped DEF PilotTypes
  <1>5. /\ \A s \in Slots : worker'[i][s].pc \in {"off", "getting"}
        /\ ~Crashed(i) /\ ~Crashed(i)'
    BY <1>3, RecordsTyped DEF Crashed
  <1>6. /\ \A j \in Invocations : j # i => (Awake(j)' <=> Awake(j)) /\ (Crashed(j)' <=> Crashed(j))
        /\ \A j \in Invocations, s \in Slots, c \in Cells :
              Holds(j, s, c)' <=> j # i /\ Holds(j, s, c)
    BY <1>2, <1>5 DEF Awake, Crashed, Holds
  <1>7. AtWork' /\ LockHeld' /\ TornLast' /\ TornCounted'
    <2>1. AtWork'
      BY <1>2, <1>5 DEF AtWork
    <2>2. LockHeld'
      BY <1>1, <1>2, <1>3 DEF LockHeld
    <2> QED BY <1>1, <2>1, <2>2 DEF TornLast, TornCounted
  <1>8. InOnePlace'
    BY <1>2, <1>6 DEF InOnePlace
  <1>9. InOrder'
    <2>1. driver'[i] = "exit0" => ~Awake(i)'
      BY <1>3 DEF Awake, Stopped
    <2>2. \A j \in Invocations : driver'[j] = "unstarted" => j # i /\ driver[j] = "unstarted"
      BY <1>2, <1>3
    <2>3. \A j \in Invocations : j < i => driver[j] # "unstarted"
      BY <1>1
    <2>4. \A j, k \in Invocations : j > k /\ driver'[k] = "unstarted" => j # i
      BY <2>2, <2>3
    <2> QED BY <1>2, <1>3, <1>6, <2>1, <2>2, <2>4 DEF InOrder
  <1>10. KillsCounted'
    <2>1. Killed' = Killed
      BY <1>1, <1>2, <1>3 DEF Killed
    <2> QED BY <1>1, <2>1 DEF KillsCounted
  <1>11. FewRows'
    <2> SUFFICES ASSUME NEW c \in Cells
                 PROVE  Cardinality(Rows(c)') + Cardinality(Live(c)') <= 1 + driverKills'
      BY DEF FewRows
    <2>1. Rows(c)' = Rows(c)
      BY <1>1 DEF Rows
    <2>2. Live(c)' \subseteq Live(c) \cup {i}
      BY <1>2, <1>6 DEF Live
    <2>3. /\ Cardinality(Rows(c)) \in Nat /\ driverKills \in Nat
          /\ IsFiniteSet(Live(c)) /\ Cardinality(Live(c)) \in Nat
          /\ Cardinality(Live(c)') \in Nat /\ IsFiniteSet(Killed)
      <3>1. /\ Cardinality(Rows(c)) \in Nat /\ driverKills \in Nat
            /\ IsFiniteSet(Live(c)) /\ Cardinality(Live(c)) \in Nat /\ IsFiniteSet(Killed)
        BY CountsFinite DEF PilotTypes
      <3>2. IsFiniteSet(Live(c) \cup {i})
        BY <3>1, FS_AddElement
      <3>3. Cardinality(Live(c)') \in Nat
        BY <2>2, <3>2, FS_Subset, FS_CardinalityType
      <3> QED BY <3>1, <3>3
    <2>4. Cardinality(Rows(c)) + Cardinality(Live(c)) <= 1 + driverKills
      BY DEF FewRows
    <2>5. CASE c \in Completed
      <3>1. i \notin Live(c)'
        BY <1>3, <1>6, <2>5 DEF Live
      <3>2. Cardinality(Live(c)') <= Cardinality(Live(c))
        BY <2>2, <2>3, <3>1, FS_Subset
      <3> QED BY <1>1, <2>1, <2>3, <2>4, <3>2
    <2>6. CASE c \notin Completed
      <3>1. Rows(c) = {}
        BY <2>6 DEF Completed, Rows, ToSet
      <3>2. Live(c) \subseteq Killed
        <4>1. \A j \in Invocations : Awake(j) => driver[j] \notin {"unstarted", "exit0", "exit1"}
          BY DEF InOrder, Awake, Stopped
        <4>2. ~Awake(i)
          BY <1>3 DEF Awake, Stopped
        <4> QED BY <1>2, <4>1, <4>2 DEF Live, Killed, PilotTypes
      <3>3. Cardinality(Live(c)) <= driverKills
        BY <2>3, <3>2, FS_Subset DEF KillsCounted
      <3>4. Cardinality(Live(c)') <= Cardinality(Live(c)) + 1
        <4>1. /\ IsFiniteSet(Live(c) \cup {i})
              /\ \/ Cardinality(Live(c) \cup {i}) = Cardinality(Live(c))
                 \/ Cardinality(Live(c) \cup {i}) = Cardinality(Live(c)) + 1
          BY <2>3, FS_AddElement
        <4>2. Cardinality(Live(c)') <= Cardinality(Live(c) \cup {i})
          BY <2>2, <4>1, FS_Subset
        <4> QED BY <2>3, <4>1, <4>2
      <3>5. Cardinality(Rows(c)') = 0
        BY <2>1, <3>1, FS_EmptySet
      <3> QED BY <1>1, <2>3, <3>3, <3>4, <3>5
    <2> QED BY <2>5, <2>6
  <1>12. Accounted'
    <2>1. \A c \in Cells : (c \in Completed => Covered(c)) /\ (Covered(c)' <=> Covered(c))
      BY <1>1 DEF Completed, Covered, HasLine, ToSet
    <2>2. \A j \in Invocations : j # i /\ driver[j] = "exit0" => \A c \in Cells : Covered(c)
      BY DEF Accounted
    <2>3. jammed'[i] => Crashed(i)'
      BY <1>1, <1>5 DEF Accounted
    <2>4. /\ driver'[i] = "joining" => \A s \in Slots : worker'[i][s].pc = "getting"
          /\ \A c \in Cells : Covered(c)' \/ c \in queue'[i]
          /\ driver'[i] = "exit0" => \A c \in Cells : Covered(c)'
      BY <1>3, <2>1, RecordsTyped
    <2>6. /\ jammed'[i] => Crashed(i)'
          /\ driver'[i] = "joining" =>
               /\ \A s \in Slots : worker'[i][s].pc # "off" /\ worker'[i][s].pc # "exited"
               /\ \A c \in Cells : Covered(c)' \/ c \in queue'[i]
          /\ driver'[i] = "exit0" => \A c \in Cells : Covered(c)'
      BY <2>3, <2>4
    <2> SUFFICES ASSUME NEW j \in Invocations
                 PROVE  /\ jammed'[j] => Crashed(j)'
                        /\ driver'[j] = "joining" =>
                             /\ \A s \in Slots : worker'[j][s].pc # "off"
                             /\ \A s \in Slots : worker'[j][s].pc = "exited" =>
                                   queue'[j] = {} \/ Crashed(j)'
                             /\ \A c \in Cells : \/ Covered(c)' \/ c \in queue'[j] \/ Crashed(j)'
                                                 \/ \E s \in Slots : Holds(j, s, c)'
                        /\ driver'[j] = "exit0" => \A c \in Cells : Covered(c)'
      BY DEF Accounted
    <2>7. CASE j = i
      BY <2>6, <2>7
    <2>8. CASE j # i
      <3>1. jammed'[j] => Crashed(j)'
        BY <1>1, <1>6, <2>8 DEF Accounted
      <3>2. driver'[j] # "joining" /\ (driver'[j] = "exit0" => \A c \in Cells : Covered(c)')
        BY <1>2, <2>1, <2>2, <2>8
      <3> QED BY <3>1, <3>2
    <2> QED BY <2>7, <2>8
  <1> QED BY <1>4, <1>7, <1>8, <1>9, <1>10, <1>11, <1>12

-----------------------------------------------------------------------------
(* The steps of a worker. *)

\* What a worker's step leaves true of workers, queues and cells: a live worker
\* takes a cell only from the queue, and drops it only into the file or in a
\* crash.
LEMMA StepKeeps ==
    ASSUME PilotInv, NEW i \in Invocations, NEW s \in Slots, NEW w \in Workers,
           worker[i][s].pc \notin Stopped, worker' = [worker EXCEPT ![i][s] = w],
           w.pc # "off",
           w.pc \in {"running", "appending"} =>
             /\ w.cell \in Cells /\ w.cell \notin queue'[i]
             /\ Holds(i, s, w.cell) \/ w.cell \in queue[i],
           w.pc = "appending" => w.kind \in {"good", "error", "cut"},
           w.pc = "exited" => queue[i] = {} \/ jammed[i],
           \A j \in Invocations : j # i => queue'[j] = queue[j] /\ jammed'[j] = jammed[j],
           queue'[i] \subseteq queue[i],
           jammed'[i] => jammed[i] \/ w.pc = "crashed",
           \A c \in queue[i] : c \in queue'[i] \/ (w.pc = "running" /\ w.cell = c),
           \A c \in Cells : Covered(c) => Covered(c)',
           \A c \in Cells : Holds(i, s, c) => \/ w.pc \in {"running", "appending"} /\ w.cell = c
                                             \/ w.pc = "crashed" \/ Covered(c)',
           UNCHANGED <<driver, driverKills>>
    PROVE  /\ AtWork' /\ InOnePlace' /\ InOrder' /\ KillsCounted' /\ Accounted'
           /\ \A c \in Cells : Live(c)' \subseteq Live(c)
  <1> USE DEF PilotInv
  <1>1. /\ worker'[i][s] = w
        /\ \A t \in Slots : t # s => worker'[i][t] = worker[i][t]
        /\ \A j \in Invocations : j # i => worker'[j] = worker[j]
    BY DEF PilotTypes
  <1>2. /\ Awake(i) /\ \A j \in Invocations : Awake(j)' => Awake(j)
        /\ \A j \in Invocations : j # i => (Crashed(j)' <=> Crashed(j))
        /\ Crashed(i) \/ w.pc = "crashed" <=> Crashed(i)'
    <2>1. Awake(i)
      BY DEF Awake
    <2>2. \A j \in Invocations : Awake(j)' => Awake(j)
      BY <1>1, <2>1 DEF Awake
    <2>3. \A j \in Invocations : j # i => (Crashed(j)' <=> Crashed(j))
      BY <1>1 DEF Crashed
    <2>4. Crashed(i) \/ w.pc = "crashed" <=> Crashed(i)'
      BY <1>1 DEF Crashed, Stopped
    <2> QED BY <2>1, <2>2, <2>3, <2>4
  <1>3. driver[i] \notin {"unstarted", "exit0", "exit1"}
    BY <1>2 DEF InOrder, Awake, Stopped
  <1>4. AtWork'
    BY <1>1 DEF AtWork
  <1>5. InOnePlace'
    <2> SUFFICES ASSUME NEW j \in Invocations, NEW t \in Slots, NEW c \in Cells, Holds(j, t, c)'
                 PROVE  c \notin queue'[j] /\ \A u \in Slots : Holds(j, u, c)' => u = t
      BY DEF InOnePlace
    <2>1. CASE j # i
      BY <1>1, <2>1 DEF InOnePlace, Holds
    <2>2. CASE j = i /\ t = s
      BY <1>1, <2>2 DEF InOnePlace, Holds
    <2>3. CASE j = i /\ t # s
      BY <1>1, <2>3 DEF InOnePlace, Holds
    <2> QED BY <2>1, <2>2, <2>3
  <1>6. InOrder'
    BY <1>1, <1>2, <1>3 DEF InOrder
  <1>7. KillsCounted'
    BY DEF KillsCounted, Killed
  <1>8. \A c \in Cells : Live(c)' \subseteq Live(c)
    <2> SUFFICES ASSUME NEW c \in Cells, NEW j \in Invocations, j \in Live(c)' PROVE j \in Live(c)
      BY DEF Live
    <2>1. CASE j # i
      BY <1>1, <1>2, <2>1 DEF Live, Holds
    <2>2. CASE j = i
      BY <1>1, <1>2, <2>2 DEF Live, Holds
    <2> QED BY <2>1, <2>2
  <1>9. Accounted'
    <2> SUFFICES ASSUME NEW j \in Invocations
                 PROVE  /\ jammed'[j] => Crashed(j)'
                        /\ driver'[j] = "joining" =>
                             /\ \A t \in Slots : worker'[j][t].pc # "off"
                             /\ \A t \in Slots : worker'[j][t].pc = "exited" =>
                                   queue'[j] = {} \/ Crashed(j)'
                             /\ \A c \in Cells : \/ Covered(c)' \/ c \in queue'[j] \/ Crashed(j)'
                                                 \/ \E t \in Slots : Holds(j, t, c)'
                        /\ driver'[j] = "exit0" => \A c \in Cells : Covered(c)'
      BY DEF Accounted
    <2>1. CASE j # i
      <3>1. \A t \in Slots, c \in Cells : Holds(j, t, c) => Holds(j, t, c)'
        BY <1>1, <2>1 DEF Holds
      <3>2. Crashed(j)' <=> Crashed(j)
        BY <1>2, <2>1
      <3> QED BY <1>1, <2>1, <3>1, <3>2 DEF Accounted
    <2>2. CASE j = i
      <3>1. Crashed(j) \/ w.pc = "crashed" <=> Crashed(j)'
        BY <1>1, <2>2 DEF Crashed, Stopped
      <3>2. jammed'[j] => Crashed(j)'
        BY <2>2, <3>1 DEF Accounted
      <3>3. ASSUME driver[j] = "joining", NEW t \in Slots
            PROVE  worker'[j][t].pc # "off" /\ (worker'[j][t].pc = "exited" => queue'[j] = {} \/ Crashed(j)')
        BY <1>1, <2>2, <3>1, <3>3 DEF Accounted
      <3>4. ASSUME driver[j] = "joining", NEW c \in Cells
            PROVE  \/ Covered(c)' \/ c \in queue'[j] \/ Crashed(j)'
                   \/ \E t \in Slots : Holds(j, t, c)'
        <4>1. Covered(c) \/ c \in queue[i] \/ Crashed(i) \/ \E t \in Slots : Holds(i, t, c)
          BY <2>2, <3>4 DEF Accounted
        <4>2. CASE Covered(c) \/ Crashed(i)
          BY <2>2, <3>1, <4>2
        <4>3. CASE c \in queue[i]
          BY <1>1, <2>2, <4>3 DEF Holds
        <4>4. CASE \E t \in Slots : t # s /\ Holds(i, t, c)
          BY <1>1, <2>2, <4>4 DEF Holds
        <4>5. CASE Holds(i, s, c)
          <5>1. Holds(i, s, c)' \/ w.pc = "crashed" \/ Covered(c)'
            BY <1>1, <4>5 DEF Holds
          <5> QED BY <2>2, <3>1, <5>1
        <4> QED BY <4>1, <4>2, <4>3, <4>4, <4>5
      <3> QED BY <1>3, <2>2, <3>2, <3>3, <3>4
    <2> QED BY <2>1, <2>2
  <1> QED BY <1>4, <1>5, <1>6, <1>7, <1>8, <1>9

\* What an append makes of the file: at most one more row, of its own cell, and
\* no cell loses its last line without being marked.
LEMMA FileChanges ==
    ASSUME PilotTypes, TornLast, NEW row \in Workers, row.cell \in Cells,
           row.kind \in {"good", "error", "cut"}, NEW part \in Parts, Appended(row, part)
    PROVE  /\ ledger' \in Seq(Lines) /\ TornLast' /\ torn' \in BOOLEAN
           /\ \A c \in Cells : Covered(c) => Covered(c)'
           /\ part = "whole" => Covered(row.cell)' /\ ~torn'
           /\ \A c \in Cells : \/ Rows(c)' \subseteq Rows(c)
                               \/ /\ c = row.cell
                                  /\ Rows(c)' \subseteq Rows(c) \cup {Len(ledger) + 1}
  <1> DEFINE junk == Line(None, "junk")
             whole == Line(row.cell, row.kind)
             l == IF part = "some" THEN junk ELSE whole
  <1>1. /\ junk \in Lines /\ junk.kind = "junk" /\ whole \in Lines /\ whole.cell = row.cell
        /\ l \in Lines
    BY RecordsTyped DEF Line, Lines, Kinds
  <1>2. /\ ledger' = (IF torn THEN Append(Front(ledger), junk) ELSE Append(ledger, l))
        /\ torn' = (part # "whole")
        /\ garbled' = (IF torn THEN garbled \cup ({Last(ledger).cell, row.cell} \ {None})
                        ELSE garbled)
    BY DEF Appended
  <1>3. l.kind = "junk" \/ l.cell = row.cell
    BY <1>1
  <1>4. part = "whole" => l.cell = row.cell
    BY <1>1
  <1> HIDE DEF junk, whole, l
  <1>5. CASE torn
    <2>1. ledger \in Seq(Lines) /\ ledger # <<>> /\ ledger' = Append(Front(ledger), junk)
      BY <1>2, <1>5 DEF PilotTypes, TornLast
    <2>2. /\ ledger' \in Seq(Lines) /\ ledger' # <<>> /\ DOMAIN ledger' = DOMAIN ledger
          /\ \A k \in DOMAIN ledger : ledger'[k] = IF k = Len(ledger) THEN junk ELSE ledger[k]
          /\ Last(ledger) = ledger[Len(ledger)]
      BY <1>1, <2>1, TornJoined
    <2>3. garbled' = garbled \cup ({ledger[Len(ledger)].cell, row.cell} \ {None})
      BY <1>2, <1>5, <2>2
    <2>4. row.cell # None /\ None \notin Cells
      BY PilotConstants
    <2>5. \A c \in Cells : Covered(c) => Covered(c)'
      BY <2>2, <2>3, <2>4 DEF Covered, HasLine
    <2>6. \A c \in Cells : Rows(c)' \subseteq Rows(c)
      BY <1>1, <2>2 DEF Rows
    <2> QED BY <1>2, <2>2, <2>3, <2>4, <2>5, <2>6 DEF TornLast, Covered
  <1>6. CASE ~torn
    <2> DEFINE n == Len(ledger) + 1
    <2>1. /\ ledger' \in Seq(Lines) /\ ledger' # <<>> /\ n \in DOMAIN ledger' /\ ledger'[n] = l
          /\ DOMAIN ledger' = DOMAIN ledger \cup {n}
          /\ \A k \in DOMAIN ledger : ledger'[k] = ledger[k]
      BY <1>1, <1>2, <1>6, LineAppended DEF PilotTypes
    <2> HIDE DEF n
    <2>2. garbled' = garbled
      BY <1>2, <1>6
    <2>3. \A c \in Cells : Covered(c) => Covered(c)'
      BY <2>1, <2>2 DEF Covered, HasLine
    <2>4. part = "whole" => Covered(row.cell)'
      BY <1>4, <2>1 DEF Covered, HasLine
    <2>5. \A c \in Cells : \/ Rows(c)' \subseteq Rows(c)
                           \/ c = row.cell /\ Rows(c)' \subseteq Rows(c) \cup {n}
      BY <1>3, <2>1 DEF Rows
    <2>6. TornLast' /\ torn' \in BOOLEAN /\ (part = "whole" => ~torn')
      BY <1>2, <2>1 DEF TornLast
    <2> QED BY <2>1, <2>3, <2>4, <2>5, <2>6 DEF n
  <1> QED BY <1>5, <1>6

\* What it does to the marks: none or two more.
LEMMA MarksGrow ==
    ASSUME PilotInv, NEW row \in Workers, row.cell \in Cells, NEW part \in Parts,
           Appended(row, part)
    PROVE  /\ garbled' \subseteq Cells /\ IsFiniteSet(garbled') /\ Cardinality(garbled') \in Nat
           /\ Cardinality(garbled) \in Nat
           /\ IF torn THEN Cardinality(garbled') <= Cardinality(garbled) + 2
              ELSE garbled' = garbled
  <1>1. IsFiniteSet(garbled) /\ garbled \subseteq Cells /\ Cardinality(garbled) \in Nat
    BY FS_CardinalityType DEF PilotInv, PilotTypes
  <1>2. CASE ~torn
    BY <1>1, <1>2 DEF Appended
  <1>3. CASE torn
    <2>0. ledger \in Seq(Lines) /\ ledger # <<>>
      BY <1>3 DEF PilotInv, PilotTypes, TornLast
    <2> DEFINE a == Last(ledger).cell
               b == row.cell
    <2>1. a \in Cells \cup {None}
      <3>1. Len(ledger) \in Nat \ {0} /\ DOMAIN ledger = 1..Len(ledger)
        BY <2>0, EmptySeq, LenProperties
      <3>2. ledger[Len(ledger)] \in Lines
        BY <2>0, <3>1, ElementOfSeq
      <3> QED BY <3>2 DEF Last, Lines
    <2>2. garbled' = garbled \cup ({a, b} \ {None})
      BY <1>3 DEF Appended
    <2> HIDE DEF a, b
    <2> DEFINE one == garbled \cup {a}
               two == one \cup {b}
    <2>3. IsFiniteSet(one) /\ Cardinality(one) \in Nat /\ Cardinality(one) <= Cardinality(garbled) + 1
      <3>1. /\ IsFiniteSet(one)
            /\ \/ Cardinality(one) = Cardinality(garbled)
               \/ Cardinality(one) = Cardinality(garbled) + 1
        BY <1>1, FS_AddElement
      <3>2. Cardinality(one) \in Nat
        BY <3>1, FS_CardinalityType
      <3> QED BY <1>1, <3>1, <3>2
    <2> HIDE DEF one
    <2>4. IsFiniteSet(two) /\ Cardinality(two) \in Nat /\ Cardinality(two) <= Cardinality(one) + 1
      <3>1. /\ IsFiniteSet(two)
            /\ \/ Cardinality(two) = Cardinality(one)
               \/ Cardinality(two) = Cardinality(one) + 1
        BY <2>3, FS_AddElement
      <3>2. Cardinality(two) \in Nat
        BY <3>1, FS_CardinalityType
      <3> QED BY <2>3, <3>1, <3>2
    <2>5. garbled' \subseteq two
      BY <2>2 DEF one
    <2> HIDE DEF two
    <2>6. IsFiniteSet(garbled') /\ Cardinality(garbled') <= Cardinality(two)
      BY <2>4, <2>5, FS_Subset
    <2>7. Cardinality(garbled') \in Nat
      BY <2>6, FS_CardinalityType
    <2>8. garbled' \subseteq Cells
      BY <1>1, <2>1, <2>2 DEF b
    <2> QED BY <1>1, <1>3, <2>3, <2>4, <2>6, <2>7, <2>8
  <1> QED BY <1>2, <1>3

\* The arithmetic of marks and faults.
LEMMA MarksPaid ==
    ASSUME NEW g \in Nat, NEW g2 \in Nat, NEW d \in Nat, NEW k \in Nat, NEW d2 \in Nat,
           NEW k2 \in Nat, NEW owed \in {0, 2}, NEW owed2 \in {0, 2},
           g + owed <= 2 * (d + k), g2 <= g + owed,
           \/ owed2 = 0 /\ d2 = d /\ k2 = k
           \/ d2 = d + 1 /\ k2 = k
           \/ d2 = d /\ k2 = k + 1
    PROVE  g2 + owed2 <= 2 * (d2 + k2)
  OBVIOUS

\* The worker that has the lock is the one that appends.
LEMMA LockSteps ==
    ASSUME PilotTypes, LockHeld, NEW i \in Invocations, NEW s \in Slots, NEW w \in Workers,
           worker' = [worker EXCEPT ![i][s] = w],
           \/ flock' = flock /\ flock # <<i, s>>
           \/ flock' = None
           \/ flock' = <<i, s>> /\ w.pc = "appending"
    PROVE  LockHeld'
  <1> SUFFICES ASSUME NEW j \in Invocations, NEW t \in Slots, flock' = <<j, t>>
               PROVE  worker'[j][t].pc = "appending"
    BY DEF LockHeld
  <1>1. worker'[j][t] = IF j = i /\ t = s THEN w ELSE worker[j][t]
    BY DEF PilotTypes
  <1>2. flock' # None
    BY PilotConstants
  <1> QED BY <1>1, <1>2 DEF LockHeld

\* A cell leaves the queue for a worker's hands.
LEMMA GetStep ==
    ASSUME PilotInv, NEW i \in Invocations, NEW s \in Slots, Get(i, s)
    PROVE  PilotInv'
  <1> USE DEF PilotInv
  <1>1. PICK c \in queue[i] :
             /\ queue' = [queue EXCEPT ![i] = @ \ {c}]
             /\ worker' = [worker EXCEPT ![i][s] = [Off EXCEPT !.pc = "running", !.cell = c]]
    BY DEF Get
  <1> DEFINE w == [Off EXCEPT !.pc = "running", !.cell = c]
  <1>2. c \in Cells
    BY DEF PilotTypes
  <1>3. w \in Workers /\ w.pc = "running" /\ w.cell = c
    BY <1>2 DEF Off, Workers, PCs
  <1> HIDE DEF w
  <1>4. worker' = [worker EXCEPT ![i][s] = w]
    BY <1>1 DEF w
  <1>5. worker[i][s].pc = "getting" /\ UNCHANGED <<ledger, torn, flock, driver, jammed,
             workerKills, driverKills, diskFaults, garbled>>
    BY DEF Get
  <1>6. /\ queue'[i] = queue[i] \ {c} /\ queue' \in [Invocations -> SUBSET Cells]
        /\ \A j \in Invocations : j # i => queue'[j] = queue[j]
    BY <1>1, <1>2 DEF PilotTypes
  <1>7. PilotTypes'
    BY <1>3, <1>4, <1>5, <1>6 DEF PilotTypes
  <1>8. \A x \in Cells : (Covered(x) => Covered(x)') /\ Rows(x)' \subseteq Rows(x)
    BY <1>5 DEF Covered, HasLine, Rows
  <1>9. \A x \in Cells : ~Holds(i, s, x)
    BY <1>5 DEF Holds
  <1>10. /\ AtWork' /\ InOnePlace' /\ InOrder' /\ KillsCounted' /\ Accounted'
         /\ \A x \in Cells : Live(x)' \subseteq Live(x)
    BY <1>1, <1>2, <1>3, <1>4, <1>5, <1>6, <1>8, <1>9, StepKeeps DEF Stopped
  <1>11. FewRows'
    BY <1>5, <1>7, <1>8, <1>10, NoNewRows DEF PilotTypes
  <1>12. LockHeld'
    BY <1>3, <1>4, <1>5, LockSteps DEF LockHeld
  <1>13. TornLast' /\ TornCounted'
    BY <1>5 DEF TornLast, TornCounted
  <1> QED BY <1>7, <1>10, <1>11, <1>12, <1>13

\* A step that touches neither the file nor the queue.
LEMMA QuietStep ==
    ASSUME PilotInv, NEW i \in Invocations, NEW s \in Slots, NEW w \in Workers,
           worker[i][s].pc \notin Stopped, worker' = [worker EXCEPT ![i][s] = w],
           w.pc # "off",
           w.pc \in {"running", "appending"} => w.cell \in Cells /\ Holds(i, s, w.cell),
           w.pc = "appending" => w.kind \in {"good", "error", "cut"},
           w.pc = "exited" => queue[i] = {} \/ jammed[i],
           NEW b \in BOOLEAN, jammed' = [jammed EXCEPT ![i] = b],
           b => jammed[i] \/ w.pc = "crashed",
           \A c \in Cells : Holds(i, s, c) =>
               w.pc = "crashed" \/ (w.pc \in {"running", "appending"} /\ w.cell = c),
           \/ flock' = flock /\ flock # <<i, s>>
           \/ flock' = None
           \/ flock' = <<i, s>> /\ w.pc = "appending",
           workerKills' \in Nat, workerKills' >= workerKills,
           diskFaults' \in Nat, diskFaults' >= diskFaults,
           UNCHANGED <<ledger, torn, driver, queue, driverKills, garbled>>
    PROVE  PilotInv'
  <1> USE DEF PilotInv
  <1>1. PilotTypes'
    BY DEF PilotTypes
  <1>2. /\ jammed'[i] = b /\ \A j \in Invocations : j # i => jammed'[j] = jammed[j]
    BY DEF PilotTypes
  <1>3. \A c \in Cells : (Covered(c) => Covered(c)') /\ Rows(c)' \subseteq Rows(c)
    BY DEF Covered, HasLine, Rows
  <1>4. /\ AtWork' /\ InOnePlace' /\ InOrder' /\ KillsCounted' /\ Accounted'
        /\ \A c \in Cells : Live(c)' \subseteq Live(c)
    <2>1. w.pc \in {"running", "appending"} => w.cell \notin queue'[i]
      BY DEF InOnePlace
    <2>2. /\ \A j \in Invocations : j # i => queue'[j] = queue[j] /\ jammed'[j] = jammed[j]
          /\ queue'[i] \subseteq queue[i] /\ \A c \in queue[i] : c \in queue'[i]
          /\ jammed'[i] => jammed[i] \/ w.pc = "crashed"
      BY <1>2
    <2>3. /\ \A c \in Cells : Covered(c) => Covered(c)'
          /\ UNCHANGED <<driver, driverKills>>
      BY <1>3
    <2>4. w.pc \in {"running", "appending"} =>
             w.cell \in Cells /\ w.cell \notin queue'[i] /\ Holds(i, s, w.cell)
      BY <2>1
    <2> QED BY <1>3, <2>2, <2>3, <2>4, StepKeeps, ZenonT(60)
  <1>5. FewRows'
    BY <1>1, <1>3, <1>4, NoNewRows DEF PilotTypes
  <1>6. LockHeld'
    BY LockSteps
  <1>7. TornLast' /\ TornCounted'
    <2>1. TornLast'
      BY DEF TornLast
    <2>2. Cardinality(garbled) <= 2 * (diskFaults' + workerKills') /\
          (torn => Cardinality(garbled) + 2 <= 2 * (diskFaults' + workerKills'))
      <3>1. Cardinality(garbled) \in Nat /\ diskFaults \in Nat /\ workerKills \in Nat
        BY FS_CardinalityType DEF PilotTypes
      <3> QED BY <3>1 DEF TornCounted
    <2> QED BY <2>1, <2>2 DEF TornCounted
  <1> QED BY <1>1, <1>4, <1>5, <1>6, <1>7

\* Empty, the end of an episode, the lock and a kill are such steps.
LEMMA EmptyStep ==
    ASSUME PilotInv, NEW i \in Invocations, NEW s \in Slots, Empty(i, s)
    PROVE  PilotInv'
  <1> DEFINE w == Ended("exited")
  <1>1. w \in Workers /\ w.pc = "exited"
    BY RecordsTyped DEF PCs
  <1>2. worker' = [worker EXCEPT ![i][s] = w]
    BY DEF Empty
  <1> HIDE DEF w
  <1>3. /\ worker[i][s].pc = "getting" /\ (queue[i] = {} \/ jammed[i])
        /\ UNCHANGED <<ledger, torn, flock, driver, queue, jammed, workerKills, driverKills,
                       diskFaults, garbled>>
    BY DEF Empty
  <1>4. flock # <<i, s>>
    BY <1>3 DEF PilotInv, LockHeld
  <1>5. jammed[i] \in BOOLEAN /\ jammed' = [jammed EXCEPT ![i] = jammed[i]]
    BY <1>3 DEF PilotInv, PilotTypes
  <1>6. \A c \in Cells : ~Holds(i, s, c)
    BY <1>3 DEF Holds
  <1>7. /\ workerKills' \in Nat /\ workerKills' >= workerKills
        /\ diskFaults' \in Nat /\ diskFaults' >= diskFaults
    BY <1>3 DEF PilotInv, PilotTypes
  <1> QED BY <1>1, <1>2, <1>3, <1>4, <1>5, <1>6, <1>7, QuietStep DEF Stopped

\* An episode ends, in the hands of the same worker.
LEMMA EpisodeStep ==
    ASSUME PilotInv, NEW i \in Invocations, NEW s \in Slots, NEW ending \in Endings,
           Episode(i, s, ending)
    PROVE  PilotInv'
  <1> DEFINE w == [worker[i][s] EXCEPT !.pc = "appending", !.kind = RowKind(ending)]
  <1>1. RowKind(ending) \in {"good", "error", "cut"}
    BY DEF RowKind
  <1>2. /\ worker[i][s] \in Workers /\ worker[i][s].pc = "running" /\ worker[i][s].cell \in Cells
        /\ worker' = [worker EXCEPT ![i][s].pc = "appending", ![i][s].kind = RowKind(ending)]
        /\ UNCHANGED <<ledger, torn, flock, driver, queue, jammed, workerKills, driverKills,
                       diskFaults, garbled>>
    BY DEF Episode, PilotInv, PilotTypes, AtWork
  <1>3. /\ w \in Workers /\ w.pc = "appending" /\ w.cell = worker[i][s].cell
        /\ w.kind \in {"good", "error", "cut"}
    BY <1>1, <1>2 DEF Workers, PCs, Kinds
  <1>4. worker' = [worker EXCEPT ![i][s] = w]
    BY <1>2 DEF PilotInv, PilotTypes
  <1> HIDE DEF w
  <1>5. flock # <<i, s>>
    BY <1>2 DEF PilotInv, LockHeld
  <1>6. jammed[i] \in BOOLEAN /\ jammed' = [jammed EXCEPT ![i] = jammed[i]]
    BY <1>2 DEF PilotInv, PilotTypes
  <1>7. Holds(i, s, w.cell) /\ \A c \in Cells : Holds(i, s, c) => w.cell = c
    BY <1>2, <1>3 DEF Holds
  <1>8. /\ workerKills' \in Nat /\ workerKills' >= workerKills
        /\ diskFaults' \in Nat /\ diskFaults' >= diskFaults
    BY <1>2 DEF PilotInv, PilotTypes
  <1>9. /\ worker[i][s].pc \notin Stopped /\ w.pc \notin {"off", "exited", "crashed"}
        /\ w.cell \in Cells
    BY <1>2, <1>3 DEF Stopped
  <1>10. \A c \in Cells : Holds(i, s, c) =>
               w.pc = "crashed" \/ (w.pc \in {"running", "appending"} /\ w.cell = c)
    BY <1>3, <1>7
  <1>11. UNCHANGED <<ledger, torn, flock, driver, queue, driverKills, diskFaults, garbled>>
    BY <1>2
  <1> QED BY <1>3, <1>4, <1>5, <1>6, <1>7, <1>8, <1>9, <1>10, <1>11, QuietStep

\* Taking the lock of the results file moves no cell.
LEMMA TakeLockStep ==
    ASSUME PilotInv, NEW i \in Invocations, NEW s \in Slots, TakeLock(i, s)
    PROVE  PilotInv'
  <1> DEFINE w == worker[i][s]
  <1>1. /\ w \in Workers /\ w.pc = "appending" /\ w.cell \in Cells
        /\ w.kind \in {"good", "error", "cut"}
        /\ worker' = [worker EXCEPT ![i][s] = w] /\ flock' = <<i, s>>
        /\ UNCHANGED <<ledger, torn, driver, queue, jammed, workerKills, driverKills,
                       diskFaults, garbled>>
    BY DEF TakeLock, PilotInv, PilotTypes, AtWork
  <1>2. jammed[i] \in BOOLEAN /\ jammed' = [jammed EXCEPT ![i] = jammed[i]]
    BY <1>1 DEF PilotInv, PilotTypes
  <1>3. Holds(i, s, w.cell) /\ \A c \in Cells : Holds(i, s, c) => w.cell = c
    BY <1>1 DEF Holds
  <1>4. /\ workerKills' \in Nat /\ workerKills' >= workerKills
        /\ diskFaults' \in Nat /\ diskFaults' >= diskFaults
    BY <1>1 DEF PilotInv, PilotTypes
  <1> QED BY <1>1, <1>2, <1>3, <1>4, QuietStep DEF Stopped

\* A killed worker has crashed: its cell is in nobody's hands, and Join sees it.
LEMMA KillWorkerStep ==
    ASSUME PilotInv, NEW i \in Invocations, NEW s \in Slots, NEW insideGet \in BOOLEAN,
           KillWorker(i, s, insideGet)
    PROVE  PilotInv'
  <1> DEFINE w == Ended("crashed")
             b == jammed[i] \/ insideGet
  <1>1. w \in Workers /\ w.pc = "crashed"
    BY RecordsTyped DEF PCs
  <1>2. worker' = [worker EXCEPT ![i][s] = w] /\ jammed' = [jammed EXCEPT ![i] = b]
    BY DEF KillWorker
  <1>3. b \in BOOLEAN
    OBVIOUS
  <1> HIDE DEF w, b
  <1>4. /\ worker[i][s].pc \notin Stopped
        /\ flock' = (IF flock = <<i, s>> THEN None ELSE flock)
        /\ workerKills' = workerKills + 1
        /\ UNCHANGED <<ledger, torn, driver, queue, driverKills, diskFaults, garbled>>
    BY DEF KillWorker
  <1>5. flock' = None \/ (flock' = flock /\ flock # <<i, s>>)
    BY <1>4
  <1>6. /\ workerKills' \in Nat /\ workerKills' >= workerKills
        /\ diskFaults' \in Nat /\ diskFaults' >= diskFaults
    BY <1>4 DEF PilotInv, PilotTypes
  <1>7. w.pc # "off" /\ w.pc # "exited" /\ w.pc # "running" /\ w.pc # "appending"
    BY <1>1
  <1> QED BY <1>1, <1>2, <1>3, <1>4, <1>5, <1>6, <1>7, QuietStep

\* An append, whole or not: its invocation may not add another row of the cell,
\* and a torn line is accounted for.
LEMMA AppendStep ==
    ASSUME PilotInv, NEW i \in Invocations, NEW s \in Slots, NEW part \in Parts,
           NEW w \in Workers, w.pc = "crashed" \/ (w.pc = "getting" /\ part = "whole"),
           Appended(worker[i][s], part),
           flock = <<i, s>>, flock' = None, worker' = [worker EXCEPT ![i][s] = w],
           diskFaults' \in Nat, workerKills' \in Nat,
           \/ part = "whole" /\ diskFaults' = diskFaults /\ workerKills' = workerKills
           \/ diskFaults' = diskFaults + 1 /\ workerKills' = workerKills
           \/ diskFaults' = diskFaults /\ workerKills' = workerKills + 1,
           UNCHANGED <<driver, queue, jammed, driverKills>>
    PROVE  PilotInv'
  <1> USE DEF PilotInv
  <1>0. worker[i][s].pc = "appending" /\ worker[i][s] \in Workers
    BY DEF LockHeld, PilotTypes
  <1> PICK cell \in Cells : cell = worker[i][s].cell
    BY <1>0 DEF AtWork
  <1>1. worker[i][s].kind \in {"good", "error", "cut"}
    BY <1>0 DEF AtWork
  <1>2. w.pc \notin {"off", "exited", "running", "appending"}
    OBVIOUS
  <1>5. /\ ledger' \in Seq(Lines) /\ TornLast' /\ torn' \in BOOLEAN
        /\ \A c \in Cells : Covered(c) => Covered(c)'
        /\ \A c \in Cells : \/ Rows(c)' \subseteq Rows(c)
                            \/ c = cell /\ Rows(c)' \subseteq Rows(c) \cup {Len(ledger) + 1}
        /\ part = "whole" => Covered(cell)' /\ ~torn'
    BY <1>0, <1>1, FileChanges
  <1>6. /\ garbled' \subseteq Cells /\ IsFiniteSet(garbled') /\ Cardinality(garbled') \in Nat
        /\ Cardinality(garbled) \in Nat
        /\ IF torn THEN Cardinality(garbled') <= Cardinality(garbled) + 2
           ELSE garbled' = garbled
    BY <1>0, MarksGrow
  <1>7. PilotTypes'
    BY <1>5, <1>6 DEF PilotTypes
  <1>8. \A c \in Cells : Holds(i, s, c) <=> c = cell
    BY <1>0 DEF Holds
  <1>9. /\ AtWork' /\ InOnePlace' /\ InOrder' /\ KillsCounted' /\ Accounted'
        /\ \A c \in Cells : Live(c)' \subseteq Live(c)
    <2>1. worker[i][s].pc \notin Stopped
      BY <1>0 DEF Stopped
    <2>2. /\ \A j \in Invocations : j # i => queue'[j] = queue[j] /\ jammed'[j] = jammed[j]
          /\ queue'[i] \subseteq queue[i] /\ \A c \in queue[i] : c \in queue'[i]
          /\ jammed'[i] => jammed[i]
      OBVIOUS
    <2>3. /\ \A c \in Cells : Covered(c) => Covered(c)'
          /\ \A c \in Cells : Holds(i, s, c) => w.pc = "crashed" \/ Covered(c)'
          /\ UNCHANGED <<driver, driverKills>>
      BY <1>5, <1>8
    <2> QED BY <1>2, <2>1, <2>2, <2>3, StepKeeps
  <1>10. FewRows'
    <2> SUFFICES ASSUME NEW c \in Cells
                 PROVE  Cardinality(Rows(c)') + Cardinality(Live(c)') <= 1 + driverKills'
      BY DEF FewRows
    <2>1. /\ IsFiniteSet(Rows(c)) /\ Cardinality(Rows(c)) \in Nat
          /\ IsFiniteSet(Live(c)) /\ Cardinality(Live(c)) \in Nat /\ driverKills \in Nat
      BY CountsFinite DEF PilotTypes
    <2>2. Cardinality(Rows(c)) + Cardinality(Live(c)) <= 1 + driverKills /\ driverKills' = driverKills
      BY DEF FewRows
    <2>3. Cardinality(Live(c)') <= Cardinality(Live(c)) /\ Cardinality(Live(c)') \in Nat
      BY <1>9, <2>1, FS_Subset, FS_CardinalityType
    <2>4. CASE Rows(c)' \subseteq Rows(c)
      <3>1. Cardinality(Rows(c)') <= Cardinality(Rows(c)) /\ Cardinality(Rows(c)') \in Nat
        BY <2>1, <2>4, FS_Subset, FS_CardinalityType
      <3> QED BY <2>1, <2>2, <2>3, <3>1
    <2>5. CASE c = cell /\ Rows(c)' \subseteq Rows(c) \cup {Len(ledger) + 1}
      <3>1. /\ Cardinality(Rows(c)') <= Cardinality(Rows(c)) + 1 /\ Cardinality(Rows(c)') \in Nat
        <4> DEFINE more == Rows(c) \cup {Len(ledger) + 1}
        <4>1. /\ IsFiniteSet(more) /\ Cardinality(more) \in Nat
              /\ \/ Cardinality(more) = Cardinality(Rows(c))
                 \/ Cardinality(more) = Cardinality(Rows(c)) + 1
          BY <2>1, FS_AddElement, FS_CardinalityType
        <4>2. IsFiniteSet(Rows(c)') /\ Cardinality(Rows(c)') <= Cardinality(more)
          BY <2>5, <4>1, FS_Subset
        <4>3. Cardinality(Rows(c)') \in Nat
          BY <4>2, FS_CardinalityType
        <4> QED BY <2>1, <4>1, <4>2, <4>3
      <3>2. Holds(i, s, c) /\ i \in Live(c)
        BY <1>0, <1>8, <2>5 DEF Live, Awake, Stopped
      <3>3. i \notin Live(c)'
        <4>1. c \notin queue[i] /\ \A t \in Slots : Holds(i, t, c) => t = s
          BY <3>2 DEF InOnePlace
        <4>2. \A t \in Slots : ~Holds(i, t, c)'
          BY <1>2, <4>1 DEF Holds, PilotTypes
        <4> QED BY <4>1, <4>2 DEF Live
      <3>4. Cardinality(Live(c)') <= Cardinality(Live(c)) - 1
        <4> DEFINE less == Live(c) \ {i}
        <4>1. IsFiniteSet(less) /\ Cardinality(less) = Cardinality(Live(c)) - 1
          BY <2>1, <3>2, FS_RemoveElement
        <4>2. Live(c)' \subseteq less
          BY <1>9, <3>3
        <4> QED BY <4>1, <4>2, FS_Subset
      <3> QED BY <2>1, <2>2, <2>3, <3>1, <3>4
    <2> QED BY <1>5, <2>4, <2>5
  <1>11. LockHeld'
    BY LockSteps
  <1>12. TornCounted'
    <2> PICK g \in Nat : g = Cardinality(garbled)
      BY <1>6
    <2> PICK g2 \in Nat : g2 = Cardinality(garbled')
      BY <1>6
    <2> PICK owed \in {0, 2} : owed = IF torn THEN 2 ELSE 0
      OBVIOUS
    <2> PICK owed2 \in {0, 2} : owed2 = IF torn' THEN 2 ELSE 0
      OBVIOUS
    <2>1. diskFaults \in Nat /\ workerKills \in Nat
      BY DEF PilotTypes
    <2> PICK d \in Nat, k \in Nat, d2 \in Nat, k2 \in Nat :
               /\ d = diskFaults /\ k = workerKills
               /\ d2 = diskFaults' /\ k2 = workerKills'
      BY <2>1
    <2>2. g + owed <= 2 * (d + k)
      BY DEF TornCounted
    <2>3. g2 <= g + owed
      BY <1>6
    <2>4. \/ owed2 = 0 /\ d2 = d /\ k2 = k
          \/ d2 = d + 1 /\ k2 = k
          \/ d2 = d /\ k2 = k + 1
      BY <1>5
    <2>5. g2 + owed2 <= 2 * (d2 + k2)
      <3> HIDE DEF PilotInv
      <3> QED BY ONLY <2>2, <2>3, <2>4, MarksPaid, g \in Nat, g2 \in Nat, d \in Nat,
                     k \in Nat, d2 \in Nat, k2 \in Nat, owed \in {0, 2}, owed2 \in {0, 2}
    <2>6. CASE torn'
      BY <2>5, <2>6 DEF TornCounted
    <2>7. CASE ~torn'
      BY <2>5, <2>7 DEF TornCounted
    <2> QED BY <2>6, <2>7
  <1> QED BY <1>5, <1>7, <1>9, <1>10, <1>11, <1>12

\* A row that is written.
LEMMA WriteStep ==
    ASSUME PilotInv, NEW i \in Invocations, NEW s \in Slots, Write(i, s)
    PROVE  PilotInv'
  <1>1. /\ flock = <<i, s>> /\ flock' = None /\ worker' = [worker EXCEPT ![i][s] = Getting]
        /\ Appended(worker[i][s], "whole")
        /\ UNCHANGED <<driver, queue, jammed, workerKills, driverKills, diskFaults>>
    BY DEF Write
  <1>2. Getting \in Workers /\ Getting.pc = "getting" /\ "whole" \in Parts
    BY RecordsTyped DEF Parts
  <1>3. diskFaults' \in Nat /\ workerKills' \in Nat
    BY <1>1 DEF PilotInv, PilotTypes
  <1> QED BY <1>1, <1>2, <1>3, AppendStep

\* A full disk, or a kill inside the write.
LEMMA BreakStep ==
    ASSUME PilotInv, NEW i \in Invocations, NEW s \in Slots, BreakOff(i, s),
           \/ diskFaults' = diskFaults + 1 /\ workerKills' = workerKills
           \/ diskFaults' = diskFaults /\ workerKills' = workerKills + 1
    PROVE  PilotInv'
  <1> DEFINE w == Ended("crashed")
  <1>1. w \in Workers /\ w.pc = "crashed"
    BY RecordsTyped DEF PCs
  <1>2. /\ flock = <<i, s>> /\ flock' = None /\ worker' = [worker EXCEPT ![i][s] = w]
        /\ UNCHANGED <<driver, queue, jammed, driverKills>>
    BY DEF BreakOff
  <1>3. UNCHANGED <<ledger, torn, garbled>> \/ \E part \in Parts : Appended(worker[i][s], part)
    BY DEF BreakOff
  <1> HIDE DEF w
  <1>4. /\ diskFaults' \in Nat /\ diskFaults' >= diskFaults
        /\ workerKills' \in Nat /\ workerKills' >= workerKills
    BY DEF PilotInv, PilotTypes
  <1>5. CASE UNCHANGED <<ledger, torn, garbled>>
    <2>1. worker[i][s].pc \notin Stopped
      BY <1>2 DEF PilotInv, LockHeld, Stopped
    <2>2. jammed[i] \in BOOLEAN /\ jammed' = [jammed EXCEPT ![i] = jammed[i]]
      BY <1>2 DEF PilotInv, PilotTypes
    <2>3. w.pc # "off" /\ w.pc # "exited" /\ w.pc # "running" /\ w.pc # "appending"
      BY <1>1
    <2> QED BY <1>1, <1>2, <1>4, <1>5, <2>1, <2>2, <2>3, QuietStep
  <1>6. ASSUME NEW part \in Parts, Appended(worker[i][s], part) PROVE PilotInv'
    BY <1>1, <1>2, <1>4, <1>6, AppendStep
  <1> QED BY <1>3, <1>5, <1>6

-----------------------------------------------------------------------------
(* The theorems. *)

\* The file at the start is a results file, and nobody is at work on it.
LEMMA InitInv == Init => PilotInv
  <1> SUFFICES ASSUME Init PROVE PilotInv
    OBVIOUS
  <1>1. /\ ledger \in Seq(Lines)
        /\ \A c \in Cells : \A j, k \in Rows(c) : j = k
    BY OldLedgersFinishedOnce DEF Init, Lines, Rows
  <1>2. /\ \A i \in Invocations : /\ driver[i] = "unstarted" /\ queue[i] = {} /\ ~jammed[i]
                                  /\ \A s \in Slots : worker[i][s] = Off
        /\ torn = FALSE /\ flock = None /\ garbled = {}
        /\ workerKills = 0 /\ driverKills = 0 /\ diskFaults = 0
    BY DEF Init
  <1>3. PilotTypes
    BY <1>1, RecordsTyped, FS_EmptySet DEF Init, PilotTypes
  <1>4. Off.pc = "off"
    BY DEF Off
  <1>5. AtWork /\ TornLast /\ InOnePlace
    BY <1>2, <1>4 DEF AtWork, TornLast, InOnePlace, Holds
  <1>6. LockHeld
    BY <1>2, PilotConstants DEF LockHeld
  <1>7. InOrder
    BY <1>2, <1>4 DEF InOrder
  <1>8. Accounted
    BY <1>2 DEF Accounted
  <1>9. TornCounted
    BY <1>2, FS_EmptySet DEF TornCounted
  <1>10. KillsCounted
    <2>1. Killed = {}
      BY <1>2 DEF Killed
    <2> QED BY <1>2, <2>1, FS_EmptySet DEF KillsCounted
  <1>11. FewRows
    <2> SUFFICES ASSUME NEW c \in Cells
                 PROVE  Cardinality(Rows(c)) + Cardinality(Live(c)) <= 1 + driverKills
      BY DEF FewRows
    <2>1. Live(c) = {}
      BY <1>2, <1>4 DEF Live, Awake, Stopped
    <2>2. Cardinality(Rows(c)) <= 1 /\ Cardinality(Rows(c)) \in Nat
      <3>1. IsFiniteSet(Rows(c)) /\ Cardinality(Rows(c)) \in Nat
        BY <1>3, CountsFinite
      <3>2. CASE Rows(c) = {}
        BY <3>1, <3>2, FS_EmptySet
      <3>3. CASE Rows(c) # {}
        <4>1. PICK k \in Rows(c) : TRUE
          BY <3>3
        <4>2. Rows(c) = {k}
          BY <1>1, <4>1
        <4> QED BY <4>2, FS_Singleton
      <3> QED BY <3>2, <3>3
    <2> QED BY <1>2, <2>1, <2>2, FS_EmptySet
  <1> QED BY <1>3, <1>5, <1>6, <1>7, <1>8, <1>9, <1>10, <1>11 DEF PilotInv

\* Every step keeps the books.
LEMMA NextInv == PilotInv /\ [Next]_vars => PilotInv'
  <1> SUFFICES ASSUME PilotInv, [Next]_vars PROVE PilotInv'
    OBVIOUS
  <1>1. ASSUME NEW i \in Invocations, NEW s \in Slots,
               WorkerStep(i, s) \/ KillWriter(i, s) \/ \E b \in BOOLEAN : KillWorker(i, s, b)
        PROVE  PilotInv'
    <2>1. CASE Get(i, s)
      BY <2>1, GetStep
    <2>2. CASE Empty(i, s)
      BY <2>2, EmptyStep
    <2>3. CASE \E ending \in Endings : Episode(i, s, ending)
      BY <2>3, EpisodeStep
    <2>4. CASE TakeLock(i, s)
      BY <2>4, TakeLockStep
    <2>5. CASE Write(i, s)
      BY <2>5, WriteStep
    <2>6. CASE WriteFails(i, s)
      BY <2>6, BreakStep DEF WriteFails
    <2>7. CASE KillWriter(i, s)
      BY <2>7, BreakStep DEF KillWriter
    <2>8. CASE \E b \in BOOLEAN : KillWorker(i, s, b)
      BY <2>8, KillWorkerStep
    <2> QED BY <1>1, <2>1, <2>2, <2>3, <2>4, <2>5, <2>6, <2>7, <2>8 DEF WorkerStep
  <1>2. ASSUME NEW i \in Invocations, Invoke(i) \/ Join(i) \/ KillDriver(i) PROVE PilotInv'
    BY <1>2, InvokeStep, JoinStep
  <1>3. CASE UNCHANGED vars
    <2> USE <1>3 DEF vars, PilotInv
    <2>1. PilotTypes' /\ AtWork' /\ LockHeld' /\ TornLast' /\ TornCounted'
      BY DEF PilotTypes, AtWork, LockHeld, TornLast, TornCounted
    <2>2. InOnePlace' /\ InOrder' /\ KillsCounted'
      BY DEF InOnePlace, Holds, InOrder, Awake, KillsCounted, Killed
    <2>3. FewRows'
      <3>1. \A c \in Cells : Rows(c)' \subseteq Rows(c) /\ Live(c)' \subseteq Live(c)
        BY DEF Rows, Live, Awake, Holds
      <3> QED BY <2>1, <3>1, NoNewRows DEF PilotTypes
    <2>4. Accounted'
      BY DEF Accounted, Crashed, Covered, HasLine, Holds
    <2> QED BY <2>1, <2>2, <2>3, <2>4
  <1> QED BY <1>1, <1>2, <1>3 DEF Next

\* The books of the grid driver balance, whoever is killed and whenever.
THEOREM PilotInvariance == Spec => []PilotInv
  <1> QED BY InitInv, NextInv, PTL DEF Spec

\* A finished cell is not paid for twice but for killed drivers whose workers
\* ran on into the resumed grid (run_pilot.py:31-32, 484).
THEOREM NoCellPaidTwice == Spec => []FinishedOnce
  <1>1. PilotInv => FinishedOnce
    <2> SUFFICES ASSUME PilotInv, NEW c \in Cells PROVE Cardinality(Rows(c)) <= 1 + driverKills
      BY DEF FinishedOnce, Rows
    <2>1. Cardinality(Rows(c)) \in Nat /\ Cardinality(Live(c)) \in Nat /\ driverKills \in Nat
      BY CountsFinite DEF PilotInv, PilotTypes
    <2>2. Cardinality(Rows(c)) + Cardinality(Live(c)) <= 1 + driverKills
      BY DEF PilotInv, FewRows
    <2> QED BY <2>1, <2>2
  <1> QED BY <1>1, PilotInvariance, PTL

\* Exit code 0 of the driver means that the grid is covered, up to the rows
\* that torn lines destroyed, two per kill or full disk (run_pilot.py:403-420,
\* 484-500, 683-688).
THEOREM ExitCodesAreHonest == Spec => []CleanExitCoversGrid
  <1>1. PilotInv => CleanExitCoversGrid
    <2> SUFFICES ASSUME PilotInv PROVE CleanExitCoversGrid
      OBVIOUS
    <2>1. Cardinality(garbled) <= 2 * (diskFaults + workerKills)
      BY DEF PilotInv, TornCounted
    <2>2. ASSUME NEW i \in Invocations, driver[i] = "exit0", NEW c \in Cells
          PROVE  c \in garbled \/ \E l \in ToSet(ledger) : l.cell = c
      BY <2>2 DEF PilotInv, Accounted, Covered, HasLine, ToSet
    <2> QED BY <2>1, <2>2 DEF CleanExitCoversGrid
  <1> QED BY <1>1, PilotInvariance, PTL
=============================================================================
