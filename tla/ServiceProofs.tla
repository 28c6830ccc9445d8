--------------------------- MODULE ServiceProofs ---------------------------
(***************************************************************************)
(* Theorems about what surrounds the sessions: the skill memory, for any   *)
(* number of workers, lessons, failures, kills and full disks; the chat    *)
(* client, for any number of calls, loops and episodes and any limit; the  *)
(* observation UI, for any number of runs and attachments; and the ranking *)
(* of candidates, for any records and metrics.                             *)
(***************************************************************************)
EXTENDS SkillMemory, LlmClient, Observation, Ranking, FoldLemmas, SequenceTheorems

Steps == {"idle", "load", "use", "open", "write", "rename"}
Texts == [Lessons -> Nat]

SkillTypes ==
    /\ step \in [Savers -> Steps]
    /\ task \in [Savers -> Lessons \cup {Consult}]
    /\ held \in [Savers -> Texts]
    /\ seeding \in [Savers -> BOOLEAN]
    /\ observed \in Texts
    /\ DOMAIN hints = Savers

\* The observers that have a failure in hand which is in no text yet.
Pending ==
    [l \in Lessons |->
        {w \in Savers : task[w] = l /\ (step[w] \in {"load", "use"} \/ seeding[w])}]

\* The failures observed, o, cover what the text T and the pending workers claim.
Covers(o, pending, T) ==
    T \in Texts /\ \A l \in Lessons : T[l] + Cardinality(pending[l]) <= o[l]

\* Every text, on disk or in memory, is covered.
FileCovered(f) == f \in {Absent, Torn} \/ Covers(observed, Pending, f)
HeldCovered == \A w \in Savers : Covers(observed, Pending, held[w])

\* Only a save can be the one of _load_rules.
SeedingSaves == \A w \in Savers : seeding[w] => step[w] \in {"open", "write", "rename"}

SkillInv ==
    /\ SkillTypes /\ SeedingSaves /\ HeldCovered
    /\ FileCovered(rulesFile) /\ FileCovered(tmpFile)
    /\ LessonsEarned

-----------------------------------------------------------------------------
\* Fewer pending workers need no more cover.
LEMMA FewerPending ==
    ASSUME NEW o \in Texts, NEW p, NEW q, NEW T, Covers(o, p, T),
           \A l \in Lessons : q[l] \subseteq p[l] /\ p[l] \subseteq Savers
    PROVE  Covers(o, q, T)
  <1> SUFFICES ASSUME NEW l \in Lessons
               PROVE  T[l] + Cardinality(q[l]) <= o[l]
    BY DEF Covers
  <1>1. /\ IsFiniteSet(p[l]) /\ IsFiniteSet(q[l])
        /\ Cardinality(q[l]) <= Cardinality(p[l])
    BY SkillConstants, FS_Subset
  <1>2. Cardinality(p[l]) \in Nat /\ Cardinality(q[l]) \in Nat
    BY <1>1, FS_CardinalityType
  <1> QED BY <1>1, <1>2 DEF Covers, Texts

\* The empty text is covered if any text is.
LEMMA FreshCovered ==
    ASSUME NEW o \in Texts, NEW p, NEW T, Covers(o, p, T),
           \A l \in Lessons : p[l] \subseteq Savers
    PROVE  Covers(o, p, Fresh)
  <1>1. \A l \in Lessons : Cardinality(p[l]) \in Nat
    BY SkillConstants, FS_Subset, FS_CardinalityType
  <1> QED BY <1>1 DEF Covers, Fresh, Texts

\* A step that observes nothing: every text it leaves is one it found, or fresh,
\* or torn, and no worker becomes pending.
LEMMA NothingObserved ==
    ASSUME SkillInv, SkillTypes', SeedingSaves', UNCHANGED observed,
           \A l \in Lessons : Pending'[l] \subseteq Pending[l],
           \A v \in Savers : \/ held'[v] = Fresh \/ held'[v] = held[v]
                             \/ held'[v] = rulesFile /\ rulesFile \notin {Absent, Torn},
           \A f \in {rulesFile', tmpFile'} :
               f \in {Absent, Torn, rulesFile, tmpFile} \/ \E v \in Savers : f = held[v],
           \A v \in Savers : hints'[v] = hints[v] \/ hints'[v].lessons \subseteq Eligible(held[v])
    PROVE  SkillInv'
  <1> USE DEF SkillInv
  <1>1. observed \in Texts /\ \A l \in Lessons : Pending[l] \subseteq Savers
    BY DEF SkillTypes, Pending
  <1>2. \A T : Covers(observed, Pending, T) => Covers(observed', Pending', T)
    BY <1>1, FewerPending
  <1>3. Savers # {} => Covers(observed, Pending, Fresh)
    BY <1>1, FreshCovered DEF HeldCovered
  <1>4. HeldCovered'
    BY <1>2, <1>3 DEF HeldCovered, FileCovered
  <1>5. \A f \in {rulesFile', tmpFile'} : f \in {Absent, Torn} \/ Covers(observed', Pending', f)
    BY <1>2 DEF HeldCovered, FileCovered
  <1>6. LessonsEarned'
    <2> SUFFICES ASSUME NEW w \in Savers, NEW l \in hints'[w].lessons
                 PROVE  observed'[l] >= MinFrequency
      BY DEF LessonsEarned
    <2>1. CASE hints'[w] = hints[w]
      BY <2>1 DEF LessonsEarned
    <2>2. CASE hints'[w].lessons \subseteq Eligible(held[w])
      <3>1. l \in Lessons /\ held[w][l] >= MinFrequency
        BY <2>2 DEF Eligible
      <3>2. Cardinality(Pending[l]) \in Nat
        BY <1>1, <3>1, SkillConstants, FS_Subset, FS_CardinalityType
      <3> QED BY <3>1, <3>2, SkillConstants DEF HeldCovered, Covers, Texts, SkillTypes
    <2> QED BY <2>1, <2>2
  <1> QED BY <1>4, <1>5, <1>6 DEF FileCovered

-----------------------------------------------------------------------------

\* No worker has observed anything at the start.
LEMMA SkillInitInv == SkillInit => SkillInv
  <1> SUFFICES ASSUME SkillInit PROVE SkillInv
    OBVIOUS
  <1>1. SkillTypes /\ SeedingSaves
    BY DEF SkillInit, SkillTypes, SeedingSaves, Fresh, Texts, Steps
  <1>2. \A l \in Lessons : Pending[l] = {}
    BY DEF SkillInit, Pending
  <1>3. HeldCovered
    <2>1. Cardinality({}) = 0
      BY FS_EmptySet
    <2>2. Fresh \in Texts /\ \A l \in Lessons : Fresh[l] = 0
      BY DEF Fresh, Texts
    <2>3. Covers(Fresh, Pending, Fresh)
      BY <1>2, <2>1, <2>2 DEF Covers
    <2> QED BY <2>3 DEF SkillInit, HeldCovered
  <1>4. FileCovered(rulesFile) /\ FileCovered(tmpFile) /\ LessonsEarned
    BY DEF SkillInit, FileCovered, LessonsEarned
  <1> QED BY <1>1, <1>3, <1>4 DEF SkillInv

\* A failure is observed: one more is covered, one more worker is pending.
LEMMA StartStep ==
    ASSUME SkillInv, NEW w \in Savers, NEW t \in Lessons \cup {Consult}, Start(w, t)
    PROVE  SkillInv'
  <1> USE DEF SkillInv
  <1>1. /\ step[w] = "idle" /\ step' = [step EXCEPT ![w] = "load"]
        /\ task' = [task EXCEPT ![w] = t]
        /\ observed' = IF t = Consult THEN observed ELSE [observed EXCEPT ![t] = @ + 1]
        /\ UNCHANGED <<rulesFile, tmpFile, held, seeding, hints>>
    BY DEF Start
  <1>2. SkillTypes' /\ SeedingSaves'
    BY <1>1 DEF SkillTypes, SeedingSaves, Texts, Steps
  <1>3. w \notin {v \in Savers : step[v] \in {"load", "use"} \/ seeding[v]}
    BY <1>1 DEF SeedingSaves
  <1>4. \A l \in Lessons : Pending'[l] = IF l = t THEN Pending[l] \cup {w} ELSE Pending[l]
    BY <1>1, <1>3, SkillConstants DEF Pending, SkillTypes
  <1>5. \A l \in Lessons : Pending[l] \subseteq Savers /\ w \notin Pending[l]
    BY <1>3 DEF Pending
  <1>6. \A l \in Lessons :
           /\ Cardinality(Pending[l]) \in Nat
           /\ Cardinality(Pending[l] \cup {w}) = Cardinality(Pending[l]) + 1
    BY <1>5, SkillConstants, FS_Subset, FS_CardinalityType, FS_AddElement
  <1>7. \A T : Covers(observed, Pending, T) => Covers(observed', Pending', T)
    <2> SUFFICES ASSUME NEW T, Covers(observed, Pending, T), NEW l \in Lessons
                 PROVE  T[l] + Cardinality(Pending'[l]) <= observed'[l]
      BY DEF Covers
    <2>1. T[l] \in Nat /\ observed[l] \in Nat /\ T[l] + Cardinality(Pending[l]) <= observed[l]
      BY DEF Covers, Texts, SkillTypes
    <2>2. CASE l = t
      <3>1. observed'[l] = observed[l] + 1
        BY <1>1, <2>2, SkillConstants DEF SkillTypes, Texts
      <3>2. Cardinality(Pending'[l]) = Cardinality(Pending[l]) + 1
        BY <1>4, <1>6, <2>2
      <3>4. Cardinality(Pending[l]) \in Nat
        BY <1>6
      <3>5. T[l] + (Cardinality(Pending[l]) + 1) <= observed[l] + 1
        BY <2>1, <3>4
      <3> QED BY <3>1, <3>2, <3>5
    <2>3. CASE l # t
      BY <1>1, <1>4, <2>1, <2>3 DEF SkillTypes, Texts
    <2> QED BY <2>2, <2>3
  <1>8. HeldCovered' /\ FileCovered(rulesFile)' /\ FileCovered(tmpFile)'
    BY <1>1, <1>7 DEF HeldCovered, FileCovered
  <1>9. LessonsEarned'
    <2> SUFFICES ASSUME NEW v \in Savers, NEW l \in hints[v].lessons
                 PROVE  observed'[l] >= MinFrequency
      BY <1>1 DEF LessonsEarned
    <2>1. observed[l] >= MinFrequency
      BY DEF LessonsEarned
    <2> QED BY <1>1, <2>1, SkillConstants DEF SkillTypes, Texts
  <1> QED BY <1>2, <1>8, <1>9

\* The steps of the protocol that write no file leave the texts alone; a distilled
\* rule is what its worker was pending for.
LEMMA DistillStep ==
    ASSUME SkillInv, NEW w \in Savers, Distill(w)
    PROVE  SkillInv'
  <1> USE DEF SkillInv
  <1> DEFINE t == task[w]
             text == [held[w] EXCEPT ![t] = @ + 1]
  <1>1. /\ step[w] = "use" /\ t \in Lessons
        /\ step' = [step EXCEPT ![w] = "open"]
        /\ held' = [held EXCEPT ![w] = text]
        /\ UNCHANGED <<rulesFile, tmpFile, task, seeding, hints, observed>>
    BY DEF Distill, SkillTypes
  <1>2. ~seeding[w]
    BY <1>1 DEF SeedingSaves
  <1>3. text \in Texts
    BY <1>1 DEF SkillTypes, Texts
  <1>4. SkillTypes' /\ SeedingSaves'
    BY <1>1, <1>2, <1>3 DEF SkillTypes, SeedingSaves, Steps
  <1>5. \A l \in Lessons : Pending'[l] = IF l = t THEN Pending[l] \ {w} ELSE Pending[l]
    BY <1>1, <1>2 DEF Pending, SkillTypes
  <1>6. /\ w \in Pending[t]
        /\ \A l \in Lessons : Pending[l] \subseteq Savers /\ Pending'[l] \subseteq Pending[l]
    BY <1>1, <1>5 DEF Pending
  <1>7. \A T : Covers(observed, Pending, T) => Covers(observed', Pending', T)
    BY <1>1, <1>6, FewerPending DEF SkillTypes
  <1>8. Covers(observed', Pending', text)
    <2> SUFFICES ASSUME NEW l \in Lessons
                 PROVE  text[l] + Cardinality(Pending'[l]) <= observed'[l]
      BY <1>3 DEF Covers
    <2>1. held[w][l] \in Nat /\ held[w][l] + Cardinality(Pending[l]) <= observed[l]
      BY DEF HeldCovered, Covers, Texts
    <2>2. CASE l = t
      <3>1. text[l] = held[w][l] + 1
        BY <1>1, <2>2 DEF SkillTypes, Texts
      <3>2. /\ Cardinality(Pending[l]) \in Nat
            /\ Cardinality(Pending'[l]) = Cardinality(Pending[l]) - 1
        <4>1. IsFiniteSet(Pending[l]) /\ w \in Pending[l] /\ Pending'[l] = Pending[l] \ {w}
          BY <1>5, <1>6, <2>2, SkillConstants, FS_Subset
        <4> QED BY <4>1, FS_CardinalityType, FS_RemoveElement
      <3>3. observed'[l] = observed[l] /\ observed[l] \in Nat
        BY <1>1 DEF SkillTypes, Texts
      <3> HIDE DEF text
      <3> QED BY <2>1, <3>1, <3>2, <3>3
    <2>3. CASE l # t
      BY <1>1, <1>5, <2>1, <2>3 DEF SkillTypes, Texts
    <2> QED BY <2>2, <2>3
  <1> HIDE DEF text
  <1>9. HeldCovered' /\ FileCovered(rulesFile)' /\ FileCovered(tmpFile)' /\ LessonsEarned'
    BY <1>1, <1>7, <1>8 DEF HeldCovered, FileCovered, LessonsEarned, SkillTypes
  <1> QED BY <1>4, <1>9

\* Reading the file, or replacing it in memory.
LEMMA LoadStep ==
    ASSUME SkillInv, NEW w \in Savers, LoadRules(w)
    PROVE  SkillInv'
  <1>1. /\ step[w] = "load"
        /\ \/ /\ held' = [held EXCEPT ![w] = Fresh]
              /\ seeding' = [seeding EXCEPT ![w] = TRUE]
              /\ step' = [step EXCEPT ![w] = "open"]
           \/ /\ rulesFile \notin {Absent, Torn}
              /\ held' = [held EXCEPT ![w] = rulesFile]
              /\ step' = [step EXCEPT ![w] = "use"]
              /\ UNCHANGED seeding
        /\ UNCHANGED <<rulesFile, tmpFile, task, hints, observed>>
    BY DEF LoadRules
  <1>2. Fresh \in Texts /\ (rulesFile \notin {Absent, Torn} => rulesFile \in Texts)
    BY DEF SkillInv, FileCovered, Covers, Fresh, Texts
  <1>3. SkillTypes' /\ SeedingSaves'
    <2> USE DEF SkillInv, SkillTypes, SeedingSaves, Steps
    <2>1. step' \in [Savers -> Steps] /\ seeding' \in [Savers -> BOOLEAN]
      BY <1>1
    <2>2. held' \in [Savers -> Texts]
      BY <1>1, <1>2
    <2>3. UNCHANGED <<task, hints, observed>>
      BY <1>1
    <2>4. SkillTypes'
      BY <2>1, <2>2, <2>3
    <2>5. SeedingSaves'
      <3> SUFFICES ASSUME NEW v \in Savers, seeding'[v]
                   PROVE  step'[v] \in {"open", "write", "rename"}
        OBVIOUS
      <3> QED BY <1>1
    <2> QED BY <2>4, <2>5
  <1>4. \A l \in Lessons : Pending'[l] \subseteq Pending[l]
    BY <1>1 DEF Pending, SkillInv, SkillTypes
  <1>5. \A v \in Savers : \/ held'[v] = Fresh \/ held'[v] = held[v]
                          \/ held'[v] = rulesFile /\ rulesFile \notin {Absent, Torn}
    BY <1>1 DEF SkillInv, SkillTypes
  <1> QED BY <1>1, <1>3, <1>4, <1>5, NothingObserved

\* The hints are lessons eligible in the text of the worker.
LEMMA InjectStep ==
    ASSUME SkillInv, NEW w \in Savers, Inject(w)
    PROVE  SkillInv'
  <1>1. PICK h \in Injections(held[w]) : hints' = [hints EXCEPT ![w] = h]
    BY DEF Inject
  <1>2. h.lessons \subseteq Eligible(held[w])
    BY <1>1 DEF Injections
  <1>3. /\ step' = [step EXCEPT ![w] = "idle"] /\ step[w] = "use"
        /\ held' = [held EXCEPT ![w] = Fresh]
        /\ UNCHANGED <<rulesFile, tmpFile, task, seeding, observed>>
    BY DEF Inject
  <1>4. Fresh \in Texts
    BY DEF Fresh, Texts
  <1>5. SkillTypes' /\ SeedingSaves'
    BY <1>1, <1>3, <1>4 DEF SkillInv, SkillTypes, SeedingSaves, Steps
  <1>6. \A l \in Lessons : Pending'[l] \subseteq Pending[l]
    BY <1>3 DEF Pending, SkillInv, SkillTypes
  <1>7. \A v \in Savers : hints'[v] = hints[v] \/ hints'[v].lessons \subseteq Eligible(held[v])
    BY <1>1, <1>2 DEF SkillInv, SkillTypes
  <1>8. \A v \in Savers : held'[v] = Fresh \/ held'[v] = held[v]
    BY <1>3 DEF SkillInv, SkillTypes
  <1> QED BY <1>3, <1>5, <1>6, <1>7, <1>8, NothingObserved

\* Opening and writing put the worker's text, or a torn one, into a file.
LEMMA WriteStep ==
    ASSUME SkillInv, NEW w \in Savers, OpenTmp(w) \/ WriteText(w)
    PROVE  SkillInv'
  <1>1. /\ \E s \in {"write", "rename"} : step' = [step EXCEPT ![w] = s]
        /\ step[w] \in {"open", "write"}
        /\ UNCHANGED <<task, held, seeding, hints, observed>>
    BY DEF OpenTmp, WriteText
  <1>2. SkillTypes' /\ SeedingSaves'
    BY <1>1 DEF SkillInv, SkillTypes, SeedingSaves, Steps
  <1>3. \A l \in Lessons : Pending'[l] \subseteq Pending[l]
    BY <1>1 DEF Pending, SkillInv, SkillTypes
  <1>4. \A old : Overwrites(old, held[w]) \subseteq {held[w], Torn}
    BY DEF Overwrites
  <1>5. \A f \in {rulesFile', tmpFile'} : f \in {Torn, rulesFile, tmpFile, held[w]}
    BY <1>4 DEF OpenTmp, WriteText
  <1> QED BY <1>1, <1>2, <1>3, <1>5, NothingObserved

\* However a save ends, the worker goes on or drops its text.
LEMMA SavedStep ==
    ASSUME SkillInv, NEW w \in Savers,
           Rename(w) \/ RenameMisses(w) \/ SaveFails(w) \/ KillSaver(w)
    PROVE  SkillInv'
  <1>1. /\ \/ Saved(w) /\ step[w] \in {"open", "write", "rename"}
           \/ /\ step' = [step EXCEPT ![w] = "idle"]
              /\ seeding' = [seeding EXCEPT ![w] = FALSE]
              /\ held' = [held EXCEPT ![w] = Fresh]
        /\ \A f \in {rulesFile', tmpFile'} : f \in {Absent, rulesFile, tmpFile}
        /\ UNCHANGED <<task, hints, observed>>
    BY DEF Rename, RenameMisses, SaveFails, KillSaver
  <1>2. /\ step' = [step EXCEPT ![w] = IF seeding[w] /\ step'[w] = "use" THEN "use" ELSE "idle"]
        /\ seeding' = [seeding EXCEPT ![w] = FALSE]
        /\ held' = held \/ held' = [held EXCEPT ![w] = Fresh]
    BY <1>1 DEF Saved, SkillInv, SkillTypes
  <1>3. Fresh \in Texts
    BY DEF Fresh, Texts
  <1>4. SkillTypes' /\ SeedingSaves'
    BY <1>1, <1>2, <1>3 DEF SkillInv, SkillTypes, SeedingSaves, Steps
  <1>5. \A l \in Lessons : Pending'[l] \subseteq Pending[l]
    BY <1>1, <1>2 DEF Pending, SkillInv, SkillTypes
  <1>6. \A v \in Savers : held'[v] = Fresh \/ held'[v] = held[v]
    BY <1>2 DEF SkillInv, SkillTypes
  <1> QED BY <1>1, <1>4, <1>5, <1>6, NothingObserved

-----------------------------------------------------------------------------
\* The invariant is inductive.
THEOREM SkillInvariance == SkillSpec => []SkillInv
  <1>1. SkillInv /\ [SkillNext]_skillVars => SkillInv'
    <2> SUFFICES ASSUME SkillInv, [SkillNext]_skillVars
                 PROVE  SkillInv'
      OBVIOUS
    <2>1. CASE UNCHANGED skillVars
      BY <2>1 DEF skillVars, SkillInv, SkillTypes, SeedingSaves, HeldCovered, FileCovered,
                  LessonsEarned, Pending
    <2>2. CASE SkillNext
      BY <2>2, StartStep, LoadStep, InjectStep, DistillStep, WriteStep, SavedStep
      DEF SkillNext
    <2> QED BY <2>1, <2>2
  <1> QED BY <1>1, SkillInitInv, PTL DEF SkillSpec

\* A distilled rule takes prompt space only after its failure has recurred, for
\* any number of workers racing over the rules file (skill_memory.py:10-13).
THEOREM LessonsAreEarned == SkillSpec => []LessonsEarned
  <1>1. SkillInv => LessonsEarned
    BY DEF SkillInv
  <1> QED BY <1>1, SkillInvariance, PTL

-----------------------------------------------------------------------------
(* One worker at a time: what a crash leaves behind. *)

Saving == {"open", "write", "rename"}

CrashTypes ==
    /\ banked \in Texts
    /\ place \in [Savers -> {"tmp", "rules", "gone"}]

OneAtATime == \A v, w \in Savers : step[v] # "idle" /\ step[w] # "idle" => v = w

\* What was banked is on disk; nothing was, if there is no file.
FileIsBanked == rulesFile \in {Absent, banked} /\ (rulesFile = Absent => banked = Fresh)

\* What its worker is about to save is what is banked, and the failure it has
\* observed; the temporary file is its own.
OwnSave(w) ==
    /\ step[w] = "use" => held[w] = banked
    /\ seeding[w] => rulesFile = Absent /\ held[w] = Fresh
    /\ step[w] \in Saving /\ ~seeding[w] =>
         task[w] \in Lessons /\ held[w] = [banked EXCEPT ![task[w]] = @ + 1]
    /\ step[w] = "write" => place[w] = "tmp" /\ tmpFile = Torn
    /\ step[w] = "rename" => tmpFile = held[w]

CrashInv ==
    /\ CrashTypes
    /\ ~overlapped => OneAtATime /\ FileIsBanked /\ \A w \in Savers : OwnSave(w)

\* No file has been written at the start, and nothing banked.
LEMMA CrashInitInv == SkillInit => CrashInv
  BY DEF SkillInit, CrashInv, CrashTypes, OneAtATime, FileIsBanked, OwnSave, Saving, Fresh, Texts

\* A step of a worker that is alone: the others are idle and stay it, so only
\* the file and its own save are at stake.
LEMMA AloneStep ==
    ASSUME SkillInv, CrashInv, CrashTypes', NEW w \in Savers, step[w] # "idle",
           overlapped' = overlapped, \A v \in Savers \ {w} : step'[v] = step[v] /\ seeding'[v] = seeding[v],
           ~overlapped => FileIsBanked' /\ OwnSave(w)'
    PROVE  CrashInv'
  <1> SUFFICES ASSUME ~overlapped
               PROVE  OneAtATime' /\ FileIsBanked' /\ \A v \in Savers : OwnSave(v)'
    BY DEF CrashInv
  <1>1. \A v \in Savers \ {w} : step'[v] = "idle"
    BY DEF CrashInv, OneAtATime
  <1>2. \A v \in Savers \ {w} : ~seeding'[v]
    BY <1>1 DEF SkillInv, SeedingSaves
  <1>3. OneAtATime'
    BY <1>1 DEF OneAtATime
  <1>4. ASSUME NEW v \in Savers \ {w} PROVE OwnSave(v)'
    BY <1>1, <1>2 DEF OwnSave, Saving
  <1> QED BY <1>3, <1>4

\* A worker that starts beside another one ends the turn-taking.
LEMMA CrashStart ==
    ASSUME SkillInv, CrashInv, NEW w \in Savers, NEW t \in Lessons \cup {Consult}, Start(w, t)
    PROVE  CrashInv'
  <1>1. /\ step[w] = "idle" /\ step' = [step EXCEPT ![w] = "load"]
        /\ task' = [task EXCEPT ![w] = t]
        /\ overlapped' = (overlapped \/ \E v \in Savers \ {w} : step[v] # "idle")
        /\ UNCHANGED <<rulesFile, tmpFile, held, seeding, place, banked>>
    BY DEF Start
  <1> SUFFICES ASSUME ~overlapped, \A v \in Savers \ {w} : step[v] = "idle"
               PROVE  OneAtATime' /\ FileIsBanked' /\ \A v \in Savers : OwnSave(v)'
    BY <1>1 DEF CrashInv, CrashTypes
  <1>2. \A v \in Savers : step'[v] \in {"idle", "load"} /\ ~seeding'[v] /\ (v # w => step'[v] = "idle")
    BY <1>1 DEF SkillInv, SkillTypes, SeedingSaves
  <1>3. OneAtATime' /\ FileIsBanked'
    BY <1>1, <1>2 DEF OneAtATime, CrashInv, FileIsBanked
  <1>4. \A v \in Savers : OwnSave(v)'
    BY <1>2 DEF OwnSave, Saving
  <1> QED BY <1>3, <1>4

\* A worker that is alone loads what is banked.
LEMMA CrashUse ==
    ASSUME SkillInv, CrashInv, NEW w \in Savers, LoadRules(w) \/ Inject(w) \/ Distill(w)
    PROVE  CrashInv'
  <1> USE DEF SkillInv, SkillTypes, CrashInv
  <1>1. /\ UNCHANGED <<rulesFile, tmpFile, task, place, banked, overlapped>>
        /\ step[w] \in {"load", "use"} /\ ~seeding[w]
        /\ \A v \in Savers \ {w} : step'[v] = step[v] /\ seeding'[v] = seeding[v]
    BY DEF LoadRules, Inject, Distill, SeedingSaves
  <1>2. CrashTypes'
    BY <1>1 DEF CrashTypes
  <1>3. ~overlapped => FileIsBanked'
    BY <1>1 DEF FileIsBanked
  <1>4. ASSUME ~overlapped PROVE OwnSave(w)'
    <2>1. FileIsBanked /\ OwnSave(w) /\ banked \in Texts
      BY <1>4 DEF CrashTypes
    <2>2. CASE LoadRules(w)
      <3>1. rulesFile \in {Absent, Torn} => rulesFile = Absent
        BY <2>1, SkillConstants DEF FileIsBanked, Texts
      <3>2. CASE rulesFile = Absent
        <4>1. step'[w] = "open" /\ seeding'[w] /\ held'[w] = Fresh
          BY <2>2, <3>2 DEF LoadRules
        <4> QED BY <1>1, <3>2, <4>1 DEF OwnSave, Saving
      <3>3. CASE rulesFile # Absent
        <4>1. step'[w] = "use" /\ ~seeding'[w] /\ held'[w] = banked
          BY <1>1, <2>1, <2>2, <3>1, <3>3 DEF LoadRules, FileIsBanked
        <4> QED BY <1>1, <4>1 DEF OwnSave, Saving
      <3> QED BY <3>2, <3>3
    <2>3. CASE Inject(w)
      <3>1. step'[w] = "idle" /\ ~seeding'[w]
        BY <1>1, <2>3 DEF Inject
      <3> QED BY <3>1 DEF OwnSave, Saving
    <2>4. CASE Distill(w)
      <3>1. held[w] = banked /\ task[w] \in Lessons
        BY <2>1, <2>4 DEF OwnSave, Distill
      <3>2. /\ step'[w] = "open" /\ ~seeding'[w]
            /\ held'[w] = [banked EXCEPT ![task[w]] = @ + 1]
        BY <1>1, <2>4, <3>1 DEF Distill
      <3> QED BY <1>1, <3>1, <3>2 DEF OwnSave, Saving
    <2> QED BY <2>2, <2>3, <2>4
  <1> QED BY <1>1, <1>2, <1>3, <1>4, AloneStep

\* Truncating and writing the temporary file leave the rules file alone.
LEMMA CrashWrite ==
    ASSUME SkillInv, CrashInv, NEW w \in Savers, OpenTmp(w) \/ WriteText(w)
    PROVE  CrashInv'
  <1> USE DEF SkillInv, SkillTypes, CrashInv
  <1>1. /\ UNCHANGED <<task, held, seeding, banked, overlapped>>
        /\ step[w] \in Saving /\ step' = [step EXCEPT ![w] = step'[w]]
        /\ step'[w] \in {"write", "rename"}
    BY DEF OpenTmp, WriteText, Saving
  <1>2. CrashTypes'
    BY <1>1 DEF CrashTypes, OpenTmp, WriteText
  <1>3. ASSUME ~overlapped PROVE FileIsBanked' /\ OwnSave(w)'
    <2>1. FileIsBanked /\ OwnSave(w)
      BY <1>3
    <2>2. CASE OpenTmp(w)
      <3>1. /\ step'[w] = "write" /\ place'[w] = "tmp" /\ tmpFile' = Torn
            /\ rulesFile' = rulesFile
        BY <2>2 DEF OpenTmp, CrashTypes
      <3> QED BY <1>1, <2>1, <3>1 DEF OwnSave, Saving, FileIsBanked
    <2>3. CASE WriteText(w)
      <3>1. place[w] = "tmp" /\ tmpFile = Torn
        BY <2>1, <2>3 DEF OwnSave, WriteText
      <3>2. Overwrites(tmpFile, held[w]) = {held[w]}
        BY <3>1 DEF Overwrites
      <3>3. tmpFile' = held[w] /\ rulesFile' = rulesFile /\ step'[w] = "rename"
        BY <2>3, <3>1, <3>2 DEF WriteText
      <3> QED BY <1>1, <2>1, <3>3 DEF OwnSave, Saving, FileIsBanked
    <2> QED BY <2>2, <2>3
  <1> QED BY <1>1, <1>2, <1>3, AloneStep DEF Saving

\* Only a rename changes the rules file, and it moves the worker's own text.
LEMMA CrashSaved ==
    ASSUME SkillInv, CrashInv, NEW w \in Savers,
           Rename(w) \/ RenameMisses(w) \/ SaveFails(w) \/ KillSaver(w)
    PROVE  CrashInv'
  <1> USE DEF SkillInv, SkillTypes, CrashInv
  <1>1. /\ UNCHANGED <<task, overlapped>>
        /\ step[w] # "idle" /\ ~seeding'[w]
        /\ \A v \in Savers \ {w} : step'[v] = step[v] /\ seeding'[v] = seeding[v]
    BY DEF Rename, RenameMisses, SaveFails, KillSaver, Saved
  <1>2. CrashTypes'
    <2>1. CASE Rename(w)
      <3>1. place' \in [Savers -> {"tmp", "rules", "gone"}]
        BY <2>1 DEF Rename, Moved, CrashTypes
      <3>2. banked' \in Texts
        <4>1. banked' = banked \/ banked' = [banked EXCEPT ![task[w]] = @ + 1]
          BY <2>1 DEF Rename
        <4>2. banked \in [Lessons -> Nat]
          BY DEF CrashTypes, Texts
        <4>3. [banked EXCEPT ![task[w]] = @ + 1] \in [Lessons -> Nat]
          <5>1. CASE task[w] \in Lessons
            BY <4>2, <5>1
          <5>2. CASE task[w] \notin Lessons
            <6>1. [banked EXCEPT ![task[w]] = @ + 1] = banked
              BY <4>2, <5>2
            <6> QED BY <4>2, <6>1
          <5> QED BY <5>1, <5>2
        <4> QED BY <4>1, <4>2, <4>3 DEF Texts
      <3> QED BY <3>1, <3>2 DEF CrashTypes
    <2>2. CASE RenameMisses(w) \/ SaveFails(w) \/ KillSaver(w)
      BY <2>2 DEF RenameMisses, SaveFails, KillSaver, CrashTypes
    <2> QED BY <2>1, <2>2
  <1>3. ASSUME ~overlapped PROVE FileIsBanked' /\ OwnSave(w)'
    <2>1. FileIsBanked /\ OwnSave(w) /\ banked \in Texts
      BY <1>3 DEF CrashTypes
    <2>2. CASE Rename(w)
      <3>1. rulesFile' = held[w] /\ step[w] = "rename"
        <4>1. step[w] = "rename" /\ rulesFile' = tmpFile
          BY <2>2 DEF Rename
        <4> QED BY <2>1, <4>1 DEF OwnSave
      <3>2. CASE seeding[w]
        <4>1. held[w] = Fresh /\ banked = Fresh /\ banked' = Fresh
          BY <2>1, <2>2, <3>2 DEF OwnSave, FileIsBanked, Rename
        <4>2. step'[w] = "use" /\ held'[w] = Fresh
          BY <2>2, <3>2, <4>1 DEF Rename, Saved
        <4> QED BY <1>1, <3>1, <4>1, <4>2 DEF OwnSave, FileIsBanked, Saving
      <3>3. CASE ~seeding[w]
        <4>1. held[w] = banked' /\ step'[w] = "idle"
          BY <2>1, <2>2, <3>1, <3>3 DEF Rename, Saved, OwnSave, Saving
        <4>2. banked' # Absent
          BY <1>2, SkillConstants DEF CrashTypes, Texts
        <4> QED BY <1>1, <3>1, <4>1, <4>2 DEF OwnSave, FileIsBanked, Saving
      <3> QED BY <3>2, <3>3
    <2>3. CASE RenameMisses(w) \/ SaveFails(w)
      <3>1. Saved(w) /\ rulesFile' = rulesFile /\ banked' = banked
        BY <2>3 DEF RenameMisses, SaveFails
      <3>2. CASE seeding[w]
        <4>1. step'[w] = "use" /\ held'[w] = Fresh /\ banked = Fresh
          BY <2>1, <3>1, <3>2 DEF Saved, OwnSave, FileIsBanked
        <4> QED BY <1>1, <2>1, <3>1, <4>1 DEF OwnSave, FileIsBanked, Saving
      <3>3. CASE ~seeding[w]
        <4>1. step'[w] = "idle"
          BY <3>1, <3>3 DEF Saved
        <4> QED BY <1>1, <2>1, <3>1, <4>1 DEF OwnSave, FileIsBanked, Saving
      <3> QED BY <3>2, <3>3
    <2>4. CASE KillSaver(w)
      <3>1. step'[w] = "idle" /\ rulesFile' = rulesFile /\ banked' = banked
        BY <2>4 DEF KillSaver
      <3> QED BY <1>1, <2>1, <3>1 DEF OwnSave, FileIsBanked, Saving
    <2> QED BY <2>2, <2>3, <2>4
  <1> QED BY <1>1, <1>2, <1>3, AloneStep

\* The invariant is inductive.
THEOREM CrashInvariance == SkillSpec => []CrashInv
  <1>1. SkillInv /\ CrashInv /\ [SkillNext]_skillVars => CrashInv'
    <2> SUFFICES ASSUME SkillInv, CrashInv, [SkillNext]_skillVars
                 PROVE  CrashInv'
      OBVIOUS
    <2>1. CASE UNCHANGED skillVars
      BY <2>1 DEF skillVars, CrashInv, CrashTypes, OneAtATime, FileIsBanked, OwnSave
    <2>2. CASE SkillNext
      BY <2>2, CrashStart, CrashUse, CrashWrite, CrashSaved DEF SkillNext
    <2> QED BY <2>1, <2>2
  <1> QED BY <1>1, CrashInitInv, SkillInvariance, PTL DEF SkillSpec

\* Kills and full disks take no lesson that was saved, as long as the workers
\* take turns (skill_memory.py:17-18).
THEOREM CrashesTakeNothing == SkillSpec => []CrashesKeepLessons
  <1>1. CrashInv => CrashesKeepLessons
    BY DEF CrashInv, FileIsBanked, CrashesKeepLessons
  <1> QED BY <1>1, CrashInvariance, PTL


-----------------------------------------------------------------------------
(* The chat client. *)

Phases == {"none", "gate", "queued", "reserve", "wait", "sent", "again", "backoff", "done",
           "raised"}
Loops == [id : LoopIds, of : Nat]
GateStates == [permits : Nat, bound : Loops \cup {Nobody}]

LlmTypes ==
    /\ episode \in Nat /\ loop \in LoopIds \cup {Nobody}
    /\ gates \in [LoopIds -> GateStates \cup {Nobody}]
    /\ phase \in [Calls -> Phases]
    /\ attempt \in [Calls -> Nat] /\ tries \in [Calls -> Nat]
    /\ pause \in [Calls -> Int] /\ backlog \in Nat

\* Between episodes there are no calls, and every gate has all its permits.
\* During one, the permits of its gate and the calls that hold one add up.
PermitsKept ==
    /\ loop = Nobody => \A c \in Calls : phase[c] = "none"
    /\ \A i \in LoopIds : gates[i] # Nobody =>
         gates[i].permits + (IF i = loop THEN Cardinality(Holding) ELSE 0) = Limit
    /\ loop # Nobody /\ gates[loop] = Nobody =>
         Holding = {} /\ \A c \in Calls : phase[c] # "queued"

\* A gate is bound to a loop of its own key, that of the running loop to it.
BoundToOwn ==
    \A i \in LoopIds : gates[i] # Nobody /\ gates[i].bound # Nobody =>
        gates[i].bound.id = i /\ (i = loop => gates[i].bound = ThisLoop)

LlmInv == LlmTypes /\ PermitsKept /\ BoundToOwn /\ SlotsDistinct /\ GateBelongsToLoop

\* The calls that hold a permit are finitely many.
LEMMA HoldingSize ==
    /\ IsFiniteSet(Holding) /\ Cardinality(Holding) \in Nat /\ Holding \subseteq Calls
    /\ IsFiniteSet(Holding') /\ Cardinality(Holding') \in Nat
    /\ Holding = {} => Cardinality(Holding) = 0
    /\ Holding' = {} => Cardinality(Holding') = 0
  <1>1. Holding \subseteq Calls /\ Holding' \subseteq Calls
    BY DEF Holding
  <1>2. IsFiniteSet(Holding) /\ IsFiniteSet(Holding')
    BY <1>1, FS_Subset, LlmConstants
  <1> QED BY <1>1, <1>2, FS_CardinalityType, FS_EmptySet

\* There is no gate and no call at the start.
LEMMA LlmInitInv == LlmInit => LlmInv
  <1> SUFFICES ASSUME LlmInit PROVE LlmInv
    OBVIOUS
  <1>1. LlmTypes
    BY LlmConstants DEF LlmInit, LlmTypes, Phases
  <1>2. PermitsKept /\ BoundToOwn
    BY LlmConstants DEF LlmInit, PermitsKept, BoundToOwn
  <1>3. SlotsDistinct /\ GateBelongsToLoop
    BY DEF LlmInit, SlotsDistinct, GateBelongsToLoop
  <1> QED BY <1>1, <1>2, <1>3 DEF LlmInv

\* A new loop has an id no gate is bound to.
LEMMA StartEpisodeStep ==
    ASSUME LlmInv, StartEpisode
    PROVE  LlmInv'
  <1> USE LlmConstants DEF LlmInv, StartEpisode
  <1>1. \A c \in Calls : phase'[c] \in {"gate", "none"}
    OBVIOUS
  <1>2. LlmTypes'
    BY DEF LlmTypes, Phases
  <1>3. Cardinality(Holding') = 0 /\ Holding' = {}
    BY <1>1, HoldingSize DEF Holding
  <1>4. PermitsKept'
    <2>1. \A i \in LoopIds : gates[i] # Nobody => gates[i].permits = Limit
      BY DEF PermitsKept, LlmTypes, GateStates
    <2> QED BY <1>1, <1>3, <2>1 DEF PermitsKept
  <1>5. BoundToOwn'
    <2>1. \A i \in LoopIds : gates[i] # Nobody /\ gates[i].bound # Nobody => i \in BoundIds
      BY DEF BoundToOwn, BoundIds
    <2> QED BY <2>1 DEF BoundToOwn
  <1>6. SlotsDistinct' /\ GateBelongsToLoop'
    BY <1>1 DEF SlotsDistinct, GateBelongsToLoop
  <1> QED BY <1>2, <1>4, <1>5, <1>6

\* Cancelled calls give their permits back.
LEMMA EndEpisodeStep ==
    ASSUME LlmInv, EndEpisode
    PROVE  LlmInv'
  <1> USE LlmConstants DEF LlmInv, EndEpisode
  <1>1. loop \in LoopIds
    BY DEF LlmTypes
  <1> DEFINE g == [gates[loop] EXCEPT !.permits = @ + Cardinality(Holding)]
  <1>2. gates[loop] # Nobody =>
          /\ gates' = [gates EXCEPT ![loop] = g]
          /\ g \in GateStates /\ g.permits = Limit /\ g.bound = gates[loop].bound
    BY <1>1, HoldingSize DEF Key, LlmTypes, GateStates, PermitsKept
  <1>3. gates[loop] = Nobody => gates' = gates
    BY DEF Key
  <1> HIDE DEF g
  <1>4. /\ gates' \in [LoopIds -> GateStates \cup {Nobody}]
        /\ \A i \in LoopIds : gates'[i] # Nobody =>
             gates[i] # Nobody /\ gates'[i].permits = Limit /\ gates'[i].bound = gates[i].bound
    <2>1. CASE gates[loop] = Nobody
      <3>1. \A i \in LoopIds : gates[i] # Nobody => gates[i].permits = Limit
        BY <2>1 DEF PermitsKept, LlmTypes, GateStates
      <3> QED BY <1>3, <2>1, <3>1 DEF LlmTypes
    <2>2. CASE gates[loop] # Nobody
      <3>1. \A i \in LoopIds : i # loop /\ gates[i] # Nobody => gates[i].permits = Limit
        BY DEF PermitsKept, LlmTypes, GateStates
      <3>2. gates \in [LoopIds -> GateStates \cup {Nobody}]
        BY DEF LlmTypes
      <3> QED BY <1>1, <1>2, <2>2, <3>1, <3>2
    <2> QED BY <2>1, <2>2
  <1>5. \A c \in Calls : phase'[c] = "none"
    OBVIOUS
  <1>6. LlmTypes'
    BY <1>4 DEF LlmTypes, Phases
  <1>7. PermitsKept' /\ BoundToOwn'
    BY <1>4, <1>5 DEF PermitsKept, BoundToOwn, LlmTypes, GateStates
  <1>8. SlotsDistinct' /\ GateBelongsToLoop'
    BY <1>5 DEF SlotsDistinct, GateBelongsToLoop
  <1> QED BY <1>6, <1>7, <1>8

\* A call moves between the phases, and the gate of the loop with it.
LEMMA GateMoves ==
    ASSUME LlmInv, NEW c \in Calls, loop \in LoopIds, NEW g \in GateStates, NEW p \in Phases \ {"wait"},
           UNCHANGED <<episode, loop, pause, backlog>>,
           attempt' \in [Calls -> Nat], tries' \in [Calls -> Nat],
           gates' = [gates EXCEPT ![loop] = g], phase' = [phase EXCEPT ![c] = p],
           g.permits + Cardinality(Holding') = Limit,
           g.bound # Nobody => g.bound.id = loop /\ g.bound = ThisLoop,
           \A d \in Calls : phase'[d] = "queued" => g.bound = ThisLoop
    PROVE  LlmInv'
  <1> USE LlmConstants DEF LlmInv
  <1>1. /\ gates \in [LoopIds -> GateStates \cup {Nobody}] /\ g # Nobody
        /\ gates' \in [LoopIds -> GateStates \cup {Nobody}]
        /\ phase' \in [Calls -> Phases]
    BY DEF LlmTypes, GateStates, Loops
  <1>2. LlmTypes'
    BY <1>1 DEF LlmTypes
  <1>3. PermitsKept'
    <2>1. \A i \in LoopIds : gates'[i] = IF i = loop THEN g ELSE gates[i]
      BY <1>1
    <2>2. \A i \in LoopIds : i # loop /\ gates[i] # Nobody => gates[i].permits = Limit
      BY <1>1 DEF PermitsKept, GateStates
    <2>3. \A i \in LoopIds : gates'[i] # Nobody =>
            gates'[i].permits + (IF i = loop THEN Cardinality(Holding') ELSE 0) = Limit
      BY <2>1, <2>2
    <2> QED BY <1>1, <2>1, <2>3 DEF PermitsKept
  <1>4. BoundToOwn'
    BY <1>1 DEF BoundToOwn, ThisLoop
  <1>5. SlotsDistinct'
    <2>1. \A d \in Calls : phase'[d] = "wait" => phase[d] = "wait"
      BY DEF LlmTypes
    <2> QED BY <2>1 DEF SlotsDistinct
  <1>6. GateBelongsToLoop'
    BY <1>1 DEF GateBelongsToLoop, Key, ThisLoop
  <1> QED BY <1>2, <1>3, <1>4, <1>5, <1>6

\* One call more, or one less, that holds a permit.
LEMMA HoldingGrows ==
    ASSUME LlmInv, NEW c \in Calls, NEW p \in Phases, phase' = [phase EXCEPT ![c] = p]
    PROVE  /\ c \notin Holding /\ p = "reserve" => Cardinality(Holding') = Cardinality(Holding) + 1
           /\ c \in Holding /\ p \in {"done", "raised"} =>
                Cardinality(Holding) # 0 /\ Cardinality(Holding') = Cardinality(Holding) - 1
           /\ c \notin Holding /\ p = "queued" => Holding' = Holding
  <1> USE DEF LlmInv, LlmTypes
  <1>1. c \notin Holding /\ p = "reserve" => Holding' = Holding \cup {c}
    BY DEF Holding
  <1>2. c \in Holding /\ p \in {"done", "raised"} => Holding' = Holding \ {c}
    BY DEF Holding
  <1>3. c \notin Holding /\ p = "queued" => Holding' = Holding
    BY DEF Holding
  <1>4. c \in Holding => Cardinality(Holding) # 0
    BY HoldingSize, FS_EmptySet
  <1> QED BY <1>1, <1>2, <1>3, <1>4, HoldingSize, FS_AddElement, FS_RemoveElement

\* The gate a call comes to is its loop's, with its permits accounted for.
LEMMA GateAccounts ==
    ASSUME LlmInv, loop \in LoopIds
    PROVE  /\ Gate \in GateStates
           /\ Gate.permits + Cardinality(Holding) = Limit
           /\ Gate.bound # Nobody => Gate.bound.id = loop /\ Gate.bound = ThisLoop
           /\ \A d \in Calls : phase[d] = "queued" => Gate.bound = ThisLoop
           /\ gates[loop] # Nobody => Gate = gates[loop]
           /\ ThisLoop \in Loops /\ ThisLoop.id = loop
  <1> USE LlmConstants DEF LlmInv, Key
  <1>1. CASE gates[loop] = Nobody
    <2>1. Gate = NewGate /\ NewGate \in GateStates /\ Holding = {}
      BY <1>1 DEF Gate, NewGate, GateStates, PermitsKept
    <2>2. NewGate.permits = Limit /\ NewGate.bound = Nobody
      BY DEF NewGate
    <2> QED BY <1>1, <2>1, <2>2, HoldingSize DEF PermitsKept, ThisLoop, Loops, LlmTypes
  <1>2. CASE gates[loop] # Nobody
    <2>1. Gate = gates[loop] /\ Gate \in GateStates
      BY <1>2 DEF Gate, LlmTypes
    <2> QED BY <1>2, <2>1 DEF PermitsKept, BoundToOwn, GateBelongsToLoop, ThisLoop, Loops, LlmTypes
  <1> QED BY <1>1, <1>2

\* Calls exist only while their loop does.
LEMMA LoopRuns ==
    ASSUME LlmInv, NEW c \in Calls, phase[c] # "none"
    PROVE  loop \in LoopIds
  BY DEF LlmInv, LlmTypes, PermitsKept

\* Entering takes a permit if one is free and nobody waits, and queues otherwise.
LEMMA EnterGateStep ==
    ASSUME LlmInv, NEW c \in Calls, EnterGate(c)
    PROVE  LlmInv'
  <1>1. loop \in LoopIds /\ phase[c] = "gate" /\ c \notin Holding
    BY LoopRuns DEF EnterGate, Holding
  <1>2. /\ UNCHANGED <<episode, loop, attempt, tries, pause, backlog>>
        /\ attempt' \in [Calls -> Nat] /\ tries' \in [Calls -> Nat]
    BY DEF EnterGate, LlmInv, LlmTypes
  <1>3. CASE Gate.permits > 0 /\ \A d \in Calls : phase[d] # "queued"
    <2> DEFINE g == [Gate EXCEPT !.permits = @ - 1]
    <2>1. gates' = [gates EXCEPT ![loop] = g] /\ phase' = [phase EXCEPT ![c] = "reserve"]
      BY <1>3 DEF EnterGate, Key
    <2>2. g \in GateStates /\ g.permits = Gate.permits - 1 /\ g.bound = Gate.bound
      BY <1>1, <1>3, GateAccounts DEF GateStates
    <2>3. Cardinality(Holding') = Cardinality(Holding) + 1
      BY <1>1, <2>1, HoldingGrows DEF Phases
    <2>4. g.permits + Cardinality(Holding') = Limit
      BY <1>1, <2>2, <2>3, GateAccounts, HoldingSize, LlmConstants DEF GateStates
    <2>5. \A d \in Calls : phase'[d] # "queued"
      BY <1>3, <2>1 DEF LlmInv, LlmTypes
    <2> HIDE DEF g
    <2> QED BY <1>1, <1>2, <2>1, <2>2, <2>4, <2>5, GateAccounts, GateMoves DEF Phases
  <1>4. CASE ~(Gate.permits > 0 /\ \A d \in Calls : phase[d] # "queued")
    <2> DEFINE g == [Gate EXCEPT !.bound = IF @ = Nobody THEN ThisLoop ELSE @]
    <2>1. gates' = [gates EXCEPT ![loop] = g] /\ phase' = [phase EXCEPT ![c] = "queued"]
      BY <1>4 DEF EnterGate, Key
    <2>2. /\ g \in GateStates /\ g.permits = Gate.permits
          /\ g.bound = ThisLoop /\ g.bound.id = loop
      BY <1>1, GateAccounts DEF GateStates
    <2>3. Holding' = Holding
      BY <1>1, <2>1, HoldingGrows DEF Phases
    <2>4. g.permits + Cardinality(Holding') = Limit
      BY <1>1, <2>2, <2>3, GateAccounts
    <2> HIDE DEF g
    <2> QED BY <1>1, <1>2, <2>1, <2>2, <2>4, GateMoves DEF Phases
  <1> QED BY <1>3, <1>4

\* A waiter takes a permit that was given back.
LEMMA LeaveQueueStep ==
    ASSUME LlmInv, NEW c \in Calls, LeaveQueue(c)
    PROVE  LlmInv'
  <1> DEFINE g == [gates[loop] EXCEPT !.permits = @ - 1]
  <1>1. loop \in LoopIds /\ phase[c] = "queued" /\ c \notin Holding
    BY LoopRuns DEF LeaveQueue, Holding
  <1>2. /\ UNCHANGED <<episode, loop, attempt, tries, pause, backlog>>
        /\ gates' = [gates EXCEPT ![loop] = g] /\ phase' = [phase EXCEPT ![c] = "reserve"]
        /\ gates[loop].permits > 0
        /\ attempt' \in [Calls -> Nat] /\ tries' \in [Calls -> Nat]
    BY DEF LeaveQueue, Key, LlmInv, LlmTypes
  <1>3. gates[loop] # Nobody /\ Gate = gates[loop]
    BY <1>1, GateAccounts DEF LlmInv, PermitsKept
  <1>4. g \in GateStates /\ g.permits = Gate.permits - 1 /\ g.bound = Gate.bound
    BY <1>1, <1>2, <1>3, GateAccounts DEF GateStates
  <1>5. Cardinality(Holding') = Cardinality(Holding) + 1
    BY <1>1, <1>2, HoldingGrows DEF Phases
  <1>6. g.permits + Cardinality(Holding') = Limit
    BY <1>1, <1>4, <1>5, GateAccounts, HoldingSize, LlmConstants DEF GateStates
  <1> HIDE DEF g
  <1>7. \A d \in Calls : phase'[d] = "queued" => g.bound = ThisLoop
    BY <1>1, <1>2, <1>4, GateAccounts DEF LlmInv, LlmTypes
  <1> QED BY <1>1, <1>2, <1>4, <1>6, <1>7, GateAccounts, GateMoves DEF Phases

\* A call that ends gives its permit back.
LEMMA EndStep ==
    ASSUME LlmInv, NEW c \in Calls, Answered(c) \/ Raised(c)
    PROVE  LlmInv'
  <1> DEFINE g == [gates[loop] EXCEPT !.permits = @ + 1]
  <1>1. loop \in LoopIds /\ phase[c] = "sent" /\ c \in Holding
    BY LoopRuns DEF Answered, Raised, Holding
  <1>2. PICK p \in {"done", "raised"} : End(c, p)
    BY DEF Answered, Raised
  <1>3. /\ UNCHANGED <<episode, loop, pause, backlog>>
        /\ gates' = [gates EXCEPT ![loop] = g] /\ phase' = [phase EXCEPT ![c] = p]
    BY <1>2 DEF End, Key
  <1>9. attempt' \in [Calls -> Nat] /\ tries' \in [Calls -> Nat]
    BY <1>2 DEF End, LlmInv, LlmTypes
  <1>4. gates[loop] # Nobody /\ Gate = gates[loop]
    BY <1>1, GateAccounts DEF LlmInv, PermitsKept
  <1>5. g \in GateStates /\ g.permits = Gate.permits + 1 /\ g.bound = Gate.bound
    BY <1>1, <1>4, GateAccounts DEF GateStates
  <1>6. Cardinality(Holding') = Cardinality(Holding) - 1
    BY <1>1, <1>3, HoldingGrows DEF Phases
  <1>7. g.permits + Cardinality(Holding') = Limit
    BY <1>1, <1>5, <1>6, GateAccounts, HoldingSize, LlmConstants DEF GateStates
  <1> HIDE DEF g
  <1>8. \A d \in Calls : phase'[d] = "queued" => g.bound = ThisLoop
    BY <1>1, <1>3, <1>5, GateAccounts DEF LlmInv, LlmTypes
  <1> QED BY <1>1, <1>3, <1>5, <1>7, <1>8, <1>9, GateAccounts, GateMoves DEF Phases

\* Sleeping and sending, with the permit held.
LEMMA RequestStep ==
    ASSUME LlmInv, NEW c \in Calls,
           Reserve(c) \/ Send(c) \/ TrySleeps(c) \/ Resend(c) \/ BackOff(c) \/ TryAgain(c)
    PROVE  LlmInv'
  <1> USE LlmConstants DEF LlmInv
  <1>1. PICK p \in {"wait", "sent", "again", "backoff", "reserve"} : phase' = [phase EXCEPT ![c] = p]
    BY DEF Reserve, Send, TrySleeps, Resend, BackOff, TryAgain
  <1>2. UNCHANGED <<episode, loop, gates>> /\ c \in Holding
    BY DEF Reserve, Send, TrySleeps, Resend, BackOff, TryAgain, Holding
  <1>3. Holding' = Holding
    BY <1>1, <1>2 DEF Holding, LlmTypes
  <1>4. LlmTypes'
    <2>1. phase' \in [Calls -> Phases]
      BY <1>1 DEF LlmTypes, Phases
    <2>2. /\ attempt' \in [Calls -> Nat] /\ tries' \in [Calls -> Nat]
          /\ pause' \in [Calls -> Int] /\ backlog' \in Nat
      BY DEF Reserve, Send, TrySleeps, Resend, BackOff, TryAgain, LlmTypes, AfterReserving
    <2> QED BY <1>2, <2>1, <2>2 DEF LlmTypes
  <1>5. /\ \A d \in Calls : d # c => phase'[d] = phase[d]
        /\ phase[c] \notin {"none", "queued"} /\ phase'[c] \notin {"none", "queued"}
    BY <1>1, <1>2 DEF LlmTypes, Holding
  <1>6. PermitsKept' /\ BoundToOwn' /\ GateBelongsToLoop'
    BY <1>2, <1>3, <1>5 DEF PermitsKept, BoundToOwn, GateBelongsToLoop, ThisLoop, Key
  <1>7. SlotsDistinct'
    <2>1. CASE Reserve(c)
      <3>1. /\ phase'[c] = "wait" /\ pause'[c] = backlog /\ backlog' = backlog + 1
            /\ \A d \in Calls : d # c => pause'[d] = pause[d]
        BY <2>1 DEF Reserve, LlmTypes, AfterReserving
      <3>2. \A d \in Calls : d # c /\ phase'[d] = "wait" => pause[d] < backlog
        BY <1>5 DEF SlotsDistinct
      <3>3. backlog \in Nat /\ pause \in [Calls -> Int]
        BY DEF LlmTypes
      <3> QED BY <1>5, <3>1, <3>2, <3>3 DEF SlotsDistinct
    <2>2. CASE Send(c) \/ TrySleeps(c) \/ Resend(c) \/ BackOff(c) \/ TryAgain(c)
      <3>1. /\ phase'[c] # "wait" /\ backlog' = backlog
            /\ \A d \in Calls : d # c => pause'[d] = pause[d]
        BY <2>2 DEF Send, TrySleeps, Resend, BackOff, TryAgain, LlmTypes
      <3> QED BY <1>5, <3>1 DEF SlotsDistinct
    <2> QED BY <2>1, <2>2
  <1> QED BY <1>4, <1>6, <1>7

\* Time alone moves no permit.
LEMMA TickStep ==
    ASSUME LlmInv, Tick
    PROVE  LlmInv'
  <1> USE DEF LlmInv, Tick
  <1>1. LlmTypes'
    BY DEF LlmTypes
  <1>2. PermitsKept' /\ BoundToOwn' /\ GateBelongsToLoop'
    BY DEF PermitsKept, BoundToOwn, GateBelongsToLoop, ThisLoop, Key, Holding
  <1>3. SlotsDistinct'
    BY DEF SlotsDistinct, LlmTypes
  <1> QED BY <1>1, <1>2, <1>3

\* The invariant is inductive.
THEOREM LlmInvariance == LlmSpec => []LlmInv
  <1>1. LlmInv /\ [LlmNext]_llmVars => LlmInv'
    <2> SUFFICES ASSUME LlmInv, [LlmNext]_llmVars
                 PROVE  LlmInv'
      OBVIOUS
    <2>1. CASE UNCHANGED llmVars
      BY <2>1 DEF llmVars, LlmInv, LlmTypes, PermitsKept, BoundToOwn, SlotsDistinct,
                  GateBelongsToLoop, Holding, ThisLoop, Key
    <2>2. CASE LlmNext
      BY <2>2, StartEpisodeStep, EndEpisodeStep, EnterGateStep, LeaveQueueStep, EndStep,
         RequestStep, TickStep
      DEF LlmNext, Advance
    <2> QED BY <2>1, <2>2
  <1> QED BY <1>1, LlmInitInv, PTL DEF LlmSpec

\* No two calls have one slot, however late they are for it, and the number of
\* calls in flight stays within the limit, for any number of calls, retries and
\* episodes (_llm.py:15, 41-66).  What the model requests again by itself has no
\* slot: the claim is about the attempts of generate.
THEOREM LimitsAreKept == LlmSpec => []LimitsKept
  <1>1. LlmInv => LimitsKept
    <2> SUFFICES ASSUME LlmInv PROVE InFlightBounded
      BY DEF LlmInv, LimitsKept
    <2>1. CASE loop = Nobody
      <3>1. Holding = {}
        BY <2>1 DEF LlmInv, PermitsKept, Holding
      <3> QED BY <2>1, <3>1, HoldingSize, LlmConstants
          DEF LlmInv, LlmTypes, PermitsKept, GateStates, InFlightBounded
    <2>2. CASE loop # Nobody
      <3>1. loop \in LoopIds
        BY <2>2 DEF LlmInv, LlmTypes
      <3> QED BY <2>2, <3>1, GateAccounts, HoldingSize, LlmConstants
          DEF InFlightBounded, GateStates
    <2> QED BY <2>1, <2>2
  <1> QED BY <1>1, LlmInvariance, PTL

\* No call ever queues on a semaphore that belongs to another loop, whichever
\* ids the loops get (_llm.py:56-66).
THEOREM GatesBelongToLoops == LlmSpec => []GateBelongsToLoop
  <1>1. LlmInv => GateBelongsToLoop
    BY DEF LlmInv
  <1> QED BY <1>1, LlmInvariance, PTL


-----------------------------------------------------------------------------
(* The observation UI. *)

Events == [run : RunIds, kind : {"started", "failed", "finished"}]

PageTypes ==
    /\ drive \in [RunIds -> {"none", "created", "looping", "finalizing", "saved", "ended", "dead"}]
    /\ trace \in Seq(Events)
    /\ saved \subseteq RunIds
    /\ page \in [run : RunIds \cup {NoRun}, live : BOOLEAN, history : RunIds \cup {NoRun},
                 since : Nat, asked : RunIds \cup {NoRun}, status : {"none", "done", "failed"},
                 from : 0..Len(trace)]
    /\ ~page.live => page.from = 0
    /\ socket \in [at : {"closed", "connecting", "open", "dropped"}, cursor : 0..Len(trace)]

\* How far a task has come bounds what the trace and the disk can tell of it.
DriveTold ==
    \A r \in RunIds :
        /\ Happened(r, "failed") => drive[r] \in {"finalizing", "saved", "ended"}
        /\ Happened(r, "finished") => drive[r] = "ended"
        /\ drive[r] \in {"saved", "ended"} => r \in saved

\* A run fails before it finishes, if at all.
FailsFirst ==
    \A r \in RunIds : \A i, j \in DOMAIN trace :
        trace[i] = Event(r, "finished") /\ trace[j] = Event(r, "failed") => j < i

\* A run is shown as done once it has finished.
DoneHasFinished == page.status = "done" => page.run \in RunIds /\ Happened(page.run, "finished")

\* A socket that is still open has met no end of the page's run.
OpenMeansUnended ==
    socket.at = "open" =>
        \A i \in 1..socket.cursor :
            i > page.from /\ trace[i].run = page.run => trace[i].kind = "started"

ShownInv ==
    /\ PageTypes /\ DriveTold /\ FailsFirst /\ DoneHasFinished /\ OpenMeansUnended
    /\ FailureIsShown

\* Nothing is listed or shown at the start.
LEMMA ShownInitInv == ObservationInit => ShownInv
  <1> SUFFICES ASSUME ObservationInit PROVE ShownInv
    OBVIOUS
  <1>1. trace = << >> /\ trace \in Seq(Events) /\ Len(trace) = 0 /\ DOMAIN trace = {}
    BY DEF ObservationInit
  <1>2. PageTypes
    BY <1>1 DEF ObservationInit, PageTypes, Shut
  <1>3. DriveTold /\ FailsFirst /\ DoneHasFinished /\ OpenMeansUnended /\ FailureIsShown
    BY <1>1 DEF ObservationInit, DriveTold, Happened, FailsFirst, DoneHasFinished,
                OpenMeansUnended, FailureIsShown, Shut
  <1> QED BY <1>2, <1>3 DEF ShownInv

\* An event is added at the end of the trace, and the others stay.
LEMMA TraceGrows ==
    ASSUME trace \in Seq(Events), NEW r \in RunIds, NEW k \in {"started", "failed", "finished"},
           trace' = Append(trace, Event(r, k))
    PROVE  /\ trace' \in Seq(Events) /\ Len(trace) \in Nat /\ Len(trace') = Len(trace) + 1
           /\ DOMAIN trace = 1..Len(trace) /\ DOMAIN trace' = 1..(Len(trace) + 1)
           /\ \A i \in 1..Len(trace) : trace'[i] = trace[i]
           /\ trace'[Len(trace) + 1] = Event(r, k)
           /\ \A q \in RunIds : \A kind_ \in {"failed", "finished"} :
                Happened(q, kind_)' <=> Happened(q, kind_) \/ (q = r /\ kind_ = k)
  <1> DEFINE e == Event(r, k)
  <1>1. e \in Events
    BY DEF Event, Events
  <1>2. \A q : \A m : Event(q, m) = e <=> q = r /\ m = k
    BY DEF Event
  <1> HIDE DEF e
  <1>3. /\ trace' \in Seq(Events) /\ Len(trace) \in Nat /\ Len(trace') = Len(trace) + 1
        /\ DOMAIN trace = 1..Len(trace) /\ DOMAIN trace' = 1..(Len(trace) + 1)
        /\ \A i \in 1..Len(trace) : trace'[i] = trace[i]
        /\ trace'[Len(trace) + 1] = e
    BY <1>1 DEF e
  <1>4. ASSUME NEW q \in RunIds, NEW m \in {"failed", "finished"}
        PROVE  Happened(q, m)' <=> Happened(q, m) \/ (q = r /\ m = k)
    <2>1. Happened(q, m)' <=> \E i \in 1..(Len(trace) + 1) : trace'[i] = Event(q, m)
      BY <1>3 DEF Happened, Event
    <2>2. Happened(q, m) <=> \E i \in 1..Len(trace) : trace[i] = Event(q, m)
      BY <1>3 DEF Happened
    <2> QED BY <1>2, <1>3, <2>1, <2>2
  <1> QED BY <1>3, <1>4 DEF e

\* A task adds an event that does not contradict what was told before.
LEMMA ToldStep ==
    ASSUME ShownInv, NEW r \in RunIds, NEW k \in {"started", "failed", "finished"},
           NEW d \in {"looping", "dead", "finalizing", "ended"},
           trace' = Append(trace, Event(r, k)), drive' = [drive EXCEPT ![r] = d],
           UNCHANGED <<saved, page, socket>>,
           drive[r] \notin {"finalizing", "ended"},
           drive[r] = "saved" => k = "finished",
           k = "failed" => d = "finalizing",
           k = "finished" <=> d = "ended",
           d = "ended" => drive[r] = "saved"
    PROVE  ShownInv'
  <1> USE DEF ShownInv
  <1>1. trace \in Seq(Events) /\ drive'[r] = d /\ \A q \in RunIds : q # r => drive'[q] = drive[q]
    BY DEF PageTypes
  <1>2. /\ trace' \in Seq(Events) /\ Len(trace) \in Nat /\ Len(trace') = Len(trace) + 1
        /\ DOMAIN trace = 1..Len(trace) /\ DOMAIN trace' = 1..(Len(trace) + 1)
        /\ \A i \in 1..Len(trace) : trace'[i] = trace[i]
        /\ trace'[Len(trace) + 1] = Event(r, k)
        /\ \A q \in RunIds : \A kind_ \in {"failed", "finished"} :
             Happened(q, kind_)' <=> Happened(q, kind_) \/ (q = r /\ kind_ = k)
    BY <1>1, TraceGrows
  <1>3. PageTypes'
    BY <1>1, <1>2 DEF PageTypes
  <1>4. ~Happened(r, "finished") /\ (k # "finished" => ~Happened(r, "failed"))
    BY DEF DriveTold
  <1>5. DriveTold'
    BY <1>1, <1>2, <1>4 DEF DriveTold
  <1>6. FailsFirst'
    <2> SUFFICES ASSUME NEW q \in RunIds, NEW i \in 1..(Len(trace) + 1), NEW j \in 1..(Len(trace) + 1),
                        trace'[i] = Event(q, "finished"), trace'[j] = Event(q, "failed")
                 PROVE  j < i
      BY <1>2 DEF FailsFirst, Event
    <2>1. Event(q, "finished") # Event(q, "failed")
      BY DEF Event
    <2>2. CASE i = Len(trace) + 1
      BY <1>2, <2>1, <2>2
    <2>3. CASE i # Len(trace) + 1
      <3>1. i \in 1..Len(trace) /\ trace[i] = Event(q, "finished")
        BY <1>2, <2>3
      <3>2. q # r
        BY <1>2, <1>4, <3>1 DEF Happened
      <3>3. j # Len(trace) + 1
        BY <1>2, <3>2 DEF Event
      <3>4. j \in 1..Len(trace) /\ trace[j] = Event(q, "failed")
        BY <1>2, <3>3
      <3> QED BY <1>2, <3>1, <3>4 DEF FailsFirst
    <2> QED BY <2>2, <2>3
  <1>7. DoneHasFinished'
    BY <1>2 DEF DoneHasFinished
  <1>8. OpenMeansUnended'
    BY <1>2 DEF OpenMeansUnended, PageTypes
  <1>9. FailureIsShown'
    <2> SUFFICES ASSUME page.run # NoRun, page.status = "done",
                        NEW i \in 1..(Len(trace) + 1), trace'[i] = Event(page.run, "failed")
                 PROVE  page.live /\ i <= page.from
      BY <1>2 DEF FailureIsShown, Event
    <2>1. page.run \in RunIds /\ Happened(page.run, "finished")
      BY DEF DoneHasFinished
    <2>2. page.run # r
      BY <1>4, <2>1
    <2>3. i # Len(trace) + 1
      BY <1>2, <2>2 DEF Event
    <2>4. i \in DOMAIN trace /\ trace[i] = Event(page.run, "failed")
      BY <1>2, <2>3
    <2> QED BY <2>4 DEF FailureIsShown
  <1> QED BY <1>3, <1>5, <1>6, <1>7, <1>8, <1>9

\* A task goes on without an event.
LEMMA QuietStep ==
    ASSUME ShownInv, NEW r \in RunIds,
           \/ /\ drive[r] \in {"none", "created", "looping"}
              /\ drive' = [drive EXCEPT ![r] = IF drive[r] = "none" THEN "created"
                                               ELSE IF drive[r] = "created" THEN "dead"
                                               ELSE "finalizing"]
              /\ saved' = saved
           \/ /\ drive[r] = "finalizing" /\ drive' = [drive EXCEPT ![r] = "saved"]
              /\ saved' = saved \cup {r},
           UNCHANGED <<trace, socket>>,
           page' = page \/ page' = [page EXCEPT !.asked = r]
    PROVE  ShownInv'
  <1> USE DEF ShownInv
  <1>1. \A q \in RunIds : \A m : Happened(q, m)' <=> Happened(q, m)
    BY DEF Happened, Event
  <1>2. /\ page'.run = page.run /\ page'.live = page.live /\ page'.status = page.status
        /\ page'.from = page.from
    BY DEF PageTypes
  <1>3. PageTypes'
    BY DEF PageTypes
  <1>4. DriveTold'
    BY <1>1 DEF DriveTold, PageTypes
  <1>5. FailsFirst' /\ DoneHasFinished' /\ OpenMeansUnended' /\ FailureIsShown'
    BY <1>2 DEF FailsFirst, Event, DoneHasFinished, OpenMeansUnended, FailureIsShown, Happened
  <1> QED BY <1>3, <1>4, <1>5

\* The server's side of a run tells the trace in order.
LEMMA TaskStep ==
    ASSUME ShownInv, NEW r \in RunIds,
           Submit(r) \/ Construct(r) \/ RunSession(r) \/ SaveAndFinish(r)
    PROVE  ShownInv'
  <1>1. CASE Submit(r)
    BY <1>1, QuietStep DEF Submit
  <1>2. CASE Construct(r)
    <2>1. CASE trace' = Append(trace, Event(r, "started"))
      <3>1. PICK d \in {"looping", "dead"} : drive' = [drive EXCEPT ![r] = d]
        BY <1>2 DEF Construct
      <3> QED BY <1>2, <2>1, <3>1, ToldStep DEF Construct
    <2>2. CASE drive' = [drive EXCEPT ![r] = "dead"] /\ UNCHANGED trace
      BY <1>2, <2>2, QuietStep DEF Construct
    <2> QED BY <1>2, <2>1, <2>2 DEF Construct
  <1>3. CASE RunSession(r)
    <2>1. CASE trace' = trace
      BY <1>3, <2>1, QuietStep DEF RunSession
    <2>2. CASE trace' = Append(trace, Event(r, "failed"))
      BY <1>3, <2>2, ToldStep DEF RunSession
    <2> QED BY <1>3, <2>1, <2>2 DEF RunSession
  <1>4. CASE SaveAndFinish(r)
    <2>1. CASE drive[r] = "finalizing"
      BY <1>4, <2>1, QuietStep DEF SaveAndFinish
    <2>2. CASE drive[r] = "saved"
      BY <1>4, <2>2, ToldStep DEF SaveAndFinish
    <2> QED BY <1>4, <2>1, <2>2 DEF SaveAndFinish
  <1> QED BY <1>1, <1>2, <1>3, <1>4

\* The page moves to a run, shows nothing of it yet, and opens a new socket.
LEMMA AttachStep ==
    ASSUME ShownInv, Attach
    PROVE  ShownInv'
  <1> USE DEF ShownInv
  <1>1. PICK r \in RunIds, live \in BOOLEAN : AttachTo(r, live)
    BY DEF Attach, PageTypes
  <1>2. /\ page'.run = r /\ page'.status = "none" /\ socket'.at = "connecting"
        /\ UNCHANGED <<drive, trace, saved>>
    BY <1>1 DEF AttachTo, Shut, PageTypes
  <1>3. Len(trace) \in Nat
    BY DEF PageTypes
  <1>4. PageTypes'
    <2>1. socket' \in [at : {"closed", "connecting", "open", "dropped"}, cursor : 0..Len(trace)]
      BY <1>1, <1>3 DEF AttachTo, Shut
    <2>2. /\ page' \in [run : RunIds \cup {NoRun}, live : BOOLEAN, history : RunIds \cup {NoRun},
                        since : Nat, asked : RunIds \cup {NoRun},
                        status : {"none", "done", "failed"}, from : 0..Len(trace)]
          /\ page'.from = 0
      <3> DEFINE history == IF live THEN page.history ELSE r
                 asked == IF live THEN NoRun ELSE page.asked
      <3>1. history \in RunIds \cup {NoRun} /\ asked \in RunIds \cup {NoRun}
        BY DEF PageTypes
      <3>2. page' = [page EXCEPT !.run = r, !.live = live, !.status = "none", !.from = 0,
                                 !.history = history, !.since = Len(trace), !.asked = asked]
        BY <1>1 DEF AttachTo
      <3>3. PICK n \in Nat : n = Len(trace)
        BY <1>3
      <3>4. page \in [run : RunIds \cup {NoRun}, live : BOOLEAN, history : RunIds \cup {NoRun},
                      since : Nat, asked : RunIds \cup {NoRun},
                      status : {"none", "done", "failed"}, from : 0..n]
        BY <3>3 DEF PageTypes
      <3>5. 0 \in 0..n
        OBVIOUS
      <3> HIDE DEF history, asked
      <3>6. page' = [page EXCEPT !.run = r, !.live = live, !.status = "none", !.from = 0,
                                 !.history = history, !.since = n, !.asked = asked]
        BY <3>2, <3>3
      <3> QED BY ONLY <3>1, <3>3, <3>4, <3>5, <3>6, <1>2, r \in RunIds, live \in BOOLEAN
    <2> QED BY <1>2, <2>1, <2>2 DEF PageTypes
  <1>5. DriveTold' /\ FailsFirst'
    BY <1>2 DEF DriveTold, FailsFirst, Happened, Event
  <1>6. DoneHasFinished' /\ OpenMeansUnended' /\ FailureIsShown'
    BY <1>2 DEF DoneHasFinished, OpenMeansUnended, FailureIsShown
  <1> QED BY <1>4, <1>5, <1>6

\* An accepted socket starts at its cursor, which is the beginning for a run
\* that is not live.
LEMMA AcceptStep ==
    ASSUME ShownInv, Accept
    PROVE  ShownInv'
  <1> USE DEF ShownInv, Accept
  <1>1. Len(trace) \in Nat
    BY DEF PageTypes
  <1>2. Cursor \in 0..Len(trace) /\ (~page.live => Cursor = 0)
    BY <1>1 DEF Cursor, PageTypes
  <1>3. /\ page' = [page EXCEPT !.from = Cursor] /\ socket' = [at |-> "open", cursor |-> Cursor]
        /\ page'.run = page.run /\ page'.live = page.live /\ page'.status = page.status
        /\ page'.from = Cursor
        /\ UNCHANGED <<drive, trace, saved>>
    BY DEF PageTypes
  <1>4. PageTypes'
    BY <1>2, <1>3 DEF PageTypes
  <1>5. DriveTold' /\ FailsFirst' /\ DoneHasFinished'
    BY <1>3 DEF DriveTold, FailsFirst, DoneHasFinished, Happened, Event
  <1>6. FailureIsShown'
    <2> SUFFICES ASSUME page.run # NoRun, page.status = "done",
                        NEW i \in DOMAIN trace, trace[i] = Event(page.run, "failed")
                 PROVE  page.live /\ i <= Cursor
      BY <1>3 DEF FailureIsShown, Event
    <2>1. page.live
      BY DEF FailureIsShown
    <2>2. Cursor = Len(trace) /\ DOMAIN trace = 1..Len(trace)
      BY <2>1 DEF Cursor, PageTypes
    <2> QED BY <1>1, <2>1, <2>2
  <1>7. OpenMeansUnended'
    BY <1>1, <1>2, <1>3 DEF OpenMeansUnended
  <1> QED BY <1>4, <1>5, <1>6, <1>7

\* The page loses its connection, hears of a socket it has closed, or waits for
\* the history no more: nothing is shown of the run that was not shown before.
LEMMA LostStep ==
    ASSUME ShownInv, UNCHANGED <<drive, trace, saved>>,
           page' = page \/ page' = [page EXCEPT !.history = NoRun],
           socket' = socket \/ socket' = [Shut EXCEPT !.at = "dropped"]
    PROVE  ShownInv'
  <1> USE DEF ShownInv
  <1>1. /\ page'.run = page.run /\ page'.live = page.live /\ page'.status = page.status
        /\ page'.from = page.from
    BY DEF PageTypes
  <1>2. PageTypes'
    BY DEF PageTypes, Shut
  <1>3. DriveTold' /\ FailsFirst' /\ DoneHasFinished' /\ FailureIsShown'
    BY <1>1 DEF DriveTold, FailsFirst, DoneHasFinished, FailureIsShown, Happened, Event
  <1>4. OpenMeansUnended'
    BY <1>1 DEF OpenMeansUnended, Shut
  <1> QED BY <1>2, <1>3, <1>4

\* The next event of an open socket: had the run failed since it was opened, the
\* socket would have been shut.
LEMMA PollStep ==
    ASSUME ShownInv, Poll
    PROVE  ShownInv'
  <1> USE DEF ShownInv
  <1> DEFINE n == socket.cursor + 1
             event == trace[n]
             over == event.run = page.run /\ event.kind # "started"
             status == IF over THEN StatusAfter(page.status, event.kind) ELSE page.status
  <1>1. /\ socket.at = "open" /\ n \in 1..Len(trace) /\ n \in DOMAIN trace
        /\ socket.cursor \in Nat /\ Len(trace) \in Nat
        /\ event \in Events /\ event = Event(event.run, event.kind)
        /\ UNCHANGED <<drive, trace, saved>>
    <2>1. /\ socket.at = "open" /\ socket.cursor < Len(trace)
          /\ UNCHANGED <<drive, trace, saved>>
      BY DEF Poll
    <2>2. trace \in Seq(Events) /\ Len(trace) \in Nat /\ socket.cursor \in Nat
      BY DEF PageTypes
    <2>3. n \in 1..Len(trace) /\ n \in DOMAIN trace
      BY <2>1, <2>2
    <2>4. event \in Events
      BY <2>2, <2>3
    <2>5. \A e \in Events : e = Event(e.run, e.kind)
      BY DEF Events, Event
    <2> QED BY <2>1, <2>2, <2>3, <2>4, <2>5
  <1>2. /\ page' = IF over THEN [page EXCEPT !.status = status] ELSE page
        /\ socket' = IF over THEN Shut ELSE [socket EXCEPT !.cursor = @ + 1]
    BY DEF Poll
  <1>a. over => status = StatusAfter(page.status, event.kind)
    OBVIOUS
  <1>b. ~over => status = page.status
    OBVIOUS
  <1>c. over <=> event.run = page.run /\ event.kind # "started"
    OBVIOUS
  <1> HIDE DEF n, event, over, status
  <1>3. status \in {"none", "done", "failed"}
    BY <1>a, <1>b DEF StatusAfter, PageTypes
  <1>4. /\ page'.run = page.run /\ page'.live = page.live /\ page'.from = page.from
        /\ page'.status = status
    BY <1>2, <1>b DEF PageTypes
  <1>5. PageTypes'
    BY <1>1, <1>2, <1>3 DEF PageTypes, Shut, n
  <1>6. DriveTold' /\ FailsFirst'
    BY <1>1 DEF DriveTold, FailsFirst, Happened, Event
  <1>7. status = "done" => page.status = "done" \/ (over /\ event.kind = "finished")
    BY <1>a, <1>b DEF StatusAfter
  <1>8. over => event.run = page.run /\ event.kind # "started" /\ page.run \in RunIds
    BY <1>1, <1>c DEF Events
  <1>9. DoneHasFinished'
    <2>1. status = "done" => page.run \in RunIds /\ Happened(page.run, "finished")
      BY <1>1, <1>7, <1>8 DEF DoneHasFinished, Happened, event
    <2> QED BY <1>1, <1>4, <2>1 DEF DoneHasFinished, Happened, Event
  <1>10. OpenMeansUnended'
    <2> SUFFICES ASSUME socket'.at = "open", NEW i \in 1..socket'.cursor,
                        i > page.from, trace[i].run = page.run
                 PROVE  trace[i].kind = "started"
      BY <1>1, <1>4 DEF OpenMeansUnended
    <2>1. ~over /\ socket'.cursor = n
      BY <1>2 DEF Shut, PageTypes, n
    <2>2. CASE i = n
      BY <1>c, <2>1, <2>2 DEF event
    <2>3. CASE i # n
      BY <1>1, <2>1, <2>3 DEF OpenMeansUnended, n
    <2> QED BY <2>2, <2>3
  <1>11. FailureIsShown'
    <2> SUFFICES ASSUME page.run # NoRun, status = "done",
                        NEW j \in DOMAIN trace, trace[j] = Event(page.run, "failed")
                 PROVE  page.live /\ j <= page.from
      BY <1>1, <1>4 DEF FailureIsShown, Event
    <2>1. CASE page.status = "done"
      BY <2>1 DEF FailureIsShown
    <2>2. CASE over /\ event.kind = "finished"
      <3>1. trace[n] = Event(page.run, "finished") /\ page.run \in RunIds
        BY <1>1, <1>8, <2>2 DEF event
      <3>2. j < n
        BY <1>1, <3>1 DEF FailsFirst
      <3>3. j \in Nat /\ page.from \in Nat /\ j \in 1..socket.cursor
        BY <1>1, <3>2 DEF PageTypes, n
      <3>4. trace[j].run = page.run /\ trace[j].kind # "started"
        BY DEF Event
      <3>5. ~(j > page.from)
        BY <1>1, <3>3, <3>4 DEF OpenMeansUnended
      <3>6. page.live
        BY <3>3, <3>5 DEF PageTypes
      <3> QED BY <3>3, <3>5, <3>6
    <2> QED BY <1>7, <2>1, <2>2
  <1> QED BY <1>5, <1>6, <1>9, <1>10, <1>11

\* The history tells the failure before the end, in whatever state it was read.
LEMMA HistoryStep ==
    ASSUME ShownInv, History
    PROVE  ShownInv'
  <1> USE DEF ShownInv
  <1>1. PICK read \in page.since..Len(trace) :
         LET kinds == {trace[i].kind : i \in {j \in 1..read : trace[j].run = page.history}}
             one == IF "failed" \in kinds THEN StatusAfter(page.status, "failed") ELSE page.status
             status == IF "finished" \in kinds THEN StatusAfter(one, "finished") ELSE one
         IN  IF page.history = page.run /\ kinds \cap {"failed", "finished"} # {}
             THEN /\ page' = [page EXCEPT !.history = NoRun, !.status = status]
                  /\ socket' = Shut
             ELSE HistoryOver
    BY DEF History
  <1> DEFINE kinds == {trace[i].kind : i \in {j \in 1..read : trace[j].run = page.history}}
             one == IF "failed" \in kinds THEN StatusAfter(page.status, "failed") ELSE page.status
             status == IF "finished" \in kinds THEN StatusAfter(one, "finished") ELSE one
  <1>2. /\ page.history \in RunIds \cup {NoRun} /\ page.history # NoRun
        /\ Len(trace) \in Nat /\ DOMAIN trace = 1..Len(trace)
        /\ read \in Nat /\ read <= Len(trace)
        /\ UNCHANGED <<drive, trace, saved>>
    BY <1>1 DEF PageTypes, History
  <1>3. \/ /\ page.history = page.run /\ socket' = Shut
           /\ page' = [page EXCEPT !.history = NoRun, !.status = status]
        \/ page' = [page EXCEPT !.history = NoRun] /\ UNCHANGED socket
    BY <1>1 DEF HistoryOver
  <1>4. "finished" \in kinds => Happened(page.history, "finished")
    <2> SUFFICES ASSUME "finished" \in kinds PROVE Happened(page.history, "finished")
      OBVIOUS
    <2>1. PICK i \in 1..read : trace[i].run = page.history /\ trace[i].kind = "finished"
      OBVIOUS
    <2>2. i \in DOMAIN trace /\ trace[i] \in Events
      BY <1>2 DEF PageTypes
    <2> QED BY <2>1, <2>2 DEF Events, Event, Happened
  <1>5. "finished" \in kinds /\ Happened(page.history, "failed") => "failed" \in kinds
    <2> SUFFICES ASSUME "finished" \in kinds, Happened(page.history, "failed")
                 PROVE  "failed" \in kinds
      OBVIOUS
    <2>1. PICK i \in 1..read : trace[i].run = page.history /\ trace[i].kind = "finished"
      OBVIOUS
    <2>2. i \in DOMAIN trace /\ trace[i] = Event(page.history, "finished")
      <3>1. i \in DOMAIN trace /\ trace[i] \in Events
        BY <1>2 DEF PageTypes
      <3> QED BY <2>1, <3>1 DEF Events, Event
    <2>3. PICK j \in DOMAIN trace : trace[j] = Event(page.history, "failed")
      BY DEF Happened
    <2>4. j < i
      BY <1>2, <2>2, <2>3 DEF FailsFirst
    <2>5. j \in 1..read /\ trace[j].run = page.history /\ trace[j].kind = "failed"
      BY <1>2, <2>1, <2>3, <2>4 DEF Event
    <2> QED BY <2>5
  <1> HIDE DEF kinds
  <1>6. /\ status \in {"none", "done", "failed"}
        /\ status = "done" => \/ page.status = "done"
                              \/ "finished" \in kinds /\ "failed" \notin kinds
    BY DEF StatusAfter, PageTypes
  <1> HIDE DEF status
  <1>7. /\ page'.run = page.run /\ page'.live = page.live /\ page'.from = page.from
        /\ page'.status \in {page.status, status}
        /\ page'.status # page.status => page.history = page.run /\ page'.status = status
    BY <1>3 DEF PageTypes
  <1>8. PageTypes'
    <2>1. socket' \in [at : {"closed", "connecting", "open", "dropped"}, cursor : 0..Len(trace)]
      BY <1>2, <1>3 DEF PageTypes, Shut
    <2>2. \/ page' = [page EXCEPT !.history = NoRun, !.status = status]
          \/ page' = [page EXCEPT !.history = NoRun]
      BY <1>3
    <2> QED BY <1>2, <1>6, <2>1, <2>2, ZenonT(60) DEF PageTypes
  <1>9. DriveTold' /\ FailsFirst'
    BY <1>2 DEF DriveTold, FailsFirst, Happened, Event
  <1>10. DoneHasFinished'
    BY <1>2, <1>4, <1>6, <1>7 DEF DoneHasFinished, Happened, Event
  <1>11. OpenMeansUnended'
    <2>1. socket' \in {Shut, socket}
      BY <1>3
    <2> QED BY <1>2, <1>7, <2>1 DEF OpenMeansUnended, Shut
  <1>12. FailureIsShown'
    <2> SUFFICES ASSUME page.run # NoRun, page'.status = "done",
                        NEW i \in DOMAIN trace, trace[i] = Event(page.run, "failed")
                 PROVE  page.live /\ i <= page.from
      BY <1>2, <1>7 DEF FailureIsShown, Event
    <2>1. CASE page.status = "done"
      BY <2>1 DEF FailureIsShown
    <2>2. CASE page.status # "done"
      <3>1. page.history = page.run /\ "finished" \in kinds /\ "failed" \notin kinds
        BY <1>6, <1>7, <2>2
      <3> QED BY <1>5, <3>1 DEF Happened
    <2> QED BY <2>1, <2>2
  <1> QED BY <1>8, <1>9, <1>10, <1>11, <1>12

\* A run is listed by its last event.
LEMMA ListedMeansHappened ==
    ASSUME trace \in Seq(Events), NEW r \in RunIds, ListedStatus(r) = "finished"
    PROVE  Happened(r, "finished")
  <1> DEFINE of == {i \in DOMAIN trace : trace[i].run = r}
             last == CHOOSE i \in of : \A j \in of : j <= i
  <1>1. of # {} /\ (trace[last].kind = "started" \/ trace[last].kind = "finished")
    BY DEF ListedStatus
  <1>2. of \in SUBSET (1..Len(trace)) /\ Len(trace) \in Nat
    OBVIOUS
  <1> HIDE DEF of
  <1>3. \E i \in of : \A j \in of : j <= i
    BY <1>1, <1>2, Greatest
  <1>4. last \in of
    BY <1>3
  <1>5. trace[last].kind = "finished"
    BY <1>1 DEF ListedStatus, of
  <1> HIDE DEF last
  <1>6. last \in DOMAIN trace /\ trace[last].run = r /\ trace[last] \in Events
    BY <1>4 DEF of
  <1> QED BY <1>5, <1>6 DEF Events, Event, Happened

\* The invariant is inductive.
THEOREM ShownInvariance ==
    ObservationInit /\ [][ObservationNext]_observationVars => []ShownInv
  <1>1. ShownInv /\ [ObservationNext]_observationVars => ShownInv'
    <2> SUFFICES ASSUME ShownInv, [ObservationNext]_observationVars
                 PROVE  ShownInv'
      OBVIOUS
    <2>1. CASE UNCHANGED observationVars
      BY <2>1 DEF observationVars, ShownInv, PageTypes, DriveTold, FailsFirst, DoneHasFinished,
                  OpenMeansUnended, FailureIsShown, Happened, Event
    <2>2. CASE Drop \/ HistoryFails
      BY <2>2, LostStep DEF Drop, HistoryFails, HistoryOver
    <2>3. CASE ObservationNext
      BY <2>2, <2>3, TaskStep, AttachStep, AcceptStep, PollStep, HistoryStep DEF ObservationNext
    <2> QED BY <2>1, <2>3
  <1> QED BY <1>1, ShownInitInv, PTL

\* For any number of runs, events and attachments, whichever of history and
\* socket answers first, and whether either is lost: nothing is listed or shown
\* as finished that is not on disk, and a page shows a failed run as done only if
\* it is live and its socket was accepted after the failure (app.js:403-425,
\* 457-476).  The list makes no such promise: a failed run is listed as finished
\* (app.py:158-175).
THEOREM WhatIsShownWasTold ==
    ObservationInit /\ [][ObservationNext]_observationVars => []ShownAsTold
  <1>1. ShownInv => ShownAsTold
    <2> SUFFICES ASSUME ShownInv PROVE FinishedIsSaved
      BY DEF ShownInv, ShownAsTold
    <2>1. \A r \in RunIds : Happened(r, "finished") => r \in saved
      BY DEF ShownInv, DriveTold
    <2> QED BY <2>1, ListedMeansHappened
        DEF ShownInv, PageTypes, DoneHasFinished, FinishedIsSaved
  <1> QED BY <1>1, ShownInvariance, PTL

-----------------------------------------------------------------------------
(* The ranking of a session's candidates. *)

RankingInv == candidates \in Seq(Outcomes)

\* The candidates are finitely many records.
LEMMA RecordsAre ==
    ASSUME RankingInv
    PROVE  /\ Len(candidates) \in Nat /\ Ids = 1..Len(candidates) /\ IsFiniteSet(Ids)
           /\ \A i \in Ids : RunRecord(candidates[i])
  <1>1. Len(candidates) \in Nat /\ Ids = 1..Len(candidates)
    BY DEF RankingInv, Ids
  <1>2. \A i \in Ids : candidates[i] \in Outcomes
    BY DEF RankingInv, Ids
  <1>3. IsFiniteSet(Ids)
    BY <1>1, FS_Interval
  <1> QED BY <1>1, <1>2, <1>3, RankingAssumption

\* What is not missing is a number, and on a metric the better of two numbers is
\* the greater or the less.
LEMMA ValuesAre ==
    ASSUME RankingInv, NEW i \in Ids, NEW m
    PROVE  Value(i, m) \in Int \cup {Unmeasured}
  BY RecordsAre DEF Value, RunRecord

\* Better is a strict order, and being no better is one on what is left.
LEMMA BetterIsStrict ==
    ASSUME NEW m, NEW x \in Int, NEW y \in Int, NEW z \in Int
    PROVE  /\ ~Better(x, x, m)
           /\ Better(x, y, m) /\ Better(y, z, m) => Better(x, z, m)
           /\ Better(x, y, m) /\ ~Better(z, y, m) => Better(x, z, m)
           /\ ~Better(y, x, m) /\ Better(y, z, m) => Better(x, z, m)
           /\ ~Better(y, x, m) /\ ~Better(z, y, m) => ~Better(z, x, m)
           /\ ~Better(x, y, m) /\ ~Better(y, x, m) => x = y
  BY DEF Better

\* Domination is a strict order.
LEMMA DominatesIsStrict ==
    ASSUME RankingInv, NEW i \in Ids, NEW j \in Ids, NEW k \in Ids
    PROVE  ~Dominates(i, i) /\ (Dominates(i, j) /\ Dominates(j, k) => Dominates(i, k))
  <1> DEFINE v(a, m) == Value(a, m)
  <1>1. ~Dominates(i, i)
    <2> SUFFICES ASSUME Dominates(i, i) PROVE FALSE
      OBVIOUS
    <2>1. PICK m \in CommonMetrics : Better(Value(i, m), Value(i, m), m)
      BY DEF Dominates
    <2>2. Value(i, m) \in Int
      BY ValuesAre DEF Dominates
    <2> QED BY <2>1, <2>2, BetterIsStrict
  <1>2. ASSUME Dominates(i, j), Dominates(j, k) PROVE Dominates(i, k)
    <2>1. ASSUME NEW m \in CommonMetrics
          PROVE  /\ Value(i, m) \in Int /\ Value(j, m) \in Int /\ Value(k, m) \in Int
                 /\ Value(i, m) # Unmeasured /\ Value(k, m) # Unmeasured
                 /\ ~Better(Value(j, m), Value(i, m), m)
                 /\ ~Better(Value(k, m), Value(j, m), m)
      BY <1>2, ValuesAre DEF Dominates
    <2>2. ASSUME NEW m \in CommonMetrics
          PROVE  /\ Value(i, m) # Unmeasured /\ Value(k, m) # Unmeasured
                 /\ ~Better(Value(k, m), Value(i, m), m)
      BY <2>1, BetterIsStrict
    <2>3. PICK m \in CommonMetrics : Better(Value(i, m), Value(j, m), m)
      BY <1>2 DEF Dominates
    <2>4. Better(Value(i, m), Value(k, m), m)
      BY <2>1, <2>3, BetterIsStrict
    <2> QED BY <2>2, <2>4 DEF Dominates
  <1> QED BY <1>1, <1>2

\* Maximal, for the candidates.
LEMMA MaximalRow ==
    ASSUME RankingInv, NEW Above, NEW S \in SUBSET Ids, S # {},
           \A i \in Ids : <<i, i>> \notin Above,
           \A i, j, k \in Ids : <<i, j>> \in Above /\ <<j, k>> \in Above => <<i, k>> \in Above
    PROVE  \E i \in S : \A j \in S : <<j, i>> \notin Above
  BY RecordsAre, Maximal

\* Among some candidates there is one that none of them dominates.
LEMMA Undominated ==
    ASSUME RankingInv, NEW S \in SUBSET Ids, S # {}
    PROVE  \E i \in S : \A j \in S : ~Dominates(j, i)
  <1> DEFINE D == {p \in Ids \X Ids : Dominates(p[1], p[2])}
  <1>1. \A i, j \in Ids : <<i, j>> \in D <=> Dominates(i, j)
    OBVIOUS
  <1>2. /\ \A i \in Ids : <<i, i>> \notin D
        /\ \A i, j, k \in Ids : <<i, j>> \in D /\ <<j, k>> \in D => <<i, k>> \in D
    <2> HIDE DEF D
    <2> QED BY <1>1, DominatesIsStrict
  <1> HIDE DEF D
  <1>3. PICK i \in S : \A j \in S : <<j, i>> \notin D
    BY <1>2, MaximalRow
  <1> QED BY <1>1, <1>3

\* Whom nobody dominates among those that dominate it or are as good, nobody does.
LEMMA DominatedFromFront ==
    ASSUME RankingInv, NEW i \in Scored \ ParetoFront
    PROVE  /\ \E j \in ParetoFront : Dominates(j, i)
           /\ DominationCount(i) > 0
  <1> DEFINE T == {j \in Scored : Dominates(j, i)}
  <1>0. Scored \subseteq Ids
    BY DEF Scored
  <1>1. T \in SUBSET Ids /\ T # {} /\ i \notin T
    BY <1>0, DominatesIsStrict DEF ParetoFront
  <1>2. PICK j \in T : \A k \in T : ~Dominates(k, j)
    BY <1>1, Undominated
  <1>3. \A k \in Scored : ~Dominates(k, j)
    BY <1>0, <1>2, DominatesIsStrict
  <1>4. j \in ParetoFront
    BY <1>2, <1>3 DEF ParetoFront
  <1>5. DominationCount(i) > 0
    <2>1. {k \in Scored \ {i} : Dominates(k, i)} = T
      BY <1>1
    <2>2. IsFiniteSet(T)
      BY <1>1, RecordsAre, FS_Subset
    <2>3. Cardinality(T) \in Nat /\ Cardinality(T) # 0
      BY <1>1, <2>2, FS_CardinalityType, FS_EmptySet
    <2> HIDE DEF T
    <2> QED BY <2>1, <2>3 DEF DominationCount
  <1> QED BY <1>2, <1>4, <1>5

\* The rows none is better than on a metric: the summary names one of them.
Leading(m) == {i \in Having(m) : \A j \in Having(m) : ~Better(Value(j, m), Value(i, m), m)}

\* The best row of a metric is one with the best value.
LEMMA LeadingIs ==
    ASSUME RankingInv, NEW m, Having(m) # {}
    PROVE  /\ Leading(m) # {} /\ Leading(m) \subseteq Ids /\ BestOn(m) \in Leading(m)
           /\ \A i, j \in Leading(m) : Value(i, m) = Value(j, m)
  <1>1. Having(m) \subseteq Ids /\ \A i \in Having(m) : Value(i, m) \in Int
    BY ValuesAre DEF Having, Scored
  <1>2. Leading(m) # {}
    <2> DEFINE D == {p \in Having(m) \X Having(m) : Better(Value(p[1], m), Value(p[2], m), m)}
    <2>1. \A i, j : <<i, j>> \in D <=>
                      i \in Having(m) /\ j \in Having(m) /\ Better(Value(i, m), Value(j, m), m)
      OBVIOUS
    <2> HIDE DEF D
    <2>2. \A i \in Ids : <<i, i>> \notin D
      BY <1>1, <2>1, BetterIsStrict
    <2>3. \A i, j, k \in Ids : <<i, j>> \in D /\ <<j, k>> \in D => <<i, k>> \in D
      BY <1>1, <2>1, BetterIsStrict
    <2>4. PICK i \in Having(m) : \A j \in Having(m) : <<j, i>> \notin D
      BY <1>1, <2>2, <2>3, MaximalRow
    <2> QED BY <2>1, <2>4 DEF Leading
  <1>3. ASSUME NEW i \in Leading(m), NEW j \in Leading(m) PROVE Value(i, m) = Value(j, m)
    <2>1. /\ Value(i, m) \in Int /\ Value(j, m) \in Int
          /\ ~Better(Value(i, m), Value(j, m), m) /\ ~Better(Value(j, m), Value(i, m), m)
      BY <1>1 DEF Leading
    <2> QED BY <2>1, BetterIsStrict
  <1>4. BestOn(m) \in Leading(m)
    <2> DEFINE D == {p \in Ids \X Ids : p[1] < p[2]}
    <2>1. \A i, j \in Ids : <<i, j>> \in D <=> i < j
      OBVIOUS
    <2> HIDE DEF D
    <2>2. Ids = 1..Len(candidates) /\ Len(candidates) \in Nat
      BY RecordsAre
    <2>3. /\ \A i \in Ids : <<i, i>> \notin D
          /\ \A i, j, k \in Ids : <<i, j>> \in D /\ <<j, k>> \in D => <<i, k>> \in D
      BY <2>1, <2>2
    <2>4. Leading(m) \in SUBSET Ids
      BY <1>1 DEF Leading
    <2>5. PICK i \in Leading(m) : \A j \in Leading(m) : <<j, i>> \notin D
      BY <1>2, <2>3, <2>4, MaximalRow
    <2>6. ASSUME NEW j \in Leading(m) PROVE i <= j
      <3>1. i \in Ids /\ j \in Ids /\ ~(j < i)
        BY <2>1, <2>4, <2>5
      <3> QED BY <2>2, <3>1
    <2>7. i \in Having(m) /\ \A j \in Having(m) :
            ~Better(Value(j, m), Value(i, m), m) /\ (Value(j, m) = Value(i, m) => i <= j)
      <3>1. \A j \in Having(m) : Value(j, m) = Value(i, m) => j \in Leading(m)
        BY DEF Leading
      <3> QED BY <2>6, <3>1 DEF Leading
    <2>8. BestOn(m) \in Having(m) /\ \A j \in Having(m) :
            ~Better(Value(j, m), Value(BestOn(m), m), m)
      BY <2>7 DEF BestOn
    <2> QED BY <2>8 DEF Leading
  <1> QED BY <1>1, <1>2, <1>3, <1>4 DEF Leading

\* A best row on the front: one of the best that none of the best dominates.
LEMMA FrontHasBest ==
    ASSUME RankingInv, NEW m \in CommonMetrics, Having(m) # {}
    PROVE  \E i \in ParetoFront :
             Value(i, m) = Value(Summary(m).best, m) /\ Rank(i, m) = 1
  <1>1. PICK i \in Leading(m) : \A j \in Leading(m) : ~Dominates(j, i)
    BY LeadingIs, Undominated
  <1>2. i \in Having(m) /\ i \in Scored /\ i \in Ids
    BY DEF Leading, Having, Scored
  <1>3. ASSUME NEW k \in Scored, Dominates(k, i) PROVE FALSE
    <2>1. /\ k \in Ids /\ k \in Having(m)
          /\ ~Better(Value(i, m), Value(k, m), m)
      BY <1>3 DEF Dominates, Having, Scored
    <2>2. Value(k, m) \in Int /\ Value(i, m) \in Int
      BY <1>2, <2>1, ValuesAre DEF Having
    <2>3. ~Better(Value(k, m), Value(i, m), m)
      BY <2>1 DEF Leading
    <2>4. Value(k, m) = Value(i, m)
      BY <2>1, <2>2, <2>3, BetterIsStrict
    <2>5. k \in Leading(m)
      BY <2>1, <2>4 DEF Leading
    <2> QED BY <1>1, <1>3, <2>5
  <1>4. i \in ParetoFront
    BY <1>2, <1>3 DEF ParetoFront
  <1>5. Rank(i, m) = 1
    <2>1. {j \in Having(m) : Better(Value(j, m), Value(i, m), m)} = {}
      BY DEF Leading
    <2> QED BY <1>2, <2>1, FS_EmptySet DEF Rank
  <1>6. Summary(m).best = BestOn(m)
    BY DEF Summary
  <1>7. Value(i, m) = Value(BestOn(m), m)
    BY LeadingIs
  <1> QED BY <1>4, <1>5, <1>6, <1>7

\* The candidates stay a list of records (multi_objective.py and leaderboard.py
\* are functions of it).
THEOREM RankingInvariance == RankingSpec => []RankingInv
  <1>1. RankingInit => RankingInv
    BY DEF RankingInit, RankingInv
  <1>2. RankingInv /\ [RankingNext]_rankingVars => RankingInv'
    <2> SUFFICES ASSUME RankingInv, [RankingNext]_rankingVars PROVE RankingInv'
      OBVIOUS
    <2>1. CASE Record \/ UNCHANGED rankingVars
      BY <2>1 DEF RankingInv, Record, rankingVars
    <2>2. CASE RunAgain
      <3>1. PICK i \in DOMAIN candidates, outcome \in Outcomes :
                   candidates' = [candidates EXCEPT ![i] = outcome]
        BY <2>2 DEF RunAgain
      <3>2. i \in 1..Len(candidates)
        BY DEF RankingInv
      <3> QED BY <3>1, <3>2, ExceptSeq DEF RankingInv
    <2> QED BY <2>1, <2>2 DEF RankingNext
  <1> QED BY <1>1, <1>2, PTL DEF RankingSpec

\* For every set of records, with ties, opposite goals and missing values, and
\* rows that miss a metric kept on the front as the code keeps them (its docstring
\* says they are skipped): a row with the best value of a metric is on the front,
\* and what is off the front is dominated by a row on it
\* (multi_objective.py:86-283).
THEOREM FrontIsComplete == RankingSpec => []FrontHoldsTheBest
  <1>1. RankingInv => FrontHoldsTheBest
    BY FrontHasBest, DominatedFromFront DEF FrontHoldsTheBest
  <1> QED BY <1>1, RankingInvariance, PTL

\* The leaderboard's order is strict, and that of registration among the rows of
\* one median.
LEMMA BeforeIs ==
    ASSUME RankingInv, NEW i \in Ids, NEW j \in Ids, NEW k \in Ids
    PROVE  /\ ~Before(i, i)
           /\ Before(i, j) /\ Before(j, k) => Before(i, k)
           /\ Timed(i) /\ candidates[i].median = candidates[j].median =>
                (Before(i, j) <=> i < j)
  <1>1. i \in Nat /\ j \in Nat /\ k \in Nat
    BY RecordsAre
  <1>2. \A a \in {i, j, k} : Timed(a) => candidates[a].median \in Nat
    BY RecordsAre DEF Timed, RunRecord
  <1> QED BY <1>1, <1>2 DEF Before, Timed

\* So is the place a row has on it.
LEMMA PlacesAgree ==
    ASSUME RankingInv, NEW i \in Ids, NEW j \in Ids, Timed(i),
           candidates[i].median = candidates[j].median
    PROVE  Leaderboard[i] <= Leaderboard[j] <=> i <= j
  <1> DEFINE above(a) == {k \in Ids : Before(k, a)}
  <1>1. \A a \in Ids : /\ Leaderboard[a] = Cardinality(above(a)) /\ Leaderboard[a] \in Nat
                        /\ IsFiniteSet(above(a))
    <2> SUFFICES ASSUME NEW a \in Ids
                 PROVE  /\ Leaderboard[a] = Cardinality(above(a)) /\ Leaderboard[a] \in Nat
                        /\ IsFiniteSet(above(a))
      OBVIOUS
    <2>1. Leaderboard[a] = Cardinality(above(a))
      BY DEF Leaderboard
    <2>2. above(a) \in SUBSET Ids
      OBVIOUS
    <2> HIDE DEF above
    <2>3. IsFiniteSet(above(a)) /\ Cardinality(above(a)) \in Nat
      BY <2>2, RecordsAre, FS_Subset, FS_CardinalityType
    <2> QED BY <2>1, <2>3
  <1>2. ASSUME NEW a \in Ids, NEW b \in Ids, Before(a, b)
        PROVE  Leaderboard[a] < Leaderboard[b]
    <2>1. above(a) \in SUBSET above(b) /\ a \in above(b) /\ a \notin above(a)
      BY <1>2, BeforeIs
    <2> HIDE DEF above
    <2>2. /\ Cardinality(above(a)) <= Cardinality(above(b))
          /\ Cardinality(above(b)) # Cardinality(above(a))
      BY <1>1, <2>1, FS_Subset
    <2> QED BY <1>1, <2>2
  <1>3. i \in Nat /\ j \in Nat /\ Leaderboard[i] \in Nat /\ Leaderboard[j] \in Nat
    <2>1. i \in Nat /\ j \in Nat
      BY RecordsAre
    <2> HIDE DEF above
    <2> QED BY <1>1, <2>1
  <1>4. CASE i < j
    BY <1>2, <1>3, <1>4, BeforeIs
  <1>5. CASE j < i
    <2>1. Before(j, i)
      BY <1>5, BeforeIs DEF Timed
    <2> QED BY <1>2, <1>3, <1>5, <2>1
  <1>6. CASE i = j
    BY <1>3, <1>6
  <1> QED BY <1>3, <1>4, <1>5, <1>6

\* Of candidates that were timed, one is the fastest in any order.
LEMMA FastestIs ==
    ASSUME RankingInv, NEW S \in SUBSET Ids, S # {}, \A i \in S : Timed(i),
           NEW order, \A i \in S : order[i] \in Nat
    PROVE  /\ Fastest(S, order) \in S /\ Fastest(S, order) # Unmeasured
           /\ \A j \in S : candidates[Fastest(S, order)].median <= candidates[j].median
           /\ \A j \in S : candidates[Fastest(S, order)].median = candidates[j].median =>
                            order[Fastest(S, order)] <= order[j]
  <1> DEFINE Wins(i) ==
               \A j \in S : \/ candidates[i].median < candidates[j].median
                            \/ candidates[i].median = candidates[j].median /\ order[i] <= order[j]
             Behind == {p \in Ids \X Ids :
                          /\ p[1] \in S /\ p[2] \in S
                          /\ \/ candidates[p[1]].median < candidates[p[2]].median
                             \/ /\ candidates[p[1]].median = candidates[p[2]].median
                                /\ order[p[1]] < order[p[2]]}
  <1>1. \A i \in S : candidates[i].median \in Nat /\ i \in Ids /\ i \in Nat
    BY RecordsAre DEF Timed, RunRecord
  <1>2. \A i, j \in Ids : <<i, j>> \in Behind <=>
          /\ i \in S /\ j \in S
          /\ \/ candidates[i].median < candidates[j].median
             \/ candidates[i].median = candidates[j].median /\ order[i] < order[j]
    OBVIOUS
  <1> HIDE DEF Behind
  <1>3. /\ \A i \in Ids : <<i, i>> \notin Behind
        /\ \A i, j, k \in Ids :
             <<i, j>> \in Behind /\ <<j, k>> \in Behind => <<i, k>> \in Behind
    BY <1>1, <1>2
  <1>4. PICK w \in S : \A j \in S : <<j, w>> \notin Behind
    BY <1>3, MaximalRow
  <1>5. Wins(w)
    <2> SUFFICES ASSUME NEW j \in S
                 PROVE  \/ candidates[w].median < candidates[j].median
                        \/ candidates[w].median = candidates[j].median /\ order[w] <= order[j]
      OBVIOUS
    <2>1. /\ ~(candidates[j].median < candidates[w].median)
          /\ ~(candidates[j].median = candidates[w].median /\ order[j] < order[w])
      BY <1>1, <1>2, <1>4
    <2>2. /\ candidates[w].median \in Nat /\ candidates[j].median \in Nat
          /\ order[w] \in Nat /\ order[j] \in Nat
      BY <1>1
    <2> QED BY <2>1, <2>2
  <1>6. Fastest(S, order) = CHOOSE i \in S : Wins(i)
    BY DEF Fastest
  <1>7. Fastest(S, order) \in S /\ Wins(Fastest(S, order))
    <2> HIDE DEF Wins
    <2> QED BY <1>5, <1>6
  <1>8. Fastest(S, order) # Unmeasured
    BY <1>1, <1>7, RankingAssumption
  <1> QED BY <1>1, <1>7, <1>8

\* In the order of registration it is the one that no other is before.
LEMMA FirstFastest ==
    ASSUME RankingInv, NEW S \in SUBSET Ids, \A i \in S : Timed(i), NEW w \in S,
           \A j \in S : \/ candidates[w].median < candidates[j].median
                        \/ candidates[w].median = candidates[j].median /\ w <= j
    PROVE  Fastest(S, InOrderOfRegistration) = w
  <1> DEFINE Wins(i) ==
               \A j \in S : \/ candidates[i].median < candidates[j].median
                            \/ /\ candidates[i].median = candidates[j].median
                               /\ InOrderOfRegistration[i] <= InOrderOfRegistration[j]
  <1>1. \A i \in S : candidates[i].median \in Nat /\ i \in Ids /\ i \in Nat
    BY RecordsAre DEF Timed, RunRecord
  <1>2. \A i \in S : InOrderOfRegistration[i] = i
    BY DEF InOrderOfRegistration
  <1>3. Wins(w) /\ \A i \in S : Wins(i) => i = w
    BY <1>1, <1>2
  <1>4. Fastest(S, InOrderOfRegistration) = CHOOSE i \in S : Wins(i)
    BY DEF Fastest
  <1> HIDE DEF Wins
  <1> QED BY <1>3, <1>4

\* The leaderboard's places are natural numbers, and at its first nobody is before.
LEMMA LeaderboardIs ==
    ASSUME RankingInv
    PROVE  /\ \A i \in Ids : Leaderboard[i] \in Nat
           /\ Ids # {} => ListedBest \in Ids /\ \A j \in Ids : ~Before(j, ListedBest)
  <1> DEFINE above(a) == {k \in Ids : Before(k, a)}
  <1>1. \A a \in Ids : Leaderboard[a] \in Nat /\ (Leaderboard[a] = 0 <=> above(a) = {})
    <2> SUFFICES ASSUME NEW a \in Ids
                 PROVE  Leaderboard[a] \in Nat /\ (Leaderboard[a] = 0 <=> above(a) = {})
      OBVIOUS
    <2>1. Leaderboard[a] = Cardinality(above(a))
      BY DEF Leaderboard
    <2>2. above(a) \in SUBSET Ids
      OBVIOUS
    <2> HIDE DEF above
    <2>3. IsFiniteSet(above(a)) /\ Cardinality(above(a)) \in Nat
      BY <2>2, RecordsAre, FS_Subset, FS_CardinalityType
    <2>4. Cardinality(above(a)) = 0 <=> above(a) = {}
      BY <2>3, FS_EmptySet
    <2> QED BY <2>1, <2>3, <2>4
  <1>2. ASSUME Ids # {}
        PROVE  ListedBest \in Ids /\ \A j \in Ids : ~Before(j, ListedBest)
    <2> DEFINE Behind == {p \in Ids \X Ids : Before(p[1], p[2])}
    <2>1. \A i, j \in Ids : <<i, j>> \in Behind <=> Before(i, j)
      OBVIOUS
    <2> HIDE DEF Behind
    <2>2. /\ \A i \in Ids : <<i, i>> \notin Behind
          /\ \A i, j, k \in Ids :
               <<i, j>> \in Behind /\ <<j, k>> \in Behind => <<i, k>> \in Behind
      BY <2>1, BeforeIs
    <2>3. PICK w \in Ids : \A j \in Ids : <<j, w>> \notin Behind
      BY <1>2, <2>2, MaximalRow
    <2>4. above(w) = {}
      BY <2>1, <2>3
    <2> HIDE DEF above
    <2>5. ListedBest \in Ids /\ Leaderboard[ListedBest] = 0
      BY <1>1, <1>2, <2>4 DEF ListedBest
    <2>6. above(ListedBest) = {}
      BY <1>1, <2>5
    <2> USE DEF above
    <2> QED BY <2>5, <2>6
  <1> HIDE DEF above
  <1>3. \A i \in Ids : Leaderboard[i] \in Nat
    BY <1>1
  <1> QED BY ONLY <1>2, <1>3

\* One candidate is the fastest, whichever of the two orders breaks the ties.
LEMMA OneFastest ==
    ASSUME RankingInv, NEW S \in SUBSET Ids, \A i \in S : Timed(i)
    PROVE  /\ Fastest(S, Leaderboard) = Fastest(S, InOrderOfRegistration)
           /\ Fastest(S, InOrderOfRegistration) # Unmeasured =>
                Fastest(S, InOrderOfRegistration) \in S
  <1> DEFINE Wins(i, order) ==
               \A j \in S : \/ candidates[i].median < candidates[j].median
                            \/ candidates[i].median = candidates[j].median /\ order[i] <= order[j]
             Behind == {p \in Ids \X Ids : Before(p[1], p[2])}
  <1>1. CASE S = {}
    BY <1>1 DEF Fastest
  <1>2. CASE S # {}
    <2>1. \A i, j \in Ids : <<i, j>> \in Behind <=> Before(i, j)
      OBVIOUS
    <2> HIDE DEF Behind
    <2>2. /\ \A i \in Ids : <<i, i>> \notin Behind
          /\ \A i, j, k \in Ids :
               <<i, j>> \in Behind /\ <<j, k>> \in Behind => <<i, k>> \in Behind
      BY <2>1, BeforeIs
    <2>3. PICK w \in S : \A j \in S : <<j, w>> \notin Behind
      BY <1>2, <2>2, MaximalRow
    <2>4. \A i \in S : candidates[i].median \in Nat /\ i \in Ids /\ i \in Nat
      BY RecordsAre DEF Timed, RunRecord
    <2>5. \A j \in S : ~Before(j, w)
      BY <2>1, <2>3
    <2>6. \A i \in S : InOrderOfRegistration[i] = i
      BY DEF InOrderOfRegistration
    <2>7. Wins(w, InOrderOfRegistration)
      <3> SUFFICES ASSUME NEW j \in S, ~(candidates[w].median < candidates[j].median)
                   PROVE  candidates[w].median = candidates[j].median /\ w <= j
        BY <2>6
      <3>1. ~Before(j, w) /\ Timed(j) /\ Timed(w)
        BY <2>5
      <3> QED BY <2>4, <3>1 DEF Before
    <2>8. \A i \in S : Wins(i, InOrderOfRegistration) => i = w
      <3> SUFFICES ASSUME NEW i \in S, Wins(i, InOrderOfRegistration) PROVE i = w
        OBVIOUS
      <3>1. /\ \/ candidates[i].median < candidates[w].median
               \/ candidates[i].median = candidates[w].median /\ i <= w
            /\ \/ candidates[w].median < candidates[i].median
               \/ candidates[w].median = candidates[i].median /\ w <= i
        BY <2>6, <2>7
      <3> QED BY <2>4, <3>1
    <2>9. ASSUME NEW i \in S
          PROVE  Wins(i, Leaderboard) <=> Wins(i, InOrderOfRegistration)
      <3>1. ASSUME NEW j \in S, candidates[i].median = candidates[j].median
            PROVE  Leaderboard[i] <= Leaderboard[j] <=>
                     InOrderOfRegistration[i] <= InOrderOfRegistration[j]
        BY <2>4, <2>6, <3>1, PlacesAgree
      <3> QED BY <3>1
    <2>10. \A order : Fastest(S, order) = CHOOSE i \in S : Wins(i, order)
      BY <1>2 DEF Fastest
    <2> HIDE DEF Wins
    <2>11. Fastest(S, InOrderOfRegistration) = w
      BY <2>7, <2>8, <2>10
    <2>12. Fastest(S, Leaderboard) = w
      BY <2>7, <2>8, <2>9, <2>10
    <2> QED BY <2>11, <2>12
  <1> QED BY <1>1, <1>2

\* The sizes of two sets of candidates without a common one add up.
LEMMA SizesAdd ==
    ASSUME RankingInv, NEW S \in SUBSET Ids, NEW T \in SUBSET Ids, S \cap T = {}
    PROVE  Cardinality(S \cup T) = Cardinality(S) + Cardinality(T)
  <1>1. IsFiniteSet(S) /\ IsFiniteSet(T) /\ Cardinality(S) \in Nat /\ Cardinality(T) \in Nat
    BY RecordsAre, FS_Subset, FS_CardinalityType
  <1>2. Cardinality(S \cup T) = Cardinality(S) + Cardinality(T) - Cardinality(S \cap T)
    BY <1>1, FS_Union
  <1>3. Cardinality(S \cap T) = 0
    BY FS_EmptySet
  <1> QED BY <1>1, <1>2, <1>3

\* The ledger counts each run once.
LEMMA RunsAreCounted ==
    ASSUME RankingInv
    PROVE  Cardinality(GatePassing) + Cardinality(GateFailing) + Cardinality(CompileFailed)
             = Cardinality(TimedEvals) + Cardinality(ValidationOnly)
  <1> DEFINE Both == GatePassing \cup GateFailing
  <1>1. /\ GatePassing \in SUBSET Ids /\ GateFailing \in SUBSET Ids
        /\ CompileFailed \in SUBSET Ids /\ TimedEvals \in SUBSET Ids
        /\ ValidationOnly \in SUBSET Ids
    BY DEF GatePassing, GateFailing, CompileFailed, TimedEvals, ValidationOnly, Ran
  <1>2. Cardinality(Both) = Cardinality(GatePassing) + Cardinality(GateFailing)
    <2>1. GatePassing \cap GateFailing = {}
      BY DEF GatePassing
    <2> QED BY <1>1, <2>1, SizesAdd
  <1>3. Cardinality(Ran) = Cardinality(TimedEvals) + Cardinality(ValidationOnly)
    <2>1. TimedEvals \cap ValidationOnly = {} /\ TimedEvals \cup ValidationOnly = Ran
      BY DEF TimedEvals, ValidationOnly
    <2> QED BY <1>1, <2>1, SizesAdd
  <1>4. Cardinality(Ran) = Cardinality(Both) + Cardinality(CompileFailed)
    <2>1. Both \cap CompileFailed = {} /\ Both \in SUBSET Ids
      BY <1>1 DEF GatePassing, GateFailing, CompileFailed
    <2>2. Both \cup CompileFailed = Ran
      BY RecordsAre DEF GatePassing, GateFailing, CompileFailed, Ran, RunRecord
    <2> HIDE DEF Both
    <2> QED BY <1>1, <2>1, <2>2, SizesAdd
  <1> HIDE DEF Both
  <1> QED BY <1>2, <1>3, <1>4

\* The candidates that may win.
Winning == {i \in Ids : Faster(i) /\ NotWrong(i)}

\* They were timed, so they compiled; the winner is the first of the fastest.
LEMMA WinningAre ==
    ASSUME RankingInv
    PROVE  /\ Winning \in SUBSET Ids /\ \A i \in Winning : Timed(i)
           /\ Winning \subseteq TimedEvals \cap GatePassing
           /\ SelectBest = BestRow /\ BestRow = Fastest(Winning, InOrderOfRegistration)
           /\ (BestRow # Unmeasured <=> Winning # {})
           /\ Winning # {} => BestRow \in Winning
           /\ \A S \in SUBSET Ids : \A order :
                BatchBest(S, order) = Fastest(S \cap Winning, order)
  <1>1. \A i \in Ids : Timed(i) => candidates[i].compile = "ok" /\ candidates[i].gates # "bad"
    BY RecordsAre DEF Timed, RunRecord
  <1>2. Winning \in SUBSET Ids /\ \A i \in Winning : Timed(i)
    BY DEF Winning, Faster, HasSpeedup
  <1>3. Winning \subseteq TimedEvals \cap GatePassing
    BY <1>1, <1>2 DEF TimedEvals, Ran, GatePassing, GateFailing
  <1>4. /\ BestRow = Fastest(Winning, InOrderOfRegistration)
        /\ SelectBest = Fastest(Winning, Leaderboard)
    BY DEF Winning, SelectBest, BestRow
  <1>5. \A i \in Ids : i \in Nat /\ InOrderOfRegistration[i] = i
    BY RecordsAre DEF InOrderOfRegistration
  <1>6. SelectBest = BestRow
    BY <1>2, <1>4, OneFastest
  <1>7. Winning # {} => BestRow \in Winning /\ BestRow # Unmeasured
    BY <1>2, <1>4, <1>5, FastestIs
  <1>8. Winning = {} => BestRow = Unmeasured
    BY <1>4 DEF Fastest
  <1>9. ASSUME NEW S \in SUBSET Ids, NEW order
        PROVE  BatchBest(S, order) = Fastest(S \cap Winning, order)
    <2>1. {i \in S : candidates[i].compile = "ok" /\ Faster(i) /\ NotWrong(i)} = S \cap Winning
      BY <1>1, <1>2 DEF Winning
    <2> QED BY <2>1 DEF BatchBest
  <1> QED BY <1>2, <1>3, <1>4, <1>6, <1>7, <1>8, <1>9

\* Medians and places are numbers.
LEMMA MediansAre ==
    ASSUME RankingInv
    PROVE  /\ Baseline \in Nat
           /\ \A i \in Ids : i \in Nat /\ (Timed(i) => candidates[i].median \in Nat)
  BY RecordsAre, RankingAssumption DEF Timed, RunRecord

\* The run loop's number: slower candidates do not hide a winner.
LEMMA LoopKnows ==
    ASSUME RankingInv
    PROVE  LoopKnowsWinner
  <1> DEFINE able == {i \in Ids : HasSpeedup(i) /\ NotWrong(i)}
  <1>1. /\ able \in SUBSET Ids /\ \A i \in able : Timed(i)
        /\ \A i \in able : i \in Winning <=> candidates[i].median < Baseline
        /\ Winning \subseteq able
    BY DEF HasSpeedup, Winning, Faster
  <1>2. BestSoFar = Fastest(able, InOrderOfRegistration)
    BY DEF BestSoFar
  <1>3. \A i \in able : Faster(i) => i \in Winning
    BY DEF Winning
  <1> HIDE DEF able
  <1>4. CASE BestRow # Unmeasured
    <2>1. BestRow \in Winning /\ BestRow \in able
      BY <1>1, <1>4, WinningAre
    <2>2. ASSUME NEW j \in Winning
          PROVE  \/ candidates[BestRow].median < candidates[j].median
                 \/ candidates[BestRow].median = candidates[j].median /\ BestRow <= j
      <3>1. \A i \in Winning : InOrderOfRegistration[i] = i /\ i \in Nat
        BY WinningAre, MediansAre DEF InOrderOfRegistration
      <3>2. /\ candidates[BestRow].median <= candidates[j].median
            /\ candidates[BestRow].median = candidates[j].median =>
                 InOrderOfRegistration[BestRow] <= InOrderOfRegistration[j]
        BY <3>1, WinningAre, FastestIs
      <3>3. candidates[BestRow].median \in Nat /\ candidates[j].median \in Nat
        BY <2>1, WinningAre, MediansAre
      <3> QED BY <2>1, <3>1, <3>2, <3>3
    <2>3. ASSUME NEW j \in able, j \notin Winning
          PROVE  candidates[BestRow].median < candidates[j].median
      BY <1>1, <2>1, <2>3, MediansAre
    <2>4. BestSoFar = BestRow
      BY <1>1, <1>2, <2>1, <2>2, <2>3, FirstFastest
    <2> QED BY <1>4, <2>4 DEF LoopKnowsWinner
  <1>5. CASE BestRow = Unmeasured
    <2>1. SUFFICES ASSUME BestSoFar # Unmeasured PROVE ~Faster(BestSoFar)
      BY <1>5 DEF LoopKnowsWinner
    <2>2. able # {}
      BY <1>2, <2>1 DEF Fastest
    <2>3. \A i \in able : InOrderOfRegistration[i] \in Nat
      BY <1>1, MediansAre DEF InOrderOfRegistration
    <2>4. BestSoFar \in able
      BY <1>1, <1>2, <2>2, <2>3, FastestIs
    <2> QED BY <1>3, <1>5, <2>4, WinningAre
  <1> QED BY <1>4, <1>5

\* The winner is the fastest of those that may win.
LEMMA WinnerIsFastest ==
    ASSUME RankingInv, Winning # {}
    PROVE  BestRow \in Winning /\ \A j \in Winning : candidates[BestRow].median <= candidates[j].median
  <1>1. \A i \in Winning : InOrderOfRegistration[i] \in Nat
    BY WinningAre, MediansAre DEF InOrderOfRegistration
  <1> QED BY <1>1, WinningAre, FastestIs

\* A batch's best is among its own that may win.
LEMMA BatchesKnow ==
    ASSUME RankingInv
    PROVE  BatchesKnowWinner
  <1> SUFFICES ASSUME NEW S \in SUBSET Ids, NEW order \in Orders(S)
               PROVE  LET best == BatchBest(S, order) IN
                      /\ best # Unmeasured =>
                           /\ best \in S /\ BestRow # Unmeasured
                           /\ candidates[BestRow].median <= candidates[best].median
                      /\ BestRow \in S => /\ best # Unmeasured
                                          /\ candidates[best].median = candidates[BestRow].median
    BY DEF BatchesKnowWinner
  <1> DEFINE best == BatchBest(S, order)
             mine == S \cap Winning
  <1>1. best = Fastest(mine, order) /\ mine \in SUBSET Ids /\ \A i \in mine : Timed(i)
    BY WinningAre
  <1>2. \A i \in mine : order[i] \in Nat
    <2>1. Cardinality(S) \in Nat
      BY RecordsAre, FS_Subset, FS_CardinalityType
    <2> QED BY <2>1 DEF Orders
  <1>3. BestRow \in S => BestRow \in mine
    <2> SUFFICES ASSUME BestRow \in S PROVE BestRow \in Winning
      OBVIOUS
    <2>1. BestRow # Unmeasured
      BY MediansAre, RankingAssumption
    <2> QED BY <2>1, WinningAre
  <1>4. mine = {} => best = Unmeasured
    BY <1>1 DEF Fastest
  <1> HIDE DEF best, mine
  <1>5. mine # {} => /\ best \in mine /\ best # Unmeasured
                     /\ \A j \in mine : candidates[best].median <= candidates[j].median
    BY <1>1, <1>2, FastestIs
  <1>6. mine \subseteq S /\ mine \subseteq Winning
    BY DEF mine
  <1>7. /\ best # Unmeasured =>
             /\ best \in S /\ BestRow # Unmeasured
             /\ candidates[BestRow].median <= candidates[best].median
        /\ BestRow \in S => best # Unmeasured /\ candidates[best].median = candidates[BestRow].median
    BY <1>3, <1>4, <1>5, <1>6, WinnerIsFastest, WinningAre, MediansAre
  <1> QED BY <1>7 DEF best

\* The run list's first candidate is no slower than the winner.
LEMMA ListKnows ==
    ASSUME RankingInv
    PROVE  ListKnowsWinner
  <1> SUFFICES ASSUME BestRow # Unmeasured
               PROVE  /\ Timed(ListedBest)
                      /\ candidates[ListedBest].median <= candidates[BestRow].median
                      /\ HasSpeedup(ListedBest) /\ NotWrong(ListedBest) => ListedBest = BestRow
    BY DEF ListKnowsWinner
  <1>1. BestRow \in Winning /\ BestRow \in Ids /\ Timed(BestRow)
    BY WinningAre
  <1>2. ListedBest \in Ids /\ \A j \in Ids : ~Before(j, ListedBest)
    BY <1>1, LeaderboardIs
  <1>3. Timed(ListedBest) /\ candidates[ListedBest].median <= candidates[BestRow].median
    BY <1>1, <1>2, MediansAre DEF Before
  <1>4. ASSUME HasSpeedup(ListedBest), NotWrong(ListedBest)
        PROVE  ListedBest = BestRow
    <2>1. candidates[BestRow].median < Baseline
      BY <1>1 DEF Winning, Faster
    <2>2. candidates[ListedBest].median < Baseline
      BY <1>1, <1>2, <1>3, <2>1, MediansAre
    <2>3. ListedBest \in Winning
      BY <1>2, <1>4, <2>2 DEF Winning, Faster
    <2>4. ASSUME NEW j \in Winning
          PROVE  \/ candidates[ListedBest].median < candidates[j].median
                 \/ candidates[ListedBest].median = candidates[j].median /\ ListedBest <= j
      <3>1. Timed(j) /\ j \in Ids /\ ~Before(j, ListedBest)
        BY <1>2, WinningAre
      <3> QED BY <1>2, <1>3, <3>1, MediansAre DEF Before
    <2> QED BY <2>3, <2>4, WinningAre, FirstFastest
  <1> QED BY <1>3, <1>4

\* For every set of records and any runs over again: the Python API and the grid
\* driver name one winner, a timed evaluation that no gate refused; the run
\* loop's snapshot, every batch and the UI's run list agree with it as far as
\* their tests do; and the counts account for each run once (session.py:827-855
\* and 1166-1184, leaderboard.py:71-97, api.py:98-119, run_pilot.py:123-158,
\* app.py:158-172).
THEOREM WinnersAlwaysAgree == RankingSpec => []WinnersAgree
  <1>1. RankingInv => WinnersAgree
    <2> SUFFICES ASSUME RankingInv PROVE WinnersAgree
      OBVIOUS
    <2>1. OneWinner
      BY WinningAre DEF OneWinner
    <2> QED BY <2>1, LoopKnows, BatchesKnow, ListKnows, RunsAreCounted DEF WinnersAgree, RunsCounted
  <1> QED BY <1>1, RankingInvariance, PTL

=============================================================================
