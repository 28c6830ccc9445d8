---------------------------- MODULE SkillMemory ----------------------------
(***************************************************************************)
(* The rules file of the skill memory (skill_memory.py): worker processes  *)
(* that consult it when a session starts and rewrite it after every failed *)
(* candidate, through one temporary name and without a lock.               *)
(*                                                                         *)
(* _save_rules truncates <rules>.json.tmp, writes it and renames it.  The  *)
(* rename moves whatever file then has the temporary name, so another      *)
(* worker may still be writing into the file that has become the rules     *)
(* file; an open file therefore belongs to a place, not to a name.         *)
(*                                                                         *)
(* A lesson is the id _distill gives to a failure, and a text of the file  *)
(* is the frequency of every lesson.  Every text starts with the seed      *)
(* rules, at frequency 1.                                                  *)
(***************************************************************************)
EXTENDS Integers, FiniteSets, Functions

CONSTANTS
    Savers,       \* worker processes that share the workspace
    Lessons,      \* ids of distilled rules
    Seeds,        \* number of seed rules
    MinFrequency, \* min_frequency
    MaxRules,     \* max_rules
    MaxFailures,  \* failures observed in a behaviour: a bound
    MaxFaults,    \* kills and failing writes in a behaviour: a bound
    Absent, Torn  \* no file, and a file that json.loads refuses

Consult == "consult"

ASSUME SkillConstants ==
    /\ IsFiniteSet(Savers) /\ Consult \notin Lessons
    /\ Seeds \in Nat /\ MinFrequency \in Nat \ {0} /\ MaxRules \in Nat
    /\ MaxFailures \in Nat /\ MaxFaults \in Nat
    /\ Absent # Torn /\ \A f \in {Absent, Torn} : f \notin [Lessons -> Nat]

VARIABLES
    rulesFile,  \* content of the rules file
    tmpFile,    \* content of the file that has the temporary name
    step,       \* where each worker is
    task,       \* "consult", or the lesson it observes
    held,       \* the rules each worker has in memory
    seeding,    \* its save is the one of _load_rules
    place,      \* where its open file now is: "tmp", "rules" or "gone"
    hints,      \* what the last consult injected
    observed,   \* failures observed per lesson
    banked,     \* observations whose save ended with its rename
    overlapped, \* two workers have used the files at once
    faults

skillVars == <<rulesFile, tmpFile, step, task, held, seeding, place, hints,
               observed, banked, overlapped, faults>>

Text == [Lessons -> 0..MaxFailures]
Fresh == [l \in Lessons |-> 0]
Listed(text) == {l \in Lessons : text[l] > 0}

SkillInit ==
    /\ rulesFile = Absent /\ tmpFile = Absent
    /\ step = [w \in Savers |-> "idle"]
    /\ task = [w \in Savers |-> Consult]
    /\ held = [w \in Savers |-> Fresh]
    /\ seeding = [w \in Savers |-> FALSE]
    /\ place = [w \in Savers |-> "gone"]
    /\ hints = [w \in Savers |-> [lessons |-> {}, seeds |-> Seeds]]
    /\ observed = Fresh /\ banked = Fresh
    /\ overlapped = FALSE /\ faults = 0

-----------------------------------------------------------------------------
(* consult and observe. *)

\* A session starts and consults, or run_candidate has observed a failure whose
\* distilled id is not None.
Start(w, t) ==
    /\ step[w] = "idle"
    /\ t # Consult => SumFunction(observed) < MaxFailures
    /\ step' = [step EXCEPT ![w] = "load"]
    /\ task' = [task EXCEPT ![w] = t]
    /\ observed' = IF t = Consult THEN observed ELSE [observed EXCEPT ![t] = @ + 1]
    /\ overlapped' = (overlapped \/ \E v \in Savers \ {w} : step[v] # "idle")
    /\ UNCHANGED <<rulesFile, tmpFile, held, seeding, place, hints, banked, faults>>

\* _load_rules: an absent file, or one that does not parse, is replaced by a
\* fresh one that has the seeds only.
LoadRules(w) ==
    /\ step[w] = "load"
    /\ IF rulesFile \in {Absent, Torn}
       THEN /\ held' = [held EXCEPT ![w] = Fresh]
            /\ seeding' = [seeding EXCEPT ![w] = TRUE]
            /\ step' = [step EXCEPT ![w] = "open"]
       ELSE /\ held' = [held EXCEPT ![w] = rulesFile]
            /\ step' = [step EXCEPT ![w] = "use"]
            /\ UNCHANGED seeding
    /\ UNCHANGED <<rulesFile, tmpFile, task, place, hints, observed, banked,
                   overlapped, faults>>

\* Mutant: distilled rules are injected from their first observation on.
EligibleAtOnce(text) == Listed(text)

\* Distilled rules that have recurred.
Eligible(text) == {l \in Lessons : text[l] >= MinFrequency}

\* The most frequent first, and no more than max_rules; a seed, at frequency 1,
\* comes after every eligible lesson.
Injections(text) ==
    LET lessons == {S \in SUBSET Eligible(text) :
                      /\ Cardinality(S) <= MaxRules
                      /\ S = Eligible(text) \/ Cardinality(S) = MaxRules
                      /\ \A l \in S, k \in Eligible(text) \ S : text[l] >= text[k]}
        room(S) == MaxRules - Cardinality(S)
    IN {[lessons |-> S, seeds |-> IF room(S) < Seeds THEN room(S) ELSE Seeds] : S \in lessons}

Inject(w) ==
    /\ step[w] = "use" /\ task[w] = Consult
    /\ \E h \in Injections(held[w]) : hints' = [hints EXCEPT ![w] = h]
    /\ step' = [step EXCEPT ![w] = "idle"]
    /\ held' = [held EXCEPT ![w] = Fresh]
    /\ UNCHANGED <<rulesFile, tmpFile, task, seeding, place, observed, banked,
                   overlapped, faults>>

\* observe: one more of a known lesson, or a new rule at frequency 1.
Distill(w) ==
    /\ step[w] = "use" /\ task[w] # Consult
    /\ held' = [held EXCEPT ![w][task[w]] = @ + 1]
    /\ step' = [step EXCEPT ![w] = "open"]
    /\ UNCHANGED <<rulesFile, tmpFile, task, seeding, place, hints, observed, banked,
                   overlapped, faults>>

-----------------------------------------------------------------------------
(* _save_rules. *)

\* Mutant: the rules file itself is opened for writing.
OpenRulesFile(w) ==
    /\ step[w] = "open"
    /\ rulesFile' = Torn
    /\ place' = [place EXCEPT ![w] = "rules"]
    /\ step' = [step EXCEPT ![w] = "write"]
    /\ UNCHANGED <<tmpFile, task, held, seeding, hints, observed, banked, overlapped, faults>>

\* open(tmp, "w"): created, or truncated whoever is using it.
OpenTmp(w) ==
    /\ step[w] = "open"
    /\ tmpFile' = Torn
    /\ place' = [place EXCEPT ![w] = "tmp"]
    /\ step' = [step EXCEPT ![w] = "write"]
    /\ UNCHANGED <<rulesFile, task, held, seeding, hints, observed, banked, overlapped,
                   faults>>

\* What is in the file once a text has been written from its start over another:
\* the tail of a longer one stays and does not parse.  (Two texts with the same
\* rules still differ in the workload ids and digits they hold.)
Overwrites(old, text) ==
    IF old \in {Absent, Torn} THEN {text}
    ELSE IF Listed(old) = Listed(text) THEN {text, Torn}
    ELSE (IF Listed(text) \subseteq Listed(old) THEN {} ELSE {text})
         \cup (IF Listed(old) \subseteq Listed(text) THEN {} ELSE {Torn})

WriteText(w) ==
    /\ step[w] = "write"
    /\ IF place[w] = "gone" THEN UNCHANGED <<rulesFile, tmpFile>>
       ELSE IF place[w] = "tmp"
       THEN \E c \in Overwrites(tmpFile, held[w]) : tmpFile' = c /\ UNCHANGED rulesFile
       ELSE \E c \in Overwrites(rulesFile, held[w]) : rulesFile' = c /\ UNCHANGED tmpFile
    /\ step' = [step EXCEPT ![w] = "rename"]
    /\ UNCHANGED <<task, held, seeding, place, hints, observed, banked, overlapped, faults>>

\* _save_rules has returned, to _load_rules or to observe.
Saved(w) ==
    /\ step' = [step EXCEPT ![w] = IF seeding[w] THEN "use" ELSE "idle"]
    /\ seeding' = [seeding EXCEPT ![w] = FALSE]
    /\ held' = IF seeding[w] THEN held ELSE [held EXCEPT ![w] = Fresh]

Moved(p) == IF p = "tmp" THEN "rules" ELSE "gone"

\* tmp.replace(path): the files the others have open move along.
Rename(w) ==
    /\ step[w] = "rename" /\ tmpFile # Absent
    /\ rulesFile' = tmpFile /\ tmpFile' = Absent
    /\ place' = [v \in Savers |-> IF v = w THEN "gone" ELSE Moved(place[v])]
    /\ banked' = IF seeding[w] THEN banked ELSE [banked EXCEPT ![task[w]] = @ + 1]
    /\ Saved(w)
    /\ UNCHANGED <<task, hints, observed, overlapped, faults>>

\* Another worker has renamed the file away: FileNotFoundError, swallowed.
RenameMisses(w) ==
    /\ step[w] = "rename" /\ tmpFile = Absent
    /\ Saved(w)
    /\ place' = [place EXCEPT ![w] = "gone"]
    /\ UNCHANGED <<rulesFile, tmpFile, task, hints, observed, banked, overlapped, faults>>

\* A full disk: the temporary file stays as it is, the OSError is swallowed.
SaveFails(w) ==
    /\ step[w] \in {"open", "write"} /\ faults < MaxFaults
    /\ faults' = faults + 1
    /\ Saved(w)
    /\ place' = [place EXCEPT ![w] = "gone"]
    /\ UNCHANGED <<rulesFile, tmpFile, task, hints, observed, banked, overlapped>>

\* A worker is killed and another one takes its place.
KillSaver(w) ==
    /\ step[w] # "idle" /\ faults < MaxFaults
    /\ faults' = faults + 1
    /\ step' = [step EXCEPT ![w] = "idle"]
    /\ seeding' = [seeding EXCEPT ![w] = FALSE]
    /\ held' = [held EXCEPT ![w] = Fresh]
    /\ place' = [place EXCEPT ![w] = "gone"]
    /\ UNCHANGED <<rulesFile, tmpFile, task, hints, observed, banked, overlapped>>

SkillNext ==
    \E w \in Savers :
        \/ \E t \in Lessons \cup {Consult} : Start(w, t)
        \/ LoadRules(w) \/ Inject(w) \/ Distill(w)
        \/ OpenTmp(w) \/ WriteText(w)
        \/ Rename(w) \/ RenameMisses(w)
        \/ SaveFails(w) \/ KillSaver(w)

SkillSpec == SkillInit /\ [][SkillNext]_skillVars
-----------------------------------------------------------------------------
(* Properties. *)

\* Whatever is torn, lost or raced, a distilled rule takes prompt space only
\* after its failure has really recurred (skill_memory.py:10-13, 268-273).
LessonsEarned ==
    \A w \in Savers : \A l \in hints[w].lessons : observed[l] >= MinFrequency

\* As long as no two workers have used the files at once, kills and full disks
\* neither tear the rules file nor take a saved lesson from it
\* (skill_memory.py:17-18: "a crashed run still keeps its lessons").
CrashesKeepLessons ==
    ~overlapped /\ rulesFile # Absent => rulesFile = banked
=============================================================================
