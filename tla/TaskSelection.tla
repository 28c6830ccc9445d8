---------------------------- MODULE TaskSelection ----------------------------
(***************************************************************************)
(* kernelbench_select: which tasks of a level become workloads.  A static  *)
(* screen, then a probe of every remaining reference in chunks, each in a  *)
(* subprocess on a leased device; the probes are cached in a file that the *)
(* next invocation reads, so the slow part is not repeated.  Then a        *)
(* contamination test and a round robin over the op families.  Tasks are   *)
(* numbered by their KernelBench index.                                    *)
(***************************************************************************)
EXTENDS ShapeTemplate

CONSTANTS
    Tasks,          \* the indices of the level's task files
    Level,          \* 1 or 2
    MarksOf,        \* the kinds of operation each task's name mentions
    SourceOf,       \* the source of each, as ShapeTemplate reads it
    StatsOf,        \* what a probe of its reference measures: absMax, std and
                    \* impact in hundredths, identity
    Convolutions,   \* tasks with conv in the name or the source
    Materializing,  \* tasks that build diag, tril or triu
    Quota,          \* --per-level
    ChunkSize,
    MaxRuns,        \* bound: invocations of the script
    TornCache       \* a cache file that does not parse

ASSUME SelectionAssumption ==
    /\ Tasks \subseteq Nat /\ IsFiniteSet(Tasks)
    /\ Level \in {1, 2} /\ Convolutions \subseteq Tasks /\ Materializing \subseteq Tasks
    /\ DOMAIN MarksOf = Tasks /\ DOMAIN SourceOf = Tasks /\ DOMAIN StatsOf = Tasks
    /\ Quota \in Nat /\ ChunkSize \in Nat \ {0} /\ MaxRuns \in Nat

VARIABLES
    stage,      \* idle, probing, saving, selecting, writing
    runs,       \* invocations so far
    cache,      \* the probe cache file
    probes,     \* the probes of this invocation
    chunks,     \* the chunks still to be probed
    round,      \* the rank and the family the round robin is at
    chosen,     \* the tasks it has chosen
    manifest    \* the manifest file: none, or what it lists and from what

selectionVars == <<stage, runs, cache, probes, chunks, round, chosen, manifest>>

NoManifest == [selected |-> {}, spare |-> {}, excluded |-> {}, from |-> << >>]

SelectionInit ==
    /\ stage = "idle"
    /\ runs = 0
    /\ cache = << >>
    /\ probes = << >>
    /\ chunks = << >>
    /\ round = [rank |-> 1, at |-> 1]
    /\ chosen = {}
    /\ manifest = NoManifest

\* The families of the level in order of precedence, and the one of the rest.
Precedence ==
    IF Level = 1
    THEN <<"attention", "loss", "scan", "pooling", "reduction", "norm", "matmul">>
    ELSE <<"norm", "reduction", "pool", "activation">>

Plain == IF Level = 1 THEN "activation" ELSE "pointwise"

\* op_family: the first family that the name mentions.
FamilyOf ==
    [t \in Tasks |->
        LET mentioned == {i \in DOMAIN Precedence : Precedence[i] \in MarksOf[t]}
        IN  IF mentioned = {} THEN Plain
            ELSE Precedence[CHOOSE i \in mentioned : \A j \in mentioned : i <= j]]

\* The families in alphabetical order.
FamilyNames ==
    IF Level = 1
    THEN <<"activation", "attention", "loss", "matmul", "norm", "pooling", "reduction", "scan">>
    ELSE <<"activation", "norm", "pointwise", "pool", "reduction">>

\* The static screen: the tasks that are parsed, and those that are probed.
Static == Tasks \ (Convolutions \cup Materializing)

Unscreened == {t \in Static : Verdict(SourceOf[t]) = "parsed"}

\* contamination_reasons
Reasons(stats) ==
    {r \in {"inside", "flat", "no impact", "identity"} :
        \/ r = "inside" /\ stats.absMax <= 1
        \/ r = "flat" /\ stats.std < 1
        \/ r = "no impact" /\ stats.impact < 1
        \/ r = "identity" /\ stats.identity}

\* How many of S come before task t.
Ahead(S, t) == Cardinality({u \in S : u < t})

\* tasks[i : i + chunk_size] for the tasks without a cached probe.
ChunksOf(S) ==
    [i \in 1..((Cardinality(S) + ChunkSize - 1) \div ChunkSize) |->
        {t \in S : Ahead(S, t) \div ChunkSize = i - 1}]

Select0 == round' = [rank |-> 1, at |-> 1] /\ chosen' = {}

\* The tasks whose id the cache does not have; a failed probe is an entry.
Missing(read) == Unscreened \ DOMAIN read

\* main up to the first chunk.  A cache that does not parse raises, and so
\* does a source whose parse fails with anything but a TemplateError.
Invoke ==
    /\ stage = "idle" /\ runs < MaxRuns
    /\ runs' = runs + 1
    /\ IF cache = TornCache \/ \E t \in Static : Verdict(SourceOf[t]) = "crash"
       THEN UNCHANGED <<stage, probes, chunks>>
       ELSE /\ probes' = cache
            /\ chunks' = ChunksOf(Missing(cache))
            /\ stage' = IF Missing(cache) = {} THEN "selecting" ELSE "probing"
    /\ Select0
    /\ UNCHANGED <<cache, manifest>>

\* _probe_child on one chunk: a line per task, in order, until the chunk is
\* done, times out or dies; the tasks without a line count as failed.  A task
\* may also fail on its own.
Probed(chunk, reached, failing) ==
    [t \in chunk |->
        IF t \in failing \/ Ahead(chunk, t) >= reached THEN "failed"
        ELSE IF Reasons(StatsOf[t]) # {} THEN "contaminated" ELSE "clean"]

ProbeChunk ==
    /\ stage = "probing" /\ chunks # << >>
    /\ \E reached \in 0..Cardinality(Head(chunks)), failing \in SUBSET Head(chunks) :
         LET fresh == Probed(Head(chunks), reached, failing)
         IN  probes' = [t \in DOMAIN probes \cup Head(chunks) |->
                          IF t \in Head(chunks) THEN fresh[t] ELSE probes[t]]
    /\ chunks' = Tail(chunks)
    /\ stage' = IF Len(chunks) = 1 THEN "saving" ELSE "probing"
    /\ UNCHANGED <<runs, cache, round, chosen, manifest>>

\* No lease in time, an interrupt, a kill: the chunks probed so far are lost.
\* A kill inside write_text leaves half a file.
Stop ==
    /\ stage \notin {"idle"}
    /\ stage' = "idle"
    /\ cache' \in {cache} \cup (IF stage = "saving" THEN {TornCache} ELSE {})
    /\ UNCHANGED <<runs, probes, chunks, round, chosen, manifest>>

SaveCache ==
    /\ stage = "saving"
    /\ cache' = probes
    /\ stage' = "selecting"
    /\ UNCHANGED <<runs, probes, chunks, round, chosen, manifest>>

\* select_level: the probed tasks with a clean probe.
Survivors == {t \in Unscreened : t \in DOMAIN probes /\ probes[t] = "clean"}

Bucket(f) == {t \in Survivors : FamilyOf[t] = f}

Families == {FamilyOf[t] : t \in Survivors}

\* Largest family first, then by name.
ComesFirst(f, g) ==
    LET place(h) == CHOOSE i \in DOMAIN FamilyNames : FamilyNames[i] = h
    IN  \/ Cardinality(Bucket(f)) > Cardinality(Bucket(g))
        \/ Cardinality(Bucket(f)) = Cardinality(Bucket(g)) /\ place(f) < place(g)

\* The place of a family in that order, and of a task in its family.
Turn(f) == 1 + Cardinality({g \in Families : ComesFirst(g, f)})

RankOf(t) == 1 + Ahead(Bucket(FamilyOf[t]), t)

\* What the bucket of the family visited has at the rank of the round.
AtVisit(r) == {t \in Survivors : Turn(FamilyOf[t]) = r.at /\ RankOf(t) = r.rank}

\* Mutant: a family is emptied before the next one is visited.
NextVisitWithinFamily(r) ==
    IF AtVisit([r EXCEPT !.rank = @ + 1]) # {} THEN [r EXCEPT !.rank = @ + 1]
    ELSE [rank |-> 1, at |-> (r.at % Cardinality(Families)) + 1]

\* The next family, and after the last one the next rank.  Beyond the longest
\* bucket all ranks are alike: MaxRank and MaxRank + 1 stand for them in turn.
MaxRank == Cardinality(Tasks) + 1

NextVisit(r) ==
    IF r.at < Cardinality(Families) THEN [r EXCEPT !.at = @ + 1]
    ELSE [rank |-> IF r.rank > MaxRank THEN MaxRank ELSE r.rank + 1, at |-> 1]

\* One visit of stratified_select's loops.  The buckets keep their tasks, so
\* the outer loop ends with the quota or when there are no survivors at all.
Visit ==
    /\ stage = "selecting"
    /\ Cardinality(chosen) < Quota /\ Survivors # {}
    /\ chosen' = chosen \cup AtVisit(round)
    /\ round' = NextVisit(round)
    /\ UNCHANGED <<stage, runs, cache, probes, chunks, manifest>>

Selected == Cardinality(chosen) >= Quota \/ Survivors = {}

WriteManifest ==
    /\ stage = "selecting" /\ Selected
    /\ manifest' = [selected |-> chosen, spare |-> Survivors \ chosen,
                    excluded |-> Tasks \ Survivors, from |-> probes]
    /\ stage' = "idle"
    /\ UNCHANGED <<runs, cache, probes, chunks, round, chosen>>

SelectionNext ==
    \/ Invoke \/ ProbeChunk \/ Stop \/ SaveCache \/ Visit \/ WriteManifest

TaskSelectionSpec == SelectionInit /\ [][SelectionNext]_selectionVars

-----------------------------------------------------------------------------
(* Properties *)

\* What stratified selection means: no family has two tasks fewer than another
\* unless it has no more to give, and within a family the lowest indices go
\* first.
Stratified(selected, survivors) ==
    LET of(f, S) == {t \in S : FamilyOf[t] = f}
    IN  /\ \A f, g \in {FamilyOf[t] : t \in survivors} :
             \/ Cardinality(of(f, selected)) + 1 >= Cardinality(of(g, selected))
             \/ of(f, selected) = of(f, survivors)
        /\ \A t \in selected, u \in survivors \ selected :
             FamilyOf[t] = FamilyOf[u] => t < u

\* Whatever was cached, lost or torn before, a manifest that was written takes
\* exactly the quota from the tasks with a clean probe, spread over the
\* families, and accounts for every task of the level once.  With fewer such
\* tasks than the quota none is written: the condition of the loop
\* (kernelbench_select.py:743) looks at buckets that are never emptied, and Visit
\* goes round for ever.
ManifestStratified ==
    manifest # NoManifest =>
        LET survivors == {t \in DOMAIN manifest.from : manifest.from[t] = "clean"}
        IN  /\ manifest.selected \cup manifest.spare = survivors
            /\ manifest.selected \cap manifest.spare = {}
            /\ manifest.excluded = Tasks \ survivors
            /\ Cardinality(manifest.selected) = (IF survivors = {} THEN 0 ELSE Quota)
            /\ Stratified(manifest.selected, survivors)

=============================================================================
