--------------------------- MODULE MCMeasurement ---------------------------
(***************************************************************************)
(* What is measured, and for whom: the three backends, the episodes of the *)
(* grid that compile in process, and the plain archetypes that submit the  *)
(* candidates.  They share no state: in the program a session uses one     *)
(* backend and one harness.  The initial state picks the one that runs,    *)
(* from Parts.                                                             *)
(***************************************************************************)
EXTENDS SourceBackend, Interception, StageHook, EpisodeLease, Archetypes

CONSTANT Parts
VARIABLE part

partVars == <<sourceVars, interceptionVars, stageVars, episodeVars, archetypesVars>>

Init ==
    /\ part \in Parts
    /\ SourceInit
    /\ part # "source" => source = [c \in Requests |-> Reference]
    /\ InterceptionInit
    /\ StageInit
    /\ part # "triton" => /\ passes = [c \in Compiles |-> << >>]
                          /\ launch = [c \in Compiles |-> OwnLaunch]
    /\ EpisodeInit
    /\ ArchetypesInit
    /\ part # "archetype" => kind = "sr" /\ told

Next ==
    /\ UNCHANGED part
    /\ \/ /\ part = "source" /\ SourceNext
          /\ UNCHANGED <<interceptionVars, stageVars, episodeVars, archetypesVars>>
       \/ /\ part = "inductor" /\ InterceptionNext
          /\ UNCHANGED <<sourceVars, stageVars, episodeVars, archetypesVars>>
       \/ /\ part = "triton" /\ StageNext
          /\ UNCHANGED <<sourceVars, interceptionVars, episodeVars, archetypesVars>>
       \/ /\ part = "episode" /\ EpisodeNext
          /\ UNCHANGED <<sourceVars, interceptionVars, stageVars, archetypesVars>>
       \/ /\ part = "archetype" /\ ArchetypesNext
          /\ UNCHANGED <<sourceVars, interceptionVars, stageVars, episodeVars>>

\* An archetype's generations and tools return or raise, and run_session goes on.
Spec ==
    /\ Init /\ [][Next]_<<part, partVars>>
    /\ EpisodeFairness
    /\ WF_archetypesVars(part = "archetype" /\ ArchetypesNext)

-----------------------------------------------------------------------------
(* Instances. *)

AllParts == {"source", "inductor", "triton", "episode", "archetype"}

Iv(k, s, v) == [kind |-> k, selector |-> s, value |-> v]

MCPlaceOf == [s \in Spellings |->
    CASE s \in {"inductor.knob", "knob"}     -> "knob"
      [] s \in {"inductor.safety", "safety"} -> "safety"
      [] s = "locked"                        -> "locked"
      [] s = "dynamo.flag"                   -> "flag"
      [] s = "aten.op"                       -> "op"
      [] s = "hook"                          -> "hook"
      [] OTHER                               -> Unknown]

MCDefaults == <<[key |-> "safety", value |-> 0]>>

\* The baseline; a known and an unknown key, a lowering and a changed default;
\* an assignment that raises, and one key twice.
MCPlans ==
    { << >>,
      <<Iv("knob", "inductor.knob", 1), Iv("knob", "typo", 1),
        Iv("lowering", "aten.op", 1), Iv("knob", "safety", 1)>>,
      <<Iv("knob", "locked", 2), Iv("knob", "dynamo.flag", 1),
        Iv("scheduler", "hook", 2), Iv("knob", "dynamo.flag", 2)>> }

\* A safety default under its other name.
Aliased == { << >>, <<Iv("knob", "inductor.safety", 1)>> }

To(pass, action, args) == [pass |-> pass, action |-> action, args |-> args]

MCPassPlans ==
    { << >>,
      <<To("cse", "skip", "ok")>>,
      <<To("pipeline", "run", "bad")>>,
      <<To("cse", "skip", "ok"), To("cse", "reorder", "ok")>> }

TtirPasses == <<"cse">>
TtgirPasses == <<"pipeline", "cse">>

AllKinds == {"sr", "bon", "evo", "band", "ma"}

\* Slower than the reference, and two ways of being faster.
SlowFastFaster == {80, 120, 150}
=============================================================================
