----------------------------- MODULE MCServices -----------------------------
(***************************************************************************)
(* What surrounds the sessions: the rules file and the chat client that    *)
(* episodes share, and what is done before, during and after a grid: the   *)
(* choice of tasks, the unseen configurations, the re-evaluation of        *)
(* candidates, the ranking, and the observation UI.  They share no state;  *)
(* the initial state picks the one that runs, from Parts.                  *)
(***************************************************************************)
EXTENDS SkillMemory, LlmClient, TaskSelection, Reevaluation, HoldoutConfigs,
        Ranking, Observation

\* A task over the axes m, n and k; sizes gives m and n, body is get_inputs
\* and init what get_init_inputs uses.
Task(m, n, init, arity, body) ==
    [ints |-> (<<"m">> :> m @@ <<"n">> :> n @@ <<"k">> :> 2),
     tuples |-> (<<"shape">> :> <<n, 2>>),
     body |-> body, arity |-> arity, init |-> init]

\* def get_inputs(): return [torch.rand(m, n)]
OneTensor(m, n, init) ==
    Task(m, n, init, 1, <<Return(<<Tensor(<<Name(<<"m">>), Name(<<"n">>)>>)>>)>>)

CONSTANT Parts
VARIABLE part

partVars == <<skillVars, llmVars, selectionVars, reevaluationVars, holdoutVars,
              rankingVars, observationVars>>

Init ==
    /\ part \in Parts
    /\ SkillInit /\ LlmInit /\ SelectionInit
    /\ ReevaluationInit
    /\ part # "reevaluation" => script = "replay"
    /\ HoldoutInit
    /\ part # "holdout" => workload = OneTensor(2, 2, {<<"n">>})
    /\ RankingInit /\ ObservationInit

Next ==
    /\ UNCHANGED part
    /\ \/ /\ part = "skill" /\ SkillNext
          /\ UNCHANGED <<llmVars, selectionVars, reevaluationVars, holdoutVars,
                         rankingVars, observationVars>>
       \/ /\ part = "llm" /\ LlmNext
          /\ UNCHANGED <<skillVars, selectionVars, reevaluationVars, holdoutVars,
                         rankingVars, observationVars>>
       \/ /\ part = "selection" /\ SelectionNext
          /\ UNCHANGED <<skillVars, llmVars, reevaluationVars, holdoutVars,
                         rankingVars, observationVars>>
       \/ /\ part = "reevaluation" /\ ReevaluationNext
          /\ UNCHANGED <<skillVars, llmVars, selectionVars, holdoutVars,
                         rankingVars, observationVars>>
       \/ /\ part = "holdout" /\ HoldoutNext
          /\ UNCHANGED <<skillVars, llmVars, selectionVars, reevaluationVars,
                         rankingVars, observationVars>>
       \/ /\ part = "ranking" /\ RankingNext
          /\ UNCHANGED <<skillVars, llmVars, selectionVars, reevaluationVars,
                         holdoutVars, observationVars>>
       \/ /\ part = "observation" /\ ObservationNext
          /\ UNCHANGED <<skillVars, llmVars, selectionVars, reevaluationVars,
                         holdoutVars, rankingVars>>

Spec ==
    /\ Init /\ [][Next]_<<part, partVars>>
    /\ LlmFairness /\ ObservationFairness

-----------------------------------------------------------------------------
(* Instances. *)

AllParts == {"skill", "llm", "selection", "reevaluation", "holdout", "ranking",
             "observation"}

\* A constant m_1 beside the integer m.
Crashing ==
    [Task(4, 3, {<<"n">>}, 1, <<Return(<<Tensor(<<Name(<<"m", 1>>)>>)>>)>>)
        EXCEPT !.ints = @ @@ <<"m", 1>> :> 7]

MCMarksOf ==
    [t \in 1..7 |-> CASE t \in {1, 4} -> {"norm", "matmul"} [] t = 5 -> {"loss", "norm"}
                      [] OTHER -> {}]

\* The second task is flat, the fourth returns a scalar beside its tensor, and
\* the parser would crash on the seventh, a convolution.
MCStatsOf ==
    [t \in 1..7 |-> [absMax |-> 300, std |-> IF t = 2 THEN 0 ELSE 90, impact |-> 100,
                      identity |-> FALSE]]

MCSourceOf ==
    [t \in 1..7 |->
        IF t = 4 THEN Task(4, 3, {}, 2, <<Return(<<Tensor(<<Name(<<"m">>)>>), Other>>)>>)
        ELSE IF t = 7 THEN Crashing ELSE OneTensor(4, 3, {})]

\* The calls of the client differ in nothing.
MCCallSymmetry == Permutations(Calls)

Cand(id, verdict) == [id |-> id, verdict |-> verdict]

\* Three cells with a loser, two with a winner too; one failed first and was run again.
MCGrid ==
    <<[cell |-> "a", good |-> TRUE, candidates |-> {Cand(1, "rejected"), Cand(2, "won")}],
      [cell |-> "b", good |-> FALSE, candidates |-> {Cand(3, "rejected")}],
      [cell |-> "b", good |-> TRUE, candidates |-> {Cand(4, "rejected"), Cand(5, "won")}],
      [cell |-> "c", good |-> TRUE, candidates |-> {Cand(6, "rejected")}]>>

\* Sources at the edge of what parses: no return, a statement or a value that
\* is not understood, an unknown name, a scalar, an empty size, the wrong number
\* of arguments, a reassigned tensor, a negative literal, and names written like
\* a tuple's element or a literal axis.
MCOddSources ==
    LET mn == <<Name(<<"m">>), Name(<<"n">>)>>
        odd(arity, body) == Task(4, 3, {<<"n">>}, arity, body)
    IN  {odd(1, << >>), odd(1, <<Other>>), odd(1, <<Assign(<<"A">>, NotAFactory)>>),
         odd(1, <<Return(<<Other>>)>>), odd(1, <<Return(<<Name(<<"A">>)>>)>>),
         odd(1, <<Return(<<Tensor(<<Name(<<"q">>)>>)>>)>>),
         odd(1, <<Return(<<Tensor(<< >>)>>)>>), odd(1, <<Return(<<Tensor(<<Literal(0)>>)>>)>>),
         odd(-1, <<Return(<<Tensor(mn)>>)>>), odd(2, <<Return(<<Tensor(mn)>>)>>),
         odd(1, <<Assign(<<"A">>, <<Name(<<"k">>)>>), Assign(<<"A">>, mn),
                   Return(<<Name(<<"A">>)>>), Other>>),
         [odd(1, <<Return(<<Tensor(<<Name(<<"m">>), Name(<<"shape", 1>>)>>)>>)>>)
            EXCEPT !.ints = @ @@ <<"shape", 1>> :> 7],
         odd(1, <<Return(<<Tensor(<<Name(<<"m">>), Literal(-1)>>)>>)>>),
         [odd(1, <<Return(<<Tensor(<<Name(<<"m">>), Name(<<"literal", 5>>)>>)>>)>>)
            EXCEPT !.ints = @ @@ <<"literal", 5>> :> 7],
         Crashing}

\* One tensor, with and without a fixed axis; a square one; a product; a batch
\* of a tuple's shape, which the model may be built from; a literal axis.
MCSources ==
    LET at(x) == Name(<<x>>)
        bodies == {<<1, <<Return(<<Tensor(<<at("m"), at("n")>>)>>)>>>>,
                   <<1, <<Return(<<Tensor(<<at("n"), at("m")>>)>>)>>>>,
                   <<1, <<Return(<<Tensor(<<at("m"), at("m")>>)>>)>>>>,
                   <<2, <<Assign(<<"A">>, <<at("m"), at("k")>>),
                          Return(<<Name(<<"A">>), Tensor(<<at("k"), at("n")>>)>>)>>>>,
                   <<1, <<Return(<<Tensor(<<at("m"), Star(<<"shape">>)>>)>>)>>>>,
                   <<1, <<Return(<<Tensor(<<at("m"), Literal(3)>>)>>)>>>>}
    IN  {Task(m, n, init, body[1], body[2]) :
            m \in 1..9, n \in 1..9, init \in {{}, {<<"n">>}, {<<"shape">>}}, body \in bodies}
        \cup MCOddSources

Run(compile, verdict, correct, median, objectives) ==
    [compile |-> compile, gates |-> verdict, correct |-> correct, median |-> median,
     objectives |-> objectives]

\* Refused; failed to compile; compiled but a gate failed; timed, with every
\* verdict; with every combination of two objectives.
MCOutcomes ==
    {Run("none", "none", "none", Unmeasured, << >>),
     Run("bad", "none", "none", Unmeasured, << >>),
     Run("bad", "bad", "bad", Unmeasured, << >>),
     Run("ok", "bad", "bad", Unmeasured, << >>)}
    \cup {Run("ok", "ok", "ok", median, << >>) : median \in {0, 8, 9, 12}}
    \cup {Run("ok", "ok", correct, 8, << >>) : correct \in {"bad", "none"}}
    \cup {Run("ok", "ok", "ok", 8, objectives) :
            objectives \in UNION {[S -> 1..2] : S \in SUBSET {"speed", "size"}}}

MCGoalOf == [speed |-> "max", size |-> "min"]
=============================================================================
