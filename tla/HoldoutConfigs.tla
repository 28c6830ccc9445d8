--------------------------- MODULE HoldoutConfigs ---------------------------
(***************************************************************************)
(* triton_source/holdout.py: six unseen input configurations for a         *)
(* workload, one per category, made from its shape template.  The six are  *)
(* made in order; each moves the leading axis on until the configuration   *)
(* differs from the seen one and from the ones before it.                  *)
(***************************************************************************)
EXTENDS ShapeTemplate

CONSTANTS
    Sources,        \* the task files a workload may be made from
    MinBudget,      \* _MIN_ELEMENT_BUDGET
    Production,     \* 1000, the realistic size, and what stands in for it
    Alternative     \* when it is the seen size: 1296

ASSUME HoldoutAssumption ==
    /\ \A s \in Sources : IsSource(s)
    /\ MinBudget \in Nat /\ Production \in Nat \ {0} /\ Alternative \in Nat \ {0}

VARIABLES
    workload,       \* the source of the task
    template,       \* what the manifest holds of it: the sizes seen, the free
                    \* axes, the axes of each input
    configs         \* the configurations made so far

holdoutVars == <<workload, template, configs>>

\* Only a source that parses is in the manifest.
HoldoutInit ==
    /\ workload \in {s \in Sources : Verdict(s) = "parsed"}
    /\ template = TemplateOf(workload)
    /\ configs = << >>

Free == template.free
Leading == FirstOf(workload, Free)
Second == FirstOf(workload, Free \ {Leading})
Seen == template.seen

Elements(input, sizes) ==
    FoldFunction(LAMBDA size, n : size * n, 1, [j \in DOMAIN input |-> sizes[input[j]]])

MaxElements(sizes) == Max({Elements(template.inputs[i], sizes) : i \in DOMAIN template.inputs})

\* Mutant: the budget does not grow with the seen input.
BudgetFixed == MinBudget

Budget == Max({MinBudget, 2 * MaxElements(Seen)})

AtLeast1(n) == IF n < 1 THEN 1 ELSE n

IsPrime(n) == n > 1 /\ \A f \in 2..(n - 1) : n % f # 0

Factorial(n) ==
    LET product[k \in 0..n] == IF k = 0 THEN 1 ELSE k * product[k - 1] IN product[n]

\* There is a prime above n and not above n! + 1, so the code's loop ends.
NextPrime(n) ==
    CHOOSE p \in (n + 1)..(Factorial(n) + 1) : IsPrime(p) /\ \A q \in (n + 1)..(p - 1) : ~IsPrime(q)

\* From hi down by quarters until it fits, never below lo.
ShrunkToFit(fits, lo, hi) ==
    LET shrunk[value \in lo..hi] ==
          IF value = lo \/ value \in fits THEN value
          ELSE shrunk[Max({lo, (value * 3) \div 4})]
    IN  shrunk[hi]

Fitting(sizes, lo, hi) ==
    {value \in lo..hi : MaxElements([sizes EXCEPT ![Leading] = value]) <= Budget}

CappedScale(sizes, factor) ==
    LET from == sizes[Leading]
    IN  ShrunkToFit(Fitting(sizes, from, factor * from), from, factor * from)

EdgeBoundary ==
    [a \in DOMAIN Seen |-> IF a = Leading THEN 1
                           ELSE IF a \in Free THEN Min({3, Seen[a]}) ELSE Seen[a]]

ScaleUp == [Seen EXCEPT ![Leading] = CappedScale(Seen, 2)]

ScaleDown == [a \in DOMAIN Seen |-> IF a \in Free THEN AtLeast1(Seen[a] \div 4) ELSE Seen[a]]

AlignmentStress ==
    LET primes == [a \in DOMAIN Seen |-> IF a \in Free THEN NextPrime(Seen[a]) ELSE Seen[a]]
    IN  IF MaxElements(primes) <= Budget THEN primes
        ELSE [Seen EXCEPT ![Leading] = NextPrime(@)]

AsymmetricAspect ==
    LET shrunk == IF Free # {Leading}
                  THEN [Seen EXCEPT ![Second] = AtLeast1(@ \div 8)] ELSE Seen
    IN  [shrunk EXCEPT ![Leading] = CappedScale(shrunk, 8)]

\* The production size, down by quarters until it fits; it may end below the
\* seen size.
ProductionRealistic ==
    LET wanted == IF Seen[Leading] # Production THEN Production ELSE Alternative
    IN  [Seen EXCEPT ![Leading] = ShrunkToFit(Fitting(Seen, 1, wanted), 1, wanted)]

Category(i) ==
    CASE i = 1 -> EdgeBoundary [] i = 2 -> ScaleUp [] i = 3 -> ScaleDown
      [] i = 4 -> AlignmentStress [] i = 5 -> AsymmetricAspect [] OTHER -> ProductionRealistic

\* Mutant: only the configurations before it count as taken.
TakenFromEachOther == ToSet(configs)

Taken == {Seen} \cup ToSet(configs)

\* The leading axis is nudged until the configuration is new.
Nudged(sizes) ==
    [sizes EXCEPT ![Leading] = CHOOSE n \in @..(@ + Cardinality(Taken)) :
        /\ [sizes EXCEPT ![Leading] = n] \notin Taken
        /\ \A m \in sizes[Leading]..(n - 1) : [sizes EXCEPT ![Leading] = m] \in Taken]

\* A template without a free axis is a ValueError.
MakeConfig ==
    /\ Free # {} /\ Len(configs) < 6
    /\ configs' = Append(configs, Nudged(Category(Len(configs) + 1)))
    /\ UNCHANGED <<workload, template>>

HoldoutNext == MakeConfig

HoldoutSpec == HoldoutInit /\ [][HoldoutNext]_holdoutVars

-----------------------------------------------------------------------------
(* Properties *)

\* "De-duplicate against the seen config and each other": the configurations a
\* winner is judged on are different ones, none of them the one it was tuned on,
\* and the axes that are not free keep their size.
AllDifferent ==
    /\ \A i \in DOMAIN configs : configs[i] # Seen
    /\ Cardinality(ToSet(configs)) = Len(configs)
    /\ \A i \in DOMAIN configs, a \in DOMAIN Seen \ Free : configs[i][a] = Seen[a]

\* "Vars referenced by get_init_inputs parameterize the model (parameter
\* shapes) and are FIXED": no configuration varies one, whether it is referred
\* to by its name or as a part of a tuple.
ModelAxesFixed ==
    PlainlyNamed(workload) =>
        \A i \in DOMAIN configs, a \in ModelAxes(workload) : configs[i][a] = Seen[a]

\* The seen configuration the others are made from has the shapes that
\* get_inputs builds.
SeenIsBuilt ==
    PlainlyNamed(workload) =>
        BuiltShapes(workload) =
            [i \in DOMAIN template.inputs |->
                [j \in DOMAIN template.inputs[i] |-> Seen[template.inputs[i][j]]]]

\* No input has the leading axis twice.
LeadingOnce ==
    \A i \in DOMAIN template.inputs : \A j, k \in DOMAIN template.inputs[i] :
        template.inputs[i][j] = Leading /\ template.inputs[i][k] = Leading => j = k

\* "Never below 2x the largest seen input so scale-up stays meaningful for
\* already-huge tasks": when no input has the leading axis twice, the second
\* configuration is twice the seen size along it.
ScaleUpDoubles ==
    Len(configs) >= 2 /\ LeadingOnce => configs[2][Leading] >= 2 * Seen[Leading]

\* What a winner is judged on is unseen, is input to the same model, and is made
\* from the shapes it was tuned on; one configuration really is larger.
HoldoutFair == AllDifferent /\ ModelAxesFixed /\ SeenIsBuilt /\ ScaleUpDoubles

=============================================================================
