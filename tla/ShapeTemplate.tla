---------------------------- MODULE ShapeTemplate ----------------------------
(***************************************************************************)
(* kernelbench_select.parse_shape_template: the symbolic input shapes of a *)
(* task, read off its source without running it.  A source is a record:    *)
(*   ints      the module-level integer constants                          *)
(*   tuples    the module-level tuples of integers                         *)
(*   body      the statements of get_inputs, docstrings left out           *)
(*   arity     the number of arguments of Model.forward; -1 when there is  *)
(*             no such method or it takes *args or keyword-only ones       *)
(*   init      the names that occur in get_init_inputs                     *)
(* A name is << id >> or << id, i >>, which is written id_i, or, when it is *)
(* c and a number, << "literal", i >>: the template calls literal axes so. *)
(***************************************************************************)
EXTENDS Integers, Sequences, FiniteSets, FiniteSetsExt, SequencesExt

CONSTANT NotAFactory    \* a value that is not a plain torch.rand/randn call

\* The shape arguments of a factory call, a statement, and a returned value.
Name(n) == [kind |-> "name", of |-> n]
Star(n) == [kind |-> "star", of |-> n]
Literal(v) == [kind |-> "literal", size |-> v]
Assign(n, call) == [kind |-> "assign", name |-> n, call |-> call]
Return(values) == [kind |-> "return", values |-> values]
Tensor(call) == [kind |-> "tensor", call |-> call]
Other == [kind |-> "other"]

IsName(n) ==
    \/ n = <<n[1]>> /\ n[1] # "literal"
    \/ n = <<n[1], n[2]>> /\ n[2] \in Nat

IsCall(call) ==
    call # NotAFactory =>
        /\ call \in Seq(ToSet(call))
        /\ \A k \in DOMAIN call :
             /\ call[k].kind \in {"name", "star", "literal", "other"}
             /\ call[k].kind = "literal" => call[k].size \in Int

IsValue(value) ==
    /\ value.kind \in {"name", "tensor", "other"}
    /\ value.kind = "tensor" => IsCall(value.call)

IsSource(s) ==
    /\ \A n \in DOMAIN s.ints : IsName(n) /\ s.ints[n] \in Int
    /\ \A n \in DOMAIN s.tuples :
         n = <<n[1]>> /\ n[1] # "literal" /\ s.tuples[n] \in Seq(Int)
    /\ s.body \in Seq(ToSet(s.body))
    /\ \A i \in DOMAIN s.body :
         /\ s.body[i].kind = "assign" => IsCall(s.body[i].call)
         /\ s.body[i].kind = "return" =>
              /\ s.body[i].values \in Seq(ToSet(s.body[i].values))
              /\ \A j \in DOMAIN s.body[i].values : IsValue(s.body[i].values[j])

-----------------------------------------------------------------------------
(* _tensor_factory *)

\* One argument of a call is refused: not a constant of the right type.
Refused(s, arg) ==
    \/ arg.kind = "other"
    \/ arg.kind = "name" /\ arg.of \notin DOMAIN s.ints
    \/ arg.kind = "star" /\ arg.of \notin DOMAIN s.tuples

\* The axes an argument stands for.  A literal is an axis of its own value.
AxesOf(s, arg) ==
    CASE arg.kind = "name" -> <<arg.of>>
      [] arg.kind = "star" -> [i \in DOMAIN s.tuples[arg.of] |-> Append(arg.of, i - 1)]
      [] OTHER             -> << <<"literal", arg.size>> >>

Axes(s, call) == FlattenSeq([k \in DOMAIN call |-> AxesOf(s, call[k])])

BadCall(s, call) ==
    \/ call = NotAFactory
    \/ \E i \in DOMAIN call : Refused(s, call[i])
    \/ Axes(s, call) = << >>

-----------------------------------------------------------------------------
(* The body of get_inputs *)

\* What follows the first return is not read; 0 when there is none.
ReturnAt(s) ==
    LET returns == {i \in DOMAIN s.body : s.body[i].kind = "return"}
    IN  IF returns = {} THEN 0 ELSE Min(returns)

\* The last assignment to n before the return; 0 when there is none.
AssignedAt(s, n) ==
    LET assigns == {i \in 1..(ReturnAt(s) - 1) : s.body[i].kind = "assign" /\ s.body[i].name = n}
    IN  IF assigns = {} THEN 0 ELSE Max(assigns)

Returned(s) == s.body[ReturnAt(s)].values

BadValue(s, value) ==
    \/ value.kind = "other"
    \/ value.kind = "name" /\ AssignedAt(s, value.of) = 0
    \/ value.kind = "tensor" /\ BadCall(s, value.call)

\* Everything that raises TemplateError before an axis has a size.
Malformed(s) ==
    \/ ReturnAt(s) = 0
    \/ \E i \in 1..(ReturnAt(s) - 1) :
         \/ s.body[i].kind = "other"
         \/ s.body[i].kind = "assign" /\ BadCall(s, s.body[i].call)
    \/ \E i \in DOMAIN Returned(s) : BadValue(s, Returned(s)[i])
    \/ s.arity # Len(Returned(s))

ReturnedCalls(s) ==
    [i \in DOMAIN Returned(s) |->
        LET value == Returned(s)[i]
        IN  IF value.kind = "tensor" THEN value.call ELSE s.body[AssignedAt(s, value.of)].call]

Inputs(s) == [i \in DOMAIN ReturnedCalls(s) |-> Axes(s, ReturnedCalls(s)[i])]

-----------------------------------------------------------------------------
(* The table of axes *)

\* Where an axis is mentioned: the input, the argument, the part of a tuple.
Places(s) ==
    UNION {UNION {{<<i, k, e>> : e \in DOMAIN AxesOf(s, ReturnedCalls(s)[i][k])} :
                    k \in DOMAIN ReturnedCalls(s)[i]} : i \in DOMAIN ReturnedCalls(s)}

ArgumentAt(s, p) == ReturnedCalls(s)[p[1]][p[2]]

AxisAt(s, p) == AxesOf(s, ArgumentAt(s, p))[p[3]]

AxisNames(s) == {AxisAt(s, p) : p \in Places(s)}

Earlier(p, q) ==
    \/ p[1] < q[1]
    \/ p[1] = q[1] /\ p[2] < q[2]
    \/ p[1] = q[1] /\ p[2] = q[2] /\ p[3] < q[3]

\* The table is in the order of first mention: the first of some axes in it.
FirstOf(s, axes) ==
    LET at == {p \in Places(s) : AxisAt(s, p) \in axes}
    IN  AxisAt(s, CHOOSE p \in at : \A q \in at : ~Earlier(q, p))

IsLiteral(axis) == Len(axis) = 2 /\ axis[1] = "literal"

\* The axis is written id_i and id is a constant, tuple or not.
IsElement(s, axis) ==
    Len(axis) = 2 /\ ~IsLiteral(axis) /\ <<axis[1]>> \in DOMAIN s.ints \cup DOMAIN s.tuples

\* Indexing an integer, or a tuple beyond its end, is no TemplateError, nor is
\* looking up a negative literal.
Crashes(s, axis) ==
    \/ IsLiteral(axis) /\ axis[2] < 0
    \/ /\ IsElement(s, axis)
       /\ \/ <<axis[1]>> \notin DOMAIN s.tuples
          \/ axis[2] >= Len(s.tuples[<<axis[1]>>])

SizeOf(s, axis) ==
    CASE IsLiteral(axis)    -> axis[2]
      [] IsElement(s, axis) -> s.tuples[<<axis[1]>>][axis[2] + 1]
      [] OTHER              -> s.ints[axis]

\* Mutant: the elements of a tuple are looked up by their own name.
FreeByOwnName(s, axis) == ~IsLiteral(axis) /\ axis \notin s.init

FreeAxis(s, axis) ==
    /\ ~IsLiteral(axis)
    /\ (IF IsElement(s, axis) THEN <<axis[1]>> ELSE axis) \notin s.init

\* The first axis that crashes or has no positive size ends the parse.
Verdict(s) ==
    LET wrong == {a \in AxisNames(s) : Crashes(s, a) \/ SizeOf(s, a) < 1}
    IN  IF Malformed(s) THEN "excluded"
        ELSE IF wrong = {} THEN "parsed"
        ELSE IF Crashes(s, FirstOf(s, wrong)) THEN "crash" ELSE "excluded"

TemplateOf(s) ==
    [seen |-> [a \in AxisNames(s) |-> SizeOf(s, a)],
     free |-> {a \in AxisNames(s) : FreeAxis(s, a)},
     inputs |-> Inputs(s)]

-----------------------------------------------------------------------------
(* Reference definitions, from what Python does with such a source *)

\* The shapes get_inputs builds when it is run.
ArgumentSizes(s, arg) ==
    CASE arg.kind = "name" -> <<s.ints[arg.of]>>
      [] arg.kind = "star" -> s.tuples[arg.of]
      [] OTHER             -> <<arg.size>>

ShapeOf(s, call) == FlattenSeq([k \in DOMAIN call |-> ArgumentSizes(s, call[k])])

BuiltShapes(s) == [i \in DOMAIN ReturnedCalls(s) |-> ShapeOf(s, ReturnedCalls(s)[i])]

\* The axes whose size is written with a name that get_init_inputs uses.
ModelAxes(s) ==
    {AxisAt(s, p) : p \in {p \in Places(s) : /\ ArgumentAt(s, p).kind \in {"name", "star"}
                                            /\ ArgumentAt(s, p).of \in s.init}}

\* No constant has the name of a literal axis, or of an element of another one.
PlainlyNamed(s) ==
    \A n \in DOMAIN s.ints : Len(n) = 2 =>
        n[1] # "literal" /\ <<n[1]>> \notin DOMAIN s.ints \cup DOMAIN s.tuples

=============================================================================
