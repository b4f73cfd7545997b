-------------------------- MODULE TypedCertificate --------------------------
(***************************************************************************)
(* Certificates of typed Core                                              *)
(* (src/src/semantic/gpu_monomorphic_checker.ts): a module in which every  *)
(* definition has a type without parameters is not inferred.  The host     *)
(* collects the equations between the terms of its Core, solves them and   *)
(* hands out, for every term, its type; the device only checks, term by    *)
(* term and equation by equation, that this is a solution, for all the     *)
(* modules of a batch at once.                                             *)
(***************************************************************************)
EXTENDS CoreLowering

NoTerm == 0

(* The plan so far: terms, each a variable or a constructor of types with  *)
(* at most two children, the equations, and whether the module is beyond   *)
(* the certificate.                                                        *)
TermNode(kind, payload, children) == [kind |-> kind, payload |-> payload, children |-> children]
VariableTerm == TermNode("variable", NoTerm, <<NoTerm, NoTerm>>)
Beyond(c) == [c EXCEPT !.unsupported = TRUE]
AddTerm(c, node) == [c |-> [c EXCEPT !.terms = Append(@, node)], t |-> Len(c.terms) + 1]
FreshVariable(c) == AddTerm(c, VariableTerm)
FunctionTerm(c, parameter, result) == AddTerm(c, TermNode("->", NoTerm, <<parameter, result>>))
Constrain(c, left, right) == [c EXCEPT !.equations = Append(@, <<left, right>>)]
ConstrainAll(c, left, rights) ==
    [c EXCEPT !.equations = @ \o [i \in DOMAIN rights |-> <<left, rights[i]>>]]

(* Every primitive type is one term.                                       *)
Primitive(c, kind) ==
    LET known == SelectInSeq(c.terms, LAMBDA term : term.kind = kind)
    IN  IF known # 0 THEN [c |-> c, t |-> known] ELSE AddTerm(c, TermNode(kind, NoTerm, <<NoTerm, NoTerm>>))

FreshVariables(c, n) ==
    [c |-> [c EXCEPT !.terms = @ \o [i \in 1 .. n |-> VariableTerm]], ts |-> [i \in 1 .. n |-> Len(c.terms) + i]]

RECURSIVE FunctionOf(_, _, _)
FunctionOf(c, parameters, result) ==
    IF parameters = <<>> THEN [c |-> c, t |-> result]
    ELSE LET f == FunctionTerm(c, Last(parameters), result) IN FunctionOf(f.c, Front(parameters), f.t)

RECURSIVE AppliedTo(_, _, _)
AppliedTo(c, type, arguments) ==
    IF arguments = <<>> THEN [c |-> c, t |-> type]
    ELSE LET a == AddTerm(c, TermNode("application", NoTerm, <<type, Head(arguments)>>))
         IN  AppliedTo(a.c, a.t, Tail(arguments))

(* Only the parameters of a constructor are in scope, and no forall.       *)
RECURSIVE SchemaTerm(_, _, _)
SchemaTerm(c, schema, parameters) ==
    LET declaration == IndexOf(TypeDeclarations, schema.name)
        head == IF schema.name \in BuiltIn THEN [c |-> c, t |-> NoTerm] ELSE AddTerm(c, TermNode("named", declaration, <<NoTerm, NoTerm>>))
        Part(r, part) == LET p == SchemaTerm(r.c, part, parameters) IN [c |-> p.c, ts |-> Append(r.ts, p.t)]
        parts == FoldLeft(Part, [c |-> head.c, ts |-> <<>>], schema.args)
    IN  CASE schema.k = "par" /\ schema.name \in DOMAIN parameters -> [c |-> c, t |-> parameters[schema.name]]
          [] schema.k = "con" /\ schema.name = "->" -> FunctionTerm(parts.c, parts.ts[1], parts.ts[2])
          [] schema.k = "con" /\ schema.name \in BuiltIn \ {"->"} -> Primitive(c, schema.name)
          [] schema.k = "con" /\ declaration # 0 -> AppliedTo(parts.c, head.t, parts.ts)
          [] OTHER -> [c |-> Beyond(c), t |-> NoTerm]

(* instantiateConstructor: its fields and its result over fresh variables, *)
(* and the function from the ones to the other.                            *)
InstantiateTemplate(c, constructor) ==
    LET con == ConstructorTable[constructor]
        d == Shape(OwnerOf(con.name))
        fresh == FreshVariables(c, Len(d.parameters))
        parameters == [p \in ToSet(d.parameters) |-> fresh.ts[CHOOSE i \in DOMAIN d.parameters : d.parameters[i] = p]]
        Field(r, field) == LET f == SchemaTerm(r.c, field, parameters) IN [c |-> f.c, ts |-> Append(r.ts, f.t)]
        fields == FoldLeft(Field, [c |-> fresh.c, ts |-> <<>>], con.fields)
        plain == Con(d.name, [i \in DOMAIN d.parameters |-> Par(d.parameters[i])])
        result == SchemaTerm(fields.c, IF con.result = NoType THEN plain ELSE con.result, parameters)
        type == FunctionOf(result.c, fields.ts, result.t)
    IN  [c |-> type.c, fields |-> fields.ts, result |-> result.t, type |-> type.t]

(***************************************************************************)
(* The equations of a module                                               *)
(***************************************************************************)
MutantCaseIsPlain(alternatives) == alternatives # <<>>

(* A case names constructors of one type, each once, and all of them.      *)
CaseIsPlain(alternatives) ==
    LET constructors == {alternatives[i].constructor : i \in DOMAIN alternatives}
        owners == {OwnerOf(ConstructorTable[k].name) : k \in constructors}
    IN  /\ Cardinality(owners) = 1
        /\ Cardinality(constructors) = Len(alternatives)
        /\ \A i \in DOMAIN alternatives : alternatives[i].binders = Len(ConstructorTable[alternatives[i].constructor].fields)
        /\ Cardinality(constructors) = Len(Shape(CHOOSE owner \in owners : TRUE).constructors)

(* The operands of a numeric operation have one type, its result one.      *)
NumericOperation(c, n, node) ==
    LET signature == PrimopSignature(n.op, NoType)
        operand == Primitive(c, signature.operands[1].name)
        result == Primitive(ConstrainAll(operand.c, operand.t, n.operands), signature.result.name)
    IN  Constrain(result.c, node, result.t)

(* The term of a node is the one with its index.                           *)
RECURSIVE EquationsOf(_, _, _, _)
EquationsOf(core, c, node, environment) ==
    LET n == core.nodes[node]
        Below(d, child, within) == EquationsOf(core, d, child, within)
        IsPrimitive(kind) == LET p == Primitive(c, kind) IN Constrain(p.c, node, p.t)
        binding == FreshVariable(c)
        recursive == <<binding.t>> \o environment
        parameters == FreshVariables(c, IF n.parameters = 0 THEN 1 ELSE n.parameters)
        body == Below(parameters.c, n.body, Reverse(parameters.ts) \o environment)
        function == FunctionOf(body, parameters.ts, n.body)
        unit == Primitive(Constrain(function.c, node, function.t), "()")
        \* application: to unit, or to one argument after the other
        callee == Below(c, n.callee, environment)
        none == Primitive(callee, "()")
        toUnit == FunctionTerm(none.c, none.t, node)
        Argument(r, i) ==
            LET argument == Below(r.c, n.arguments[i].node, environment)
                rest == IF i = Len(n.arguments) THEN [c |-> argument, t |-> node] ELSE FreshVariable(argument)
                f == FunctionTerm(rest.c, n.arguments[i].node, rest.t)
            IN  [c |-> Constrain(f.c, r.t, f.t), t |-> rest.t]
        called[i \in 0 .. Len(n.arguments)] == IF i = 0 THEN [c |-> callee, t |-> n.callee] ELSE Argument(called[i - 1], i)
        branches == FoldLeft(LAMBDA d, child : Below(d, child, environment), c, <<n.test, n.consequent, n.alternate>>)
        test == Primitive(branches, "Bool")
        operands == FoldLeft(LAMBDA d, child : Below(d, child, environment), c, n.operands)
        \* an arm binds the fields of its constructor
        alternatives == SubSeq(core.alternatives, n.first, n.first + n.count - 1)
        Alternative(d, a) ==
            LET instance == InstantiateTemplate(d, a.constructor)
                arm == Below(Constrain(instance.c, n.scrutinee, instance.result), a.body, instance.fields \o environment)
            IN  Constrain(arm, node, a.body)
        instance == InstantiateTemplate(c, n.constructor)
    IN  CASE n.tag = "integer" -> IsPrimitive("Int")
          [] n.tag = "boolean" -> IsPrimitive("Bool")
          [] n.tag = "fault" -> c
          [] n.tag = "local" -> Constrain(c, node, environment[n.depth + 1])
          [] n.tag = "global" -> Constrain(c, node, c.definitions[n.definition])
          [] n.tag = "constructor" -> Constrain(instance.c, node, instance.type)
          [] n.tag = "let" -> Constrain(Below(Below(c, n.value, environment), n.body, <<n.value>> \o environment), node, n.body)
          [] n.tag = "letrec" ->
                 Constrain(Below(Constrain(Below(binding.c, n.value, recursive), binding.t, n.value), n.body, recursive), node, n.body)
          [] n.tag = "lambda" /\ n.parameters > 0 -> Constrain(function.c, node, function.t)
          [] n.tag = "lambda" /\ n.parameters = 0 -> Constrain(unit.c, parameters.ts[1], unit.t)
          [] n.tag = "apply" /\ n.arguments = <<>> -> Constrain(toUnit.c, n.callee, toUnit.t)
          [] n.tag = "apply" /\ n.arguments # <<>> -> called[Len(n.arguments)].c
          [] n.tag = "if" -> ConstrainAll(Constrain(test.c, n.test, test.t), node, <<n.consequent, n.alternate>>)
          [] n.tag = "prim" ->
                 IF n.op \in NumericPrimops THEN NumericOperation(operands, n, node) ELSE Beyond(operands)
          [] n.tag = "case" ->
                 LET subject == Below(c, n.scrutinee, environment)
                 IN  IF CaseIsPlain(alternatives) THEN FoldLeft(Alternative, subject, alternatives) ELSE Beyond(subject)

(***************************************************************************)
(* The solution (solveTypeEquations)                                       *)
(***************************************************************************)
RECURSIVE RootOf(_, _)
RootOf(parents, t) == IF parents[t] = t THEN t ELSE RootOf(parents, parents[t])

(* First come, first served; the equations between the children of two     *)
(* terms that become one go to the end.  Paths are not compressed here.    *)
RECURSIVE Merged(_, _, _)
Merged(terms, parents, pending) ==
    LET left == RootOf(parents, Head(pending)[1])
        right == RootOf(parents, Head(pending)[2])
        a == terms[left]
        b == terms[right]
        equations == IF a.children[1] = NoTerm THEN <<>> ELSE [i \in 1 .. 2 |-> <<a.children[i], b.children[i]>>]
        representative == IF left < right THEN left ELSE right
    IN  CASE pending = <<>> -> [solved |-> TRUE, parents |-> parents]
          [] pending # <<>> /\ left = right -> Merged(terms, parents, Tail(pending))
          [] pending # <<>> /\ left # right /\ a.kind = "variable" ->
                 Merged(terms, [parents EXCEPT ![left] = right], Tail(pending))
          [] pending # <<>> /\ left # right /\ a.kind # "variable" /\ b.kind = "variable" ->
                 Merged(terms, [parents EXCEPT ![right] = left], Tail(pending))
          [] pending # <<>> /\ left # right /\ "variable" \notin {a.kind, b.kind} /\ a.kind = b.kind /\ a.payload = b.payload ->
                 Merged(terms, [parents EXCEPT ![left] = representative, ![right] = representative], Tail(pending) \o equations)
          [] OTHER -> [solved |-> FALSE, parents |-> parents]

(* materialize: one type for each shape, its parts before it; none for a   *)
(* term that is a part of itself.                                          *)
RECURSIVE Materialize(_, _, _, _, _)
Materialize(terms, parents, w, t, active) ==
    LET root == RootOf(parents, t)
        Child(u, child) ==
            IF child = NoTerm \/ u.cyclic THEN u ELSE Materialize(terms, parents, u, child, active \cup {root})
        below == FoldLeft(Child, w, terms[root].children)
        type == [terms[root] EXCEPT !.children = [i \in 1 .. 2 |->
                     IF @[i] = NoTerm THEN NoTerm ELSE below.assigned[RootOf(parents, @[i])]]]
        known == SelectInSeq(below.types, LAMBDA shape : shape = type)
    IN  IF root \in DOMAIN w.assigned THEN w
        ELSE IF root \in active THEN [w EXCEPT !.cyclic = TRUE]
        ELSE IF below.cyclic THEN below
        ELSE [below EXCEPT !.types = IF known = 0 THEN Append(@, type) ELSE @,
                           !.assigned = root :> (IF known = 0 THEN Len(below.types) + 1 ELSE known) @@ @]

NoCertificate == [ready |-> FALSE]
Solution(terms, equations) ==
    LET merged == Merged(terms, [t \in DOMAIN terms |-> t], equations)
        none == [types |-> <<>>, assigned |-> <<>>, cyclic |-> FALSE]
        witness == FoldLeft(LAMBDA w, t : IF w.cyclic THEN w ELSE Materialize(terms, merged.parents, w, t, {}),
                            none, [t \in DOMAIN terms |-> t])
    IN  IF ~merged.solved \/ witness.cyclic THEN NoCertificate
        ELSE [ready |-> TRUE, terms |-> terms, equations |-> equations, types |-> witness.types,
              assignments |-> [t \in DOMAIN terms |-> witness.assigned[RootOf(merged.parents, t)]]]

(* plan                                                                    *)
PrepareCertificate(module, core) ==
    LET start == [terms |-> [i \in DOMAIN core.nodes |-> VariableTerm], equations |-> <<>>,
                  definitions |-> <<>>, unsupported |-> FALSE]
        Annotate(c, d) == LET type == SchemaTerm(c, d.annotation, <<>>)
                          IN  [type.c EXCEPT !.definitions = Append(@, type.t)]
        annotated == FoldLeft(Annotate, start, module)
        Check(c, i) == Constrain(EquationsOf(core, c, core.definitions[i], <<>>), c.definitions[i], core.definitions[i])
        checked == FoldLeft(Check, annotated, [i \in DOMAIN module |-> i])
    IN  IF \E i \in DOMAIN module : module[i].annotation = NoType THEN NoCertificate
        ELSE IF annotated.unsupported \/ checked.unsupported THEN NoCertificate
        ELSE Solution(checked.terms, checked.equations) @@ [entry |-> module[core.entry].annotation]

(***************************************************************************)
(* The check on the device                                                 *)
(***************************************************************************)
(* packPlans: the tables of all plans, one after the other; every record   *)
(* has its owner, and every index is moved by what comes before its plan.  *)
PackPlans(plans) ==
    LET Before(i, Size(_)) == FoldLeft(LAMBDA n, p : n + Size(p), 0, SubSeq(plans, 1, i - 1))
        terms(i) == Before(i, LAMBDA p : Len(p.terms))
        types(i) == Before(i, LAMBDA p : Len(p.types))
        equations(i) == Before(i, LAMBDA p : Len(p.equations))
        Moved(children, by) == [k \in DOMAIN children |-> IF children[k] = NoTerm THEN NoTerm ELSE children[k] + by]
        All(Table(_)) == FlattenSeq([i \in DOMAIN plans |-> Table(i)])
    IN  [terms |-> All(LAMBDA i : [t \in DOMAIN plans[i].terms |->
             [owner |-> i, assignment |-> plans[i].assignments[t] + types(i)]
             @@ [plans[i].terms[t] EXCEPT !.children = Moved(@, terms(i))]]),
         types |-> All(LAMBDA i : [t \in DOMAIN plans[i].types |->
             [owner |-> i] @@ [plans[i].types[t] EXCEPT !.children = Moved(@, types(i))]]),
         equations |-> All(LAMBDA i : [e \in DOMAIN plans[i].equations |->
             [owner |-> i, left |-> plans[i].equations[e][1] + terms(i), right |-> plans[i].equations[e][2] + terms(i)]]),
         owned |-> [i \in DOMAIN plans |->
             [terms |-> terms(i) + 1 .. terms(i + 1), types |-> types(i) + 1 .. types(i + 1),
              equations |-> equations(i) + 1 .. equations(i + 1)]]]

(* check_term, check_witness_type and check_constraint                     *)
TermHolds(p, index) ==
    LET term == p.terms[index]
        type == p.types[term.assignment]
        own == p.owned[term.owner]
        ChildMatches(child, expected) ==
            IF NoTerm \in {child, expected} THEN child = expected
            ELSE child \in own.terms /\ p.terms[child].owner = term.owner /\ p.terms[child].assignment = expected
    IN  /\ index \in own.terms /\ term.assignment \in own.types
        /\ type.owner = term.owner
        /\ term.kind # "variable" =>
               /\ term.kind = type.kind /\ term.payload = type.payload
               /\ \A k \in 1 .. 2 : ChildMatches(term.children[k], type.children[k])
WitnessHolds(p, index) ==
    LET type == p.types[index]
        own == p.owned[type.owner].types
    IN  /\ index \in own
        /\ \A k \in 1 .. 2 : type.children[k] # NoTerm => type.children[k] \in own /\ type.children[k] < index
EquationHolds(p, index) ==
    LET e == p.equations[index]
        own == p.owned[e.owner]
    IN  /\ index \in own.equations /\ {e.left, e.right} \subseteq own.terms
        /\ p.terms[e.left].owner = e.owner /\ p.terms[e.right].owner = e.owner
        /\ p.terms[e.left].assignment = p.terms[e.right].assignment

(* check: a plan is accepted unless a record of its own fails.             *)
CheckCertificates(plans) ==
    LET p == PackPlans(plans)
        failed == {p.terms[i].owner : i \in {j \in DOMAIN p.terms : ~TermHolds(p, j)}}
                  \cup {p.types[i].owner : i \in {j \in DOMAIN p.types : ~WitnessHolds(p, j)}}
                  \cup {p.equations[i].owner : i \in {j \in DOMAIN p.equations : ~EquationHolds(p, j)}}
    IN  [i \in DOMAIN plans |-> i \notin failed]
=============================================================================
