-------------------------- MODULE SurfaceElaboration --------------------------
(***************************************************************************)
(* What a frontend writes and how it becomes the surface that the compiler *)
(* takes in (src/src/functional/surface_builder.ts, recursive_groups.ts,   *)
(* case_defaults.ts, structural_record.ts): a case may have a default, and *)
(* local functions may be defined by each other in a group.  Defaults are  *)
(* expanded into the arms that are missing, groups are lifted to the top   *)
(* level, and an application of a function whose arity is known becomes    *)
(* one of exactly so many arguments.                                       *)
(*                                                                         *)
(* A definition with parameters is one whose body is a lambda.  Names that *)
(* the code makes with counters are made here from the position of the     *)
(* expression.                                                             *)
(***************************************************************************)
EXTENDS SurfaceSyntax, SequencesExt

CONSTANTS SurfaceTypes,   \* the types that every module gets without declaring them
          MaximumCaptures \* of one recursive group

WithDefault(scrutinee, arms, binder, body) ==
    [k |-> "default", scrutinee |-> scrutinee, arms |-> arms, otherwise |-> [xs |-> binder, body |-> body]]
Group(bindings, body) == [k |-> "group", bindings |-> bindings, body |-> body]
Binding(name, at, xs, body) == [name |-> name, at |-> at, xs |-> xs, body |-> body]

(***************************************************************************)
(* What the builder offers beyond the expressions themselves               *)
(***************************************************************************)
Delay(value) == Apply(Name("$Thunk"), <<value>>)
ForceThunk(value) == Case(value, <<Arm("$Thunk", <<"$forcedThunkValue">>, Name("$forcedThunkValue"))>>)
Join(name, parameter, body, continuation) == Let(name, Lambda(<<parameter>>, continuation), body)
Jump(name, value) == Apply(Name(name), <<value>>)
WithEffectHandler(operation, implementation, body) == Let(operation, implementation, body)

(* Records are constructors with named fields; what has a field, or can be *)
(* extended, is shown by evidence that carries the function that does it.  *)
ApplyConstructor(con, values) == IF values = <<>> THEN Name(con) ELSE Apply(Name(con), values)
StructuralRecord(layout, fields) == ApplyConstructor(layout.con, [i \in DOMAIN layout.fields |-> fields[layout.fields[i]]])
FieldBinders(role, layout) == [i \in DOMAIN layout.fields |-> role \o layout.fields[i]]
HasFieldEvidence(layout, field, con) ==
    Apply(Name(con), <<Lambda(<<"$structuralRecord">>,
        Case(Name("$structuralRecord"), <<Arm(layout.con, FieldBinders("$field:", layout), Name("$field:" \o field))>>))>>)
ProjectField(con, record, evidence) ==
    Case(evidence, <<Arm(con, <<"$project">>, Apply(Name("$project"), <<record>>))>>)
ExtendRecordEvidence(source, patch, result, con) ==
    LET Extended(field) == Name((IF field \in ToSet(patch.fields) THEN "$patch:" ELSE "$source:") \o field)
    IN  Apply(Name(con), <<Lambda(<<"$extendSource", "$extendPatch">>,
            Case(Name("$extendSource"), <<Arm(source.con, FieldBinders("$source:", source),
                Case(Name("$extendPatch"), <<Arm(patch.con, FieldBinders("$patch:", patch),
                    ApplyConstructor(result.con, [i \in DOMAIN result.fields |-> Extended(result.fields[i])]))>>))>>))>>)
ExtendRecord(con, record, patch, evidence) ==
    Case(evidence, <<Arm(con, <<"$extendRecord">>, Apply(Name("$extendRecord"), <<record, patch>>))>>)

(***************************************************************************)
(* The parts of an expression, each with the names that are bound in it,   *)
(* and the expression with other parts.                                    *)
(***************************************************************************)
Part(e, xs) == [e |-> e, xs |-> xs]
ArmParts(arms) == [i \in DOMAIN arms |-> Part(arms[i].body, arms[i].xs)]
Free(es) == [i \in DOMAIN es |-> Part(es[i], <<>>)]
NamesOfGroup(e) == [i \in DOMAIN e.bindings |-> e.bindings[i].name]
Parts(e) ==
    CASE e.k \in {"int", "bool", "fault", "name"} -> <<>>
      [] e.k = "let"     -> <<Part(e.value, <<>>), Part(e.body, <<e.x>>)>>
      [] e.k = "letrec"  -> <<Part(e.value, <<e.x>>), Part(e.body, <<e.x>>)>>
      [] e.k = "group"   -> [i \in DOMAIN e.bindings |-> Part(e.bindings[i].body, NamesOfGroup(e) \o e.bindings[i].xs)]
                            \o <<Part(e.body, NamesOfGroup(e))>>
      [] e.k = "if"      -> Free(<<e.test, e.consequent, e.alternate>>)
      [] e.k = "lambda"  -> <<Part(e.body, e.xs)>>
      [] e.k = "apply"   -> Free(<<e.f>> \o e.args)
      [] e.k = "prim"    -> Free(e.args)
      [] e.k = "case"    -> <<Part(e.scrutinee, <<>>)>> \o ArmParts(e.arms)
      [] e.k = "default" -> <<Part(e.scrutinee, <<>>)>> \o ArmParts(e.arms) \o <<Part(e.otherwise.body, e.otherwise.xs)>>

ArmsWith(arms, bodies) == [i \in DOMAIN arms |-> [arms[i] EXCEPT !.body = bodies[i]]]
WithParts(e, parts) ==
    CASE e.k \in {"int", "bool", "fault", "name"} -> e
      [] e.k \in {"let", "letrec"} -> [e EXCEPT !.value = parts[1], !.body = parts[2]]
      [] e.k = "group"   -> [e EXCEPT !.bindings = [i \in DOMAIN @ |-> [@[i] EXCEPT !.body = parts[i]]], !.body = Last(parts)]
      [] e.k = "if"      -> [e EXCEPT !.test = parts[1], !.consequent = parts[2], !.alternate = parts[3]]
      [] e.k = "lambda"  -> [e EXCEPT !.body = parts[1]]
      [] e.k = "apply"   -> [e EXCEPT !.f = parts[1], !.args = Tail(parts)]
      [] e.k = "prim"    -> [e EXCEPT !.args = parts]
      [] e.k = "case"    -> [e EXCEPT !.scrutinee = parts[1], !.arms = ArmsWith(@, Tail(parts))]
      [] e.k = "default" -> [e EXCEPT !.scrutinee = parts[1], !.arms = ArmsWith(@, Tail(parts)), !.otherwise.body = Last(parts)]

RECURSIVE WrittenNames(_)
WrittenNames(e) ==
    IF e.k = "name" THEN {e.x}
    ELSE UNION {WrittenNames(Parts(e)[i].e) \ ToSet(Parts(e)[i].xs) : i \in DOMAIN Parts(e)}

RECURSIVE Within(_)
Within(e) == {e} \cup UNION {Within(Parts(e)[i].e) : i \in DOMAIN Parts(e)}
Everything(definitions) == UNION {Within(definitions[i].body) : i \in DOMAIN definitions}

(* A name of its own for a role and a place in the module.                 *)
Fresh(role, path) == role \o ToString(path)

(***************************************************************************)
(* elaborateCaseDefaults                                                   *)
(***************************************************************************)
DeclaredInModule(con) == con \in ConstructorNames /\ OwnerOf(con) \notin SurfaceTypes
MissingConstructors(arms) ==
    LET named == arms[SelectInSeq(arms, LAMBDA a : DeclaredInModule(a.con))]
    IN  SelectSeq(Shape(OwnerOf(named.con)).constructors, LAMBDA c : \A i \in DOMAIN arms : arms[i].con # c.name)

ExpandDefault(e, path) ==
    LET missing == MissingConstructors(e.arms)
        value == Fresh("$caseDefaultValue", path)
        fallback == Fresh("$caseDefaultArm", path)
        binder == IF e.otherwise.xs = <<>> THEN <<Fresh("$caseDefaultIgnored", path)>> ELSE e.otherwise.xs
        FallBack(c) == Arm(c.name, [i \in DOMAIN c.fields |-> Fresh("$caseDefaultField", path \o <<i>>)],
                           Apply(Name(fallback), <<Name(value)>>))
    IN  IF missing = <<>> THEN Case(e.scrutinee, e.arms)
        ELSE Let(value, e.scrutinee,
                 Let(fallback, Lambda(binder, e.otherwise.body),
                     Case(Name(value), e.arms \o [i \in DOMAIN missing |-> FallBack(missing[i])])))

RECURSIVE ExpandDefaults(_, _)
ExpandDefaults(e, path) ==
    LET expanded == WithParts(e, [i \in DOMAIN Parts(e) |-> ExpandDefaults(Parts(e)[i].e, Append(path, i))])
    IN  IF e.k = "default" THEN ExpandDefault(expanded, path) ELSE expanded

(***************************************************************************)
(* elaborateRecursiveGroups: what a group captures becomes the first       *)
(* parameters of each of its functions, and a use of one is its            *)
(* application to what is captured.                                        *)
(***************************************************************************)
RECURSIVE RewriteNames(_, _)
RewriteNames(e, replacements) ==
    IF e.k = "name" THEN IF e.x \in DOMAIN replacements THEN replacements[e.x] ELSE e
    ELSE WithParts(e, [i \in DOMAIN Parts(e) |->
             RewriteNames(Parts(e)[i].e, Restrict(replacements, DOMAIN replacements \ ToSet(Parts(e)[i].xs)))])

Captured(group, lexical) ==
    lexical \cap UNION {WrittenNames(b.body) \ (ToSet(NamesOfGroup(group)) \cup ToSet(b.xs)) : b \in ToSet(group.bindings)}

GroupIsValid(group, captured) ==
    /\ group.bindings # <<>> /\ IsInjective(NamesOfGroup(group))
    /\ \A b \in ToSet(group.bindings) : IsInjective(b.xs)
    /\ Cardinality(captured) <= MaximumCaptures

(* An expression without groups, the definitions that were lifted out of   *)
(* it, and whether that worked.                                            *)
Lifted(e, definitions, valid) == [e |-> e, definitions |-> definitions, valid |-> valid]
LiftedAll(results) == FlattenSeq([i \in DOMAIN results |-> results[i].definitions])

RECURSIVE LiftGroups(_, _, _)
LiftGroup(e, lexical, path) ==
    LET captured == Captured(e, lexical)
        captures == SetToSeq(captured)
        generated == [i \in DOMAIN e.bindings |-> Fresh("$recursiveGroup", path) \o "$" \o e.bindings[i].name]
        Use(name) == ApplyConstructor(name, [i \in DOMAIN captures |-> Name(captures[i])])
        replacements == [x \in ToSet(NamesOfGroup(e)) |-> Use(generated[IndexFirstSubSeq(<<x>>, NamesOfGroup(e))])]
        parameters == [i \in DOMAIN e.bindings |-> captures \o e.bindings[i].xs]
        Function(i, body) ==
            [name |-> generated[i], annotation |-> NoType, at |-> e.bindings[i].at,
             body |-> IF parameters[i] = <<>> THEN body ELSE Lambda(parameters[i], body)]
        rewritten == [i \in DOMAIN e.bindings |->
            RewriteNames(e.bindings[i].body, Restrict(replacements, DOMAIN replacements \ ToSet(e.bindings[i].xs)))]
        inner == [i \in DOMAIN e.bindings |-> LiftGroups(rewritten[i], ToSet(parameters[i]), Append(path, i))]
        body == LiftGroups(RewriteNames(e.body, replacements), lexical, Append(path, 0))
        functions == [i \in DOMAIN e.bindings |-> Append(inner[i].definitions, Function(i, inner[i].e))]
    IN  IF ~GroupIsValid(e, captured) THEN Lifted(e, <<>>, FALSE)
        ELSE Lifted(body.e, FlattenSeq(functions) \o body.definitions, body.valid /\ \A i \in DOMAIN inner : inner[i].valid)
LiftGroups(e, lexical, path) ==
    LET parts == Parts(e)
        lifted == [i \in DOMAIN parts |-> LiftGroups(parts[i].e, lexical \cup ToSet(parts[i].xs), Append(path, i))]
    IN  IF e.k = "group" THEN LiftGroup(e, lexical, path)
        ELSE Lifted(WithParts(e, [i \in DOMAIN parts |-> lifted[i].e]), LiftedAll(lifted), \A i \in DOMAIN parts : lifted[i].valid)

(* The lifted definitions go before the first definition that is written   *)
(* after them, in the order in which they are written themselves.          *)
MergeDefinitions(originals, generated) ==
    LET ranked == [i \in DOMAIN generated |-> <<generated[i].at, i>>]
        order == SortSeq(ranked, LAMBDA a, b : a[1] < b[1] \/ (a[1] = b[1] /\ a[2] < b[2]))
        sorted == [i \in DOMAIN order |-> generated[order[i][2]]]
        Before(i) == Cardinality({g \in DOMAIN sorted : \E j \in 1 .. i : sorted[g].at < originals[j].at})
    IN  FlattenSeq([i \in DOMAIN originals |-> Append(SubSeq(sorted, Before(i - 1) + 1, Before(i)), originals[i])])
        \o SubSeq(sorted, Before(Len(originals)) + 1, Len(sorted))

(***************************************************************************)
(* SurfaceExpressionEncoder: applications                                  *)
(***************************************************************************)
CallableArities(definitions) ==
    LET functions == {d \in ToSet(definitions) : d.body.k = "lambda"}
    IN  [x \in {d.name : d \in functions} |-> Len((CHOOSE d \in functions : d.name = x).body.xs)]
        @@ [c \in {c \in ConstructorNames : Arity(c) > 0} |-> Arity(c)]

RECURSIVE FlatCall(_)
FlatCall(e) == IF e.k # "apply" THEN Apply(e, <<>>) ELSE Apply(FlatCall(e.f).f, FlatCall(e.f).args \o e.args)

RECURSIVE Emit(_, _, _)
EmitApplication(call, arities, path) ==
    LET n == Len(call.args)
        callee == Emit(call.f, arities, Append(path, 0))
        args == [i \in 1 .. n |-> Emit(call.args[i], arities, Append(path, i))]
        known == call.f.k = "name" /\ call.f.x \in DOMAIN arities
        arity == arities[call.f.x]
        etas == [i \in 1 .. arity - n |-> Fresh("$eta", Append(path, i))]
    IN  CASE known /\ n < arity -> Lambda(etas, Apply(callee, args \o [i \in DOMAIN etas |-> Name(etas[i])]))
          [] known /\ n > arity -> Apply(Apply(callee, SubSeq(args, 1, arity)), SubSeq(args, arity + 1, n))
          [] OTHER -> Apply(callee, args)
Emit(e, arities, path) ==
    IF e.k = "apply" THEN EmitApplication(FlatCall(e), arities, path)
    ELSE WithParts(e, [i \in DOMAIN Parts(e) |-> Emit(Parts(e)[i].e, arities, Append(path, i))])

(***************************************************************************)
(* buildSurfaceModule                                                      *)
(***************************************************************************)
(* The type of thunks is only there when a name refers to its constructor. *)
ConstructorIsThere(con, definitions) ==
    /\ con \in ConstructorNames
    /\ con = "$Thunk" => \E e \in Everything(definitions) : e.k = "name" /\ e.x = "$Thunk"
DefaultsHaveOwners(definitions) ==
    \A e \in Everything(definitions) : e.k = "default" => \E i \in DOMAIN e.arms : DeclaredInModule(e.arms[i].con)

Refused == [valid |-> FALSE, module |-> <<>>]
Expanded(definitions) == [d \in DOMAIN definitions |-> [definitions[d] EXCEPT !.body = ExpandDefaults(@, <<d>>)]]
LiftedBodies(expanded) == [d \in DOMAIN expanded |-> LiftGroups(expanded[d].body, {}, <<d>>)]
Merged(expanded, lifted) ==
    MergeDefinitions([d \in DOMAIN expanded |-> [expanded[d] EXCEPT !.body = lifted[d].e]], LiftedAll(lifted))
Encoded(merged, arities) ==
    [d \in DOMAIN merged |-> [name |-> merged[d].name, annotation |-> merged[d].annotation,
                              body |-> Emit(merged[d].body, arities, <<d>>)]]
ConstructorsMatched(definitions) ==
    UNION {{e.arms[i].con : i \in DOMAIN e.arms} : e \in {e \in Everything(definitions) : e.k = "case"}}

EncodeModule(definitions, merged) ==
    IF \E con \in ConstructorsMatched(merged) : ~ConstructorIsThere(con, definitions) THEN Refused
    ELSE [valid |-> TRUE, module |-> Encoded(merged, CallableArities(merged))]
LiftModule(definitions, expanded, lifted) ==
    IF \A d \in DOMAIN lifted : lifted[d].valid THEN EncodeModule(definitions, Merged(expanded, lifted)) ELSE Refused
ExpandModule(definitions, expanded) == LiftModule(definitions, expanded, LiftedBodies(expanded))
BuildSurfaceModule(definitions) ==
    IF DefaultsHaveOwners(definitions) THEN ExpandModule(definitions, Expanded(definitions)) ELSE Refused

(***************************************************************************)
(* Two of the rewritings look at names and not at what they stand for: a   *)
(* use of a function of a group names what the group has captured, also    *)
(* where that name has been bound again; and a local name is applied as if *)
(* it were the definition of that name.  An application to nothing is one  *)
(* to too few arguments: a function where a call was written.              *)
(***************************************************************************)
BindersWithin(e) == UNION {UNION {ToSet(Parts(f)[i].xs) : i \in DOMAIN Parts(f)} : f \in Within(e)}
CapturesAreRebound(definitions) ==
    \E e \in Everything(definitions) :
        e.k = "group" /\ UNION {WrittenNames(b.body) \ ToSet(b.xs) : b \in ToSet(e.bindings)} \cap (BindersWithin(e) \ ToSet(NamesOfGroup(e))) # {}
ArityOfAnother(definitions) ==
    \E d, e \in ToSet(definitions) : \E f \in Within(e.body) :
        /\ d.body.k = "lambda"
        /\ \E i \in DOMAIN Parts(f) : d.name \in ToSet(Parts(f)[i].xs)
        /\ ~(f.k \in {"let", "letrec"} /\ f.value.k = "lambda" /\ Len(f.value.xs) = Len(d.body.xs))
AppliesToNothing(definitions) == \E e \in Everything(definitions) : e.k = "apply" /\ e.args = <<>>
=============================================================================
