---------------------------- MODULE TypeInference ----------------------------
(***************************************************************************)
(* Type inference on the host (src/src/semantic/type_inference.ts): the    *)
(* inference of rank-1 types with indexed (generalised algebraic) data.    *)
(*                                                                         *)
(* The mutable objects of the code are cells of a store that every         *)
(* operator takes and returns: a cell is an inference variable, whose link *)
(* is its instance, or a rigid variable, whose link is the equality that a *)
(* case arm has learnt.  Operators have the names of the methods.          *)
(***************************************************************************)
EXTENDS DefinitionGraph

(* A type of the store: Con(name, arguments) or a cell.                    *)
Cell(id) == [k |-> "cell", id |-> id]
Unset == [k |-> "unset"]
Monotype(type) == [parameters |-> {}, type |-> type]

Variable == [kind |-> "variable", link |-> Unset, origin |-> "none", scope |-> 0]
Rigid(origin, scope) == [kind |-> "rigid", link |-> Unset, origin |-> origin, scope |-> scope]

(* InferenceContext: cells, #refinementTrail, #rigidScope,                 *)
(* #untouchableTypeVariableCutoff, #globalSchemes, the diagnostic thrown,  *)
(* and shortened, a ghost: some variable was bound to what a rigid variable *)
(* equals in one arm only.                                                 *)
EmptyContext ==
    [cells |-> <<>>, trail |-> <<>>, scope |-> 0, cutoff |-> 0, globals |-> <<>>,
     code |-> "none", shortened |-> FALSE]

Throws(s, code) == IF s.code = "none" THEN [s EXCEPT !.code = code] ELSE s
Fails(s) == s.code # "none"

Fresh(s, cell) == [s |-> [s EXCEPT !.cells = Append(@, cell)], type |-> Cell(Len(s.cells) + 1)]
InferenceVariable(s) == Fresh(s, Variable)

(***************************************************************************)
(* prune: follow the links of a cell.  Every variable on the way is bound  *)
(* to the end of the chain, also when the chain leads through a rigid      *)
(* variable that an arm has refined.                                       *)
(***************************************************************************)
RECURSIVE Resolve(_, _)
Resolve(s, t) ==
    IF t.k = "con" \/ s.cells[t.id].link = Unset THEN t ELSE Resolve(s, s.cells[t.id].link)

RECURSIVE ThroughRefinement(_, _)
ThroughRefinement(s, t) ==
    /\ t.k = "cell" /\ s.cells[t.id].link # Unset
    /\ s.cells[t.id].kind = "rigid" \/ ThroughRefinement(s, s.cells[t.id].link)

RECURSIVE Prune(_, _)
Prune(s, t) ==
    IF t.k = "con" \/ s.cells[t.id].link = Unset THEN s
    ELSE LET below == Prune(s, s.cells[t.id].link)
         IN  IF s.cells[t.id].kind = "rigid" THEN below
             ELSE [below EXCEPT !.cells[t.id].link = Resolve(s, t),
                                !.shortened = @ \/ ThroughRefinement(s, t)]

(***************************************************************************)
(* The walks over a type that prune every part of it, in order: occurs,    *)
(* rigidOccurs, firstInferenceVariable and containsTypeParameter end at    *)
(* the first of the cells they look for; freeTypeParameters and formatType *)
(* go on to the end.                                                       *)
(***************************************************************************)
RECURSIVE Walk(_, _, _, _)
Walk(s, todo, targets, seen) ==
    IF todo = <<>> THEN [s |-> s, seen |-> seen, found |-> FALSE]
    ELSE LET pruned == Prune(s, Head(todo))
             t == Resolve(s, Head(todo))
         IN  IF t.k = "con" THEN Walk(pruned, t.args \o Tail(todo), targets, seen)
             ELSE IF t.id \in targets THEN [s |-> pruned, seen |-> seen \cup {t.id}, found |-> TRUE]
             ELSE Walk(pruned, Tail(todo), targets, seen \cup {t.id})

FreeTypeParameters(s, t) == Walk(s, <<t>>, {}, {})
Occurs(s, id, t) == Walk(s, <<t>>, {id}, {})
VariablesOf(s) == {id \in DOMAIN s.cells : s.cells[id].kind = "variable"}
FirstInferenceVariable(s, t) == Walk(s, <<t>>, VariablesOf(s), {})
ContainsTypeParameter(s, t) == Walk(s, <<t>>, DOMAIN s.cells, {})

(***************************************************************************)
(* Unification                                                             *)
(***************************************************************************)
(* An arm may not solve the variables that are older than it.              *)
Untouchable(s, id) == id < s.cutoff

BindVariable(s, id, t) ==
    IF Untouchable(s, id) THEN Throws(s, "F2101")
    ELSE LET walk == Occurs(s, id, t)
         IN  IF walk.found THEN Throws(walk.s, "F2103")
             ELSE [walk.s EXCEPT !.cells[id].link = t]

IsVariable(s, t) == t.k = "cell" /\ s.cells[t.id].kind = "variable"

RECURSIVE Unify(_, _, _)
Unify(s, expected, received) ==
    IF Fails(s) THEN s
    ELSE LET left == Resolve(s, expected)
             right == Resolve(s, received)
             pruned == Prune(Prune(s, expected), received)
         IN  IF left = right THEN pruned
             ELSE IF IsVariable(s, left) THEN BindVariable(pruned, left.id, right)
             ELSE IF IsVariable(s, right) THEN BindVariable(pruned, right.id, left)
             ELSE IF \/ left.k = "cell" \/ right.k = "cell"
                     \/ left.name # right.name \/ Len(left.args) # Len(right.args)
                  THEN Throws(pruned, "F2102")
             ELSE LET after[i \in 0 .. Len(left.args)] ==
                          IF i = 0 THEN pruned ELSE Unify(after[i - 1], left.args[i], right.args[i])
                  IN  after[Len(left.args)]

(***************************************************************************)
(* Refinement of rigid variables by the result of a pattern constructor    *)
(***************************************************************************)
RefineRigid(s, id, target) ==
    LET walk == Occurs(s, id, target)
    IN  IF walk.found THEN [s |-> walk.s, matches |-> FALSE]
        ELSE [s |-> [walk.s EXCEPT !.trail = Append(@, [source |-> id, previous |-> s.cells[id].link]),
                                   !.cells[id].link = target],
              matches |-> TRUE]

(* Of two rigid variables the one of the inner scope, then the newer one.  *)
RefinedFirst(s, a, b) ==
    \/ s.cells[a].scope > s.cells[b].scope
    \/ s.cells[a].scope = s.cells[b].scope /\ a > b

RECURSIVE MatchPatternType(_, _, _)
MatchPatternType(s, pattern, scrutinee) ==
    LET left == Resolve(s, pattern)
        right == Resolve(s, scrutinee)
        pruned == Prune(Prune(s, pattern), scrutinee)
        RigidCell(t) == t.k = "cell" /\ ~IsVariable(s, t)
        Step(r, i) == IF r.matches THEN MatchPatternType(r.s, left.args[i], right.args[i]) ELSE r
        after[i \in 0 .. Len(left.args)] == IF i = 0 THEN [s |-> pruned, matches |-> TRUE] ELSE Step(after[i - 1], i)
    IN  IF left = right THEN [s |-> pruned, matches |-> TRUE]
        ELSE IF IsVariable(s, left) \/ IsVariable(s, right) THEN [s |-> pruned, matches |-> FALSE]
        ELSE IF RigidCell(left) /\ (RigidCell(right) => RefinedFirst(s, left.id, right.id))
             THEN RefineRigid(pruned, left.id, right)
        ELSE IF RigidCell(right) THEN RefineRigid(pruned, right.id, left)
        ELSE IF left.name # right.name \/ Len(left.args) # Len(right.args) THEN [s |-> pruned, matches |-> FALSE]
        ELSE after[Len(left.args)]

RECURSIVE RollbackRefinements(_, _)
RollbackRefinements(s, checkpoint) ==
    IF Len(s.trail) <= checkpoint THEN s
    ELSE LET last == Last(s.trail)
         IN  RollbackRefinements([s EXCEPT !.trail = Front(@), !.cells[last.source].link = last.previous], checkpoint)

(***************************************************************************)
(* Schemes                                                                 *)
(***************************************************************************)
(* replaceParameters: a copy of a type, pruned throughout.                 *)
RECURSIVE Replaced(_, _, _)
Replaced(s, t, replacement) ==
    LET r == Resolve(s, t)
    IN  IF r.k = "con" THEN Con(r.name, [i \in DOMAIN r.args |-> Replaced(s, r.args[i], replacement)])
        ELSE IF r.id \in DOMAIN replacement THEN replacement[r.id] ELSE r

ReplaceParameters(s, t, replacement) == [s |-> FreeTypeParameters(s, t).s, type |-> Replaced(s, t, replacement)]

(* One fresh cell for each parameter.                                      *)
Replacements(s, parameters, cell) ==
    LET order == SetToSeq(parameters)
    IN  [s |-> [s EXCEPT !.cells = @ \o [i \in DOMAIN order |-> cell]],
         map |-> [id \in parameters |-> Cell(Len(s.cells) + (CHOOSE i \in DOMAIN order : order[i] = id))]]

InstantiateScheme(s, scheme) ==
    LET fresh == Replacements(s, scheme.parameters, Variable)
    IN  ReplaceParameters(fresh.s, scheme.type, fresh.map)

(* freeEnvironmentParameters, and generalize: what is free in the type and *)
(* not in the environment, but for the rigid variables of patterns.  The   *)
(* cache of schemes without free parameters is left out.                   *)
FreeEnvironmentParameters(s, env) ==
    LET Add(r, x) == LET walk == FreeTypeParameters(r.s, env[x].type)
                     IN  [s |-> walk.s, free |-> r.free \cup (walk.seen \ env[x].parameters)]
        names == SetToSeq(DOMAIN env)
        after[i \in 0 .. Len(names)] == IF i = 0 THEN [s |-> s, free |-> {}] ELSE Add(after[i - 1], names[i])
    IN  after[Len(names)]

MutantGeneralize(s, t, env) ==
    LET own == FreeTypeParameters(s, t)
    IN  [s |-> own.s, scheme |-> [type |-> t, parameters |-> {id \in own.seen : s.cells[id].origin # "pattern"}]]

Generalize(s, t, env) ==
    LET own == FreeTypeParameters(s, t)
        outer == FreeEnvironmentParameters(own.s, env)
    IN  [s |-> outer.s,
         scheme |-> [type |-> t,
                     parameters |-> {id \in own.seen \ outer.free : s.cells[id].origin # "pattern"}]]

(***************************************************************************)
(* Declarations                                                            *)
(***************************************************************************)
(* typeFromSchema.  Parameters that are not declared are in scope only in  *)
(* an annotation without forall, where each becomes a rigid variable; so   *)
(* does an unknown type without arguments.                                 *)
RECURSIVE TypeFromSchema(_, _, _, _)
TypeFromSchema(s, schema, scope, implicit) ==
    LET Step(r, argument) ==
            LET converted == TypeFromSchema(r.s, argument, r.scope, implicit)
            IN  [s |-> converted.s, scope |-> converted.scope, args |-> Append(r.args, converted.type)]
        InScope(name) ==
            LET rigid == Fresh(s, Rigid("ambient", 0))
            IN  IF name \in DOMAIN scope THEN [s |-> s, scope |-> scope, type |-> scope[name]]
                ELSE IF implicit THEN [s |-> rigid.s, scope |-> name :> rigid.type @@ scope, type |-> rigid.type]
                ELSE [s |-> Throws(s, "F2101"), scope |-> scope, type |-> Integer]
    IN  IF Fails(s) THEN [s |-> s, scope |-> scope, type |-> Integer]
        ELSE CASE schema.k = "par" -> InScope(schema.name)
               [] schema.k = "forall" -> [s |-> Throws(s, "F2101"), scope |-> scope, type |-> Integer]
               [] schema.k = "con" /\ schema.name \notin BuiltIn \cup Declared ->
                      IF schema.args = <<>> /\ implicit THEN InScope(schema.name)
                      ELSE [s |-> Throws(s, "F2101"), scope |-> scope, type |-> Integer]
               [] schema.k = "con" /\ schema.name \in Declared /\ Len(Shape(schema.name).parameters) # Len(schema.args) ->
                      [s |-> Throws(s, "F2101"), scope |-> scope, type |-> Integer]
               [] OTHER -> LET after[i \in 0 .. Len(schema.args)] ==
                                   IF i = 0 THEN [s |-> s, scope |-> scope, args |-> <<>>] ELSE Step(after[i - 1], schema.args[i])
                               r == after[Len(schema.args)]
                           IN  [s |-> r.s, scope |-> r.scope, type |-> Con(schema.name, r.args)]

RigidScope(s, names) ==
    [s |-> [s EXCEPT !.cells = @ \o [i \in DOMAIN names |-> Rigid("ambient", 0)]],
     map |-> [name \in ToSet(names) |-> Cell(Len(s.cells) + (CHOOSE i \in DOMAIN names : names[i] = name))]]

DefinitionAnnotationType(s, schema) ==
    IF schema.k # "forall" THEN TypeFromSchema(s, schema, <<>>, TRUE)
    ELSE LET scope == RigidScope(s, schema.parameters)
         IN  TypeFromSchema(scope.s, schema.body, scope.map, FALSE)

RECURSIVE SchemaParameters(_)
SchemaParameters(schema) ==
    IF schema.k = "par" THEN {schema.name}
    ELSE IF schema.k = "con" THEN UNION {SchemaParameters(schema.args[i]) : i \in DOMAIN schema.args}
    ELSE {}

(* buildConstructorTypes: the function type of each constructor becomes a  *)
(* global scheme.  An indexed result has the head of its declaration, and  *)
(* every parameter of a field occurs in it.                                *)
RECURSIVE FunctionType(_, _)
FunctionType(parameters, result) ==
    IF parameters = <<>> THEN result ELSE Fun(Head(parameters), FunctionType(Tail(parameters), result))

BuildConstructor(s, d, scope, c) ==
    LET Convert(r, field) == LET converted == TypeFromSchema(r.s, field, scope, FALSE)
                             IN  [s |-> converted.s, types |-> Append(r.types, converted.type)]
        after[i \in 0 .. Len(c.fields)] == IF i = 0 THEN [s |-> s, types |-> <<>>] ELSE Convert(after[i - 1], c.fields[i])
        fields == after[Len(c.fields)]
        indexed == TypeFromSchema(fields.s, c.result, scope, FALSE)
        plain == Con(d.name, [i \in DOMAIN d.parameters |-> scope[d.parameters[i]]])
        misdeclared == \/ c.result.k # "con" \/ c.result.name # d.name
                       \/ \E i \in DOMAIN c.fields : ~ SchemaParameters(c.fields[i]) \subseteq SchemaParameters(c.result)
        result == IF c.result = NoType THEN plain ELSE indexed.type
        s1 == IF c.result = NoType THEN fields.s
              ELSE IF misdeclared THEN Throws(indexed.s, "F2101") ELSE indexed.s
        scheme == [parameters |-> {scope[p].id : p \in DOMAIN scope}, type |-> FunctionType(fields.types, result),
                   fields |-> fields.types, result |-> result]
    IN  IF Fails(s1) THEN s1 ELSE [s1 EXCEPT !.globals = c.name :> scheme @@ @]

BuildConstructorTypes(s) ==
    LET Declare(u, d) ==
            LET scope == RigidScope(u, d.parameters)
                built[j \in 0 .. Len(d.constructors)] ==
                    IF j = 0 THEN scope.s ELSE BuildConstructor(built[j - 1], d, scope.map, d.constructors[j])
            IN  IF Fails(u) THEN u ELSE built[Len(d.constructors)]
        after[i \in 0 .. Len(TypeDeclarations)] == IF i = 0 THEN s ELSE Declare(after[i - 1], TypeDeclarations[i])
    IN  IF \E i, j \in DOMAIN TypeDeclarations : i # j /\ TypeDeclarations[i].name = TypeDeclarations[j].name
        THEN Throws(s, "F2101")
        ELSE after[Len(TypeDeclarations)]

(***************************************************************************)
(* Expressions.  The result of inferring one is its type, the context, and *)
(* whether the type is the very object that was expected: an indexed case  *)
(* compares types by identity.                                             *)
(***************************************************************************)
Inferred(s, t) == [s |-> s, type |-> t, own |-> FALSE]
Thrown(s, code) == Inferred(Throws(s, code), Integer)
InferredVariable(s) == LET fresh == InferenceVariable(s) IN Inferred(fresh.s, fresh.type)

Lookup(s, env, x) == IF x \in DOMAIN env THEN env[x] ELSE s.globals[x]
Known(s, env, x) == x \in DOMAIN env \/ x \in DOMAIN s.globals

BindMonotypes(env, xs, types) ==
    [x \in ToSet(xs) |-> Monotype(types[CHOOSE i \in DOMAIN xs : xs[i] = x /\ \A j \in DOMAIN xs : xs[j] = x => j <= i])] @@ env

(* isStableConcrete: follows instances, not refinements, and prunes nothing. *)
RECURSIVE IsStableConcrete(_, _)
IsStableConcrete(s, t) ==
    IF t.k = "con" THEN \A i \in DOMAIN t.args : IsStableConcrete(s, t.args[i])
    ELSE IsVariable(s, t) /\ s.cells[t.id].link # Unset /\ IsStableConcrete(s, s.cells[t.id].link)

(* The parameters of a lambda take their types from the expected function. *)
LambdaParameters(s, xs, expected) ==
    LET count == IF xs = <<>> THEN 1 ELSE Len(xs)
        Step(r) ==
            LET pruned == IF r.expected = NoType THEN r.s ELSE Prune(r.s, r.expected)
                want == IF r.expected = NoType THEN NoType ELSE Resolve(r.s, r.expected)
                p == InferenceVariable(pruned)
                q == InferenceVariable(p.s)
                split == want # NoType /\ IsVariable(pruned, want)
                s1 == IF split THEN Unify(q.s, want, Fun(p.type, q.type)) ELSE pruned
                function == IF split THEN Fun(p.type, q.type) ELSE want
                known == function.k = "con" /\ function.name = "->"
                own == InferenceVariable(s1)
            IN  IF known THEN [s |-> s1, types |-> Append(r.types, function.args[1]), expected |-> function.args[2]]
                ELSE IF xs = <<>> THEN [s |-> s1, types |-> Append(r.types, UnitType), expected |-> NoType]
                ELSE [s |-> own.s, types |-> Append(r.types, own.type), expected |-> NoType]
        after[i \in 0 .. count] == IF i = 0 THEN [s |-> s, types |-> <<>>, expected |-> expected] ELSE Step(after[i - 1])
    IN  after[count]

(* An indexed case has a scrutinee of an indexed type, or an alternative   *)
(* of one.                                                                 *)
IndexedCaseShape(s, arms, scrutinee) ==
    LET t == Resolve(s, scrutinee)
        own == IF t.k = "con" /\ t.name \in Declared /\ IsIndexed(t.name) THEN <<t.name>> ELSE <<>>
        others == SelectSeq([i \in DOMAIN arms |-> OwnerOf(arms[i].con)], IsIndexed)
    IN  IF own # <<>> THEN own[1] ELSE IF others # <<>> THEN others[1] ELSE "none"

(* rigidifyInferenceVariables: what the scrutinee leaves open becomes a    *)
(* rigid variable that the arms may refine.                                *)
RECURSIVE RigidifyInferenceVariables(_, _)
RigidifyInferenceVariables(s, todo) ==
    IF todo = <<>> \/ Fails(s) THEN s
    ELSE LET pruned == Prune(s, Head(todo))
             t == Resolve(s, Head(todo))
             rigid == Fresh(pruned, Rigid("ambient", 0))
         IN  IF IsVariable(s, t) THEN RigidifyInferenceVariables(Unify(rigid.s, t, rigid.type), Tail(todo))
             ELSE IF t.k = "con" THEN RigidifyInferenceVariables(pruned, t.args \o Tail(todo))
             ELSE RigidifyInferenceVariables(pruned, Tail(todo))

ScrutineeOfShape(s, scrutinee, shape) ==
    LET t == Resolve(s, scrutinee)
        pruned == Prune(s, scrutinee)
        scope == RigidScope(pruned, Shape(shape).parameters)
        shaped == Con(shape, [i \in DOMAIN Shape(shape).parameters |-> scope.map[Shape(shape).parameters[i]]])
        s1 == IF IsVariable(s, t) THEN Unify(scope.s, t, shaped) ELSE RigidifyInferenceVariables(pruned, <<t>>)
        open == FirstInferenceVariable(s1, scrutinee)
        type == IF IsVariable(s, t) THEN shaped ELSE Resolve(s1, t)
    IN  IF open.found \/ type.k # "con" \/ type.name # shape THEN Thrown(open.s, "F2101")
        ELSE Inferred(open.s, type)

PatternConstructor(s, con) ==
    LET c == s.globals[con]
        fresh == Replacements(s, c.parameters, Rigid("pattern", s.scope))
        result == ReplaceParameters(fresh.s, c.result, fresh.map)
    IN  [s |-> result.s, result |-> result.type,
         fields |-> [i \in DOMAIN c.fields |-> Replaced(fresh.s, c.fields[i], fresh.map)]]

Missing(arms, type) == ConstructorsOf(type) \ {arms[i].con : i \in DOMAIN arms}

RECURSIVE InferNode(_, _, _, _)

(* Each arm of an ordinary case unifies the scrutinee with a fresh         *)
(* instance of its constructor, and its body, inferred without an          *)
(* expectation, with the result.                                           *)
InferOrdinaryCase(s, e, env, scrutinee) ==
    LET result == InferenceVariable(s)
        empty == Resolve(s, scrutinee)
        InferArm(u, arm) ==
            LET c == u.globals[arm.con]
                fresh == Replacements(u, c.parameters, Variable)
                copy == ReplaceParameters(fresh.s, c.result, fresh.map)
                fields == [i \in DOMAIN c.fields |-> Replaced(fresh.s, c.fields[i], fresh.map)]
                matched == Unify(copy.s, scrutinee, copy.type)
                body == InferNode(matched, arm.body, BindMonotypes(env, arm.xs, fields), NoType)
            IN  IF Fails(u) THEN u
                ELSE IF Len(arm.xs) # Len(fields) THEN Throws(matched, "F2101")
                ELSE IF Fails(matched) THEN matched
                ELSE Unify(body.s, result.type, body.type)
        after[i \in 0 .. Len(e.arms)] == IF i = 0 THEN result.s ELSE InferArm(after[i - 1], e.arms[i])
        arms == after[Len(e.arms)]
    IN  IF e.arms = <<>>
        THEN IF empty.k # "con" \/ empty.name \notin Declared THEN Thrown(result.s, "F2101")
             ELSE IF ConstructorsOf(empty.name) # {} THEN Thrown(result.s, "F2010")
             ELSE Inferred(result.s, result.type)
        ELSE IF Missing(e.arms, OwnerOf(e.arms[1].con)) # {} THEN Thrown(arms, "F2010")
        ELSE Inferred(arms, result.type)

(* One arm of an indexed case: what its pattern learns about the rigid     *)
(* variables holds in its body, which may solve none of the variables that *)
(* are older than the arm, and is rolled back at its end.  r.result is the *)
(* type that the arms so far agree on; r.deferred is an expected type with *)
(* unsolved variables, which is only unified outside the arm.              *)
InferIndexedArm(r, arm, env, scrutinee, shape) ==
    LET before == r.s
        inside == [before EXCEPT !.scope = @ + 1, !.cutoff = Len(before.cells) + 1]
        c == PatternConstructor(inside, arm.con)
        described == FreeTypeParameters(c.s, scrutinee).s
        match == MatchPatternType(described, c.result, scrutinee)
        wanted == IF r.result # NoType THEN r.result ELSE r.deferred
        body == InferNode(match.s, arm.body, BindMonotypes(env, arm.xs, c.fields), wanted)
        end == body.s
        bodyType == Resolve(end, body.type)
        isDeferred == /\ r.deferred # NoType
                      /\ bodyType = Resolve(end, r.deferred)
                      /\ bodyType.k = "con" => body.own
        pruned == IF r.deferred = NoType THEN end ELSE Prune(Prune(end, body.type), r.deferred)
        agreed == IF r.result # NoType THEN Unify(end, r.result, body.type)
                  ELSE IF isDeferred \/ IsStableConcrete(pruned, body.type) THEN pruned
                  ELSE Throws(pruned, "F2101")
        result == IF r.result # NoType THEN r.result ELSE IF isDeferred THEN r.deferred ELSE body.type
        after == [RollbackRefinements(agreed, Len(before.trail)) EXCEPT !.scope = before.scope, !.cutoff = before.cutoff]
    IN  IF Fails(before) THEN r
        ELSE IF OwnerOf(arm.con) # shape \/ ~match.matches THEN [r EXCEPT !.s = Throws(match.s, "F2102")]
        ELSE IF Len(arm.xs) # Len(c.fields) THEN [r EXCEPT !.s = Throws(match.s, "F2101")]
        ELSE IF Fails(agreed) THEN [r EXCEPT !.s = agreed]
        ELSE [result |-> result, deferred |-> NoType,
              own |-> r.own \/ (r.result = NoType /\ isDeferred),
              s |-> IF r.deferred = NoType THEN after ELSE Unify(after, r.deferred, result)]

(* A constructor is covered if an arm names it or if its result cannot     *)
(* match the scrutinee.                                                    *)
CoverIndexed(s, e, scrutinee, shape) ==
    LET Cover(u, con) ==
            LET c == PatternConstructor([u EXCEPT !.scope = @ + 1], con)
                match == MatchPatternType(c.s, c.result, scrutinee)
                after == [RollbackRefinements(match.s, Len(u.trail)) EXCEPT !.scope = u.scope]
            IN  IF Fails(u) THEN u
                ELSE IF match.matches /\ con \in Missing(e.arms, shape) THEN Throws(after, "F2010") ELSE after
        constructors == Shape(shape).constructors
        after[i \in 0 .. Len(constructors)] == IF i = 0 THEN s ELSE Cover(after[i - 1], constructors[i].name)
    IN  after[Len(constructors)]

InferIndexedCase(s, e, env, scrutinee, expected, shape) ==
    LET open == FirstInferenceVariable(s, expected)
        defer == expected # NoType /\ open.found
        shaped == ScrutineeOfShape(IF expected = NoType THEN s ELSE open.s, scrutinee, shape)
        start == [s |-> shaped.s, own |-> expected # NoType /\ ~defer,
                  result |-> IF defer THEN NoType ELSE expected,
                  deferred |-> IF defer THEN expected ELSE NoType]
        after[i \in 0 .. Len(e.arms)] ==
            IF i = 0 THEN start ELSE InferIndexedArm(after[i - 1], e.arms[i], env, shaped.type, shape)
        arms == after[Len(e.arms)]
        covered == CoverIndexed(arms.s, e, shaped.type, shape)
    IN  IF Fails(shaped.s) THEN shaped
        ELSE IF Fails(covered) THEN Inferred(covered, Integer)
        ELSE IF arms.result = NoType THEN Thrown(covered, "internal")
        ELSE [s |-> covered, type |-> arms.result, own |-> arms.own]

(* Operands are inferred with the types of the rule as expectations.       *)
(* StructuralEqual compares operands of any one type, StoreNew takes the   *)
(* element type from its second operand.                                   *)
InferPrim(s, e, env) ==
    LET element == IF e.op \in NumericPrimops THEN [s |-> s, type |-> NoType] ELSE InferenceVariable(s)
        signature == PrimopSignature(e.op, element.type)
        Operand(u, i) == LET r == InferNode(u, e.args[i], env, signature.operands[i])
                         IN  Unify(r.s, signature.operands[i], r.type)
        after[i \in 0 .. Len(e.args)] == IF i = 0 THEN element.s ELSE Operand(after[i - 1], i)
        left == InferNode(s, e.args[1], env, NoType)
        right == InferNode(left.s, e.args[2], env, left.type)
        size == InferNode(element.s, e.args[1], env, Integer)
        initial == InferNode(Unify(size.s, Integer, size.type), e.args[2], env, NoType)
    IN  CASE e.op = "StructuralEqual" -> Inferred(Unify(right.s, left.type, right.type), Boolean)
          [] e.op = "StoreNew" -> Inferred(initial.s, Con("Store", <<initial.type>>))
          [] OTHER -> Inferred(after[Len(e.args)], signature.result)

(* The arguments of an application one by one; the last result is what is  *)
(* expected.                                                               *)
InferApply(s, e, env, expected) ==
    LET callee == InferNode(s, e.f, env, NoType)
        Result(u, i) == IF i >= Len(e.args) /\ expected # NoType THEN [s |-> u, type |-> expected] ELSE InferenceVariable(u)
        Argument(r, i) ==
            LET argument == InferNode(r.s, e.args[i], env, NoType)
                result == Result(argument.s, i)
            IN  IF Fails(r.s) THEN r
                ELSE [s |-> Unify(result.s, r.type, Fun(argument.type, result.type)), type |-> result.type, own |-> FALSE]
        unit == Result(callee.s, 0)
        after[i \in 0 .. Len(e.args)] == IF i = 0 THEN callee ELSE Argument(after[i - 1], i)
        last == IF e.args # <<>> THEN after[Len(e.args)]
                ELSE [s |-> Unify(unit.s, callee.type, Fun(UnitType, unit.type)), type |-> unit.type]
    IN  [s |-> last.s, type |-> last.type, own |-> expected # NoType]

(* The branch that is not a case goes first, so that its type is there     *)
(* when the arms are checked.                                              *)
InferIf(s, e, env, expected) ==
    LET test == InferNode(s, e.test, env, Boolean)
        alternateFirst == e.consequent.k = "case" /\ e.alternate.k # "case"
        one == IF alternateFirst THEN e.alternate ELSE e.consequent
        two == IF alternateFirst THEN e.consequent ELSE e.alternate
        first == InferNode(Unify(test.s, Boolean, test.type), one, env, expected)
        s1 == IF expected = NoType THEN first.s ELSE Unify(first.s, expected, first.type)
        result == IF expected = NoType THEN first.type ELSE expected
        second == InferNode(s1, two, env, result)
    IN  [s |-> Unify(second.s, result, second.type), type |-> result, own |-> expected # NoType]

InferLetRec(s, e, env, expected) ==
    LET recursive == InferenceVariable(s)
        value == InferNode(recursive.s, e.value, e.x :> Monotype(recursive.type) @@ env, recursive.type)
        s1 == Unify(value.s, recursive.type, value.type)
        general == Generalize(s1, recursive.type, env)
    IN  IF Fails(s1) THEN Inferred(s1, Integer)
        ELSE InferNode(general.s, e.body, e.x :> general.scheme @@ env, expected)

InferLet(s, e, env, expected) ==
    LET value == InferNode(s, e.value, env, NoType)
        general == Generalize(value.s, value.type, env)
    IN  IF Fails(value.s) THEN value
        ELSE InferNode(general.s, e.body, e.x :> general.scheme @@ env, expected)

InferLambda(s, e, env, expected) ==
    LET parameters == LambdaParameters(s, e.xs, expected)
        scope == BindMonotypes(env, e.xs, parameters.types)
        body == InferNode(parameters.s, e.body, scope, parameters.expected)
    IN  Inferred(body.s, FunctionType(parameters.types, body.type))

InferCase(s, e, env, expected) ==
    LET scrutinee == InferNode(s, e.scrutinee, env, NoType)
        pruned == Prune(scrutinee.s, scrutinee.type)
        shape == IndexedCaseShape(pruned, e.arms, scrutinee.type)
    IN  IF Fails(scrutinee.s) THEN scrutinee
        ELSE IF shape # "none" THEN InferIndexedCase(pruned, e, env, scrutinee.type, expected, shape)
        ELSE InferOrdinaryCase(pruned, e, env, scrutinee.type)

InferName(s, e, env) ==
    IF ~Known(s, env, e.x) THEN Thrown(s, "F2101")
    ELSE LET r == InstantiateScheme(s, Lookup(s, env, e.x)) IN Inferred(r.s, r.type)

InferNode(s, e, env, expected) ==
    IF Fails(s) THEN Inferred(s, Integer)
    ELSE CASE e.k = "int"    -> Inferred(s, Integer)
           [] e.k = "bool"   -> Inferred(s, Boolean)
           [] e.k = "fault"  -> InferredVariable(s)
           [] e.k = "name"   -> InferName(s, e, env)
           [] e.k = "let"    -> InferLet(s, e, env, expected)
           [] e.k = "letrec" -> InferLetRec(s, e, env, expected)
           [] e.k = "if"     -> InferIf(s, e, env, expected)
           [] e.k = "lambda" -> InferLambda(s, e, env, expected)
           [] e.k = "apply"  -> InferApply(s, e, env, expected)
           [] e.k = "prim"   -> InferPrim(s, e, env)
           [] e.k = "case"   -> InferCase(s, e, env, expected)

InferDefinitionComponent(s, module, component) ==
    LET placeholder == [i \in ToSet(component) |-> Cell(Len(s.cells) + (CHOOSE j \in DOMAIN component : component[j] = i))]
        s0 == [s EXCEPT !.cells = @ \o [i \in DOMAIN component |-> Variable]]
        env == [x \in {module[i].name : i \in ToSet(component)} |->
                   Monotype(placeholder[CHOOSE i \in ToSet(component) : module[i].name = x])]
        Annotate(u, i) ==
            LET annotation == DefinitionAnnotationType(u, module[i].annotation)
            IN  IF Fails(u) \/ module[i].annotation = NoType THEN u
                ELSE Unify(annotation.s, placeholder[i], annotation.type)
        Check(u, i) == LET r == InferNode(u, module[i].body, env, placeholder[i])
                       IN  Unify(r.s, placeholder[i], r.type)
        Publish(u, i) == LET general == Generalize(u, placeholder[i], <<>>)
                         IN  IF Fails(u) THEN u
                             ELSE [general.s EXCEPT !.globals = module[i].name :> general.scheme @@ @]
        n == Len(component)
        annotated[i \in 0 .. n] == IF i = 0 THEN s0 ELSE Annotate(annotated[i - 1], component[i])
        checked[i \in 0 .. n] == IF i = 0 THEN annotated[n] ELSE Check(checked[i - 1], component[i])
        published[i \in 0 .. n] == IF i = 0 THEN checked[n] ELSE Publish(published[i - 1], component[i])
    IN  IF Fails(s) THEN s ELSE published[n]

(* toPublicType                                                            *)
PublicType(s, t) == Replaced(s, t, <<>>)

(* infer: the main type, or the code of the diagnostic; with the ghost.    *)
InferTypes(module) ==
    LET start == BuildConstructorTypes(EmptyContext)
        components == DefinitionComponents(module)
        after[i \in 0 .. Len(components)] ==
            IF i = 0 THEN start ELSE InferDefinitionComponent(after[i - 1], module, components[i])
        solved == after[Len(components)]
        main == solved.globals["main"].type
        code == IF Fails(solved) THEN solved.code
                ELSE IF ContainsTypeParameter(solved, main).found THEN "F2104" ELSE "none"
    IN  [code |-> code, main |-> IF code = "none" THEN PublicType(solved, main) ELSE NoType,
         shortened |-> solved.shortened]
=============================================================================
