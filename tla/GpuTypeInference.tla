-------------------------- MODULE GpuTypeInference --------------------------
(***************************************************************************)
(* Type inference on the GPU (src/src/semantic/type_inference_shader.ts):  *)
(* the same language as TypeInference, inferred over an arena of types     *)
(* that are linked and generalised in place, with levels in the place of   *)
(* environments to generalise over.                                        *)
(*                                                                         *)
(* The shader is a machine of resumable frames; a frame and the frames it  *)
(* pushes are one operator here, which takes and returns the arena.  A     *)
(* TYPE_NAMED record and its TYPE_LIST records are one node.               *)
(***************************************************************************)
EXTENDS InferenceAbi

CONSTANTS ConcreteTypeThreshold, \* types of fewer records are not remembered by the application cache
          TypeCapacity           \* records of the type arena

(* Nodes of the arena.  fresh marks a variable that an instantiation made, *)
(* which is bound without an occurs check.                                 *)
VariableAt(level) == [kind |-> "variable", link |-> 0, level |-> level, fresh |-> FALSE]
RigidAt(level) == [kind |-> "rigid", link |-> 0, level |-> level]
GenericNode == [kind |-> "generic"]
Data(name, args) == [kind |-> "data", name |-> name, args |-> args]
ForallNode(body) == [kind |-> "forall", body |-> body]
Instance(source, mapping, skolem, open) ==
    [kind |-> "instance", source |-> source, mapping |-> mapping, skolem |-> skolem, open |-> open]
LazyConstructor(name) == [kind |-> "lazy", name |-> name]
Alias(level, link) == [kind |-> "variable", link |-> link, level |-> level, fresh |-> FALSE]

(* InferenceState.  mappings are the substitutions of the instantiations,  *)
(* last and results the two words of a definition that remember its        *)
(* applications.  The ghosts say which shortcuts mattered: cyclic, a       *)
(* variable was bound unchecked to a type that contains it; reused, an     *)
(* application with several arguments took the result of another one;      *)
(* monomorphic, a type was instantiated only when it was generalised;      *)
(* escaped, a variable was bound to a quantified variable of a later       *)
(* argument.                                                               *)
EmptyArena ==
    [types |-> <<Data("Int", <<>>), Data("Bool", <<>>), Data("()", <<>>), Data("I64", <<>>)>>,
     mappings |-> <<>>, trail |-> <<>>, level |-> 0, cutoff |-> 0, globals |-> <<>>,
     last |-> <<>>, results |-> <<>>, abi |-> [words |-> <<>>], code |-> "none", ghosts |-> {}]
IntegerType == 1
BooleanType == 2
UnitTypeIndex == 3
PrimitiveNames == <<"Int", "Bool", "()", "I64">>
IsPrimitiveType(id) == id <= Len(PrimitiveNames)

Report(g, code) == IF g.code = "none" THEN [g EXCEPT !.code = code] ELSE g
Stopped(g) == g.code # "none"
Ghost(g, on, ghost) == IF on THEN [g EXCEPT !.ghosts = @ \cup {ghost}] ELSE g

AllocateType(g, node) ==
    IF Len(g.types) = TypeCapacity THEN [g |-> Report(g, "exhausted"), type |-> IntegerType]
    ELSE [g |-> [g EXCEPT !.types = Append(@, node)], type |-> Len(g.types) + 1]
FreshVariable(g) == AllocateType(g, VariableAt(g.level))

Linked(g, id) == g.types[id].kind = "variable" /\ g.types[id].link # 0
Refined(g, id) == g.types[id].kind = "rigid" /\ g.types[id].link # 0

(***************************************************************************)
(* Instances: a scheme is copied when a part of it is looked at.           *)
(***************************************************************************)
Replacement(g, mapping, source, skolem) ==
    IF source \in DOMAIN g.mappings[mapping] THEN [g |-> g, type |-> g.mappings[mapping][source]]
    ELSE LET new == AllocateType(g, IF skolem THEN RigidAt(g.level) ELSE [VariableAt(g.level) EXCEPT !.fresh = TRUE])
         IN  [g |-> [new.g EXCEPT !.mappings[mapping] = source :> new.type @@ @], type |-> new.type]

RECURSIVE MaterializeTypeInstance(_, _)
MaterializeTypeInstance(g, id) ==
    LET i == g.types[id]
        source == g.types[i.source]
        replacement == Replacement(g, i.mapping, i.source, i.skolem)
        Become(h, node) == [h EXCEPT !.types[id] = node]
        children == [c \in DOMAIN source.args |-> Instance(source.args[c], i.mapping, i.skolem, FALSE)]
        copied == [g EXCEPT !.types = @ \o children]
    IN  CASE Stopped(g) -> g
          [] Linked(g, i.source) \/ Refined(g, i.source) ->
                 MaterializeTypeInstance([g EXCEPT !.types[id].source = source.link], id)
          [] source.kind = "forall" /\ i.open ->
                 MaterializeTypeInstance([g EXCEPT !.types[id].source = source.body], id)
          [] source.kind = "generic" -> Become(replacement.g, Alias(g.level, replacement.type))
          [] source.kind = "data" /\ ~IsPrimitiveType(i.source) ->
                 IF Len(copied.types) > TypeCapacity THEN Report(g, "exhausted")
                 ELSE Become(copied, Data(source.name, [c \in DOMAIN source.args |-> Len(g.types) + c]))
          [] OTHER -> Become(g, Alias(g.level, i.source))

(* A constructor without fields whose type has parameters.                 *)
MaterializeLazyConstructor(g, id) ==
    LET n == Len(Shape(g.types[id].name).parameters)
    IN  [g EXCEPT !.types = [@ EXCEPT ![id] = Data(g.types[id].name, [c \in 1 .. n |-> Len(g.types) + c])]
                            \o [c \in 1 .. n |-> VariableAt(g.level)]]

(* halve_variable_link: a bound variable is relinked to its grandparent;   *)
(* links of rigid variables are never skipped.                             *)
HalveVariableLink(g, id) ==
    LET parent == g.types[id].link
    IN  IF Linked(g, parent) THEN [g EXCEPT !.types[id].link = g.types[parent].link] ELSE g

(* prune, and the settling with which every visit starts: both follow      *)
(* variables and refinements and materialise what they meet; prune leaves  *)
(* a lazy constructor, and a stable visit stops at a refined rigid.        *)
RECURSIVE Settle(_, _, _, _)
Settle(g, id, lazy, stable) ==
    LET halved == HalveVariableLink(g, id)
    IN  CASE Stopped(g) -> [g |-> g, type |-> id]
          [] g.types[id].kind = "instance" -> Settle(MaterializeTypeInstance(g, id), id, lazy, stable)
          [] g.types[id].kind = "lazy" /\ lazy -> [g |-> MaterializeLazyConstructor(g, id), type |-> id]
          [] Linked(g, id) -> Settle(halved, halved.types[id].link, lazy, stable)
          [] Refined(g, id) /\ ~stable -> Settle(g, g.types[id].link, lazy, stable)
          [] OTHER -> [g |-> g, type |-> id]

PruneType(g, id) == Settle(g, id, FALSE, FALSE)

(***************************************************************************)
(* The visitors of the shader differ in where they stop, in what they make *)
(* of the nodes that they pass, and in following refinements or not.  They *)
(* take the last child first.                                              *)
(***************************************************************************)
OccursOf(variable, level) == [k |-> "occurs", stable |-> FALSE, variable |-> variable, level |-> level]
GeneralizeAbove(level) == [k |-> "generalize", stable |-> FALSE, level |-> level]
Concrete(stable) == [k |-> "concrete", stable |-> stable]
FullyZonked == [k |-> "zonked", stable |-> FALSE]
Rigidify == [k |-> "rigidify", stable |-> TRUE]
ForallSearch == [k |-> "forall", stable |-> TRUE]

StopsAt(mode, id, node) ==
    CASE mode.k = "occurs"   -> id = mode.variable
      [] mode.k = "concrete" -> node.kind # "data"
      [] mode.k = "zonked"   -> node.kind \in {"variable", "generic"}
      [] mode.k = "forall"   -> node.kind = "forall"
      [] OTHER -> FALSE

MutantPassed(mode, node) ==
    CASE mode.k = "generalize" /\ node.kind \in {"variable", "rigid"} /\ node.level > mode.level -> GenericNode
      [] mode.k = "rigidify" /\ node.kind = "variable" -> RigidAt(node.level)
      [] OTHER -> node

Passed(mode, node) ==
    CASE mode.k = "occurs" /\ node.kind = "variable" /\ node.level > mode.level -> [node EXCEPT !.level = mode.level]
      [] mode.k = "generalize" /\ node.kind \in {"variable", "rigid"} /\ node.level > mode.level -> GenericNode
      [] mode.k = "rigidify" /\ node.kind = "variable" -> RigidAt(node.level)
      [] OTHER -> node

ChildrenFor(mode, node) ==
    IF node.kind # "data" \/ (mode.k = "forall" /\ node.name # "->") THEN <<>> ELSE Reverse(node.args)

RECURSIVE Sweep(_, _, _, _)
Sweep(g, todo, seen, mode) ==
    IF todo = <<>> \/ Stopped(g) THEN [g |-> g, seen |-> seen, found |-> FALSE]
    ELSE LET v == Settle(g, Head(todo), TRUE, mode.stable)
             node == v.g.types[v.type]
         IN  IF StopsAt(mode, v.type, node) THEN [g |-> v.g, seen |-> seen, found |-> TRUE]
             ELSE IF v.type \in seen \/ Stopped(v.g) THEN Sweep(v.g, Tail(todo), seen, mode)
             ELSE Sweep([v.g EXCEPT !.types[v.type] = Passed(mode, node)],
                        ChildrenFor(mode, node) \o Tail(todo), seen \cup {v.type}, mode)
Traverse(g, id, mode) == Sweep(g, <<id>>, {}, mode)

Contained(g, id, part) == Traverse(g, id, OccursOf(part, g.level)).found
StableConcrete(g, id) ==
    LET walk == Traverse(g, id, Concrete(TRUE))
        Records(node) == IF node.kind = "data" /\ node.name # "->" THEN 1 + Len(node.args) ELSE 1
    IN  [g |-> walk.g, holds |-> ~walk.found,
         large |-> FoldSet(LAMBDA t, n : n + Records(walk.g.types[t]), 0, walk.seen) >= ConcreteTypeThreshold]

(* Types that instantiation created only now, and that the level of the    *)
(* enclosing expression keeps from being generalised.                      *)
Generalize(g, id, level) ==
    LET walk == Traverse(g, id, GeneralizeAbove(level))
        late == {t \in walk.seen : t > Len(g.types) /\ walk.g.types[t].kind = "variable"}
    IN  Ghost(walk.g, late # {}, "monomorphic")

(***************************************************************************)
(* Unification                                                             *)
(***************************************************************************)
(* What an application tells the unification: the nodes of the callee are  *)
(* those from from to to, those of the argument end at the result.         *)
NoApplication == [from |-> 0, to |-> 0, result |-> 0]
Link(g, variable, target) == [g EXCEPT !.types[variable].link = target]

(* Instance variables, and those that the application says are newer than  *)
(* the type they are bound to, are bound without an occurs check.          *)
BindTo(g, variable, target, unchecked) ==
    LET occurs == Traverse(g, target, OccursOf(variable, g.types[variable].level))
    IN  IF variable < g.cutoff THEN Report(g, "F2101")
        ELSE IF unchecked THEN Ghost(Link(g, variable, target), Contained(g, target, variable), "cyclic")
        ELSE IF occurs.found THEN Report(occurs.g, "F2103")
        ELSE Link(occurs.g, variable, target)

(* above: the pairs of nodes whose unification this one is a part of; one  *)
(* that comes back is a cycle, on which the shader spends all its steps.   *)
RECURSIVE UnifyWithin(_, _, _, _, _)
UnifyWithin(g, expected, received, app, above) ==
    LET l == PruneType(g, expected)
        r == PruneType(l.g, received)
        left == l.type
        right == r.type
        a == r.g.types[left]
        b == r.g.types[right]
        Again(h) == UnifyWithin(h, expected, received, app, above)
        Part(h, i) == UnifyWithin(h, a.args[i], b.args[i], app, above \cup {<<left, right>>})
        after[i \in 0 .. Len(a.args)] == IF i = 0 THEN r.g ELSE Part(after[i - 1], i)
    IN  CASE Stopped(g) -> g
          [] Stopped(r.g) \/ left = right -> r.g
          [] a.kind = "lazy" -> Again(MaterializeLazyConstructor(r.g, left))
          [] b.kind = "lazy" /\ a.kind # "variable" -> Again(MaterializeLazyConstructor(r.g, right))
          [] a.kind = "variable" -> BindTo(r.g, left, right, a.fresh \/ (app.from <= left /\ left < app.to))
          [] b.kind = "variable" -> BindTo(r.g, right, left, b.fresh \/ right = app.result
                                                            \/ (app.to # 0 /\ app.to <= right /\ right < app.result))
          [] a.kind # "data" \/ b.kind # "data" -> Report(r.g, "F2102")
          [] a.name # b.name \/ Len(a.args) # Len(b.args) -> Report(r.g, "F2102")
          [] <<left, right>> \in above -> Report(r.g, "exhausted")
          [] OTHER -> after[Len(a.args)]

UnifyTypes(g, expected, received) == UnifyWithin(g, expected, received, NoApplication, {})
UnifyApplication(g, callee, function, app) == UnifyWithin(g, callee, function, app, {})

(***************************************************************************)
(* Pattern matching: rigid variables are refined, and restored at the end  *)
(* of the arm from the trail.                                              *)
(***************************************************************************)
PushRefinement(g, source, target) ==
    [g EXCEPT !.trail = Append(@, [source |-> source, previous |-> g.types[source].link]),
              !.types[source].link = target]

Refine(g, source, target) ==
    LET occurs == Traverse(g, target, OccursOf(source, g.types[source].level))
    IN  IF occurs.found THEN [g |-> occurs.g, matches |-> FALSE]
        ELSE [g |-> PushRefinement(occurs.g, source, target), matches |-> TRUE]

RECURSIVE PatternMatch(_, _, _)
PatternMatch(g, pattern, scrutinee) ==
    LET l == PruneType(g, pattern)
        r == PruneType(l.g, scrutinee)
        left == l.type
        right == r.type
        a == r.g.types[left]
        b == r.g.types[right]
        Part(m, i) == IF m.matches THEN PatternMatch(m.g, a.args[i], b.args[i]) ELSE m
        after[i \in 0 .. Len(a.args)] == IF i = 0 THEN [g |-> r.g, matches |-> TRUE] ELSE Part(after[i - 1], i)
        Newer == IF left > right THEN left ELSE right
        Older == IF left > right THEN right ELSE left
    IN  CASE left = right -> [g |-> r.g, matches |-> TRUE]
          [] {a.kind, b.kind} \cap {"variable", "generic"} # {} -> [g |-> r.g, matches |-> FALSE]
          [] a.kind = "rigid" /\ b.kind = "rigid" -> [g |-> PushRefinement(r.g, Newer, Older), matches |-> TRUE]
          [] b.kind = "rigid" -> Refine(r.g, right, left)
          [] a.kind = "rigid" -> Refine(r.g, left, right)
          [] a.kind # "data" \/ b.kind # "data" -> [g |-> r.g, matches |-> FALSE]
          [] a.name # b.name \/ Len(a.args) # Len(b.args) -> [g |-> r.g, matches |-> FALSE]
          [] OTHER -> after[Len(a.args)]

RECURSIVE RollbackRefinement(_, _)
RollbackRefinement(g, checkpoint) ==
    IF Len(g.trail) <= checkpoint THEN g
    ELSE LET last == Last(g.trail)
         IN  RollbackRefinement([g EXCEPT !.trail = Front(@), !.types[last.source].link = last.previous], checkpoint)

(***************************************************************************)
(* Instantiation and subsumption                                           *)
(***************************************************************************)
NewMapping(g) == [g EXCEPT !.mappings = Append(@, <<>>)]

(* start_lazy_instantiate: the copy is made where it is looked at.         *)
LazyInstantiate(g, scheme) ==
    AllocateType(NewMapping(g), Instance(scheme, Len(g.mappings) + 1, FALSE, TRUE))

(* start_instantiate: the copy is made at once.  The quantifiers at the    *)
(* root are opened, those inside are left as they are; changed tells       *)
(* whether there was anything to instantiate.                              *)
RECURSIVE CopyType(_, _, _, _)
CopyType(r, source, open, above) ==
    LET v == Settle(r.g, source, TRUE, FALSE)
        node == v.g.types[v.type]
        replaced == Replacement(v.g, r.mapping, v.type, r.skolem)
        copy == AllocateType(v.g, node)
        n == Len(node.args)
        Part(q, i) == LET c == CopyType(q, node.args[i], FALSE, above \cup {v.type})
                      IN  [c EXCEPT !.g.types[copy.type].args[i] = c.type]
        \* the last argument first
        after[i \in 0 .. n] == IF i = 0 THEN [r EXCEPT !.g = copy.g] ELSE Part(after[i - 1], n + 1 - i)
    IN  CASE Stopped(r.g) -> r
          [] node.kind = "forall" /\ open -> CopyType([r EXCEPT !.g = v.g, !.changed = TRUE], node.body, TRUE, above)
          [] node.kind = "forall" -> [r EXCEPT !.g = v.g, !.changed = TRUE, !.type = v.type]
          [] node.kind = "generic" -> [r EXCEPT !.g = replaced.g, !.changed = TRUE, !.type = replaced.type]
          [] node.kind # "data" \/ IsPrimitiveType(v.type) -> [r EXCEPT !.g = v.g, !.type = v.type]
          [] v.type \in above -> [r EXCEPT !.g = Report(v.g, "exhausted")]
          [] OTHER -> [after[n] EXCEPT !.type = copy.type]

Instantiate(g, source, skolem) ==
    CopyType([g |-> NewMapping(g), mapping |-> Len(g.mappings) + 1, skolem |-> skolem, changed |-> FALSE,
              type |-> IntegerType], source, TRUE, {})

(* An argument for a quantified parameter: the scheme of the argument is   *)
(* instantiated, the quantifiers of the parameter become rigid.            *)
RECURSIVE Subsume(_, _, _)
Subsume(g, actual, expected) ==
    LET a == Instantiate(g, actual, FALSE)
        pruned == PruneType(a.g, expected)
        quantified == pruned.g.types[pruned.type].kind = "forall"
        e == IF quantified THEN Instantiate(pruned.g, pruned.type, TRUE) ELSE pruned
        x == e.g.types[a.type]
        y == e.g.types[e.type]
        Function(node) == node.kind = "data" /\ node.name = "->"
    IN  CASE Stopped(g) -> g
          [] Stopped(e.g) -> e.g
          [] quantified /\ ~a.changed -> Report(pruned.g, "F2102")
          [] Function(y) /\ ~Function(x) -> Report(e.g, "F2102")
          [] Function(y) -> Subsume(Subsume(e.g, y.args[1], x.args[1]), x.args[2], y.args[2])
          [] OTHER -> UnifyTypes(e.g, a.type, e.type)

(***************************************************************************)
(* Schemas, constructors, patterns                                         *)
(***************************************************************************)
(* map: the types of the parameters met so far.  A parameter that is not   *)
(* declared may only be used by the annotation of a definition.            *)
RECURSIVE SchemaConvert(_, _, _, _)
SchemaConvert(g, root, map, implicit) ==
    LET record == g.abi.words[root]
        name == record.symbol
        children == SiblingsFrom(g.abi.words, record.child)
        rigid == AllocateType(g, RigidAt(g.level))
        n == Len(children)
        order == IF record.tag = "Function" THEN <<2, 1>> ELSE [i \in 1 .. n |-> i]
        node == AllocateType(g, Data(IF record.tag = "Function" THEN "->" ELSE name, children))
        Part(r, i) == LET c == SchemaConvert(r.g, children[i], r.map, implicit)
                      IN  [g |-> [c.g EXCEPT !.types[node.type].args[i] = c.type], map |-> c.map]
        after[i \in 0 .. n] == IF i = 0 THEN [g |-> node.g, map |-> map] ELSE Part(after[i - 1], order[i])
        generic == AllocateType(g, GenericNode)
        quantifier == AllocateType(generic.g, ForallNode(0))
        body == SchemaConvert(quantifier.g, record.child, name :> generic.type @@ map, implicit)
        Wrong == [g |-> Report(g, "F2101"), map |-> map, type |-> IntegerType]
    IN  CASE Stopped(g) -> [g |-> g, map |-> map, type |-> IntegerType]
          [] record.tag = "Forall" ->
                 IF name \in DOMAIN map THEN Wrong
                 ELSE [g |-> [body.g EXCEPT !.types[quantifier.type].body = body.type],
                       map |-> body.map, type |-> quantifier.type]
          [] record.tag = "Parameter" ->
                 IF name \in DOMAIN map THEN [g |-> g, map |-> map, type |-> map[name]]
                 ELSE IF implicit THEN [g |-> rigid.g, map |-> name :> rigid.type @@ map, type |-> rigid.type]
                 ELSE Wrong
          [] record.tag \in PrimitiveTags ->
                 [g |-> g, map |-> map, type |-> CHOOSE i \in DOMAIN PrimitiveNames : PrimitiveNames[i] = record.tag]
          [] record.tag = "Named" /\ name \notin Declared -> Wrong
          [] OTHER -> [g |-> after[n].g, map |-> after[n].map, type |-> node.type]

(* The types of the fields and of the result, over variables, or over      *)
(* rigid variables in a pattern.                                           *)
InstantiateConstructor(g, con, pattern) ==
    LET parameters == Shape(OwnerOf(con)).parameters
        leaf == IF pattern THEN RigidAt(0) ELSE VariableAt(g.level)
        h == [g EXCEPT !.types = @ \o [i \in DOMAIN parameters |-> leaf]]
        map == [p \in ToSet(parameters) |-> Len(g.types) + (CHOOSE i \in DOMAIN parameters : parameters[i] = p)]
        index == IndexOf(ConstructorTable, con)
        fields == g.abi.fields[index]
        Field(r, i) == LET c == SchemaConvert(r.g, fields[i], map, FALSE)
                       IN  [g |-> c.g, fields |-> Append(r.fields, c.type)]
        after[i \in 0 .. Len(fields)] == IF i = 0 THEN [g |-> h, fields |-> <<>>] ELSE Field(after[i - 1], i)
        result == SchemaConvert(after[Len(fields)].g, g.abi.results[index], map, FALSE)
    IN  IF Len(h.types) > TypeCapacity THEN [g |-> Report(g, "exhausted"), fields |-> <<>>, type |-> IntegerType]
        ELSE [g |-> result.g, fields |-> after[Len(fields)].fields, type |-> result.type]

(* The function node of the first parameter is the last to be allocated.   *)
RECURSIVE CurriedFunction(_, _, _)
CurriedFunction(g, parameters, result) ==
    IF parameters = <<>> THEN [g |-> g, type |-> result]
    ELSE LET node == AllocateType(g, Data("->", <<Last(parameters), result>>))
         IN  CurriedFunction(node.g, Front(parameters), node.type)

(* indexed_shape: the declared type over fresh rigid variables.            *)
IndexedShape(g, type) ==
    LET n == Len(Shape(type).parameters)
        node == AllocateType(g, Data(type, [i \in 1 .. n |-> Len(g.types) + 1 + i]))
    IN  [g |-> [node.g EXCEPT !.types = @ \o [i \in 1 .. n |-> RigidAt(g.level)]], type |-> node.type]

(* An environment: the names in scope and the types of the entries, the    *)
(* innermost first.  A name is looked up by its depth in the scope.        *)
NoBindings == [names |-> <<>>, types |-> <<>>]
IsLocal(env, x) == x \in ToSet(env.names)
TypeOfLocal(env, x) == env.types[SelectInSeq(env.names, LAMBDA y : y = x)]
AllocateEnvironment(env, names, types) == [names |-> names \o env.names, types |-> types \o env.types]
Bind(env, x, type) == AllocateEnvironment(env, <<x>>, <<type>>)
CaseArms(arms) == {arms[i].con : i \in DOMAIN arms}
(***************************************************************************)
(* Expressions.  env has the schemes of the locals; expected is the type   *)
(* that the context wants, or 0.  The result is the arena and a type.      *)
(***************************************************************************)
None == 0
Inferred(g, type) == [g |-> g, type |-> type]
Unified(g, expected, received, type) == Inferred(UnifyTypes(g, expected, received), type)
NewVariable(g) == LET v == FreshVariable(g) IN Inferred(v.g, v.type)
IsPrimitive(g, id) == g.types[id].kind = "data" /\ IsPrimitiveType(id)

(* A local is instantiated at once, a global where it is looked at, and a  *)
(* constructor without fields not before the arguments of its type matter. *)
InferLocal(g, scheme) ==
    LET copy == Instantiate(g, scheme, FALSE) IN IF IsPrimitive(g, scheme) THEN Inferred(g, scheme) ELSE Inferred(copy.g, copy.type)

InferConstructor(g, con) ==
    LET made == InstantiateConstructor(g, con, FALSE)
        curried == CurriedFunction(made.g, made.fields, made.type)
        lazy == AllocateType(g, LazyConstructor(OwnerOf(con)))
    IN  IF Arity(con) = 0 /\ Shape(OwnerOf(con)).parameters # <<>> /\ Constructor(con).result = NoType
        THEN Inferred(lazy.g, lazy.type)
        ELSE Inferred(curried.g, curried.type)

InferName(g, x, env) ==
    LET lazy == LazyInstantiate(g, g.globals[x])
    IN  CASE IsLocal(env, x) -> InferLocal(g, TypeOfLocal(env, x))
          [] x \in ConstructorNames -> InferConstructor(g, x)
          [] IsPrimitive(g, g.globals[x]) -> Inferred(g, g.globals[x])
          [] OTHER -> Inferred(lazy.g, lazy.type)

(* The scheme of a name that is not instantiated.                          *)
IsAlias(e) == e.k = "name" /\ e.x \notin ConstructorNames
SchemeOf(g, x, env) == IF IsLocal(env, x) THEN TypeOfLocal(env, x) ELSE g.globals[x]

RECURSIVE Infer(_, _, _, _)

(* A binding that is not used is not generalised, nor is a primitive type; *)
(* a name is shared with its scheme.                                       *)
InferLet(g, e, env, expected) ==
    LET unused == e.x \notin FreeNames(e.body)
        value == Infer([g EXCEPT !.level = @ + 1], e.value, env, None)
        back == [value.g EXCEPT !.level = g.level]
        general == IF unused \/ IsPrimitive(back, value.type) THEN back ELSE Generalize(back, value.type, g.level)
    IN  IF unused /\ e.value.k = "name" /\ e.value.x \in ConstructorNames
        THEN Infer(g, e.body, Bind(env, e.x, IntegerType), expected)
        ELSE IF IsAlias(e.value) THEN Infer(g, e.body, Bind(env, e.x, SchemeOf(g, e.value.x, env)), expected)
        ELSE Infer(general, e.body, Bind(env, e.x, value.type), expected)

InferLetRec(g, e, env, expected) ==
    LET placeholder == FreshVariable([g EXCEPT !.level = @ + 1])
        scope == Bind(env, e.x, placeholder.type)
        value == Infer(placeholder.g, e.value, scope, placeholder.type)
        unified == UnifyTypes(value.g, placeholder.type, value.type)
        general == Generalize([unified EXCEPT !.level = g.level], placeholder.type, g.level)
    IN  Infer(general, e.body, scope, expected)

(* The branch that is not a case goes first.                               *)
InferIf(g, e, env, expected) ==
    LET test == Infer(g, e.test, env, BooleanType)
        swapped == e.consequent.k = "case" /\ e.alternate.k # "case"
        first == Infer(UnifyTypes(test.g, BooleanType, test.type),
                       IF swapped THEN e.alternate ELSE e.consequent, env, expected)
        checked == IF expected = None THEN first.g ELSE UnifyTypes(first.g, expected, first.type)
        result == IF expected = None THEN first.type ELSE expected
        second == Infer(checked, IF swapped THEN e.consequent ELSE e.alternate, env, result)
    IN  Unified(second.g, first.type, second.type, result)

(* A function without parameters has an entry in the environment all the   *)
(* same, of the type Unit, for which the scope has no name.                *)
InferLambda(g, e, env, expected) ==
    LET n == Len(e.xs)
        result == FreshVariable(g)
        \* the last parameter first, each with its function
        Parameter(r) == LET p == FreshVariable(r.g)
                            f == AllocateType(p.g, Data("->", <<p.type, r.type>>))
                        IN  [g |-> f.g, type |-> f.type, types |-> <<p.type>> \o r.types]
        unit == AllocateType(result.g, Data("->", <<UnitTypeIndex, result.type>>))
        after[i \in 0 .. n] == IF i = 0 THEN [g |-> result.g, type |-> result.type, types |-> <<>>] ELSE Parameter(after[i - 1])
        function == IF n = 0 THEN [g |-> unit.g, type |-> unit.type, types |-> <<UnitTypeIndex>>] ELSE after[n]
        start == IF expected = None THEN function.g ELSE UnifyTypes(function.g, expected, function.type)
        scope == AllocateEnvironment(env, Reverse(e.xs), Reverse(function.types))
        body == Infer(start, e.body, scope, result.type)
    IN  Unified(body.g, result.type, body.type, function.type)

(* The callee is looked at as far as its parameter, which an instance of a *)
(* quantified type may be.                                                 *)
RECURSIVE SettleCallee(_, _)
SettleCallee(g, callee) ==
    LET node == g.types[callee]
        parameter == node.args[1]
        p == g.types[parameter]
    IN  CASE Stopped(g) -> Inferred(g, callee)
          [] node.kind = "instance" -> SettleCallee(MaterializeTypeInstance(g, callee), callee)
          [] node.kind = "lazy" -> SettleCallee(MaterializeLazyConstructor(g, callee), callee)
          [] Linked(g, callee) -> SettleCallee(g, node.link)
          [] node.kind # "data" \/ node.name # "->" -> Inferred(g, callee)
          [] p.kind = "instance" -> SettleCallee(MaterializeTypeInstance(g, parameter), callee)
          [] p.kind = "lazy" -> SettleCallee(MaterializeLazyConstructor(g, parameter), callee)
          [] Linked(g, parameter) -> SettleCallee([g EXCEPT !.types[callee].args[1] = p.link], callee)
          [] OTHER -> Inferred(g, callee)

(* Does the parameter of a settled callee want a quantified argument?      *)
QuantifiedParameter(g, callee) ==
    LET node == g.types[callee]
        parameter == node.args[1]
        search == Traverse(g, parameter, ForallSearch)
        p == g.types[parameter]
    IN  IF node.kind # "data" \/ node.name # "->" THEN [g |-> g, found |-> FALSE]
        ELSE IF p.kind = "forall" THEN [g |-> g, found |-> TRUE]
        ELSE IF p.kind = "data" /\ p.name = "->" THEN [g |-> search.g, found |-> search.found]
        ELSE [g |-> g, found |-> FALSE]

(* Does the environment see one of the rigid variables from first on?      *)
SkolemEscapes(g, env, first) ==
    \E id \in first .. Len(g.types) :
        g.types[id].kind = "rigid" /\ \E i \in DOMAIN env.types : Contained(g, env.types[i], id)

ApplyArgument(g, argument, type, env, callee) ==
    LET parameter == g.types[callee].args[1]
        actual == IF IsAlias(argument) THEN SchemeOf(g, argument.x, env) ELSE type
        subsumed == Subsume(g, actual, parameter)
    IN  Inferred(Ghost(subsumed, ~Stopped(subsumed) /\ SkolemEscapes(subsumed, env, Len(g.types) + 1), "escaped"),
                 parameter)

(* The cache of the applications of a definition, by the type of the last  *)
(* argument: a result is kept from the second time on, and only if no type *)
(* can change any more and one of them is large.                           *)
Remembered(g, definition, argument) == <<definition, argument>> \in DOMAIN g.results
Remember(g, definition, argument, result) ==
    LET r == StableConcrete(g, result)
        a == StableConcrete(r.g, argument)
        Seen(h) == [h EXCEPT !.last = definition :> argument @@ @]
    IN  CASE Stopped(g) \/ (definition \in DOMAIN g.last /\ g.last[definition] = argument) -> g
          [] r.holds /\ ~r.large /\ g.types[argument].kind = "lazy" -> Seen(r.g)
          [] r.holds /\ a.holds /\ (r.large \/ a.large) -> [a.g EXCEPT !.results = <<definition, argument>> :> result @@ @]
          [] OTHER -> Seen(a.g)

InferArgument(r, e, i, env, expected) ==
    LET argument == Infer(r.g, e.args[i], env, None)
        last == i = Len(e.args) /\ e.f.k = "name" /\ ~IsLocal(env, e.f.x) /\ e.f.x \notin ConstructorNames /\ expected = None
        callee == SettleCallee(argument.g, r.type)
        result == IF i = Len(e.args) /\ expected # None THEN Inferred(callee.g, expected) ELSE NewVariable(callee.g)
        quantified == QuantifiedParameter(result.g, callee.type)
        passed == IF quantified.found THEN ApplyArgument(quantified.g, e.args[i], argument.type, env, callee.type)
                  ELSE Inferred(quantified.g, argument.type)
        function == AllocateType(passed.g, Data("->", <<passed.type, result.type>>))
        app == [from |-> r.from, to |-> IF i = 1 THEN Len(r.g.types) + 1 ELSE r.from, result |-> result.type]
        applied == UnifyApplication(function.g, callee.type, function.type, app)
        final == IF last THEN Remember(applied, e.f.x, argument.type, result.type) ELSE applied
    IN  IF Stopped(r.g) \/ Stopped(argument.g) THEN [r EXCEPT !.g = argument.g]
        ELSE IF last /\ Remembered(argument.g, e.f.x, argument.type)
             THEN [r EXCEPT !.g = Ghost(argument.g, i > 1, "reused"), !.type = argument.g.results[<<e.f.x, argument.type>>]]
        ELSE [g |-> final, type |-> result.type, from |-> Len(final.types) + 1]

InferApply(g, e, env, expected) ==
    LET callee == Infer(g, e.f, env, None)
        start == [g |-> callee.g, type |-> callee.type, from |-> Len(g.types) + 1]
        after[i \in 0 .. Len(e.args)] == IF i = 0 THEN start ELSE InferArgument(after[i - 1], e, i, env, expected)
        result == IF expected = None THEN NewVariable(callee.g) ELSE Inferred(callee.g, expected)
        function == AllocateType(result.g, Data("->", <<UnitTypeIndex, result.type>>))
        app == [from |-> start.from, to |-> Len(function.g.types) + 1, result |-> result.type]
        applied == UnifyApplication(function.g, callee.type, function.type, app)
    IN  IF e.args = <<>> THEN Inferred(applied, result.type)
        ELSE Inferred(after[Len(e.args)].g, after[Len(e.args)].type)

(* Operands are inferred with their types as expectations.                 *)
InferPrim(g, e, env) ==
    LET Operand(r, i, type) ==
            LET operand == Infer(r, e.args[i], env, type) IN UnifyTypes(operand.g, type, operand.type)
        element == FreshVariable(g)
        store == AllocateType(element.g, Data("Store", <<element.type>>))
        TypeOf(schema) == CHOOSE id \in 1 .. 4 : PrimitiveNames[id] = schema.name
        signature == PrimopSignature(e.op, Integer)
        numeric[i \in 0 .. Len(e.args)] ==
            IF i = 0 THEN g ELSE Operand(numeric[i - 1], i, TypeOf(signature.operands[i]))
        of == <<store.type, IntegerType, element.type>>
        stored[i \in 0 .. Len(e.args)] == IF i = 0 THEN store.g ELSE Operand(stored[i - 1], i, of[i])
        initial == Infer(Operand(g, 1, IntegerType), e.args[2], env, None)
        new == AllocateType(initial.g, Data("Store", <<initial.type>>))
    IN  CASE e.op \in NumericPrimops -> Inferred(numeric[Len(e.args)], TypeOf(signature.result))
          [] e.op = "StructuralEqual" -> Inferred(Operand(Operand(element.g, 1, element.type), 2, element.type), BooleanType)
          [] e.op = "StoreNew"    -> Inferred(new.g, new.type)
          [] e.op = "StoreLength" -> Inferred(stored[1], IntegerType)
          [] e.op = "StoreRead"   -> Inferred(stored[2], element.type)
          [] OTHER -> Inferred(stored[Len(e.args)], store.type)

(* The declared type by which a case is indexed: that of the scrutinee if  *)
(* it is known, or else of an arm.                                         *)
IndexedShapeOf(g, scrutinee, arms) ==
    LET node == g.types[scrutinee]
        owners == [i \in DOMAIN arms |-> OwnerOf(arms[i].con)]
        indexed == {i \in DOMAIN owners : IsIndexed(owners[i])}
    IN  IF node.kind = "data" /\ node.name \in Declared /\ IsIndexed(node.name) THEN node.name
        ELSE IF indexed = {} THEN "none"
        ELSE owners[CHOOSE i \in indexed : \A j \in indexed : i <= j]

InferOrdinaryCase(g, e, env, scrutinee) ==
    LET result == FreshVariable(g)
        pruned == PruneType(g, scrutinee).type
        ArmBody(h, arm, fields) ==
            LET body == Infer(h, arm.body, AllocateEnvironment(env, arm.xs, fields), None)
            IN  UnifyTypes(body.g, result.type, body.type)
        InferArm(h, arm) ==
            LET c == InstantiateConstructor(h, arm.con, FALSE)
                matched == UnifyTypes(c.g, scrutinee, c.type)
            IN  IF Stopped(matched) THEN matched
                ELSE IF Len(arm.xs) # Len(c.fields) THEN Report(matched, "F2101")
                ELSE ArmBody(matched, arm, c.fields)
        after[i \in 0 .. Len(e.arms)] == IF i = 0 THEN result.g ELSE InferArm(after[i - 1], e.arms[i])
        arms == after[Len(e.arms)]
        node == g.types[pruned]
    IN  IF e.arms = <<>>
        THEN IF node.kind # "data" \/ node.name \notin Declared THEN Inferred(Report(result.g, "F2101"), result.type)
             ELSE IF ConstructorsOf(node.name) # {} THEN Inferred(Report(result.g, "F2010"), result.type)
             ELSE Inferred(result.g, result.type)
        ELSE IF ~Stopped(arms) /\ ~ ConstructorsOf(OwnerOf(e.arms[1].con)) \subseteq CaseArms(e.arms)
             THEN Inferred(Report(arms, "F2010"), result.type)
        ELSE Inferred(arms, result.type)

(* The scrutinee of an indexed case has the shape of the declared type and *)
(* no unsolved variables: those it has become rigid.                       *)
IndexedScrutinee(g, scrutinee, shape) ==
    LET open == Traverse(g, scrutinee, FullyZonked)
        pruned == PruneType(open.g, scrutinee)
        made == IndexedShape(pruned.g, shape)
        shaped == IF pruned.g.types[pruned.type].kind = "variable" THEN UnifyTypes(made.g, scrutinee, made.type) ELSE pruned.g
        rigid == Traverse(shaped, scrutinee, Rigidify)
        left == Traverse(rigid.g, scrutinee, FullyZonked)
        final == PruneType(IF open.found THEN left.g ELSE pruned.g, scrutinee)
        node == final.g.types[final.type]
    IN  IF Stopped(final.g) THEN Inferred(final.g, scrutinee)
        ELSE IF open.found /\ left.found THEN Inferred(Report(left.g, "F2101"), scrutinee)
        ELSE IF node.kind # "data" \/ node.name # shape THEN Inferred(Report(final.g, "F2101"), scrutinee)
        ELSE Inferred(final.g, final.type)

(* One arm.  The variables that are older than it are untouchable in it,   *)
(* and what its pattern has refined is rolled back at its end; a type that *)
(* was expected with unsolved variables is unified only then.              *)
InferIndexedArm(r, arm, env, scrutinee) ==
    LET cutoff == Len(r.g.types) + 1
        checkpoint == Len(r.g.trail)
        c == InstantiateConstructor(r.g, arm.con, TRUE)
        match == PatternMatch([c.g EXCEPT !.cutoff = cutoff], c.type, scrutinee)
        Leave(h) == [RollbackRefinement(h, checkpoint) EXCEPT !.cutoff = r.g.cutoff]
        open == Traverse(match.g, r.expected, FullyZonked)
        checking == r.expected # None /\ ~open.found
        body == Infer(IF r.expected = None THEN match.g ELSE open.g, arm.body, AllocateEnvironment(env, arm.xs, c.fields), r.expected)
        own == PruneType(body.g, body.type)
        wanted == PruneType(own.g, r.expected)
        same == r.expected # None /\ own.type = wanted.type
        concrete == StableConcrete(IF r.expected = None THEN body.g ELSE wanted.g, body.type)
        after == Leave(IF same THEN wanted.g ELSE concrete.g)
    IN  CASE Stopped(r.g) -> r
          [] Stopped(match.g) -> [r EXCEPT !.g = match.g]
          [] ~match.matches -> [r EXCEPT !.g = Report(Leave(match.g), "F2102")]
          [] Len(arm.xs) # Len(c.fields) -> [r EXCEPT !.g = Report(match.g, "F2101")]
          [] Stopped(body.g) -> [r EXCEPT !.g = body.g]
          [] checking -> [r EXCEPT !.g = Leave(UnifyTypes(body.g, r.expected, body.type))]
          [] ~same /\ ~concrete.holds -> [r EXCEPT !.g = Report(concrete.g, "F2101")]
          [] r.expected = None -> [g |-> after, expected |-> body.type]
          [] OTHER -> [r EXCEPT !.g = UnifyTypes(after, r.expected, IF same THEN r.expected ELSE body.type)]

(* Every constructor whose result matches the scrutinee has an arm.        *)
CoverIndexedCase(g, e, scrutinee, shape) ==
    LET constructors == Shape(shape).constructors
        Cover(h, con) ==
            LET c == InstantiateConstructor(h, con, TRUE)
                match == PatternMatch(c.g, c.type, scrutinee)
                after == RollbackRefinement(match.g, Len(h.trail))
            IN  IF Stopped(h) THEN h
                ELSE IF match.matches /\ con \notin CaseArms(e.arms) THEN Report(after, "F2010") ELSE after
        after[i \in 0 .. Len(constructors)] == IF i = 0 THEN g ELSE Cover(after[i - 1], constructors[i].name)
    IN  after[Len(constructors)]

InferIndexedCase(g, e, env, scrutinee, expected, shape) ==
    LET shaped == IndexedScrutinee(g, scrutinee, shape)
        start == [g |-> shaped.g, expected |-> expected]
        after[i \in 0 .. Len(e.arms)] == IF i = 0 THEN start ELSE InferIndexedArm(after[i - 1], e.arms[i], env, shaped.type)
        arms == after[Len(e.arms)]
    IN  IF Stopped(arms.g) THEN Inferred(arms.g, IntegerType)
        ELSE IF arms.expected = None
             THEN Inferred(Report(CoverIndexedCase(arms.g, e, shaped.type, shape), "internal"), IntegerType)
        ELSE Inferred(CoverIndexedCase(arms.g, e, shaped.type, shape), arms.expected)

InferCase(g, e, env, expected) ==
    LET scrutinee == Infer(g, e.scrutinee, env, None)
        pruned == PruneType(scrutinee.g, scrutinee.type)
        shape == IndexedShapeOf(pruned.g, pruned.type, e.arms)
    IN  IF Stopped(pruned.g) THEN pruned
        ELSE IF shape # "none" THEN InferIndexedCase(pruned.g, e, env, scrutinee.type, expected, shape)
        ELSE InferOrdinaryCase(pruned.g, e, env, scrutinee.type)

Infer(g, e, env, expected) ==
    CASE Stopped(g)     -> Inferred(g, IntegerType)
      [] e.k = "int"    -> Inferred(g, IntegerType)
      [] e.k = "bool"   -> Inferred(g, BooleanType)
      [] e.k = "fault"  -> NewVariable(g)
      [] e.k = "name"   -> InferName(g, e.x, env)
      [] e.k = "let"    -> InferLet(g, e, env, expected)
      [] e.k = "letrec" -> InferLetRec(g, e, env, expected)
      [] e.k = "if"     -> InferIf(g, e, env, expected)
      [] e.k = "lambda" -> InferLambda(g, e, env, expected)
      [] e.k = "apply"  -> InferApply(g, e, env, expected)
      [] e.k = "prim"   -> InferPrim(g, e, env)
      [] e.k = "case"   -> InferCase(g, e, env, expected)

(***************************************************************************)
(* Definitions: each component of definitions that call each other is      *)
(* inferred at level 1 over placeholders, and generalised in place.        *)
(***************************************************************************)
InferComponent(g, module, component) ==
    LET n == Len(component)
        placeholder == [i \in ToSet(component) |-> Len(g.types) + (CHOOSE j \in DOMAIN component : component[j] = i)]
        names == {module[i].name : i \in ToSet(component)}
        Member(x) == CHOOSE i \in ToSet(component) : module[i].name = x
        start == [g EXCEPT !.level = 1, !.types = @ \o [i \in 1 .. n |-> VariableAt(1)],
                           !.globals = [x \in names |-> placeholder[Member(x)]] @@ @]
        Annotate(h, i) ==
            LET annotation == SchemaConvert(h, h.abi.annotations[i], <<>>, TRUE)
            IN  IF h.abi.annotations[i] = 0 THEN h ELSE UnifyTypes(annotation.g, placeholder[i], annotation.type)
        Check(h, i) == LET body == Infer(h, module[i].body, NoBindings, placeholder[i])
                       IN  UnifyTypes(body.g, placeholder[i], body.type)
        annotated[i \in 0 .. n] == IF i = 0 THEN start ELSE Annotate(annotated[i - 1], component[i])
        checked[i \in 0 .. n] == IF i = 0 THEN annotated[n] ELSE Check(checked[i - 1], component[i])
        general[i \in 0 .. n] == IF i = 0 THEN checked[n] ELSE Generalize(general[i - 1], placeholder[component[i]], 0)
    IN  IF Stopped(g) THEN g ELSE [general[n] EXCEPT !.level = 0]

(* serialize_main_type, into the record that was reserved for the type; a  *)
(* cyclic type does not fit into any output.                               *)
RECURSIVE Serialize(_, _, _, _, _)
Serialize(g, output, id, at, above) ==
    LET v == Settle(g, id, TRUE, FALSE)
        node == v.g.types[v.type]
        record ==
            CASE v.type <= Len(PrimitiveNames) -> SchemaRecord(PrimitiveNames[v.type], "none")
              [] node.name = "->" -> SchemaRecord("Function", "none")
              [] OTHER -> SchemaRecord("Named", node.name)
        written == [output EXCEPT ![at].tag = record.tag, ![at].symbol = record.symbol]
        Part(r, i) ==
            LET child == Len(r.output) + 1
                reserved == LinkChild(Append(r.output, SchemaRecord("none", "none")), at, r.previous, child)
                part == Serialize(r.g, reserved, node.args[i], child, above \cup {v.type})
            IN  [g |-> part.g, output |-> part.output, previous |-> child]
        after[i \in 0 .. Len(node.args)] ==
            IF i = 0 THEN [g |-> v.g, output |-> written, previous |-> 0] ELSE Part(after[i - 1], i)
        end == after[Len(node.args)]
    IN  IF Stopped(v.g) THEN [g |-> v.g, output |-> output]
        ELSE IF v.type \in above THEN [g |-> Report(v.g, "exhausted"), output |-> output]
        ELSE [g |-> end.g, output |-> end.output]
SerializeMainType(g, main) == Serialize(g, <<SchemaRecord("none", "none")>>, main, 1, {})

(* The type of main, or the code of the diagnostic, for a module and the   *)
(* Core it was lowered to.                                                 *)
InferTypesOnGpu(module, core) ==
    LET abi == FlattenTypeSchemas(module)
        components == CoreComponents(core)
        start == [EmptyArena EXCEPT !.abi = abi, !.code = ValidationCode(abi, core)]
        after[i \in 0 .. Len(components)] ==
            IF i = 0 THEN start ELSE InferComponent(after[i - 1], module, components[i])
        solved == after[Len(components)]
        main == solved.globals["main"]
        walk == Traverse(solved, main, Concrete(FALSE))
        written == SerializeMainType(walk.g, main)
        Failed(g, code) == [code |-> code, main |-> NoType, ghosts |-> g.ghosts]
    IN  CASE Stopped(solved) -> Failed(solved, solved.code)
          [] ~Stopped(solved) /\ walk.found -> Failed(walk.g, "F2104")
          [] ~Stopped(solved) /\ ~walk.found /\ Stopped(written.g) -> Failed(written.g, written.g.code)
          [] OTHER -> [code |-> "none", main |-> DecodeType(written.output, 1), ghosts |-> written.g.ghosts]
=============================================================================
