---------------------------- MODULE WasmAnalyses ----------------------------
(***************************************************************************)
(* What the Wasm backend finds out about a program before and while it     *)
(* emits code (src/src/functional/wasm_core_lowering.ts, wasm_core_index,  *)
(* wasm_capture_analysis, wasm_function_analysis, wasm_constant_analysis): *)
(* free locals, demand, constants, strict and numeric parameters, loops,   *)
(* folds and join points.                                                  *)
(*                                                                         *)
(* w is the lowered program, of which functions and calls have one         *)
(* parameter each: nodes, alternatives, definitions, entry and arities as  *)
(* in Core, and the free locals of every node.                             *)
(***************************************************************************)
EXTENDS CoreLowering

CONSTANT HalfRange \* an integer has one of 2 * HalfRange values

LOCAL Arithmetic == INSTANCE CallByName

(* F(1) .. F(n), computed once.                                            *)
Table(F(_), n) == LET table[i \in 0 .. n] == IF i = 0 THEN <<>> ELSE Append(table[i - 1], F(i)) IN table[n]

(***************************************************************************)
(* Lowering                                                                *)
(***************************************************************************)
(* A function of several parameters is a function that returns functions,  *)
(* and a call with several arguments a call of the result of a call: the   *)
(* outermost takes the place of the node, the others are added.            *)
LowerLambda(nodes, i) ==
    LET inner == nodes[i].parameters - 1
        Curried(k) == [tag |-> "lambda", body |-> IF k = 0 THEN nodes[i].body ELSE Len(nodes) + k]
    IN  [nodes EXCEPT ![i] = Curried(inner)] \o [k \in 1 .. inner |-> Curried(k - 1)]

LowerApplication(nodes, i) ==
    LET arguments == nodes[i].arguments
        inner == Len(arguments) - 1
        Supplied(k) == [tag |-> "apply", callee |-> IF k = 1 THEN nodes[i].callee ELSE Len(nodes) + k - 1,
                        argument |-> arguments[k].node, strict |-> arguments[k].strict]
    IN  [nodes EXCEPT ![i] = Supplied(inner + 1)] \o [k \in 1 .. inner |-> Supplied(k)]

LowerCoreForWasm(nodes) ==
    LET Lowered(sofar, i) ==
            CASE nodes[i].tag = "lambda" -> LowerLambda(sofar, i)
              [] nodes[i].tag = "apply"  -> LowerApplication(sofar, i)
              [] OTHER -> sofar
        after[i \in 0 .. Len(nodes)] == IF i = 0 THEN nodes ELSE Lowered(after[i - 1], i)
    IN  after[Len(nodes)]

(***************************************************************************)
(* The parts of a node, with the locals that are bound there and when they *)
(* are evaluated: "later" in the body of a function, "lazily" when it      *)
(* turns out to be needed, "now", or as the "result" of the node.          *)
(***************************************************************************)
Part(node, binders, when) == [node |-> node, binders |-> binders, when |-> when]
Alternatives(w, n) == SubSeq(w.alternatives, w.nodes[n].first, w.nodes[n].first + w.nodes[n].count - 1)
Parts(w, n) ==
    LET node == w.nodes[n]
        Evaluated(strict) == IF strict THEN "now" ELSE "lazily"
        arms == Alternatives(w, n)
    IN  CASE node.tag \in {"integer", "boolean", "fault", "local", "global", "constructor"} -> <<>>
          [] node.tag = "lambda" -> <<Part(node.body, 1, "later")>>
          [] node.tag = "apply"  -> <<Part(node.callee, 0, "now"), Part(node.argument, 0, Evaluated(node.strict))>>
          [] node.tag = "let"    -> <<Part(node.value, 0, Evaluated(node.strict)), Part(node.body, 1, "result")>>
          [] node.tag = "letrec" -> <<Part(node.value, 1, "later"), Part(node.body, 1, "result")>>
          [] node.tag = "if"     -> <<Part(node.test, 0, "now"), Part(node.consequent, 0, "result"),
                                      Part(node.alternate, 0, "result")>>
          [] node.tag = "prim"   -> [i \in DOMAIN node.operands |-> Part(node.operands[i], 0, "now")]
          [] node.tag = "case"   -> <<Part(node.scrutinee, 0, "now")>>
                                    \o [i \in DOMAIN arms |-> Part(arms[i].body, arms[i].binders, "result")]

(* The calls that supply the arguments of one function, from the outside.  *)
RECURSIVE Spine(_, _)
Spine(w, n) ==
    LET node == w.nodes[n]
        callee == Spine(w, node.callee)
    IN  IF node.tag # "apply" THEN [base |-> n, arguments |-> <<>>]
        ELSE [callee EXCEPT !.arguments = Append(@, [node |-> node.argument, strict |-> node.strict])]

IsLocal(w, n, depth) == w.nodes[n].tag = "local" /\ w.nodes[n].depth = depth
IsComparison(op) == op = "Less"
IsIntegerOperator(op) == op \in {"Add", "Divide"}

(***************************************************************************)
(* Captures (wasm_capture_analysis.ts)                                     *)
(***************************************************************************)
RECURSIVE FreeLocals(_, _)
FreeLocals(w, n) ==
    LET Free(part) == {depth - part.binders : depth \in {d \in FreeLocals(w, part.node) : d >= part.binders}}
    IN  IF w.nodes[n].tag = "local" THEN {w.nodes[n].depth}
        ELSE UNION {Free(Parts(w, n)[i]) : i \in DOMAIN Parts(w, n)}

(* freeLocalDepths, in their order, from a depth on                        *)
FreeLocalDepths(w, n, from) == SetToSortSeq({d \in w.free[n] : d >= from}, <)

RECURSIVE LocalReferenceCount(_, _, _)
LocalReferenceCount(w, n, depth) ==
    LET parts == Parts(w, n)
        sum[i \in 0 .. Len(parts)] ==
            IF i = 0 THEN 0 ELSE sum[i - 1] + LocalReferenceCount(w, parts[i].node, depth + parts[i].binders)
    IN  IF IsLocal(w, n, depth) THEN 1 ELSE sum[Len(parts)]

RECURSIVE ReferencesAreDemanded(_, _, _)
ReferencesAreDemanded(w, n, depth) ==
    \A i \in DOMAIN Parts(w, n) :
        LET part == Parts(w, n)[i]
        IN  IF part.when \in {"now", "result"} THEN ReferencesAreDemanded(w, part.node, depth + part.binders)
            ELSE LocalReferenceCount(w, part.node, depth + part.binders) = 0
LocalReferenceIsStrictlyDemanded(w, n, depth) ==
    LocalReferenceCount(w, n, depth) = 1 /\ ReferencesAreDemanded(w, n, depth)

(* Every reference is a call with all arguments, in none of which and in   *)
(* no function is another one.                                             *)
RECURSIVE HasOnlySaturatedReferences(_, _, _, _)
HasOnlySaturatedReferences(w, n, depth, parameters) ==
    LET spine == Spine(w, n)
        Within(part) ==
            IF part.when = "later" THEN LocalReferenceCount(w, part.node, depth + part.binders) = 0
            ELSE HasOnlySaturatedReferences(w, part.node, depth + part.binders, parameters)
    IN  IF IsLocal(w, spine.base, depth)
        THEN /\ Len(spine.arguments) = parameters
             /\ \A i \in DOMAIN spine.arguments : HasOnlySaturatedReferences(w, spine.arguments[i].node, depth, parameters)
        ELSE \A i \in DOMAIN Parts(w, n) : Within(Parts(w, n)[i])

RECURSIVE ImmediatelyForcesLocal(_, _, _)
ImmediatelyForcesLocal(w, n, depth) ==
    LET node == w.nodes[n]
    IN  \/ IsLocal(w, n, depth)
        \/ node.tag = "case" /\ ImmediatelyForcesLocal(w, node.scrutinee, depth)
        \/ node.tag = "if" /\ ImmediatelyForcesLocal(w, node.test, depth)
        \/ node.tag = "apply" /\ ImmediatelyForcesLocal(w, node.callee, depth)
        \/ node.tag = "prim" /\ node.operands # <<>> /\ ImmediatelyForcesLocal(w, node.operands[1], depth)
        \/ node.tag \in {"let", "letrec"} /\ ImmediatelyForcesLocal(w, node.body, depth + 1)

(***************************************************************************)
(* Constants (wasm_constant_analysis.ts): <<>>, or <<value>>.  An          *)
(* environment has what is known of every local.                           *)
(***************************************************************************)
RECURSIVE Constant(_, _, _)
Constant(w, n, env) ==
    LET node == w.nodes[n]
        Operand(i) == Constant(w, node.operands[i], env)
        Integers == \A i \in DOMAIN node.operands : Operand(i) # <<>> /\ Operand(i)[1].is = "integer"
        test == Constant(w, node.test, env)
        value == Constant(w, node.value, env)
        left == Operand(1)[1].n
        right == Operand(2)[1].n
        AsInteger(i) == <<[is |-> "integer", n |-> Arithmetic!Truncated(i)]>>
    IN  CASE node.tag = "integer" -> AsInteger(node.n)
          [] node.tag = "boolean" -> <<[is |-> "boolean", b |-> node.b]>>
          [] node.tag = "local" -> IF node.depth < Len(env) THEN env[node.depth + 1] ELSE <<>>
          [] node.tag = "if" -> IF test = <<>> THEN <<>>
                                ELSE IF test[1].is # "boolean" THEN <<>>
                                ELSE Constant(w, IF test[1].b THEN node.consequent ELSE node.alternate, env)
          [] node.tag = "let" -> IF value = <<>> THEN <<>> ELSE Constant(w, node.body, <<value>> \o env)
          [] node.tag = "prim" -> IF ~Integers THEN <<>>
                                  ELSE CASE node.op = "Negate" -> AsInteger(-left)
                                         [] node.op = "Add" -> AsInteger(left + right)
                                         [] node.op = "Less" -> <<[is |-> "boolean", b |-> left < right]>>
                                         [] node.op = "Divide" /\ right # 0 -> AsInteger(Arithmetic!Ratio(left, right))
                                         [] OTHER -> <<>>
          [] OTHER -> <<>>

(* The definitions that a node refers to, in no branch of a constant test. *)
RECURSIVE ReferredDefinitions(_, _, _)
ReferredDefinitions(w, n, env) ==
    LET node == w.nodes[n]
        test == Constant(w, node.test, env)
        value == IF node.strict \/ w.nodes[node.value].tag \in {"integer", "boolean"}
                 THEN Constant(w, node.value, env) ELSE <<>>
        Inner(part) ==
            IF node.tag = "let" /\ part.binders = 1 THEN <<value>> \o env
            ELSE [i \in 1 .. part.binders |-> <<>>] \o env
        Taken(part) == ~(node.tag = "if" /\ test # <<>>)
                       \/ part.node \in {node.test, IF test[1].b THEN node.consequent ELSE node.alternate}
    IN  IF node.tag = "global" THEN {node.definition}
        ELSE UNION {ReferredDefinitions(w, part.node, Inner(part)) : part \in {p \in ToSet(Parts(w, n)) : Taken(p)}}

RECURSIVE ReachableDefinitions(_, _)
ReachableDefinitions(w, sofar) ==
    LET next == sofar \cup UNION {ReferredDefinitions(w, w.definitions[d], <<>>) : d \in sofar}
    IN  IF next = sofar THEN sofar ELSE ReachableDefinitions(w, next)

(***************************************************************************)
(* Functions (wasm_function_analysis.ts)                                   *)
(***************************************************************************)
RECURSIVE LambdaChain(_, _)
LambdaChain(w, n) == IF w.nodes[n].tag # "lambda" THEN <<>> ELSE <<n>> \o LambdaChain(w, w.nodes[n].body)

(* The nested functions from a node on are one function of several         *)
(* parameters.  It can refer to itself when it is the value of a letrec,   *)
(* or a definition.                                                        *)
BareShape(w, n) ==
    LET chain == LambdaChain(w, n)
    IN  [outer |-> n, inner |-> Last(chain), body |-> w.nodes[Last(chain)].body, parameters |-> Len(chain),
         local |-> \E m \in DOMAIN w.nodes : w.nodes[m].tag = "letrec" /\ w.nodes[m].value = n,
         definition |-> SelectInSeq(w.definitions, LAMBDA root : root = n)]
IsRecursive(shape) == shape.local \/ shape.definition # 0

RefersToSelf(w, n, shape, depth) ==
    \/ shape.local /\ IsLocal(w, n, depth + shape.parameters)
    \/ shape.definition # 0 /\ w.nodes[n].tag = "global" /\ w.nodes[n].definition = shape.definition

(* The arguments, when a node is a call of the function by itself.         *)
TailArguments(w, n, shape, depth) ==
    LET spine == Spine(w, n)
    IN  IF RefersToSelf(w, spine.base, shape, depth) /\ Len(spine.arguments) = shape.parameters
        THEN spine.arguments ELSE <<>>

RECURSIVE ContainsSelfReference(_, _, _, _, _)
ContainsSelfReference(w, n, shape, depth, scope) ==
    IF TailArguments(w, n, shape, depth) # <<>> THEN scope = "any"
    ELSE \/ RefersToSelf(w, n, shape, depth)
         \/ \E part \in ToSet(Parts(w, n)) : ContainsSelfReference(w, part.node, shape, depth + part.binders, scope)

RECURSIVE ContainsNonTailSelfReference(_, _, _, _)
ContainsNonTailSelfReference(w, n, shape, depth) ==
    LET Within(part) ==
            IF part.when = "result" THEN ContainsNonTailSelfReference(w, part.node, shape, depth + part.binders)
            ELSE ContainsSelfReference(w, part.node, shape, depth + part.binders, "any")
    IN  IF TailArguments(w, n, shape, depth) # <<>> THEN FALSE
        ELSE IF w.nodes[n].tag \notin {"let", "letrec", "case", "if"} THEN ContainsSelfReference(w, n, shape, depth, "any")
        ELSE \E part \in ToSet(Parts(w, n)) : Within(part)

HasOnlySaturatedSelfReferences(w, shape) == ~ContainsSelfReference(w, shape.body, shape, 0, "unsaturated")
HasOnlyTailSelfReferences(w, shape) == ~ContainsNonTailSelfReference(w, shape.body, shape, 0)

(* A function that is only called, and only where its result is the result *)
(* of the binding: it is emitted once, and a call is a branch to it.       *)
RECURSIVE JoinReferencesAreTailCalls(_, _, _, _)
JoinReferencesAreTailCalls(w, n, depth, tail) ==
    IF w.nodes[n].tag = "apply" /\ IsLocal(w, w.nodes[n].callee, depth) THEN tail
    ELSE /\ ~IsLocal(w, n, depth)
         /\ \A part \in ToSet(Parts(w, n)) :
                JoinReferencesAreTailCalls(w, part.node, depth + part.binders, tail /\ part.when = "result")
IsJoinPoint(w, n) ==
    LET node == w.nodes[n]
    IN  /\ node.tag = "let" /\ w.nodes[node.value].tag = "lambda"
        /\ JoinReferencesAreTailCalls(w, node.body, 0, TRUE)
        /\ 0 \in w.free[node.body]

RECURSIVE ContainsTailCall(_, _, _, _)
ContainsTailCall(w, n, shape, depth) ==
    \/ TailArguments(w, n, shape, depth) # <<>>
    \/ \E part \in ToSet(Parts(w, n)) :
           part.when = "result" /\ ContainsTailCall(w, part.node, shape, depth + part.binders)
    \/ IsJoinPoint(w, n) /\ ContainsTailCall(w, w.nodes[w.nodes[n].value].body, shape, depth + 1)

(* The parameters that an evaluation of a node forces, when those of the   *)
(* next round that are in assumed are forced.                              *)
RECURSIVE DemandedParameters(_, _, _, _, _, _)
DemandedParameters(w, n, shape, depth, assumed, tailCalls) ==
    LET node == w.nodes[n]
        Here(child) == DemandedParameters(w, child, shape, depth, assumed, tailCalls)
        tail == IF tailCalls THEN TailArguments(w, n, shape, depth) ELSE <<>>
        Passed(i) == IF tail[i].strict \/ i \in assumed THEN Here(tail[i].node) ELSE {}
    IN  CASE tail # <<>> -> UNION {Passed(i) : i \in DOMAIN tail}
          [] tail = <<>> /\ node.tag = "local" -> {shape.parameters + depth - node.depth} \cap (1 .. shape.parameters)
          [] tail = <<>> /\ node.tag = "prim" /\ node.op # "Widen" -> UNION {Here(operand) : operand \in ToSet(node.operands)}
          [] tail = <<>> /\ node.tag = "if" -> Here(node.test) \cup (Here(node.consequent) \cap Here(node.alternate))
          [] tail = <<>> /\ node.tag \in {"let", "letrec"} ->
                 DemandedParameters(w, node.body, shape, depth + 1, assumed, tailCalls)
          [] tail = <<>> /\ node.tag = "apply" -> Here(node.callee)
          [] tail = <<>> /\ node.tag = "case" -> Here(node.scrutinee)
          [] OTHER -> {}

RECURSIVE StrictParameters(_, _, _)
StrictParameters(w, shape, assumed) ==
    LET demanded == DemandedParameters(w, shape.body, shape, 0, assumed, TRUE)
    IN  IF demanded = assumed THEN assumed ELSE StrictParameters(w, shape, demanded)

RECURSIVE NumericParameters(_, _, _, _, _)
NumericParameters(w, n, shape, depth, context) ==
    LET Within(part) ==
            NumericParameters(w, part.node, shape, depth + part.binders,
                              IF w.nodes[n].tag = "prim" THEN TRUE ELSE part.when = "result" /\ context)
    IN  CASE w.nodes[n].tag = "local" ->
                 IF context THEN {shape.parameters + depth - w.nodes[n].depth} \cap (1 .. shape.parameters) ELSE {}
          [] w.nodes[n].tag = "prim" /\ w.nodes[n].op = "Widen" -> {}
          [] OTHER -> UNION {Within(part) : part \in ToSet(Parts(w, n))}

(* if test then contribution + f argument else base, or the other way      *)
(* round.                                                                  *)
FoldStep(w, n, shape) ==
    LET node == w.nodes[n]
        next == TailArguments(w, node.operands[2], shape, 0)
    IN  IF node.tag # "prim" THEN <<>>
        ELSE IF node.op # "Add" THEN <<>>
        ELSE IF next = <<>> THEN <<>>
        ELSE IF \E m \in {next[1].node, node.operands[1]} : ContainsSelfReference(w, m, shape, 0, "any") THEN <<>>
        ELSE <<[contribution |-> node.operands[1], argument |-> next[1]]>>
NumericFold(w, shape) ==
    LET body == w.nodes[shape.body]
        consequent == FoldStep(w, body.consequent, shape)
        alternate == FoldStep(w, body.alternate, shape)
        base == IF consequent = <<>> THEN body.consequent ELSE body.alternate
        Refers(m) == ContainsSelfReference(w, m, shape, 0, "any")
    IN  IF shape.parameters # 1 \/ body.tag # "if" THEN <<>>
        ELSE IF Refers(body.test) \/ (consequent = <<>>) = (alternate = <<>>) THEN <<>>
        ELSE IF Refers(base) THEN <<>>
        ELSE <<[test |-> body.test, base |-> base, whenTrue |-> consequent # <<>>, step |-> (consequent \o alternate)[1]]>>

(* registerFunction: what a function does when its body jumps back to its  *)
(* beginning, adds up the results of its calls, or neither.                *)
FunctionShape(w, n) ==
    LET bare == BareShape(w, n)
        loops == IsRecursive(bare) /\ ContainsTailCall(w, bare.body, bare, 0)
        strict == IF loops THEN StrictParameters(w, bare, 1 .. bare.parameters)
                  ELSE DemandedParameters(w, bare.body, bare, 0, {}, FALSE)
    IN  bare @@ [strict |-> strict, numeric |-> NumericParameters(w, bare.body, bare, 0, FALSE),
                 loops |-> loops, fold |-> IF loops THEN <<>> ELSE NumericFold(w, bare)]

(***************************************************************************)
(* Definitions that are only called, with all arguments                    *)
(* (wasm_core_index.ts)                                                    *)
(***************************************************************************)
(* A node has one parent, except the root of a definition, which has none. *)
IsCallee(w, n, m) == w.nodes[m].tag = "apply" /\ w.nodes[m].callee = n

RECURSIVE SuppliedArguments(_, _)
SuppliedArguments(w, n) ==
    LET callers == {m \in DOMAIN w.nodes : IsCallee(w, n, m)}
    IN  IF callers = {} THEN 0 ELSE 1 + SuppliedArguments(w, CHOOSE m \in callers : TRUE)

References(w, d) == {n \in DOMAIN w.nodes : w.nodes[n].tag = "global" /\ w.nodes[n].definition = d}
DirectOnlyDefinitions(w) ==
    {d \in DOMAIN w.definitions :
        /\ d # w.entry /\ w.nodes[w.definitions[d]].tag = "lambda" /\ References(w, d) # {}
        /\ \A n \in References(w, d) : SuppliedArguments(w, n) >= Len(LambdaChain(w, w.definitions[d]))}

(***************************************************************************)
(* Reuse of a constructor that nothing else refers to                      *)
(* (wasm_unique_reuse_analysis.ts)                                         *)
(***************************************************************************)
IsConstruction(w, n) ==
    LET spine == Spine(w, n)
        base == w.nodes[spine.base]
    IN  /\ base.tag = "constructor" /\ spine.arguments # <<>>
        /\ Len(spine.arguments) = w.arities[base.constructor]

(* The fields of the constructor that a node returns, 0 when unknown.      *)
RECURSIVE UniqueConstructorFieldCount(_, _)
UniqueConstructorFieldCount(w, n) ==
    LET results == {UniqueConstructorFieldCount(w, part.node) : part \in {p \in ToSet(Parts(w, n)) : p.when = "result"}}
    IN  IF IsConstruction(w, n) THEN Len(Spine(w, n).arguments)
        ELSE IF w.nodes[n].tag \in {"if", "let", "case"} /\ Cardinality(results) = 1
             THEN CHOOSE count \in results : TRUE
        ELSE 0

(* The cases on a local, and how many of them one evaluation may reach.    *)
Consumption(valid, most, cases) == [valid |-> valid, most |-> most, cases |-> cases]

RECURSIVE LocalConsumption(_, _, _, _)
LocalConsumption(w, n, depth, inside) ==
    LET node == w.nodes[n]
        Within(part) ==
            IF node.tag = "case" /\ part.when = "now" /\ IsLocal(w, part.node, depth) /\ ~inside
            THEN Consumption(TRUE, 1, {n})
            ELSE LocalConsumption(w, part.node, depth + part.binders, inside \/ part.when = "later")
        parts == [i \in DOMAIN Parts(w, n) |-> [c |-> Within(Parts(w, n)[i]), when |-> Parts(w, n)[i].when]]
        branches == {p.c.most : p \in {q \in ToSet(parts) : q.when = "result"}}
        before == FoldLeft(LAMBDA sum, p : IF p.when = "result" THEN sum ELSE sum + p.c.most, 0, parts)
        all == Consumption(\A p \in ToSet(parts) : p.c.valid,
                           before + (IF branches = {} THEN 0 ELSE Max(branches)),
                           UNION {p.c.cases : p \in ToSet(parts)})
    IN  IF IsLocal(w, n, depth) \/ (node.tag = "lambda" /\ ~(all.valid /\ all.most = 0)) THEN Consumption(FALSE, 0, {})
        ELSE all

(* Mutant: however many of them.                                           *)
MutantReusableCases(w, n) ==
    LET consumption == LocalConsumption(w, n, 0, FALSE)
    IN  IF consumption.valid THEN consumption.cases ELSE {}
ReusableCases(w, n) ==
    LET consumption == LocalConsumption(w, n, 0, FALSE)
    IN  IF consumption.valid /\ consumption.most <= 1 THEN consumption.cases ELSE {}

(***************************************************************************)
(* Lambda sets (wasm_lambda_sets.ts): which functions the value of a node  *)
(* may be.  Functions flow from variable to variable, of nodes, binders,   *)
(* fields, definitions, and of what is outside; a variable to which an     *)
(* unknown function may flow is incomplete.                                *)
(***************************************************************************)
MaximumLambdaSetSize == 64

NodeVariable(n) == <<"node", n>>
BinderVariable(n) == <<"binder", n>>
DefinitionVariable(d) == <<"definition", d>>
ConstructorField(con, i) == <<"field", con, i>>
CaseBinder(alternative, i) == <<"pattern", alternative, i>>
ExternalValue == <<"external", 0>>

(* What the traversal of an expression finds, in order.                    *)
Edge(from, to) == [is |-> "edge", from |-> from, to |-> to]
Unknowable(variable) == [is |-> "incomplete", at |-> variable]
Application(callee, argument, result) == [is |-> "application", callee |-> callee, argument |-> argument, result |-> result]

VisitApplication(w, n) ==
    LET spine == Spine(w, n)
        base == w.nodes[spine.base]
        arity == w.arities[base.constructor]
        given == Len(spine.arguments)
        node == w.nodes[n]
    IN  IF base.tag # "constructor" \/ (base.tag = "constructor" /\ given > arity)
        THEN <<Application(NodeVariable(node.callee), NodeVariable(node.argument), NodeVariable(n))>>
        ELSE IF given < arity THEN <<Unknowable(NodeVariable(n))>>
        ELSE [i \in 1 .. given |-> Edge(NodeVariable(spine.arguments[i].node), ConstructorField(base.constructor, i))]

RECURSIVE VisitExpression(_, _, _)
VisitExpression(w, n, env) ==
    LET node == w.nodes[n]
        here == NodeVariable(n)
        bound == <<BinderVariable(n)>> \o env
        Visit(child) == VisitExpression(w, child, env)
        Result(child) == <<Edge(NodeVariable(child), here)>>
        VisitArm(a) ==
            LET arm == w.alternatives[a]
                last == w.arities[arm.constructor]
                binders == [i \in 1 .. arm.binders |-> CaseBinder(a, i)]
            IN  [i \in 1 .. last |-> Edge(ConstructorField(arm.constructor, last + 1 - i), CaseBinder(a, last + 1 - i))]
                \o VisitExpression(w, arm.body, binders \o env) \o Result(arm.body)
    IN  CASE node.tag = "local" -> <<Edge(env[node.depth + 1], here)>>
          [] node.tag = "global" -> <<Edge(DefinitionVariable(node.definition), here)>>
          [] node.tag = "constructor" -> IF w.arities[node.constructor] > 0 THEN <<Unknowable(here)>> ELSE <<>>
          [] node.tag = "lambda" -> <<[is |-> "lambda", at |-> here, lambda |-> n]>> \o VisitExpression(w, node.body, bound)
          [] node.tag = "apply" -> Visit(node.callee) \o Visit(node.argument) \o VisitApplication(w, n)
          [] node.tag = "let" ->
                 Visit(node.value) \o <<Edge(NodeVariable(node.value), BinderVariable(n))>>
                 \o VisitExpression(w, node.body, bound) \o Result(node.body)
          [] node.tag = "letrec" ->
                 VisitExpression(w, node.value, bound) \o <<Edge(NodeVariable(node.value), BinderVariable(n))>>
                 \o VisitExpression(w, node.body, bound) \o Result(node.body)
          [] node.tag = "if" -> Visit(node.test) \o Visit(node.consequent) \o Visit(node.alternate)
                                \o Result(node.consequent) \o Result(node.alternate)
          [] node.tag = "prim" -> FlattenSeq([i \in DOMAIN node.operands |-> Visit(node.operands[i])])
          [] node.tag = "case" ->
                 Visit(node.scrutinee) \o FlattenSeq([i \in 1 .. node.count |-> VisitArm(node.first + i - 1)])
          [] OTHER -> <<>>

(* The state of the solver: the incomplete variables, the functions and    *)
(* the targets of each variable, the calls of each variable with the       *)
(* functions they were connected to, and the variables that changed; and   *)
(* the functions that an incomplete variable did not take.                 *)
NoFlow == [incomplete |-> {}, lambdas |-> <<>>, edges |-> <<>>, applications |-> <<>>, queue |-> <<>>, lost |-> {}]
At(function, variable, default) == IF variable \in DOMAIN function THEN function[variable] ELSE default
LambdasOf(s, variable) == At(s.lambdas, variable, {})

Enqueue(s, variable) == IF variable \in ToSet(s.queue) THEN s ELSE [s EXCEPT !.queue = Append(@, variable)]
MarkIncomplete(s, variable) ==
    IF variable \in s.incomplete THEN s ELSE Enqueue([s EXCEPT !.incomplete = @ \cup {variable}], variable)
AddLambdas(s, variable, lambdas) ==
    LET all == LambdasOf(s, variable) \cup lambdas
    IN  IF all = LambdasOf(s, variable) THEN s
        ELSE IF variable \in s.incomplete THEN [s EXCEPT !.lost = @ \cup lambdas]
        ELSE IF Cardinality(all) > MaximumLambdaSetSize
             THEN MarkIncomplete([s EXCEPT !.lambdas = (variable :> {}) @@ @], variable)
        ELSE Enqueue([s EXCEPT !.lambdas = (variable :> all) @@ @], variable)
Merge(s, from, to) ==
    AddLambdas(IF from \in s.incomplete THEN MarkIncomplete(s, to) ELSE s, to, LambdasOf(s, from))
AddEdge(s, from, to) ==
    LET targets == At(s.edges, from, <<>>)
    IN  IF Contains(targets, to) THEN s ELSE Merge([s EXCEPT !.edges = (from :> Append(targets, to)) @@ @], from, to)

Visited(s, found) ==
    CASE found.is = "edge" -> AddEdge(s, found.from, found.to)
      [] found.is = "incomplete" -> MarkIncomplete(s, found.at)
      [] found.is = "lambda" -> AddLambdas(s, found.at, {found.lambda})
      [] found.is = "application" ->
             [s EXCEPT !.applications = Append(@, [callee |-> found.callee, argument |-> found.argument,
                                                   result |-> found.result, connected |-> {}])]

(* The fields of a constructor of which some use is not a call with all    *)
(* arguments.                                                              *)
EscapingFields(w) ==
    LET Escapes(n) == w.nodes[n].tag = "constructor" /\ SuppliedArguments(w, n) < w.arities[w.nodes[n].constructor]
        Fields(con) == [i \in 1 .. w.arities[con] |-> Unknowable(ConstructorField(con, i))]
    IN  FlattenSeq([n \in DOMAIN w.nodes |-> IF Escapes(n) THEN Fields(w.nodes[n].constructor) ELSE <<>>])

ConnectApplication(w, s, a) ==
    LET call == s.applications[a]
        known == IF call.callee \in s.incomplete THEN MarkIncomplete(s, call.result) ELSE s
        Connect(r, lambda) ==
            AddEdge(AddEdge(r, call.argument, BinderVariable(lambda)), NodeVariable(w.nodes[lambda].body), call.result)
    IN  FoldLeft(Connect, [known EXCEPT !.applications[a].connected = LambdasOf(s, call.callee)],
                 SetToSortSeq(LambdasOf(s, call.callee) \ call.connected, <))

RECURSIVE SolveFlow(_, _)
SolveFlow(w, s) ==
    LET source == Head(s.queue)
        taken == [s EXCEPT !.queue = Tail(@)]
        merged == FoldLeft(LAMBDA r, to : Merge(r, source, to), taken, At(s.edges, source, <<>>))
        calls == SelectSeq([a \in DOMAIN s.applications |-> a], LAMBDA a : s.applications[a].callee = source)
    IN  IF s.queue = <<>> THEN s
        ELSE SolveFlow(w, FoldLeft(LAMBDA r, a : ConnectApplication(w, r, a), merged, calls))

LambdaSetAnalysis(w) ==
    LET Definition(d) ==
            VisitExpression(w, w.definitions[d], <<>>) \o <<Edge(NodeVariable(w.definitions[d]), DefinitionVariable(d))>>
        found == <<Unknowable(ExternalValue)>> \o EscapingFields(w)
                 \o FlattenSeq([d \in DOMAIN w.definitions |-> Definition(d)])
                 \o <<Application(DefinitionVariable(w.entry), ExternalValue, ExternalValue)>>
        after[i \in 0 .. Len(found)] == IF i = 0 THEN NoFlow ELSE Visited(after[i - 1], found[i])
    IN  SolveFlow(w, Enqueue(after[Len(found)], DefinitionVariable(w.entry)))

(* What is known of the function that a node evaluates to.                 *)
LambdaSet(s, n) ==
    [lambdas |-> LambdasOf(s, NodeVariable(n)), complete |-> NodeVariable(n) \notin s.incomplete]

(***************************************************************************)
(* The program with everything that is found out before code is emitted.   *)
(***************************************************************************)
AnalyzeForWasm(core) ==
    LET lowered == [nodes |-> LowerCoreForWasm(core.nodes), alternatives |-> core.alternatives,
                    definitions |-> core.definitions, entry |-> core.entry, arities |-> core.arities]
        Free(n) == FreeLocals(lowered, n)
        w == lowered @@ [free |-> Table(Free, Len(lowered.nodes))]
        Function(n) == IF w.nodes[n].tag = "lambda" THEN FunctionShape(w, n) ELSE [loops |-> FALSE, fold |-> <<>>]
    IN  w @@ [functions |-> Table(Function, Len(w.nodes)),
              flow |-> LambdaSetAnalysis(w),
              direct |-> DirectOnlyDefinitions(w),
              reachable |-> ReachableDefinitions(w, {w.entry})]
=============================================================================
