---------------------------- MODULE WasmCodegen ----------------------------
(***************************************************************************)
(* The Wasm backend (src/src/functional/wasm_codegen.ts) and what the code *)
(* that it emits does.  Emission and execution are one: an operator that   *)
(* stands for a function of the emitter returns the machine after the code *)
(* it emits for a node, in an environment that says where the emitter has  *)
(* put every local.  Code that is emitted and not reached is not seen.     *)
(*                                                                         *)
(* m is the machine: its status, the heap, the static memory (globals),    *)
(* the last value, the function that runs (at), the arguments of the next  *)
(* round of a loop (jump), and the depth that is left (fuel), the bound of *)
(* this model.  No operator does anything once the status is not "ok".     *)
(***************************************************************************)
EXTENDS WasmAnalyses

LOCAL Arithmetic == INSTANCE CallByName

StaticDepth == 6 \* how far the emitter looks for a known function: 64 in the code

(***************************************************************************)
(* Values, objects and the machine                                         *)
(***************************************************************************)
Zero == [is |-> "zero"] \* memory that nothing was written to
IntegerOf(n) == [is |-> "integer", n |-> Arithmetic!Truncated(n)]
BooleanOf(b) == [is |-> "boolean", b |-> b]
Pointer(at) == [is |-> "pointer", at |-> at]

(* A closure is the code of a function, or of a constructor that waits for *)
(* more arguments.                                                         *)
FunctionClosure(n, values) == [kind |-> "closure", lambda |-> n, constructor |-> 0, values |-> values]
ConstructorClosure(con, values) == [kind |-> "closure", lambda |-> 0, constructor |-> con, values |-> values]
ConstructorObject(con, values) == [kind |-> "constructor", constructor |-> con, values |-> values]
ThunkObject(n, values) == [kind |-> "thunk", state |-> "unevaluated", node |-> n, values |-> values, value |-> Zero]

Running(m) == m.status = "ok"
Stop(m, status) == [m EXCEPT !.status = status]
Return(m, value) == [m EXCEPT !.value = value]
Seen(m, ghost) == [m EXCEPT !.ghosts = @ \cup {ghost}]
Touch(m) == [m EXCEPT !.touched = @ \cup {m.at.frame}]
Allocate(m, object) == [Touch(m) EXCEPT !.heap = Append(@, object), !.value = Pointer(Len(m.heap) + 1)]
IsObject(m, value, kind) == value.is = "pointer" /\ m.heap[value.at].kind = kind

(* A call has a frame of its own.  What is being inlined or fused, and     *)
(* whether integers are native, is what it was where the call was first    *)
(* emitted: here, where it is made.                                        *)
Enter(m, self) == [m EXCEPT !.frames = @ + 1, !.at.frame = m.frames + 1, !.at.self = self]
Leave(m, after) == [after EXCEPT !.at = m.at, !.fuel = m.fuel]

(* Native scalars: of a program without a runtime, or in a worker.         *)
ScalarSpecializationEnabled(w, m) == w.mode = "compact" \/ m.at.native

(***************************************************************************)
(* Bindings: where the emitter has put a local.  Those that hold a value   *)
(* are locals of the Wasm function, and a capture is a field of its        *)
(* closure: they mean nothing in another one.                              *)
(***************************************************************************)
None == [is |-> "none"]
Constantly(value) == [is |-> "constant", v |-> value]
Hold(m, binding, value) == binding @@ [v |-> value, frame |-> m.at.frame]
Capture(m, position) == [is |-> "capture", position |-> position, frame |-> m.at.frame]
VirtualFunction(n, env) == [is |-> "virtual-lambda", node |-> n, env |-> env]
VirtualConstruction(con, arguments, env) ==
    [is |-> "virtual-constructor", constructor |-> con, arguments |-> arguments, env |-> env]
StaticRecursiveFunction(n, env, sole) ==
    [is |-> "static-recursive-function", node |-> n, env |-> env, sole |-> sole]
DeferredExpression(n, env) == [is |-> "deferred-expression", node |-> n, env |-> env]
JoinPoint(n, env, depth, passes) == [is |-> "join-point", node |-> n, env |-> env, depth |-> depth, passes |-> passes]

Lookup(env, depth) == IF depth < Len(env) THEN env[depth + 1] ELSE None
Constants(env) == [i \in DOMAIN env |-> IF env[i].is = "constant" THEN <<env[i].v>> ELSE <<>>]
ConstantOf(w, n, env, is) ==
    LET constant == Constant(w, n, Constants(env))
    IN  IF constant = <<>> THEN None ELSE IF constant[1].is \in is THEN Constantly(constant[1]) ELSE None
Scalar == {"integer", "boolean"}

(* prunedCaptures: what a closure takes from the environment, and the      *)
(* environment of its body, of which the first position is first.          *)
Captures(w, n, binders, env) ==
    LET depths == FreeLocalDepths(w, n, binders) IN [i \in DOMAIN depths |-> Lookup(env, depths[i] - binders)]
CaptureEnvironment(w, m, n, binders, first) ==
    LET depths == FreeLocalDepths(w, n, binders)
        Position(depth) == SelectInSeq(depths, LAMBDA d : d = depth)
        Source(i) == IF Position(i - 1 + binders) = 0 THEN None ELSE Capture(m, first - 1 + Position(i - 1 + binders))
    IN  IF depths = <<>> THEN <<>> ELSE Table(Source, Last(depths) - binders + 1)

(***************************************************************************)
(* What the emitter knows of a node                                        *)
(***************************************************************************)
ExpressionIsWhnf(w, n) == w.nodes[n].tag \in {"integer", "boolean", "lambda", "constructor"}

RECURSIVE CanCompileInteger(_, _), CanCompileBoolean(_, _), CanEvaluateEagerly(_, _)
CanCompileInteger(w, n) ==
    LET node == w.nodes[n]
    IN  \/ node.tag = "integer"
        \/ /\ node.tag = "prim" /\ (IsIntegerOperator(node.op) \/ node.op = "Negate")
           /\ \A operand \in ToSet(node.operands) : CanCompileInteger(w, operand)
        \/ node.tag = "if" /\ CanCompileInteger(w, node.consequent) /\ CanCompileInteger(w, node.alternate)
        \/ node.tag \in {"let", "letrec"} /\ CanCompileInteger(w, node.body)
CanCompileBoolean(w, n) ==
    LET node == w.nodes[n]
    IN  \/ node.tag = "boolean"
        \/ /\ node.tag = "prim" /\ IsComparison(node.op)
           /\ \A operand \in ToSet(node.operands) : CanCompileInteger(w, operand)
        \/ node.tag = "if" /\ CanCompileBoolean(w, node.consequent) /\ CanCompileBoolean(w, node.alternate)
        \/ node.tag \in {"let", "letrec"} /\ CanCompileBoolean(w, node.body)
CanEvaluateEagerly(w, n) ==
    LET node == w.nodes[n]
    IN  \/ node.tag \in {"integer", "boolean", "local", "global", "lambda", "constructor"}
        \/ /\ node.tag \in {"prim", "if", "let"} /\ (node.tag = "prim" => node.op # "Divide")
           /\ \A part \in ToSet(Parts(w, n)) : CanEvaluateEagerly(w, part.node)

(* The functions, constructions and scalars that the emitter knows without *)
(* evaluating anything.                                                    *)
RECURSIVE VirtualLambda(_, _, _, _), VirtualConstructor(_, _, _, _), StaticBinding(_, _, _, _)

(* The binding of a let, or the argument of a known function, is known: in *)
(* its scope the node may be.                                              *)
VirtualScope(w, n, env, calleeDepth, depth) ==
    LET node == w.nodes[n]
        callee == VirtualLambda(w, node.callee, env, calleeDepth)
        test == ConstantOf(w, node.test, env, {"boolean"})
        Within(value, body, outer) ==
            LET binding == StaticBinding(w, value, env, depth)
            IN  IF binding = None THEN <<>> ELSE <<[node |-> body, env |-> <<binding>> \o outer]>>
    IN  CASE node.tag = "let" -> Within(node.value, node.body, env)
          [] node.tag = "apply" ->
                 IF callee = None THEN <<>> ELSE Within(node.argument, w.nodes[callee.node].body, callee.env)
          [] node.tag = "if" ->
                 IF test = None THEN <<>>
                 ELSE <<[node |-> IF test.v.b THEN node.consequent ELSE node.alternate, env |-> env]>>
          [] OTHER -> <<>>

VirtualLambda(w, n, env, depth) ==
    LET node == w.nodes[n]
        root == w.definitions[node.definition]
        scope == VirtualScope(w, n, env, depth - 1, depth - 1)
    IN  CASE depth = 0 -> None
          [] depth > 0 /\ node.tag = "lambda" -> IF w.functions[n].local THEN None ELSE VirtualFunction(n, env)
          [] depth > 0 /\ node.tag = "local" ->
                 IF Lookup(env, node.depth).is = "virtual-lambda" THEN Lookup(env, node.depth) ELSE None
          [] depth > 0 /\ node.tag = "global" -> IF w.nodes[root].tag = "lambda" THEN VirtualFunction(root, <<>>) ELSE None
          [] OTHER -> IF w.mode # "compact" THEN None
                      ELSE IF scope = <<>> THEN None
                      ELSE VirtualLambda(w, scope[1].node, scope[1].env, depth - 1)

VirtualConstructor(w, n, env, depth) ==
    LET node == w.nodes[n]
        arguments == Spine(w, n).arguments
        scope == VirtualScope(w, n, env, StaticDepth, depth - 1)
    IN  CASE depth = 0 -> None
          [] depth > 0 /\ node.tag = "local" ->
                 IF Lookup(env, node.depth).is = "virtual-constructor" THEN Lookup(env, node.depth) ELSE None
          [] depth > 0 /\ IsConstruction(w, n) ->
                 IF \E i \in DOMAIN arguments : StaticBinding(w, arguments[i].node, env, depth - 1) = None THEN None
                 ELSE VirtualConstruction(w.nodes[Spine(w, n).base].constructor, arguments, env)
          [] OTHER -> IF scope = <<>> THEN None ELSE VirtualConstructor(w, scope[1].node, scope[1].env, depth - 1)

StaticBinding(w, n, env, depth) ==
    LET lambda == VirtualLambda(w, n, env, depth)
        constructor == VirtualConstructor(w, n, env, depth)
    IN  IF lambda # None THEN lambda
        ELSE IF constructor # None THEN constructor
        ELSE ConstantOf(w, n, env, Scalar)

KnownLambda(w, n, env) == VirtualLambda(w, n, env, StaticDepth)
KnownConstructor(w, m, n, env) ==
    IF ScalarSpecializationEnabled(w, m) THEN VirtualConstructor(w, n, env, StaticDepth) ELSE None

(* A partial application of a constructor has the shape of a full one with *)
(* fewer arguments.                                                        *)
IsConstructorApplication(w, n) ==
    LET spine == Spine(w, n)
        base == w.nodes[spine.base]
    IN  /\ base.tag = "constructor" /\ spine.arguments # <<>>
        /\ Len(spine.arguments) <= w.arities[base.constructor]

(* A strict parameter of which arithmetic is done, or of a function that   *)
(* is declared for integers, is passed as a native one.                    *)
IsUnboxedNumericParameter(w, shape, p) ==
    p \in shape.strict /\ (p \in shape.numeric \/ shape.outer \in w.declared)

(* The function that a call with all arguments calls, when it is known.    *)
(* static is the environment that is known of it.                          *)
UncurriedApplication(w, n, env) ==
    LET spine == Spine(w, n)
        base == w.nodes[spine.base]
        arguments == spine.arguments
        virtual == KnownLambda(w, spine.base, env)
        localVirtual == virtual # None /\ base.tag # "global"
        inline == localVirtual /\ Len(arguments) > 1
        set == LambdaSet(w.flow, spine.base)
        outer == IF virtual # None THEN virtual.node
                 ELSE IF set.complete /\ Cardinality(set.lambdas) = 1 THEN CHOOSE lambda \in set.lambdas : TRUE
                 ELSE 0
        recursive == IF base.tag = "local" THEN Lookup(env, base.depth) ELSE None
        isStatic == recursive.is = "static-recursive-function"
    IN  IF \/ arguments = <<>> \/ outer = 0 \/ (localVirtual /\ ~inline)
           \/ ~inline /\ \E i \in DOMAIN arguments : KnownLambda(w, arguments[i].node, env) # None
        THEN <<>>
        ELSE IF w.functions[outer].parameters # Len(arguments) THEN <<>>
        ELSE <<[base |-> spine.base, arguments |-> arguments, outer |-> outer, inline |-> inline,
                sole |-> isStatic /\ recursive.sole,
                static |-> IF isStatic THEN recursive.env ELSE IF inline THEN virtual.env ELSE <<>>]>>

CanUseNativeIntegerWorker(w, m, application) ==
    LET shape == w.functions[application.outer]
    IN  /\ ScalarSpecializationEnabled(w, m)
        /\ \A p \in 1 .. shape.parameters : IsUnboxedNumericParameter(w, shape, p)

(* A worker gets the closure when it captures something that is not known. *)
FirstCapture(shape) == IF shape.local THEN 2 ELSE 1
StaticCaptureForWorker(binding) ==
    IF binding.is \in {"constant", "static-recursive-function"} THEN binding ELSE None
HasEnvironmentParameter(w, shape, static) ==
    LET first == FirstCapture(shape)
    IN  \E depth \in ToSet(FreeLocalDepths(w, w.nodes[shape.outer].body, first)) :
            StaticCaptureForWorker(Lookup(static, depth - first)) = None

(* The environment of the body of a worker, or of a body emitted in the    *)
(* caller, which has no closure: parameters, the function itself, and what *)
(* it captures.                                                            *)
UncurriedBodyEnvironment(w, m, shape, parameters, static, mode) ==
    LET first == FirstCapture(shape)
        body == w.nodes[shape.outer].body
        depths == FreeLocalDepths(w, body, first)
        closure == mode = "worker" /\ HasEnvironmentParameter(w, shape, static)
        own == shape.local /\ 1 \in w.free[body]
        self == IF closure THEN <<Hold(m, [is |-> "i32-pointer"], m.at.self)>>
                ELSE <<StaticRecursiveFunction(shape.outer, static, FALSE)>>
        Known(depth) == IF mode = "worker" THEN StaticCaptureForWorker(Lookup(static, depth - first))
                        ELSE Lookup(static, depth - first)
        Outer(i) ==
            LET depth == i - 1 + first
                position == SelectInSeq(depths, LAMBDA d : d = depth) + (IF own THEN 1 ELSE 0)
            IN  IF depth \notin ToSet(depths) THEN None
                ELSE IF Known(depth) # None THEN Known(depth)
                ELSE IF closure THEN Capture(m, position) ELSE None
    IN  Reverse(parameters) \o (IF shape.local THEN self ELSE <<>>)
        \o (IF depths = <<>> THEN <<>> ELSE Table(Outer, Last(depths) - first + 1))

(***************************************************************************)
(* Code for the operands of something, in order, with the values it        *)
(* leaves; and code whose value is bound to a local.                       *)
(***************************************************************************)
RECURSIVE Expression(_, _, _, _, _), IntegerExpression(_, _, _, _), BooleanExpression(_, _, _, _),
          LazyValue(_, _, _, _), Emit(_, _, _), Force(_, _), TailPosition(_, _, _, _, _, _, _)

NoReuse == [at |-> 0, fields |-> 0]
Now(n, env) == [do |-> "now", node |-> n, env |-> env]
Later(n, env) == [do |-> "later", node |-> n, env |-> env]
AsInteger(n, env) == [do |-> "integer", node |-> n, env |-> env]
AsBoolean(n, env) == [do |-> "boolean", node |-> n, env |-> env]
Emission(binding) == [do |-> "emit", binding |-> binding]
Nothing == [do |-> "nothing"]
(* compileApplicationArgument                                              *)
Argument(argument, env, demanded) ==
    IF argument.strict \/ demanded THEN Now(argument.node, env) ELSE Later(argument.node, env)

Run(w, m, code) ==
    CASE code.do = "now"     -> Expression(w, m, code.node, code.env, NoReuse)
      [] code.do = "later"   -> LazyValue(w, m, code.node, code.env)
      [] code.do = "integer" -> IntegerExpression(w, m, code.node, code.env)
      [] code.do = "boolean" -> BooleanExpression(w, m, code.node, code.env)
      [] code.do = "emit"    -> Emit(w, m, code.binding)
      [] code.do = "nothing" -> Return(m, Zero)

Collected(r, m) == [m |-> m, values |-> Append(r.values, m.value)]
RECURSIVE RunFrom(_, _, _)
RunFrom(w, r, codes) ==
    IF codes = <<>> THEN r ELSE RunFrom(w, Collected(r, Run(w, r.m, Head(codes))), Tail(codes))
RunAll(w, m, codes) == RunFrom(w, [m |-> m, values |-> <<>>], codes)
EmitAll(w, m, bindings) == RunAll(w, m, [i \in DOMAIN bindings |-> Emission(bindings[i])])

(* An item is a binding that is known, or code for its value.              *)
Known(binding) == [known |-> TRUE, binding |-> binding]
Computed(binding, code) == [known |-> FALSE, binding |-> binding, code |-> code]
ComputedAs(is, code) == Computed([is |-> is], code)
Bound(r, item, m) ==
    IF item.known THEN [r EXCEPT !.bindings = Append(@, item.binding)]
    ELSE [m |-> m, bindings |-> Append(r.bindings, Hold(m, item.binding, m.value))]
RECURSIVE BindFrom(_, _, _)
BindFrom(w, r, items) ==
    IF items = <<>> THEN r ELSE BindFrom(w, Bound(r, Head(items), Run(w, r.m, Head(items).code)), Tail(items))
BindAll(w, m, items) == BindFrom(w, [m |-> m, bindings |-> <<>>], items)

(***************************************************************************)
(* Objects                                                                 *)
(***************************************************************************)
Closure(w, m, n, env) ==
    LET captured == EmitAll(w, m, Captures(w, w.nodes[n].body, 1, env))
    IN  Allocate(captured.m, FunctionClosure(n, captured.values))

(* A function that refers to itself captures itself first.                 *)
RecursiveClosure(w, m, n, env) ==
    LET body == w.nodes[n].body
        captured == EmitAll(w, m, Captures(w, body, 2, env))
        self == IF 1 \in w.free[body] THEN <<Pointer(Len(captured.m.heap) + 1)>> ELSE <<>>
    IN  Allocate(captured.m, FunctionClosure(n, self \o captured.values))

(* emitConstructor: where a constructor was that nothing refers to any     *)
(* more, when it has as many fields.                                       *)
EmitConstructor(m, con, values, reuse) ==
    IF reuse.fields # Len(values) THEN Allocate(m, ConstructorObject(con, values))
    ELSE [Touch(m) EXCEPT !.heap[reuse.at] = ConstructorObject(con, values), !.value = Pointer(reuse.at)]

(* compileExpressionBinding                                                *)
ExpressionBinding(w, argument, env) ==
    LET static == StaticBinding(w, argument.node, env, StaticDepth)
    IN  IF static # None THEN Known(static) ELSE ComputedAs("i64-value", Now(argument.node, env))
ExpressionBindings(w, m, construction) ==
    BindAll(w, m, [i \in DOMAIN construction.arguments |->
                      ExpressionBinding(w, construction.arguments[i], construction.env)])

(* emitBinding: the value of a local.                                      *)
Emitted(w, m, b) ==
    LET closure == m.heap[m.at.self.at]
        fields == ExpressionBindings(w, m, b)
        emitted == EmitAll(w, fields.m, fields.bindings)
    IN  CASE b.is \in {"none", "join-point"} -> Stop(m, "compiler-error")
          [] b.is = "constant" -> Return(m, b.v)
          [] b.is = "deferred-expression" -> Expression(w, m, b.node, b.env, NoReuse)
          [] b.is = "virtual-lambda" -> Closure(w, m, b.node, b.env)
          [] b.is = "virtual-constructor" -> EmitConstructor(emitted.m, b.constructor, emitted.values, NoReuse)
          [] b.is = "static-recursive-function" -> RecursiveClosure(w, m, b.node, b.env)
          [] b.is = "capture" ->
                 IF b.frame # m.at.frame \/ m.at.self.is # "pointer" THEN Stop(m, "corrupt")
                 ELSE IF b.position > Len(closure.values) THEN Stop(m, "corrupt")
                 ELSE Return(Touch(m), closure.values[b.position])
          [] OTHER -> IF b.frame # m.at.frame THEN Stop(m, "corrupt") ELSE Return(m, b.v)
Emit(w, m, b) == IF Running(m) THEN Emitted(w, m, b) ELSE m

(* A thunk that is needed while it is evaluated faults.  Nothing is forced *)
(* in a program that can have no thunk.                                    *)
ForceThunk(w, m) ==
    LET at == m.value.at
        thunk == m.heap[at]
        inside == Enter([m EXCEPT !.heap[at].state = "evaluating"], m.value)
        after == Leave(m, Expression(w, inside, thunk.node, CaptureEnvironment(w, inside, thunk.node, 0, 1), NoReuse))
    IN  CASE thunk.state = "evaluated"   -> Return(m, thunk.value)
          [] thunk.state = "evaluating"  -> Stop(m, "trap")
          [] thunk.state = "unevaluated" ->
                 IF ~Running(after) THEN after
                 ELSE [after EXCEPT !.heap[at].state = "evaluated", !.heap[at].value = after.value]
Force(w, m) ==
    LET looked == IF w.mode = "compact" THEN Touch(m) ELSE m
    IN  IF ~Running(m) \/ ~w.thunks THEN m
        ELSE IF m.value = Zero THEN Stop(m, "corrupt")
        ELSE IF IsObject(m, m.value, "thunk") THEN ForceThunk(w, looked) ELSE looked

DecodeInteger(m) ==
    IF ~Running(m) THEN m
    ELSE CASE m.value = Zero -> Return(m, IntegerOf(0))
           [] m.value.is = "integer" -> m
           [] OTHER -> Stop(m, "corrupt")
DecodeBoolean(m) ==
    IF ~Running(m) THEN m
    ELSE CASE m.value = Zero -> Return(m, BooleanOf(FALSE))
           [] m.value.is = "boolean" -> m
           [] OTHER -> Stop(m, "corrupt")

(* The static memory of a definition.  A direct export is called before    *)
(* anything is written to it.                                              *)
GlobalSlot(w, m, d) ==
    Return(Touch(IF w.mode = "export" THEN Seen(m, "uninitialised") ELSE m), m.globals[d])
GlobalReference(w, m, d) ==
    IF d \in w.direct THEN Stop(m, "compiler-error")
    ELSE IF ExpressionIsWhnf(w, w.definitions[d]) THEN GlobalSlot(w, m, d)
    ELSE Force(w, GlobalSlot(w, m, d))

(* compileLazyValue                                                        *)
LazyValue(w, m, n, env) ==
    LET node == w.nodes[n]
        captured == EmitAll(w, m, Captures(w, n, 0, env))
    IN  IF ~Running(m) THEN m
        ELSE IF ExpressionIsWhnf(w, n) THEN Expression(w, m, n, env, NoReuse)
        ELSE CASE node.tag = "local"  -> Emit(w, m, Lookup(env, node.depth))
               [] node.tag = "global" -> GlobalSlot(w, m, node.definition)
               [] OTHER -> Allocate(captured.m, ThunkObject(n, captured.values))

LocalReference(w, m, binding) ==
    LET emitted == Emit(w, m, binding)
    IN  IF binding.is \in {"i64-local", "capture"} THEN Force(w, emitted) ELSE emitted

(***************************************************************************)
(* Functions                                                               *)
(***************************************************************************)
(* What each parameter of a worker is given, and what it is there.         *)
ParameterKind(w, shape, p) == [is |-> IF IsUnboxedNumericParameter(w, shape, p) THEN "i32-integer" ELSE "i64-local"]
UncurriedArguments(w, application, env) ==
    LET shape == w.functions[application.outer]
        Code(p) == IF IsUnboxedNumericParameter(w, shape, p) THEN AsInteger(application.arguments[p].node, env)
                   ELSE Argument(application.arguments[p], env, FALSE)
    IN  Table(Code, shape.parameters)
HoldAll(w, m, shape, values) == [p \in DOMAIN values |-> Hold(m, ParameterKind(w, shape, p), values[p])]

Loop(w, n) == {outer \in DOMAIN w.nodes : w.functions[outer].loops /\ w.functions[outer].inner = n}

(* compileTailLoop: a parameter that is not in the environment is not one  *)
(* of the loop; jump has the values of the next round, in which those of   *)
(* the parameters that are not in the loop are skipped.                    *)
InLoop(loop, env, p) == Lookup(env, loop.parameters - p) # None
WithParameters(w, m, loop, env, values) ==
    [i \in DOMAIN env |->
        LET p == loop.parameters + 1 - i
        IN  IF p >= 1 /\ env[i] # None THEN Hold(m, ParameterKind(w, loop, p), values[p]) ELSE env[i]]

RECURSIVE Round(_, _, _, _, _, _)
Round(w, m, loop, env, values, kind) ==
    LET inside == WithParameters(w, m, loop, env, values)
        after == TailPosition(w, [m EXCEPT !.jump = <<>>], loop.body, inside, loop, 0, kind)
    IN  IF ~Running(after) \/ after.jump = <<>> THEN after
        ELSE IF after.fuel = 0 THEN Stop(after, "exhausted")
        ELSE Round(w, [after EXCEPT !.fuel = @ - 1], loop, env, after.jump, kind)

TailLoop(w, m, loop, env, kind) ==
    LET Source(p) == Lookup(env, loop.parameters - p)
        Initial(r, p) ==
            LET emitted == Emit(w, r.m, Source(p))
                forced == IF Source(p).is = "i32-integer" THEN emitted ELSE DecodeInteger(Force(w, emitted))
            IN  IF ~InLoop(loop, env, p) THEN Collected(r, Return(r.m, Zero))
                ELSE IF IsUnboxedNumericParameter(w, loop, p) THEN Collected(r, forced)
                ELSE Collected(r, emitted)
        start[p \in 0 .. loop.parameters] ==
            IF p = 0 THEN [m |-> m, values |-> <<>>] ELSE Initial(start[p - 1], p)
        started == start[loop.parameters]
    IN  [Round(w, started.m, loop, env, started.values, kind) EXCEPT !.fuel = m.fuel]

(* compileNumericFoldLoop: the results of the rounds are added up.         *)
RECURSIVE FoldLoop(_, _, _, _, _)
FoldLoop(w, m, fold, env, sum) ==
    LET test == BooleanExpression(w, m, fold.test, env)
        base == IntegerExpression(w, test, fold.base, env)
        step == RunAll(w, test, <<AsInteger(fold.step.contribution, env), AsInteger(fold.step.argument.node, env)>>)
        next == <<[env[1] EXCEPT !.v = step.values[2]]>> \o Tail(env)
        Plus(value) == IntegerOf(sum.n + value.n)
    IN  IF ~Running(test) THEN test
        ELSE IF test.value.b # fold.whenTrue THEN IF Running(base) THEN Return(base, Plus(base.value)) ELSE base
        ELSE IF ~Running(step.m) THEN step.m
        ELSE IF step.m.fuel = 0 THEN Stop(step.m, "exhausted")
        ELSE FoldLoop(w, [step.m EXCEPT !.fuel = @ - 1], fold, next, Plus(step.values[1]))

(* The code of a worker: a loop, a fold, or its body.                      *)
BodyOf(w, m, n, env, kind) ==
    IF kind = "integer" THEN IntegerExpression(w, m, n, env) ELSE Expression(w, m, n, env, NoReuse)
Worker(w, m, shape, static, self, values, kind) ==
    LET entered == Enter(m, self)
        inside == [entered EXCEPT !.at.native = @ \/ kind = "integer"]
        env == UncurriedBodyEnvironment(w, inside, shape, HoldAll(w, inside, shape, values), static, "worker")
        loops == Loop(w, shape.inner)
        fold == w.functions[shape.inner].fold
        folds == fold # <<>> /\ ScalarSpecializationEnabled(w, inside) /\ IsUnboxedNumericParameter(w, shape, 1)
        after == IF loops # {} THEN TailLoop(w, inside, w.functions[CHOOSE l \in loops : TRUE], env, kind)
                 ELSE IF folds THEN FoldLoop(w, inside, fold[1], env, IntegerOf(0))
                 ELSE BodyOf(w, inside, shape.body, env, kind)
    IN  IF Running(m) THEN Leave(m, after) ELSE m

(* The code of a function that is called with one argument: its body, or a *)
(* call of the worker that is its loop.                                    *)
ForwardToWorker(w, m, loop, env) ==
    LET Source(p) == Lookup(env, loop.parameters - p)
        self == IF ~HasEnvironmentParameter(w, loop, <<>>) \/ ~loop.local THEN Return(m, Zero)
                ELSE Emit(w, m, Lookup(env, loop.parameters))
        Forwarded(r, p) ==
            LET emitted == Emit(w, r.m, Source(p))
            IN  IF IsUnboxedNumericParameter(w, loop, p) THEN Collected(r, DecodeInteger(Force(w, emitted)))
                ELSE IF Source(p) = None THEN Collected(r, Return(r.m, Zero))
                ELSE Collected(r, emitted)
        given[p \in 0 .. loop.parameters] ==
            IF p = 0 THEN [m |-> self, values |-> <<>>] ELSE Forwarded(given[p - 1], p)
        arguments == given[loop.parameters]
    IN  Worker(w, arguments.m, loop, <<>>, self.value, arguments.values, "value")

(* lambdaSlot *)
CallLambda(w, m, n, self, argument) ==
    LET inside == Enter(m, self)
        body == w.nodes[n].body
        own == 1 \in w.free[body]
        outer == IF ~w.functions[n].local THEN CaptureEnvironment(w, inside, body, 1, 1)
                 ELSE <<IF own THEN Capture(inside, 1) ELSE None>>
                      \o CaptureEnvironment(w, inside, body, 2, IF own THEN 2 ELSE 1)
        env == <<Hold(inside, [is |-> "i64-local"], argument)>> \o outer
        loops == Loop(w, n)
        after == IF loops = {} THEN Expression(w, inside, body, env, NoReuse)
                 ELSE ForwardToWorker(w, inside, w.functions[CHOOSE l \in loops : TRUE], env)
    IN  IF Running(m) THEN Leave(m, after) ELSE m

(* The call of a closure through the table of functions.                   *)
CallIndirect(w, m, callee, argument) ==
    LET closure == m.heap[callee.at]
        values == Append(closure.values, argument)
    IN  IF ~Running(m) THEN m
        ELSE IF ~IsObject(m, callee, "closure") THEN Stop(m, "corrupt")
        ELSE IF closure.lambda # 0 THEN CallLambda(w, m, closure.lambda, callee, argument)
        ELSE IF Len(values) = w.arities[closure.constructor] THEN EmitConstructor(m, closure.constructor, values, NoReuse)
        ELSE Allocate(m, ConstructorClosure(closure.constructor, values))

(* A function that is not in the set of the callee, in a program of which  *)
(* a function went where the analysis does not follow it.                  *)
Astray(w, m) == IF w.flow.lost = {} THEN m ELSE Seen(m, "astray")

(* emitLambdaSetCall: the last function of the set is called without a     *)
(* comparison.  Here any of them is the last.                              *)
CallLambdaSet(w, m, callee, lambdas, argument) ==
    LET closure == m.heap[callee.at]
    IN  IF ~Running(m) THEN m
        ELSE IF ~IsObject(m, callee, "closure") THEN Stop(m, "corrupt")
        ELSE IF closure.lambda \in lambdas THEN CallLambda(w, m, closure.lambda, callee, argument)
        ELSE CallLambda(w, Astray(w, m), CHOOSE l \in lambdas : TRUE, callee, argument)

(***************************************************************************)
(* Calls                                                                   *)
(***************************************************************************)
Inlining(m, n) == [m EXCEPT !.at.inlined = @ \cup {n}]
Fusing(m, n) == [m EXCEPT !.at.fused = @ \cup {n}]
CanInline(w, m, n) == w.inline /\ n \notin m.at.inlined

(* The arguments of a function that is inlined.                            *)
InlinedArgument(w, shape, p, argument, env) ==
    LET static == StaticBinding(w, argument.node, env, StaticDepth)
    IN  IF static # None THEN Known(static)
        ELSE IF IsUnboxedNumericParameter(w, shape, p) THEN ComputedAs("i32-integer", AsInteger(argument.node, env))
        ELSE ComputedAs("i64-local", Argument(argument, env, p \in shape.strict))

(* compileFusedUncurriedApplication: the body, or the loop, is emitted     *)
(* where it is called.                                                     *)
InlineApplication(w, m, application, env, kind) ==
    LET shape == w.functions[application.outer]
        Item(p) == InlinedArgument(w, shape, p, application.arguments[p], env)
        bound == BindAll(w, m, Table(Item, shape.parameters))
        inside == Inlining(bound.m, shape.outer)
        body == UncurriedBodyEnvironment(w, inside, shape, bound.bindings, application.static, "caller")
    IN  Leave(m, BodyOf(w, inside, shape.body, body, kind))
FuseApplication(w, m, application, env, kind) ==
    LET shape == w.functions[application.outer]
        loop == w.functions[CHOOSE l \in Loop(w, shape.inner) : TRUE]
        arguments == RunAll(w, m, UncurriedArguments(w, application, env))
        inside == Fusing(arguments.m, shape.outer)
        body == UncurriedBodyEnvironment(w, inside, shape, HoldAll(w, inside, shape, arguments.values),
                                         application.static, "caller")
    IN  IF Running(arguments.m) THEN Leave(m, TailLoop(w, inside, loop, body, kind)) ELSE arguments.m

(* emitUncurriedEnvironmentArgument                                        *)
EnvironmentArgument(w, m, application, env) ==
    LET base == w.nodes[application.base]
        binding == IF base.tag = "local" THEN Lookup(env, base.depth) ELSE None
    IN  CASE base.tag = "local" /\ binding.is \in {"i32-pointer", "static-recursive-function"} -> Emit(w, m, binding)
          [] ScalarSpecializationEnabled(w, m) /\ base.tag = "global" /\ w.definitions[base.definition] = application.outer ->
                 Return(m, Zero)
          [] OTHER -> Expression(w, m, application.base, env, NoReuse)

(* The callee is not evaluated when it gets no closure, and its function   *)
(* is the only one of its set: seen when either makes a difference.        *)
UncheckedCallee(w, m, application, env) ==
    LET base == w.nodes[application.base]
        known == \/ base.tag = "global" /\ w.nodes[w.definitions[base.definition]].tag = "lambda"
                 \/ base.tag = "local" /\ Lookup(env, base.depth).is \in {"i32-pointer", "static-recursive-function"}
                 \/ KnownLambda(w, application.base, env) # None
        callee == Expression(w, m, application.base, env, NoReuse)
    IN  IF known THEN m
        ELSE IF callee.status \in {"trap", "exhausted"} THEN Seen(m, "skipped")
        ELSE IF ~Running(callee) \/ ~IsObject(callee, callee.value, "closure") THEN m
        ELSE IF callee.heap[callee.value.at].lambda # application.outer THEN Astray(w, m)
        ELSE m

CallWorker(w, m, application, env, kind) ==
    LET shape == w.functions[application.outer]
        unchecked == UncheckedCallee(w, m, application, env)
        closure == IF HasEnvironmentParameter(w, shape, application.static)
                   THEN EnvironmentArgument(w, unchecked, application, env)
                   ELSE Return(unchecked, Zero)
        arguments == RunAll(w, closure, UncurriedArguments(w, application, env))
    IN  IF Running(m) THEN Worker(w, arguments.m, shape, application.static, closure.value, arguments.values, kind) ELSE m

(* compileUncurriedApplication, compileNativeIntegerUncurriedApplication   *)
UncurriedCall(w, m, application, env, kind) ==
    IF application.inline /\ CanInline(w, m, application.outer) THEN InlineApplication(w, m, application, env, kind)
    ELSE IF /\ application.sole /\ application.outer \notin m.at.fused
            /\ Loop(w, w.functions[application.outer].inner) # {}
         THEN FuseApplication(w, m, application, env, kind)
    ELSE CallWorker(w, m, application, env, kind)

(* constructorApplication                                                  *)
ConstructorApplication(w, m, n, env, reuse) ==
    LET spine == Spine(w, n)
        con == w.nodes[spine.base].constructor
        Code(i) ==
            LET constant == ConstantOf(w, spine.arguments[i].node, env, Scalar)
            IN  IF constant # None THEN Emission(constant) ELSE Argument(spine.arguments[i], env, FALSE)
        fields == RunAll(w, m, Table(Code, Len(spine.arguments)))
    IN  IF ~Running(fields.m) THEN fields.m
        ELSE IF Len(fields.values) = w.arities[con] THEN EmitConstructor(fields.m, con, fields.values, reuse)
        ELSE Allocate(fields.m, ConstructorClosure(con, fields.values))

(* compileVirtualLambdaApplication                                         *)
VirtualLambdaApplication(w, m, callee, node, env) ==
    LET body == w.nodes[callee.node].body
        shape == w.functions[callee.node]
        virtual == KnownLambda(w, node.argument, env)
        captures == \E depth \in w.free[body] : depth >= 1
        inline == CanInline(w, m, callee.node) /\ (ScalarSpecializationEnabled(w, m) \/ virtual # None \/ captures)
        eager == node.strict \/ ImmediatelyForcesLocal(w, body, 0)
        constant == ConstantOf(w, node.argument, env, {"integer"})
        item == IF virtual # None THEN Known(virtual)
                ELSE IF inline /\ shape.parameters = 1 /\ IsUnboxedNumericParameter(w, shape, 1)
                     THEN IF constant # None THEN Known(constant)
                          ELSE ComputedAs("i32-integer", AsInteger(node.argument, env))
                ELSE IF eager THEN ComputedAs("i64-value", Now(node.argument, env))
                ELSE ComputedAs("i64-local", Later(node.argument, env))
        bound == BindAll(w, m, <<item>>)
        argument == Emit(w, bound.m, bound.bindings[1])
        closure == IF captures THEN Emit(w, argument, callee) ELSE Return(argument, Zero)
    IN  IF ~Running(bound.m) THEN bound.m
        ELSE IF inline
             THEN Leave(m, Expression(w, Inlining(bound.m, callee.node), body, bound.bindings \o callee.env, NoReuse))
        ELSE CallLambda(w, closure, callee.node, closure.value, argument.value)

(* A call of which the function is found out when it is made.              *)
ClosureApplication(w, m, node, env) ==
    LET set == LambdaSet(w.flow, node.callee)
        known == set.complete /\ set.lambdas # {}
        forces == known /\ \A lambda \in set.lambdas : ImmediatelyForcesLocal(w, w.nodes[lambda].body, 0)
        callee == Expression(w, m, node.callee, env, NoReuse)
        argument == Run(w, callee, Argument([node |-> node.argument, strict |-> node.strict], env, forces))
    IN  IF ~Running(argument) THEN argument
        ELSE IF known THEN CallLambdaSet(w, argument, callee.value, set.lambdas, argument.value)
        ELSE CallIndirect(w, argument, callee.value, argument.value)

(* compileApply *)
ApplyExpression(w, m, n, env, reuse) ==
    LET node == w.nodes[n]
        uncurried == UncurriedApplication(w, n, env)
        virtual == KnownLambda(w, node.callee, env)
    IN  IF uncurried # <<>> THEN UncurriedCall(w, m, uncurried[1], env, "value")
        ELSE IF IsConstructorApplication(w, n) THEN ConstructorApplication(w, m, n, env, reuse)
        ELSE IF virtual # None THEN VirtualLambdaApplication(w, m, virtual, node, env)
        ELSE ClosureApplication(w, m, node, env)

(***************************************************************************)
(* Bindings of lets                                                        *)
(***************************************************************************)
(* compileLet, and the same in the other contexts: what the emitter makes  *)
(* of the value of a let.  Each context leaves something out.              *)
LetItem(w, m, n, env, context) ==
    LET node == w.nodes[n]
        virtual == KnownLambda(w, node.value, env)
        construction == KnownConstructor(w, m, node.value, env)
        eager == node.strict \/ ExpressionIsWhnf(w, node.value) \/ ImmediatelyForcesLocal(w, node.body, 0)
        scalars == CASE context = "integer" -> {"integer"} [] context = "boolean" -> {"boolean"} [] OTHER -> Scalar
        constant == ConstantOf(w, node.value, env, scalars)
        worker == UncurriedApplication(w, node.value, env)
        native == /\ context = "integer"
                  /\ \/ CanCompileInteger(w, node.value)
                     \/ worker # <<>> /\ CanUseNativeIntegerWorker(w, m, worker[1])
        fields == UniqueConstructorFieldCount(w, node.value)
        unique == [is |-> "unique-constructor", fields |-> fields, cases |-> ReusableCases(w, node.body)]
    IN  IF ~node.strict /\ ~node.used THEN Known(None)
        ELSE IF context # "boolean" /\ virtual # None THEN Known(virtual)
        ELSE IF context # "boolean" /\ construction # None THEN Known(construction)
        ELSE IF context = "value" /\ ~node.strict /\ LocalReferenceIsStrictlyDemanded(w, node.body, 0)
             THEN Known(DeferredExpression(node.value, env))
        ELSE IF ~eager THEN ComputedAs("i64-local", Later(node.value, env))
        ELSE IF constant # None THEN Known(constant)
        ELSE IF native THEN ComputedAs("i32-integer", AsInteger(node.value, env))
        ELSE IF context = "boolean" /\ CanCompileBoolean(w, node.value)
             THEN ComputedAs("i32-boolean", AsBoolean(node.value, env))
        ELSE IF context = "value" /\ fields # 0 THEN Computed(unique, Now(node.value, env))
        ELSE ComputedAs("i64-value", Now(node.value, env))

LetBinding(w, m, n, env, context) == BindAll(w, m, <<LetItem(w, m, n, env, context)>>)

(* compileLetRec: a function of which every reference is a full call, and  *)
(* which captures only what is known, has no closure.                      *)
LetRecBinding(w, m, n, env) ==
    LET node == w.nodes[n]
        shape == w.functions[node.value]
        captured == Captures(w, w.nodes[node.value].body, 2, env)
        sole == LocalReferenceCount(w, node.body, 0) = 1
        constants == {"constant", "virtual-lambda", "virtual-constructor"}
        fused == IF sole /\ HasOnlyTailSelfReferences(w, shape) THEN {"i32-integer", "i32-boolean"} ELSE {}
        static == /\ ScalarSpecializationEnabled(w, m)
                  /\ HasOnlySaturatedSelfReferences(w, shape)
                  /\ HasOnlySaturatedReferences(w, node.body, 0, shape.parameters)
                  /\ \A i \in DOMAIN captured : captured[i].is \in constants \cup fused
        closure == RecursiveClosure(w, m, node.value, env)
    IN  IF static THEN [m |-> m, bindings |-> <<StaticRecursiveFunction(node.value, env, sole)>>]
        ELSE [m |-> closure, bindings |-> <<Hold(closure, [is |-> "i32-pointer"], closure.value)>>]

(***************************************************************************)
(* Branches                                                                *)
(***************************************************************************)
(* The branch that is taken, after its test when the test is not constant. *)
Chosen(w, m, n, env) ==
    LET node == w.nodes[n]
        constant == ConstantOf(w, node.test, env, {"boolean"})
        test == IF constant = None THEN BooleanExpression(w, m, node.test, env) ELSE Return(m, constant.v)
    IN  [m |-> test, node |-> IF ~Running(test) THEN n ELSE IF test.value.b THEN node.consequent ELSE node.alternate]

(* The arm of a known constructor, with its arguments; or the arm of the   *)
(* constructor that the scrutinee evaluates to, with its fields.  A unique *)
(* one is neither forced nor kept: its place is reused.                    *)
SelectArm(w, m, n, env, con, bindings, reuse) ==
    LET arms == {arm \in ToSet(Alternatives(w, n)) : arm.constructor = con}
        arm == CHOOSE a \in arms : TRUE
    IN  [m |-> IF arms = {} THEN Stop(m, "trap") ELSE m, reuse |-> reuse,
         node |-> IF arms = {} THEN n ELSE arm.body, env |-> bindings \o env, binders |-> Len(bindings)]
ChosenArm(w, m, n, env, reuse, mayReuse) ==
    LET node == w.nodes[n]
        known == KnownConstructor(w, m, node.scrutinee, env)
        fields == ExpressionBindings(w, m, known)
        source == IF w.nodes[node.scrutinee].tag = "local" THEN Lookup(env, w.nodes[node.scrutinee].depth) ELSE None
        unique == mayReuse /\ source.is = "unique-constructor" /\ n \in source.cases
        scrutinee == IF unique THEN Emit(w, m, source) ELSE Expression(w, m, node.scrutinee, env, NoReuse)
        object == scrutinee.heap[scrutinee.value.at]
        loaded == [i \in DOMAIN object.values |-> Hold(scrutinee, [is |-> "i64-local"], object.values[i])]
        Failed(after) == [m |-> after, reuse |-> reuse, node |-> n, env |-> env, binders |-> 0]
    IN  IF known # None
        THEN IF \A arm \in ToSet(Alternatives(w, n)) : arm.constructor # known.constructor
             THEN Failed(Stop(m, "compiler-error"))
             ELSE SelectArm(w, fields.m, n, env, known.constructor, fields.bindings, reuse)
        ELSE IF ~Running(scrutinee) THEN Failed(scrutinee)
        ELSE IF ~IsObject(scrutinee, scrutinee.value, "constructor") THEN Failed(Stop(scrutinee, "corrupt"))
        ELSE SelectArm(w, Touch(scrutinee), n, env, object.constructor, loaded,
                       IF unique THEN [at |-> scrutinee.value.at, fields |-> source.fields] ELSE reuse)

(***************************************************************************)
(* Expressions                                                             *)
(***************************************************************************)
(* An operation on native integers; the guard of a division faults.        *)
Operation(op, r) ==
    LET left == r.values[1].n
        right == r.values[2].n
    IN  IF ~Running(r.m) THEN r.m
        ELSE CASE op = "Negate" -> Return(r.m, IntegerOf(-left))
               [] op = "Add"    -> Return(r.m, IntegerOf(left + right))
               [] op = "Less"   -> Return(r.m, BooleanOf(left < right))
               [] op = "Widen"  -> Return(Touch(r.m), [is |-> "wide", n |-> left])
               [] op = "Divide" -> IF right = 0 THEN Stop(r.m, "trap")
                                   ELSE Return(r.m, IntegerOf(Arithmetic!Ratio(left, right)))
Operate(w, m, n, env) ==
    LET node == w.nodes[n]
    IN  Operation(node.op, RunAll(w, m, [i \in DOMAIN node.operands |-> AsInteger(node.operands[i], env)]))

(* Every expression is one deeper than the one it is in.                   *)
Deeper(m) == [m EXCEPT !.fuel = @ - 1]
AsDeepAs(m, after) == [after EXCEPT !.fuel = m.fuel]

(* compileExpression *)
Compiled(w, m, n, env, reuse) ==
    LET node == w.nodes[n]
        let == LetBinding(w, m, n, env, "value")
        letrec == LetRecBinding(w, m, n, env)
        chosen == Chosen(w, m, n, env)
        arm == ChosenArm(w, m, n, env, reuse, TRUE)
    IN  CASE node.tag = "integer" -> Return(m, IntegerOf(node.n))
          [] node.tag = "boolean" -> Return(m, BooleanOf(node.b))
          [] node.tag = "fault"   -> Stop(m, "trap")
          [] node.tag = "local"   -> LocalReference(w, m, Lookup(env, node.depth))
          [] node.tag = "global"  -> GlobalReference(w, m, node.definition)
          [] node.tag = "constructor" ->
                 IF w.arities[node.constructor] = 0 THEN Allocate(m, ConstructorObject(node.constructor, <<>>))
                 ELSE Allocate(m, ConstructorClosure(node.constructor, <<>>))
          [] node.tag = "lambda"  -> Closure(w, m, n, env)
          [] node.tag = "apply"   -> ApplyExpression(w, m, n, env, reuse)
          [] node.tag = "let"     -> Expression(w, let.m, node.body, let.bindings \o env, reuse)
          [] node.tag = "letrec"  -> Expression(w, letrec.m, node.body, letrec.bindings \o env, NoReuse)
          [] node.tag = "if"      -> Expression(w, chosen.m, chosen.node, env, reuse)
          [] node.tag = "prim"    -> Operate(w, m, n, env)
          [] node.tag = "case"    -> Expression(w, arm.m, arm.node, arm.env, arm.reuse)
Expression(w, m, n, env, reuse) ==
    IF ~Running(m) THEN m
    ELSE IF m.fuel = 0 THEN Stop(m, "exhausted")
    ELSE AsDeepAs(m, Compiled(w, Deeper(m), n, env, reuse))

(* compileIntegerExpression: a native integer.                             *)
CompiledInteger(w, m, n, env) ==
    LET node == w.nodes[n]
        constant == ConstantOf(w, n, env, {"integer"})
        let == LetBinding(w, m, n, env, "integer")
        letrec == LetRecBinding(w, m, n, env)
        chosen == Chosen(w, m, n, env)
        arm == ChosenArm(w, m, n, env, NoReuse, FALSE)
        call == UncurriedApplication(w, n, env)
        Decoded == DecodeInteger(Expression(w, m, n, env, NoReuse))
    IN  IF constant # None THEN Return(m, constant.v)
        ELSE CASE node.tag = "local" -> DecodeInteger(LocalReference(w, m, Lookup(env, node.depth)))
               [] node.tag = "prim" /\ (IsIntegerOperator(node.op) \/ node.op = "Negate") -> Operate(w, m, n, env)
               [] node.tag = "if" -> IntegerExpression(w, chosen.m, chosen.node, env)
               [] node.tag = "let" -> IntegerExpression(w, let.m, node.body, let.bindings \o env)
               [] node.tag = "letrec" -> IntegerExpression(w, letrec.m, node.body, letrec.bindings \o env)
               [] node.tag = "apply" ->
                      IF call = <<>> THEN Decoded
                      ELSE IF CanUseNativeIntegerWorker(w, m, call[1]) THEN UncurriedCall(w, m, call[1], env, "integer")
                      ELSE Decoded
               [] node.tag = "case" ->
                      IF KnownConstructor(w, m, node.scrutinee, env) = None THEN Decoded
                      ELSE IntegerExpression(w, arm.m, arm.node, arm.env)
               [] OTHER -> Decoded
IntegerExpression(w, m, n, env) ==
    IF ~Running(m) THEN m
    ELSE IF m.fuel = 0 THEN Stop(m, "exhausted")
    ELSE AsDeepAs(m, CompiledInteger(w, Deeper(m), n, env))

(* compileBooleanExpression: a native boolean.                             *)
CompiledBoolean(w, m, n, env) ==
    LET node == w.nodes[n]
        constant == ConstantOf(w, n, env, {"boolean"})
        let == LetBinding(w, m, n, env, "boolean")
        chosen == Chosen(w, m, n, env)
    IN  IF constant # None THEN Return(m, constant.v)
        ELSE CASE node.tag = "local" -> DecodeBoolean(LocalReference(w, m, Lookup(env, node.depth)))
               [] node.tag = "prim" /\ IsComparison(node.op) -> Operate(w, m, n, env)
               [] node.tag = "if" -> BooleanExpression(w, chosen.m, chosen.node, env)
               [] node.tag = "let" -> BooleanExpression(w, let.m, node.body, let.bindings \o env)
               [] OTHER -> DecodeBoolean(Expression(w, m, n, env, NoReuse))
BooleanExpression(w, m, n, env) ==
    IF ~Running(m) THEN m
    ELSE IF m.fuel = 0 THEN Stop(m, "exhausted")
    ELSE AsDeepAs(m, CompiledBoolean(w, Deeper(m), n, env))

(***************************************************************************)
(* Tail positions of a loop: a call of the loop is a jump to its           *)
(* beginning, a call of a join point a jump to the code after the let.     *)
(***************************************************************************)
(* depth is how many locals the position is inside the loop.              *)
NextRound(w, m, arguments, loop, env, depth) ==
    LET Code(p) ==
            LET argument == arguments[p]
                eager == p \in loop.strict /\ CanEvaluateEagerly(w, argument.node)
            IN  IF Lookup(env, depth + loop.parameters - p) = None THEN Nothing
                ELSE IF IsUnboxedNumericParameter(w, loop, p) THEN AsInteger(argument.node, env)
                ELSE Argument(argument, env, eager)
        values == RunAll(w, m, Table(Code, loop.parameters))
    IN  [values.m EXCEPT !.jump = values.values]

JoinBinding(w, n, env) ==
    LET callee == w.nodes[w.nodes[n].callee]
        binding == IF callee.tag = "local" THEN Lookup(env, callee.depth) ELSE None
    IN  IF binding.is = "join-point" THEN binding ELSE None

(* A join point that the argument of a jump refers to is seen: it has no   *)
(* value.                                                                  *)
JumpToJoin(w, m, n, join, loop, kind, outer) ==
    LET node == w.nodes[n]
        escapes == \E depth \in w.free[node.argument] : Lookup(outer, depth).is = "join-point"
        jumping == IF escapes THEN Seen(m, "escaped") ELSE m
        given == IF join.passes \/ node.strict
                 THEN Run(w, jumping, Argument([node |-> node.argument, strict |-> node.strict], outer, FALSE))
                 ELSE m
        argument == IF join.passes THEN Hold(given, [is |-> "i64-local"], given.value) ELSE None
    IN  TailPosition(w, given, w.nodes[join.node].body, <<argument>> \o join.env, loop, join.depth + 1, kind)

InTailPosition(w, m, n, env, loop, depth, kind) ==
    LET node == w.nodes[n]
        round == TailArguments(w, n, loop, depth)
        join == JoinBinding(w, n, env)
        chosen == Chosen(w, m, n, env)
        point == JoinPoint(node.value, env, depth, 0 \in w.free[w.nodes[node.value].body])
        isPoint == (node.strict \/ node.used) /\ IsJoinPoint(w, n)
        let == IF isPoint THEN [m |-> m, bindings |-> <<point>>] ELSE LetBinding(w, m, n, env, "tail")
        arm == ChosenArm(w, m, n, env, NoReuse, FALSE)
    IN  IF round # <<>> THEN NextRound(w, m, round, loop, env, depth)
        ELSE CASE node.tag = "apply" -> IF join # None THEN JumpToJoin(w, m, n, join, loop, kind, env)
                                        ELSE BodyOf(w, m, n, env, kind)
               [] node.tag = "if"    -> TailPosition(w, chosen.m, chosen.node, env, loop, depth, kind)
               [] node.tag = "let"   -> TailPosition(w, let.m, node.body, let.bindings \o env, loop, depth + 1, kind)
               [] node.tag = "case"  -> TailPosition(w, arm.m, arm.node, arm.env, loop, depth + arm.binders, kind)
               [] OTHER -> BodyOf(w, m, n, env, kind)
TailPosition(w, m, n, env, loop, depth, kind) ==
    IF ~Running(m) THEN m
    ELSE IF m.fuel = 0 THEN Stop(m, "exhausted")
    ELSE AsDeepAs(m, InTailPosition(w, Deeper(m), n, env, loop, depth, kind))

(***************************************************************************)
(* Programs                                                                *)
(***************************************************************************)
MaximumCompactNodes == 128
MaximumResultNodes == 40 \* 2047 in the code

(* compactScalarProgramIsProvable: neither data, recursion nor a function  *)
(* that is returned.                                                       *)
RECURSIVE Provable(_, _, _, _)
Provable(w, n, allowsLambda, active) ==
    LET node == w.nodes[n]
        spine == Spine(w, n)
        base == w.nodes[spine.base]
        Visit(child, lambda) == Provable(w, child, lambda, active)
        VisitDefinition(d) == d \notin active /\ Provable(w, w.definitions[d], TRUE, active \cup {d})
    IN  CASE node.tag \in {"integer", "boolean", "local"} -> TRUE
          [] node.tag = "global" -> VisitDefinition(node.definition)
          [] node.tag = "lambda" -> allowsLambda /\ Visit(node.body, TRUE)
          [] node.tag = "apply"  -> /\ \/ base.tag = "lambda" /\ Visit(base.body, FALSE)
                                       \/ base.tag = "global" /\ VisitDefinition(base.definition)
                                    /\ \A i \in DOMAIN spine.arguments : Visit(spine.arguments[i].node, TRUE)
          [] node.tag = "let"    -> Visit(node.value, TRUE) /\ Visit(node.body, FALSE)
          [] node.tag \in {"if", "prim"} -> \A part \in ToSet(Parts(w, n)) : Visit(part.node, FALSE)
          [] node.tag \in {"fault", "constructor", "letrec", "case"} -> FALSE
CompactScalarProgramIsProvable(w) ==
    Len(w.nodes) <= MaximumCompactNodes /\ Provable(w, w.definitions[w.entry], TRUE, {w.entry})

HasLazyEvaluationBoundary(w) == \E n \in DOMAIN w.nodes : w.nodes[n].tag \in {"apply", "let"} /\ ~w.nodes[n].strict

(* The memory of a definition gets its value, or a thunk.                  *)
Start(w, fuel) ==
    [status |-> "ok", heap |-> <<>>, globals |-> [d \in DOMAIN w.definitions |-> Zero], frames |-> 1, fuel |-> fuel,
     value |-> Zero, jump |-> <<>>, touched |-> {}, ghosts |-> {},
     at |-> [frame |-> 1, self |-> Zero, inlined |-> {}, fused |-> {}, native |-> FALSE]]
Initialized(w, m, d) ==
    LET root == w.definitions[d]
        written == IF ExpressionIsWhnf(w, root) THEN Expression(w, m, root, <<>>, NoReuse)
                   ELSE Allocate(m, ThunkObject(root, <<>>))
    IN  IF d \in w.reachable \ w.direct THEN [written EXCEPT !.globals[d] = written.value] ELSE m
GlobalInitialization(w, fuel) ==
    LET after[d \in 0 .. Len(w.definitions)] == IF d = 0 THEN Start(w, fuel) ELSE Initialized(w, after[d - 1], d)
    IN  after[Len(w.definitions)]

(* encodeWasmValue, of the nodes of an argument: fields come after what    *)
(* they are in.                                                            *)
RECURSIVE Encoded(_, _, _)
Encoded(m, input, values) ==
    LET i == Len(input) - Len(values)
        node == input[i]
        fields == [k \in 1 .. node.count |-> values[node.first + k - 1 - i]]
        made == Allocate(m, ConstructorObject(node.payload, fields))
    IN  IF i = 0 THEN [m |-> m, values |-> values]
        ELSE CASE node.tag = "integer" -> Encoded(m, input, <<IntegerOf(node.payload)>> \o values)
               [] node.tag = "boolean" -> Encoded(m, input, <<BooleanOf(node.payload)>> \o values)
               [] node.tag = "constructor" -> Encoded(made, input, <<made.value>> \o values)

(* decodeWasmValue: the nodes of the result in preorder, each forced.      *)
Decoded(tag, payload, count) == [tag |-> tag, payload |-> payload, count |-> count]
Scalars(value) ==
    CASE value.is \in {"integer", "wide"} -> <<Decoded(value.is, value.n, 0)>>
      [] value.is = "boolean" -> <<Decoded("boolean", value.b, 0)>>
      [] OTHER -> <<>>
RECURSIVE Decode(_, _, _, _)
Decode(w, m, pending, nodes) ==
    LET forced == Force(w, Return(m, Head(pending)))
        object == forced.heap[forced.value.at]
        scalar == Scalars(forced.value)
        Ended(after) == [m |-> after, nodes |-> nodes]
    IN  IF ~Running(m) \/ pending = <<>> THEN Ended(m)
        ELSE IF ~Running(forced) THEN Ended(forced)
        ELSE IF Len(nodes) = MaximumResultNodes THEN Ended(Stop(forced, "exhausted"))
        ELSE IF scalar # <<>> THEN Decode(w, forced, Tail(pending), nodes \o scalar)
        ELSE IF ~IsObject(forced, forced.value, "constructor") THEN Ended(Stop(forced, "corrupt"))
        ELSE Decode(w, forced, object.values \o Tail(pending),
                    Append(nodes, Decoded("constructor", object.constructor, Len(object.values))))

(* The program with its runtime.                                           *)
RunProgram(program, input, fuel) ==
    LET w == [program EXCEPT !.mode = "runtime",
                             !.thunks = \/ HasLazyEvaluationBoundary(program)
                                        \/ \E d \in program.reachable : ~ExpressionIsWhnf(program, program.definitions[d])]
        main == GlobalReference(w, GlobalInitialization(w, fuel), w.entry)
        argument == Encoded(main, input, <<>>)
        called == CallIndirect(w, argument.m, main.value, argument.values[1])
        answer == IF input = <<>> THEN main ELSE called
    IN  Decode(w, answer, <<answer.value>>, <<>>)

(* compileCompactScalar: without a runtime, unless it turns out to be      *)
(* needed.                                                                 *)
RunCompact(program, result, fuel) ==
    LET w == [program EXCEPT !.mode = "compact", !.thunks = HasLazyEvaluationBoundary(program)]
        root == w.definitions[w.entry]
        answer == IF result = "integer" THEN IntegerExpression(w, Start(w, fuel), root, <<>>)
                  ELSE BooleanExpression(w, Start(w, fuel), root, <<>>)
    IN  IF answer.touched # {} THEN [m |-> Stop(answer, "discarded"), nodes |-> <<>>]
        ELSE Decode(w, answer, <<answer.value>>, <<>>)

(* compileDirectIntegerWasmExport, of main: no artifact when its own code  *)
(* needs memory.                                                           *)
RunExport(program, input, fuel) ==
    LET root == program.definitions[program.entry]
        w == [program EXCEPT !.mode = "export", !.thunks = HasLazyEvaluationBoundary(program), !.declared = {root}]
        shape == w.functions[root]
        started == Start(w, fuel)
        given == Encoded(started, input, <<>>).values
        answer == IF input = <<>> THEN IntegerExpression(w, started, root, <<>>)
                  ELSE Worker(w, started, shape, <<>>, Zero, given, "integer")
        own == IF input = <<>> THEN 1 ELSE 2
        isFunction == w.nodes[root].tag = "lambda"
        none == IF input = <<>> THEN FALSE ELSE IF ~isFunction THEN TRUE ELSE shape.parameters # Len(input)
    IN  IF none THEN [m |-> Stop(started, "discarded"), nodes |-> <<>>]
        ELSE IF isFunction /\ shape.strict # DOMAIN given THEN [m |-> Stop(started, "invalid"), nodes |-> <<>>]
        ELSE IF own \in answer.touched THEN [m |-> Stop(answer, "discarded"), nodes |-> <<>>]
        ELSE Decode(w, answer, <<answer.value>>, <<>>)

(* What the module that is emitted for a program does, in one of the ways  *)
(* to compile it.  Functions are inlined as long as inline sites are left. *)
PlanFor(core, inline) ==
    AnalyzeForWasm(core) @@ [mode |-> "none", thunks |-> FALSE, declared |-> {}, inline |-> inline]
=============================================================================
