--------------------------- MODULE GraphEvaluator ---------------------------
(***************************************************************************)
(* The call-by-need graph evaluator of the GPU                             *)
(* (src/src/semantic/evaluator_shader.ts) and the host loop that           *)
(* dispatches it (evaluator.ts).  The shader is a machine with a heap      *)
(* that only grows, a stack of continuation frames and registers; each     *)
(* turn of its loop is one transition here.  A dispatch makes a bounded    *)
(* number of transitions, and the host reads the state between dispatches. *)
(*                                                                         *)
(* Indices start at 1, and 0 is NO_INDEX.  The registers that only one     *)
(* mode reads are fields of control.  The counter of allocations and       *)
(* heap_top, which move together, are Len(heap); stack_top is Len(stack).  *)
(***************************************************************************)
EXTENDS Integers, Sequences, FiniteSets

CONSTANT HalfWord \* an integer has one of 2 * HalfWord values

VARIABLES request,          \* what is evaluated, with which input and limits
          status, control,  \* STATUS_*, or the fault; the mode with its registers
          heap, stack, globals,
          pendingInput, output,
          steps, peakStack, thunkEvaluations,
          host              \* where the host loop is, and its count of steps

vars == <<request, status, control, heap, stack, globals, pendingInput, output, steps, peakStack, thunkEvaluations, host>>

Faults == {"TypeError", "DivideByZero", "NonExhaustiveCase", "Blackhole", "BadModule", "CyclicResult",
           "OutOfHeap", "StackOverflow", "OutOfFuel", "ResultTooLarge"}

\* a record of Core (see CoreLowering)
Code == request.module
Node == Code.nodes[control.node]

(* The node records of literals have a width: two's complement.            *)
Wrapped(n) == ((n + HalfWord) % (2 * HalfWord)) - HalfWord
Magnitude(n) == IF n < 0 THEN -n ELSE n
Quotient(m, n) ==
    LET q == Magnitude(m) \div Magnitude(n) IN Wrapped(IF (m < 0) = (n < 0) THEN q ELSE -q)

(***************************************************************************)
(* Heap slots and frames                                                   *)
(***************************************************************************)
NoValue == [tag |-> "none", payload |-> 0]
Value(tag, payload) == [tag |-> tag, payload |-> payload]
Thunk(node, environment) ==
    [kind |-> "thunk", state |-> "unevaluated", node |-> node, environment |-> environment, value |-> NoValue]
Evaluated(value) == [Thunk(0, 0) EXCEPT !.state = "evaluated", !.value = value]
InputThunk(index) == [Thunk(index, 0) EXCEPT !.state = "input"]
Closure(node, environment, applied) ==
    [kind |-> "closure", node |-> node, environment |-> environment, applied |-> applied]
Partial(constructor, fields, applied) ==
    [kind |-> "partial", constructor |-> constructor, fields |-> fields, applied |-> applied]
Constructed(constructor, fields, count) ==
    [kind |-> "constructor", constructor |-> constructor, fields |-> fields, applied |-> count, marked |-> FALSE]
Field(previous, thunk) == [kind |-> "field", previous |-> previous, thunk |-> thunk]
Wide(n) == [kind |-> "wide", n |-> n]

(* An environment has pointers to its ancestors at the distances 1, 2, 4,  *)
(* 8, 16 and 32: environment_ancestor and initialize_environment.          *)
Ancestor(index, i) == IF index = 0 THEN 0 ELSE heap[index].ancestors[i]

MutantEnvironment(parent, value) ==
    LET at2 == Ancestor(parent, 1)
        at4 == Ancestor(at2, 1)
        at8 == Ancestor(at4, 3)
        at16 == Ancestor(at8, 4)
        at32 == Ancestor(at16, 5)
    IN  [kind |-> "environment", value |-> value, ancestors |-> <<parent, at2, at4, at8, at16, at32>>]

Environment(parent, value) ==
    LET at2 == Ancestor(parent, 1)
        at4 == Ancestor(at2, 2)
        at8 == Ancestor(at4, 3)
        at16 == Ancestor(at8, 4)
        at32 == Ancestor(at16, 5)
    IN  [kind |-> "environment", value |-> value, ancestors |-> <<parent, at2, at4, at8, at16, at32>>]

(* The environment at a depth: jumps of 32, then one for each bit.         *)
EnvironmentAt(environment, depth) ==
    LET far[n \in 0 .. depth \div 32] == IF n = 0 THEN environment ELSE Ancestor(far[n - 1], 6)
        near[i \in 0 .. 5] ==
            CASE i = 0 -> far[depth \div 32]
              [] i > 0 /\ (depth \div (2 ^ (5 - i))) % 2 = 1 -> Ancestor(near[i - 1], 6 - i)
              [] OTHER -> near[i - 1]
    IN  near[5]

(* createCaseDispatchIndex: the alternatives of every case, sorted by the  *)
(* first alternative of their case and by their constructor.               *)
Before(a, b) == a.arm < b.arm \/ (a.arm = b.arm /\ a.constructor < b.constructor)
CaseDispatchIndex(module) ==
    LET cases == {i \in DOMAIN module.nodes : module.nodes[i].tag = "case"}
        Alternatives(node) ==
            {[arm |-> node.first, constructor |-> module.alternatives[a].constructor, alternative |-> a] :
                a \in node.first .. node.first + node.count - 1}
        entries == UNION {Alternatives(module.nodes[i]) : i \in cases}
    IN  [i \in 1 .. Cardinality(entries) |->
            CHOOSE e \in entries : Cardinality({d \in entries : Before(d, e)}) = i - 1]

(* The binary search of match_case_arm: the alternative, or 0.             *)
DispatchedAlternative(index, key) ==
    LET search[lower \in 0 .. Len(index), upper \in 0 .. Len(index)] ==
            LET middle == lower + (upper - lower) \div 2
            IN  CASE lower >= upper -> lower
                  [] lower < upper /\ Before(index[middle + 1], key) -> search[middle + 1, upper]
                  [] OTHER -> search[lower, middle]
        at == search[0, Len(index)] + 1
    IN  IF at <= Len(index) /\ index[at].arm = key.arm /\ index[at].constructor = key.constructor
        THEN index[at].alternative ELSE 0

(***************************************************************************)
(* The parts of a transition                                               *)
(***************************************************************************)
Eval(node, environment) == [mode |-> "eval", node |-> node, environment |-> environment]
EnterThunk(thunk) == [mode |-> "enter", thunk |-> thunk]
Return(tag, payload) == [mode |-> "return", value |-> Value(tag, payload)]
Reify == [mode |-> "reify continue"]

Goto(next) == control' = next /\ UNCHANGED status
Fail(fault) == status' = fault /\ UNCHANGED control
Complete(value) == status' = "complete" /\ control' = Return(value.tag, value.payload)

(* allocate_heap_slot, for slots that are allocated one after the other:   *)
(* when the heap is full the ones before stay.                             *)
Slot(i) == Len(heap) + i
AllocateInto(slots, then, written) ==
    LET room == request.heapSlots - Len(heap)
    IN  IF Len(slots) <= room THEN heap' = written \o slots /\ then
        ELSE heap' = heap \o SubSeq(slots, 1, room) /\ Fail("OutOfHeap")
Allocate(slots, next) == AllocateInto(slots, Goto(next), heap)

MutantPushOnto(base, frames, next) ==
    LET room == request.stackFrames - Len(base)
        fitting == IF Len(base) <= request.stackFrames THEN Len(frames) ELSE room
    IN  /\ stack' = base \o SubSeq(frames, 1, fitting)
        /\ peakStack' = IF peakStack >= Len(base) + fitting THEN peakStack ELSE Len(base) + fitting
        /\ IF fitting = Len(frames) THEN Goto(next) ELSE Fail("StackOverflow")

(* push_frame, for frames that are pushed one after the other onto base.   *)
Largest(m, n) == IF m >= n THEN m ELSE n
PushOnto(base, frames, next) ==
    LET room == request.stackFrames - Len(base)
        fitting == IF Len(frames) <= room THEN Len(frames) ELSE room
    IN  /\ stack' = base \o SubSeq(frames, 1, fitting)
        /\ peakStack' = Largest(peakStack, Len(base) + fitting)
        /\ IF fitting = Len(frames) THEN Goto(next) ELSE Fail("StackOverflow")
Push(frame, next) == PushOnto(stack, <<frame>>, next)

Popped == SubSeq(stack, 1, Len(stack) - 1)
Top == stack[Len(stack)]

(* One turn of the loop of evaluate_lane.                                  *)
Running == host.at = "gpu" /\ status = "pending"
FuelLeft == steps < request.maximumSteps
DispatchLeft == steps - host.dispatchStart < request.maximumStepsPerDispatch
Turn(mode) ==
    /\ Running /\ FuelLeft /\ DispatchLeft
    /\ control.mode = mode
    /\ steps' = steps + 1
    /\ UNCHANGED <<request, host>>

Keep == UNCHANGED <<globals, pendingInput, output, thunkEvaluations>>
KeepStack == UNCHANGED <<stack, peakStack>>
Pop == stack' = Popped /\ UNCHANGED peakStack

(***************************************************************************)
(* MODE_INITIALIZE_GLOBAL: a thunk for each definition                     *)
(***************************************************************************)
InitializeGlobal ==
    /\ Turn("initialize global")
    /\ LET last == control.definition = Len(Code.definitions)
           entry == IF Code.entry = control.definition THEN Slot(1) ELSE globals[Code.entry]
       IN  Allocate(<<Thunk(Code.definitions[control.definition], 0)>>,
                    IF last THEN EnterThunk(entry) ELSE [control EXCEPT !.definition = @ + 1])
    /\ globals' = IF Len(heap) < request.heapSlots THEN Append(globals, Slot(1)) ELSE globals
    /\ KeepStack
    /\ UNCHANGED <<pendingInput, output, thunkEvaluations>>

(***************************************************************************)
(* MODE_EVAL, evaluate_node                                                *)
(***************************************************************************)
(* The shader calls a module bad when an index is not valid; no index is   *)
(* (see IndicesAreValid), and the guards leave that case out.              *)
Evaluating(tag) == Turn("eval") /\ control.node \in DOMAIN Code.nodes /\ Node.tag = tag

EvaluateLiteral ==
    /\ \/ Evaluating("integer") /\ Goto(Return("integer", Wrapped(Node.n)))
       \/ Evaluating("boolean") /\ Goto(Return("boolean", Node.b))
    /\ KeepStack /\ UNCHANGED heap /\ Keep

(* A binding that is not used has an environment, but no thunk.            *)
EvaluateLet ==
    /\ Evaluating("let") /\ ~Node.strict
    /\ IF Node.used
       THEN Allocate(<<Thunk(Node.value, control.environment), Environment(control.environment, Slot(1))>>,
                     Eval(Node.body, Slot(2)))
       ELSE Allocate(<<Environment(control.environment, 0)>>, Eval(Node.body, Slot(1)))
    /\ KeepStack /\ Keep

EvaluateStrictLet ==
    /\ Evaluating("let") /\ Node.strict
    /\ Push([kind |-> "strict let", node |-> Node.body, environment |-> control.environment],
            Eval(Node.value, control.environment))
    /\ UNCHANGED heap /\ Keep

EvaluateLetRec ==
    /\ Evaluating("letrec")
    /\ IF Code.nodes[Node.value].tag = "lambda"
       THEN Allocate(<<Thunk(Node.value, Slot(2)), Environment(control.environment, Slot(1))>>,
                     Eval(Node.body, Slot(2)))
       ELSE Fail("BadModule") /\ UNCHANGED heap
    /\ KeepStack /\ Keep

EvaluateIf ==
    /\ Evaluating("if")
    /\ Push([kind |-> "if", consequent |-> Node.consequent, alternate |-> Node.alternate,
             environment |-> control.environment],
            Eval(Node.test, control.environment))
    /\ UNCHANGED heap /\ Keep

EvaluateLambda ==
    /\ Evaluating("lambda")
    /\ Allocate(<<Closure(control.node, control.environment, 0)>>, Return("closure", Slot(1)))
    /\ KeepStack /\ Keep

(* One frame for each argument, the first argument on top.                 *)
ArgumentFrame(argument) ==
    [kind |-> IF argument.strict THEN "strict callee" ELSE "apply",
     node |-> argument.node, environment |-> control.environment]
EvaluateApply ==
    /\ Evaluating("apply")
    /\ LET n == Len(Node.arguments)
           frames == IF n = 0 THEN <<[kind |-> "apply zero"]>>
                     ELSE [i \in 1 .. n |-> ArgumentFrame(Node.arguments[n + 1 - i])]
       IN  PushOnto(stack, frames, Eval(Node.callee, control.environment))
    /\ UNCHANGED heap /\ Keep

Binary == {"Add", "Divide", "Less"}
EvaluatePrim ==
    /\ Evaluating("prim")
    /\ CASE Node.op = "Negate" ->
                Push([kind |-> "unary", op |-> Node.op], Eval(Node.operands[1], control.environment))
         [] Node.op = "Widen" ->
                Push([kind |-> "convert", op |-> Node.op], Eval(Node.operands[1], control.environment))
         [] Node.op \in Binary ->
                Push([kind |-> "binary left", op |-> Node.op, node |-> Node.operands[2],
                      environment |-> control.environment],
                     Eval(Node.operands[1], control.environment))
         [] OTHER -> Fail("BadModule") /\ KeepStack
    /\ UNCHANGED heap /\ Keep

EvaluateCase ==
    /\ Evaluating("case")
    /\ Push([kind |-> "case", first |-> Node.first, count |-> Node.count, environment |-> control.environment],
            Eval(Node.scrutinee, control.environment))
    /\ UNCHANGED heap /\ Keep

EvaluateLocal ==
    /\ Evaluating("local")
    /\ LET at == EnvironmentAt(control.environment, Node.depth)
       IN  IF at = 0 THEN Fail("BadModule")
           ELSE IF heap[at].value = 0 THEN Fail("BadModule")
           ELSE Goto(EnterThunk(heap[at].value))
    /\ KeepStack /\ UNCHANGED heap /\ Keep

EvaluateGlobal ==
    /\ Evaluating("global")
    /\ Goto(EnterThunk(globals[Node.definition]))
    /\ KeepStack /\ UNCHANGED heap /\ Keep

EvaluateConstructor ==
    /\ Evaluating("constructor")
    /\ IF Code.arities[Node.constructor] = 0
       THEN Allocate(<<Constructed(Node.constructor, 0, 0)>>, Return("constructor", Slot(1)))
       ELSE Allocate(<<Partial(Node.constructor, 0, 0)>>, Return("partial", Slot(1)))
    /\ KeepStack /\ Keep

(* Runtime faults have no case in the shader.                              *)
EvaluateFault ==
    /\ Evaluating("fault")
    /\ Fail("BadModule")
    /\ KeepStack /\ UNCHANGED heap /\ Keep

(***************************************************************************)
(* MODE_ENTER_THUNK                                                        *)
(***************************************************************************)
Entering(state) ==
    /\ Turn("enter")
    /\ control.thunk \in DOMAIN heap /\ heap[control.thunk].kind = "thunk"
    /\ heap[control.thunk].state = state

MutantEnterUnevaluated ==
    /\ Entering("unevaluated")
    /\ Push([kind |-> "update", thunk |-> control.thunk],
            Eval(heap[control.thunk].node, heap[control.thunk].environment))
    /\ thunkEvaluations' = IF Len(stack) < request.stackFrames THEN thunkEvaluations + 1 ELSE thunkEvaluations
    /\ UNCHANGED <<heap, globals, pendingInput, output>>

EnterUnevaluated ==
    /\ Entering("unevaluated")
    /\ Push([kind |-> "update", thunk |-> control.thunk],
            Eval(heap[control.thunk].node, heap[control.thunk].environment))
    /\ IF Len(stack) < request.stackFrames
       THEN heap' = [heap EXCEPT ![control.thunk].state = "evaluating"] /\ thunkEvaluations' = thunkEvaluations + 1
       ELSE UNCHANGED <<heap, thunkEvaluations>>
    /\ UNCHANGED <<globals, pendingInput, output>>

EnterEvaluating ==
    /\ Entering("evaluating")
    /\ Fail("Blackhole")
    /\ KeepStack /\ UNCHANGED heap /\ Keep

EnterEvaluated ==
    /\ Entering("evaluated")
    /\ Goto(Return(heap[control.thunk].value.tag, heap[control.thunk].value.payload))
    /\ KeepStack /\ UNCHANGED heap /\ Keep

(* A part of the input is decoded when it is needed: a constructor gets a  *)
(* thunk and a field for each of its fields.                               *)
EnterInput ==
    /\ Entering("input") /\ heap[control.thunk].node \in DOMAIN request.input
    /\ LET given == request.input[heap[control.thunk].node]
           Answer(value) == [heap EXCEPT ![control.thunk].state = "evaluated", ![control.thunk].value = value]
           PartOf(i) == IF i % 2 = 1 THEN InputThunk(given.first + i \div 2)
                        ELSE Field(IF i = 2 THEN 0 ELSE Slot(i - 2), Slot(i - 1))
           slots == [i \in 1 .. 2 * given.count + 1 |->
                        IF i <= 2 * given.count THEN PartOf(i)
                        ELSE Constructed(given.payload, IF given.count = 0 THEN 0 ELSE Slot(i - 1), given.count)]
           value == IF given.tag = "constructor" THEN Value("constructor", Slot(Len(slots)))
                    ELSE Value(given.tag, given.payload)
       IN  AllocateInto(IF given.tag = "constructor" THEN slots ELSE <<>>, Goto(Return(value.tag, value.payload)), Answer(value))
    /\ KeepStack /\ Keep

(***************************************************************************)
(* MODE_RETURN, return_from_expression                                     *)
(***************************************************************************)
Callable(value) == value.tag \in {"closure", "partial"}

(* apply_to_thunk, after the allocation of slots, for the thunk of the     *)
(* argument.                                                               *)
ApplyToThunk(value, slots, thunk) ==
    LET callee == heap[value.payload]
        next == Len(slots) + 1
        applied == callee.applied + 1
        parameters == Code.nodes[callee.node].parameters
    IN  CASE value.tag = "partial" ->
                 LET done == applied = Code.arities[callee.constructor]
                     made == IF done THEN Constructed(callee.constructor, Slot(next), applied)
                             ELSE Partial(callee.constructor, Slot(next), applied)
                 IN  Allocate(slots \o <<Field(callee.fields, thunk), made>>,
                              Return(IF done THEN "constructor" ELSE "partial", Slot(next + 1)))
          [] value.tag = "closure" /\ callee.applied >= parameters -> AllocateInto(slots, Fail("TypeError"), heap)
          [] value.tag = "closure" /\ applied = parameters ->
                 Allocate(slots \o <<Environment(callee.environment, thunk)>>,
                          Eval(Code.nodes[callee.node].body, Slot(next)))
          [] OTHER ->
                 Allocate(slots \o <<Environment(callee.environment, thunk), Closure(callee.node, Slot(next), applied)>>,
                          Return("closure", Slot(next + 1)))

Returning(kind) == Turn("return") /\ stack # <<>> /\ Top.kind = kind

(* The empty stack: the input is the argument of the value, and then the   *)
(* value is the result, or is reified.                                     *)
ReturnToInput ==
    /\ Turn("return") /\ stack = <<>> /\ pendingInput # 0
    /\ IF Callable(control.value)
       THEN /\ pendingInput' = 0
            /\ ApplyToThunk(control.value, <<InputThunk(pendingInput)>>, Slot(1))
       ELSE Fail("TypeError") /\ UNCHANGED <<heap, pendingInput>>
    /\ KeepStack /\ UNCHANGED <<globals, output, thunkEvaluations>>

ReturnResult ==
    /\ Turn("return") /\ stack = <<>> /\ pendingInput = 0
    /\ IF request.deep THEN Goto([mode |-> "reify", value |-> control.value])
       ELSE IF control.value.tag = "constructor"
            THEN Complete(Value("constructor", heap[control.value.payload].constructor))
       ELSE Complete(control.value)
    /\ KeepStack /\ UNCHANGED heap /\ Keep

ReturnUpdate ==
    /\ Returning("update")
    /\ IF heap[Top.thunk].state = "evaluating"
       THEN heap' = [heap EXCEPT ![Top.thunk].state = "evaluated", ![Top.thunk].value = control.value] /\ Goto(control)
       ELSE Fail("BadModule") /\ UNCHANGED heap
    /\ Pop /\ Keep

ReturnStrictLet ==
    /\ Returning("strict let")
    /\ Allocate(<<Evaluated(control.value), Environment(Top.environment, Slot(1))>>, Eval(Top.node, Slot(2)))
    /\ Pop /\ Keep

ReturnStrictCallee ==
    /\ Returning("strict callee")
    /\ IF Callable(control.value)
       THEN PushOnto(Popped, <<[kind |-> "strict argument", value |-> control.value]>>, Eval(Top.node, Top.environment))
       ELSE Fail("TypeError") /\ Pop
    /\ UNCHANGED heap /\ Keep

ReturnStrictArgument ==
    /\ Returning("strict argument")
    /\ ApplyToThunk(Top.value, <<Evaluated(control.value)>>, Slot(1))
    /\ Pop /\ Keep

ReturnApply ==
    /\ Returning("apply")
    /\ IF Callable(control.value)
       THEN ApplyToThunk(control.value, <<Thunk(Top.node, Top.environment)>>, Slot(1))
       ELSE Fail("TypeError") /\ UNCHANGED heap
    /\ Pop /\ Keep

ReturnApplyZero ==
    /\ Returning("apply zero")
    /\ LET callee == heap[control.value.payload]
       IN  IF control.value.tag # "closure" THEN Fail("TypeError")
           ELSE IF Code.nodes[callee.node].parameters # 0 \/ callee.applied # 0 THEN Fail("TypeError")
           ELSE Goto(Eval(Code.nodes[callee.node].body, callee.environment))
    /\ Pop /\ UNCHANGED heap /\ Keep

ReturnCase ==
    /\ Returning("case")
    /\ IF control.value.tag # "constructor" THEN Fail("TypeError")
       ELSE IF Top.count = 0 THEN Fail("NonExhaustiveCase")
       ELSE LET scrutinee == heap[control.value.payload]
            IN  Goto([mode |-> "case arm", arm |-> Top.first, end |-> Top.first + Top.count,
                      constructor |-> scrutinee.constructor, field |-> scrutinee.fields,
                      remaining |-> scrutinee.applied, environment |-> Top.environment])
    /\ Pop /\ UNCHANGED heap /\ Keep

ReturnIf ==
    /\ Returning("if")
    /\ IF control.value.tag # "boolean" THEN Fail("TypeError")
       ELSE Goto(Eval(IF control.value.payload THEN Top.consequent ELSE Top.alternate, Top.environment))
    /\ Pop /\ UNCHANGED heap /\ Keep

ReturnUnary ==
    /\ Returning("unary")
    /\ IF control.value.tag # "integer" THEN Fail("TypeError")
       ELSE Goto(Return("integer", Wrapped(-control.value.payload)))
    /\ Pop /\ UNCHANGED heap /\ Keep

ReturnBinaryLeft ==
    /\ Returning("binary left")
    /\ IF control.value.tag = "integer"
       THEN PushOnto(Popped, <<[kind |-> "binary right", op |-> Top.op, left |-> control.value.payload]>>,
                     Eval(Top.node, Top.environment))
       ELSE Fail("TypeError") /\ Pop
    /\ UNCHANGED heap /\ Keep

ReturnBinaryRight ==
    /\ Returning("binary right")
    /\ LET right == control.value.payload
       IN  CASE control.value.tag # "integer" -> Fail("TypeError")
             [] control.value.tag = "integer" /\ Top.op = "Add" -> Goto(Return("integer", Wrapped(Top.left + right)))
             [] control.value.tag = "integer" /\ Top.op = "Less" -> Goto(Return("boolean", Top.left < right))
             [] OTHER -> IF right = 0 THEN Fail("DivideByZero") ELSE Goto(Return("integer", Quotient(Top.left, right)))
    /\ Pop /\ UNCHANGED heap /\ Keep

ReturnConvert ==
    /\ Returning("convert")
    /\ IF control.value.tag = "integer" THEN Allocate(<<Wide(control.value.payload)>>, Return("wide", Slot(1)))
       ELSE Fail("TypeError") /\ UNCHANGED heap
    /\ Pop /\ Keep

ReturnReifiedValue ==
    /\ Returning("reify value")
    /\ Goto([mode |-> "reify", value |-> control.value])
    /\ Pop /\ UNCHANGED heap /\ Keep

(***************************************************************************)
(* MODE_CASE_ARM and MODE_CASE_BIND                                        *)
(***************************************************************************)
MatchCaseArm ==
    /\ Turn("case arm")
    /\ LET index == request.caseDispatch
           indexed == Len(index) > 1
           arm == IF indexed THEN DispatchedAlternative(index, [arm |-> control.arm, constructor |-> control.constructor])
                  ELSE control.arm
           alternative == Code.alternatives[arm]
           arity == Code.arities[control.constructor]
       IN  CASE arm = 0 -> Fail("NonExhaustiveCase")
             [] arm # 0 /\ arm >= control.end -> Fail("BadModule")
             [] arm # 0 /\ arm < control.end /\ alternative.constructor # control.constructor ->
                    Goto([control EXCEPT !.arm = arm + 1])
             [] OTHER -> IF arity # control.remaining \/ alternative.binders # arity THEN Fail("BadModule")
                         ELSE Goto([mode |-> "case bind", node |-> alternative.body, field |-> control.field,
                                    remaining |-> control.remaining, environment |-> control.environment])
    /\ KeepStack /\ UNCHANGED heap /\ Keep

(* The last field first, so that the first one is the innermost.           *)
BindCaseField ==
    /\ Turn("case bind")
    /\ IF control.remaining = 0
       THEN (IF control.field # 0 THEN Fail("BadModule") ELSE Goto(Eval(control.node, control.environment))) /\ UNCHANGED heap
       ELSE IF control.field = 0 THEN Fail("BadModule") /\ UNCHANGED heap
       ELSE Allocate(<<Environment(control.environment, heap[control.field].thunk)>>,
                     [control EXCEPT !.environment = Slot(1), !.field = heap[control.field].previous,
                                     !.remaining = @ - 1])
    /\ KeepStack /\ Keep

(***************************************************************************)
(* Reification of a deep result: the nodes of the value in preorder        *)
(***************************************************************************)
ResultNode(tag, payload, count) == [tag |-> tag, payload |-> payload, count |-> count]

ReifyValue ==
    /\ Turn("reify")
    /\ LET value == control.value
           slot == heap[value.payload]
           room == Len(output) < request.resultNodes
           leaf == IF value.tag = "wide" THEN ResultNode("wide", slot.n, 0) ELSE ResultNode(value.tag, value.payload, 0)
           Appended(node) == output' = Append(output, node)
       IN  CASE value.tag # "constructor" ->
                    /\ IF room THEN Appended(leaf) /\ Goto(Reify) ELSE Fail("ResultTooLarge") /\ UNCHANGED output
                    /\ KeepStack /\ UNCHANGED heap
             [] value.tag = "constructor" /\ slot.marked ->
                    Fail("CyclicResult") /\ KeepStack /\ UNCHANGED <<heap, output>>
             [] value.tag = "constructor" /\ ~slot.marked /\ ~room ->
                    Fail("ResultTooLarge") /\ KeepStack /\ UNCHANGED <<heap, output>>
             [] OTHER ->
                    /\ Appended(ResultNode("constructor", slot.constructor, slot.applied))
                    /\ IF slot.applied = 0 THEN Goto(Reify) /\ KeepStack /\ UNCHANGED heap
                       ELSE /\ heap' = [heap EXCEPT ![value.payload].marked = TRUE]
                            /\ Push([kind |-> "reify end", slot |-> value.payload],
                                    [mode |-> "reify prepare", field |-> slot.fields, remaining |-> slot.applied])
    /\ UNCHANGED <<globals, pendingInput, thunkEvaluations>>

PrepareReifiedFields ==
    /\ Turn("reify prepare")
    /\ IF control.remaining = 0 THEN Goto(Reify) /\ KeepStack
       ELSE Push([kind |-> "reify field", thunk |-> heap[control.field].thunk],
                 [control EXCEPT !.field = heap[control.field].previous, !.remaining = @ - 1])
    /\ UNCHANGED heap /\ Keep

ContinueReification ==
    /\ Turn("reify continue")
    /\ CASE stack = <<>> -> Complete(NoValue) /\ KeepStack /\ UNCHANGED heap
         [] stack # <<>> /\ Top.kind = "reify field" ->
                PushOnto(Popped, <<[kind |-> "reify value"]>>, EnterThunk(Top.thunk)) /\ UNCHANGED heap
         [] stack # <<>> /\ Top.kind = "reify end" ->
                heap' = [heap EXCEPT ![Top.slot].marked = FALSE] /\ Goto(Reify) /\ Pop
         [] OTHER -> Fail("BadModule") /\ Pop /\ UNCHANGED heap
    /\ Keep

(***************************************************************************)
(* The dispatches and the host                                             *)
(***************************************************************************)
machine == <<control, heap, stack, globals, pendingInput, output, steps, peakStack, thunkEvaluations>>

(* Evaluate, with initialize_evaluation.                                   *)
Evaluate(r) ==
    /\ host.at = "idle"
    /\ request' = [r EXCEPT !.caseDispatch = CaseDispatchIndex(r.module)]
    /\ host' = [at |-> "ready", dispatchStart |-> 0, previousSteps |-> 0]
    /\ status' = "pending"
    /\ control' = [mode |-> "initialize global", definition |-> 1]
    /\ heap' = <<>> /\ stack' = <<>> /\ globals' = <<>> /\ output' = <<>>
    /\ pendingInput' = IF r.input = <<>> THEN 0 ELSE 1
    /\ steps' = 0 /\ peakStack' = 0 /\ thunkEvaluations' = 0

Dispatch ==
    /\ host.at = "ready"
    /\ host' = [host EXCEPT !.at = "gpu", !.dispatchStart = steps]
    /\ UNCHANGED <<request, status, machine>>

MutantExhaustFuel ==
    /\ Running /\ steps > request.maximumSteps
    /\ Fail("OutOfFuel")
    /\ UNCHANGED <<request, heap, stack, globals, pendingInput, output, steps, peakStack, thunkEvaluations, host>>

ExhaustFuel ==
    /\ Running /\ ~FuelLeft
    /\ Fail("OutOfFuel")
    /\ UNCHANGED <<request, heap, stack, globals, pendingInput, output, steps, peakStack, thunkEvaluations, host>>

EndDispatch ==
    /\ host.at = "gpu"
    /\ status # "pending" \/ (FuelLeft /\ ~DispatchLeft)
    /\ host' = [host EXCEPT !.at = "readback"]
    /\ UNCHANGED <<request, status, machine>>

(* assertConsistentEvaluationCounters and the checks of the loop: the host *)
(* throws when they do not hold.                                           *)
CountersAreConsistent ==
    /\ steps <= request.maximumSteps
    /\ Len(heap) <= request.heapSlots
    /\ peakStack <= request.stackFrames
    /\ Len(stack) <= peakStack
    /\ Len(globals) <= Len(Code.definitions)
    /\ Len(output) <= request.resultNodes
    /\ thunkEvaluations <= steps
ProgressIsValid ==
    /\ steps - host.previousSteps \in 1 .. request.maximumStepsPerDispatch
    /\ status = "pending" => steps < request.maximumSteps
    /\ status = "complete" => stack = <<>>

ReadSnapshot ==
    /\ host.at = "readback"
    /\ host' = IF ~CountersAreConsistent \/ ~ProgressIsValid THEN [host EXCEPT !.at = "thrown"]
               ELSE IF status = "pending" THEN [host EXCEPT !.at = "ready", !.previousSteps = steps]
               ELSE [host EXCEPT !.at = "done"]
    /\ UNCHANGED <<request, status, machine>>

(***************************************************************************)
(* The evaluator                                                           *)
(***************************************************************************)
NoRequest ==
    [module |-> [code |-> "none"], caseDispatch |-> <<>>, maximumSteps |-> 0, maximumStepsPerDispatch |-> 0,
     heapSlots |-> 0, stackFrames |-> 0, resultNodes |-> 0, deep |-> FALSE, input |-> <<>>]
Init ==
    /\ request = NoRequest /\ status = "uninitialized" /\ control = [mode |-> "none"]
    /\ heap = <<>> /\ stack = <<>> /\ globals = <<>> /\ output = <<>>
    /\ pendingInput = 0 /\ steps = 0 /\ peakStack = 0 /\ thunkEvaluations = 0
    /\ host = [at |-> "idle", dispatchStart |-> 0, previousSteps |-> 0]

EvaluateNode ==
    \/ EvaluateLiteral \/ EvaluateLet \/ EvaluateStrictLet \/ EvaluateLetRec \/ EvaluateIf \/ EvaluateLambda
    \/ EvaluateApply \/ EvaluatePrim \/ EvaluateCase \/ EvaluateLocal \/ EvaluateGlobal \/ EvaluateConstructor
    \/ EvaluateFault
Enter == EnterUnevaluated \/ EnterEvaluating \/ EnterEvaluated \/ EnterInput
ReturnFromExpression ==
    \/ ReturnToInput \/ ReturnResult \/ ReturnUpdate \/ ReturnStrictLet \/ ReturnStrictCallee
    \/ ReturnStrictArgument \/ ReturnApply \/ ReturnApplyZero \/ ReturnCase \/ ReturnIf \/ ReturnUnary
    \/ ReturnBinaryLeft \/ ReturnBinaryRight \/ ReturnConvert \/ ReturnReifiedValue
Machine ==
    \/ InitializeGlobal \/ EvaluateNode \/ Enter \/ ReturnFromExpression \/ MatchCaseArm \/ BindCaseField
    \/ ReifyValue \/ PrepareReifiedFields \/ ContinueReification \/ ExhaustFuel
Host == Dispatch \/ EndDispatch \/ ReadSnapshot

(* Evaluations of the requests of a set.                                   *)
Next(requests) == (\E r \in requests : Evaluate(r)) \/ Machine \/ Host
Evaluations(requests) == Init /\ [][Next(requests)]_vars

(***************************************************************************)
(* Properties                                                              *)
(***************************************************************************)
Sound == status \in {"pending", "complete"}

(* What valid_heap_value and the checks of the shader ask of every index   *)
(* before they follow it: an environment is an environment, a value is of  *)
(* the kind of its tag, and a chain of fields is as long as it claims.     *)
(* The shader takes the evaluation for that of a bad module otherwise.     *)
IsKind(index, kind) == index \in DOMAIN heap /\ heap[index].kind = kind
IsEnvironment(index) == index = 0 \/ IsKind(index, "environment")
IsValid(value) ==
    CASE value.tag \in {"closure", "partial", "constructor", "wide"} -> IsKind(value.payload, value.tag)
      [] value.tag = "integer" -> value.payload \in -HalfWord .. HalfWord - 1
      [] OTHER -> value.tag = "none" \/ value.payload \in BOOLEAN
IsChain(index, length) ==
    LET rest[n \in 0 .. length] == IF n = 0 THEN index ELSE heap[rest[n - 1]].previous
    IN  (\A n \in 0 .. length - 1 : IsKind(rest[n], "field")) /\ rest[length] = 0
IsSlot(slot) ==
    CASE slot.kind = "thunk" ->
             /\ IsEnvironment(slot.environment) /\ IsValid(slot.value)
             /\ slot.state = "input" => slot.node \in DOMAIN request.input
      [] slot.kind = "environment" ->
             /\ slot.value = 0 \/ IsKind(slot.value, "thunk")
             /\ \A i \in DOMAIN slot.ancestors : IsEnvironment(slot.ancestors[i])
      [] slot.kind = "closure" -> IsEnvironment(slot.environment) /\ slot.applied <= Code.nodes[slot.node].parameters
      [] slot.kind \in {"partial", "constructor"} -> IsChain(slot.fields, slot.applied)
      [] slot.kind = "field" -> IsKind(slot.thunk, "thunk")
      [] slot.kind = "wide" -> TRUE
IndicesAreValid ==
    Sound =>
        /\ \A i \in DOMAIN heap : IsSlot(heap[i])
        /\ \A i \in DOMAIN stack : "environment" \in DOMAIN stack[i] => IsEnvironment(stack[i].environment)
        /\ control.mode = "eval" => control.node \in DOMAIN Code.nodes
        /\ control.mode = "enter" => IsKind(control.thunk, "thunk")
        /\ "environment" \in DOMAIN control => IsEnvironment(control.environment)
        /\ "value" \in DOMAIN control => status = "complete" \/ IsValid(control.value)
        /\ control.mode = "case bind" => IsChain(control.field, control.remaining)

(* A thunk is being evaluated as long as there is exactly one frame that   *)
(* will update it, and no thunk is entered again once it has its value:    *)
(* the work of a shared expression is done once.                           *)
UpdateFrames(t) == {i \in DOMAIN stack : stack[i].kind = "update" /\ stack[i].thunk = t}
Thunks(states) == {t \in DOMAIN heap : heap[t].kind = "thunk" /\ heap[t].state \in states}
WorkIsShared ==
    Sound =>
        /\ \A t \in DOMAIN heap : Cardinality(UpdateFrames(t)) = IF t \in Thunks({"evaluating"}) THEN 1 ELSE 0
        /\ thunkEvaluations <= Cardinality(Thunks({"evaluating", "evaluated"}))

(* The host never throws for the counters it reads: it accepts every       *)
(* snapshot at the end of a dispatch, when fuel, heap, stack or results    *)
(* are used up as well.                                                    *)
SnapshotsAreAccepted == host.at # "thrown"
=============================================================================
