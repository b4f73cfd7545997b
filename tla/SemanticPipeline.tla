-------------------------- MODULE SemanticPipeline --------------------------
(***************************************************************************)
(* A program from what a frontend writes to its answer: the surface module *)
(* is built and lowered to Core, and the Core is evaluated with one of the *)
(* budgets.  The inferencers are pure    *)
(* functions of the surface, and only decide whether the compiler hands    *)
(* the Core over: here every module that can be lowered is evaluated, and  *)
(* the properties ask the inferencers what they say of it.                 *)
(***************************************************************************)
EXTENDS CoreLowering, GraphEvaluator

CONSTANTS Programs,  \* the programs: records [module, inputs, written]; what is not written is encoded already
          Budgets,   \* the options of an evaluation
          MeaningFuel, SurfaceTypes, MaximumCaptures

VARIABLES program, compilation

HostTypes == INSTANCE TypeInference
GpuTypes == INSTANCE GpuTypeInference WITH ConcreteTypeThreshold <- 8, TypeCapacity <- 400
Reference == INSTANCE CallByName WITH HalfRange <- HalfWord
Certificates == INSTANCE TypedCertificate
Frontend == INSTANCE SurfaceElaboration

pipelineVars == <<program, compilation, vars>>

Source == compilation.source
Submitted == [at |-> "submitted", source |-> <<>>, core |-> [code |-> "submitted"]]

(* A valid argument of main, node by node, each before its fields, breadth *)
(* first: encodeInputValue.                                                *)
RECURSIVE EncodeEntries(_, _)
EncodeEntries(values, encoded) ==
    LET value == values[Len(encoded) + 1]
        fields == [i \in DOMAIN value.args |-> value.args[i].value]
        node == CASE value.is = "integer" -> [tag |-> "integer", payload |-> value.n, first |-> 0, count |-> 0]
                  [] value.is = "boolean" -> [tag |-> "boolean", payload |-> value.b, first |-> 0, count |-> 0]
                  [] value.is = "constructor" ->
                         [tag |-> "constructor", payload |-> IndexOf(ConstructorTable, value.con),
                          first |-> IF fields = <<>> THEN 0 ELSE Len(values) + 1, count |-> Len(fields)]
    IN  IF Len(values) = Len(encoded) THEN encoded
        ELSE EncodeEntries(IF value.is = "constructor" THEN values \o fields ELSE values, Append(encoded, node))
EncodeInput(inputs) == EncodeEntries(inputs, <<>>)

(***************************************************************************)
(* The programs of which the two inferencers are known to differ, or the   *)
(* host to accept too much                                                 *)
(***************************************************************************)
RECURSIVE SubExpressions(_)
SubExpressions(e) ==
    LET All(es) == UNION {SubExpressions(es[i]) : i \in DOMAIN es}
    IN  {e} \cup
        CASE e.k \in {"int", "bool", "fault", "name"} -> {}
          [] e.k \in {"let", "letrec"} -> All(<<e.value, e.body>>)
          [] e.k = "if"     -> All(<<e.test, e.consequent, e.alternate>>)
          [] e.k = "lambda" -> SubExpressions(e.body)
          [] e.k = "apply"  -> SubExpressions(e.f) \cup All(e.args)
          [] e.k = "prim"   -> All(e.args)
          [] e.k = "case"   -> SubExpressions(e.scrutinee) \cup All([i \in DOMAIN e.arms |-> e.arms[i].body])
ExpressionsOf(module) == UNION {SubExpressions(module[i].body) : i \in DOMAIN module}

RECURSIVE Quantified(_)
Quantified(schema) ==
    \/ schema.k = "forall"
    \/ schema.k = "con" /\ \E i \in DOMAIN schema.args : Quantified(schema.args[i])

(* Inferred as a function of Unit, a function or a call without parameters *)
(* is not one for the evaluator; a pattern that binds a name twice is      *)
(* typed for the last field and evaluated for the first one; and what is   *)
(* defined by itself and is no lambda is typed, but not evaluated.         *)
EmptyCalls(module) ==
    \E e \in ExpressionsOf(module) : (e.k = "lambda" /\ e.xs = <<>>) \/ (e.k = "apply" /\ e.args = <<>>)
RepeatedBinders(module) ==
    \E e \in ExpressionsOf(module) : e.k = "case" /\ \E i \in DOMAIN e.arms : ~IsInjective(e.arms[i].xs)
RecursiveData(module) == \E e \in ExpressionsOf(module) : e.k = "letrec" /\ e.value.k # "lambda"
QuantifiedAnnotations(module) == \E i \in DOMAIN module : Quantified(module[i].annotation)
UnsupportedOperations(module) ==
    \E e \in ExpressionsOf(module) : e.k = "fault" \/ (e.k = "prim" /\ e.op \notin NumericPrimops)

(***************************************************************************)
(* Actions                                                                 *)
(***************************************************************************)
PipelineInit ==
    /\ \E p \in DOMAIN Programs : program = Programs[p]
    /\ compilation = Submitted
    /\ Init

(* What cannot be built, or not be lowered, goes no further.               *)
BuildModule ==
    /\ compilation.at = "submitted"
    /\ \E built \in {IF program.written THEN Frontend!BuildSurfaceModule(program.module)
                     ELSE [valid |-> TRUE, module |-> program.module]} :
           compilation' = [compilation EXCEPT !.at = IF built.valid THEN "built" ELSE "refused",
                                              !.source = IF built.valid THEN built.module ELSE <<>>]
    /\ UNCHANGED <<program, vars>>

LowerModule ==
    /\ compilation.at = "built"
    /\ \E core \in {Lower(Source)} :
           compilation' = [compilation EXCEPT !.at = IF core.code = "none" THEN "lowered" ELSE "rejected", !.core = core]
    /\ UNCHANGED <<program, vars>>

EvaluateModule ==
    /\ compilation.at = "lowered"
    /\ \E budget \in Budgets, inputs \in program.inputs :
           Evaluate([budget EXCEPT !.module = compilation.core, !.input = EncodeInput(inputs)])
    /\ compilation' = [compilation EXCEPT !.at = "evaluating"]
    /\ UNCHANGED program

(* The promise of the evaluation settles.                                  *)
ReturnAnswer ==
    /\ compilation.at = "evaluating" /\ host.at = "done"
    /\ compilation' = [compilation EXCEPT !.at = "answered"]
    /\ UNCHANGED <<program, vars>>

PipelineNext ==
    \/ BuildModule \/ LowerModule \/ EvaluateModule \/ ReturnAnswer
    \/ (Machine \/ Host) /\ UNCHANGED <<program, compilation>>

(* Nothing stops the loop of the shader, nor the loop of the host, which   *)
(* only awaits the device.                                                 *)
PipelineSpec == PipelineInit /\ [][PipelineNext]_pipelineVars /\ WF_vars(Machine \/ Host)

(***************************************************************************)
(* Answers                                                                 *)
(***************************************************************************)
GivenInputs == CHOOSE inputs \in program.inputs : EncodeInput(inputs) = request.input
Meant == Reference!MeaningOfModule(program.module, GivenInputs, MeaningFuel)
MeantInFull == IF request.deep THEN Reference!Shown(program.module, Meant, MeaningFuel) ELSE Meant

(* The nodes of a value in preorder, as the evaluator gives them out; of a *)
(* function only that it is one, and for a built module, in which known    *)
(* functions are always applied in full, not of which kind.                *)
Outline(value) ==
    CASE value.is = "integer"     -> ResultNode("integer", value.n, 0)
      [] value.is = "wide"        -> ResultNode("wide", value.n, 0)
      [] value.is = "boolean"     -> ResultNode("boolean", value.b, 0)
      [] value.is = "closure"     -> ResultNode("closure", 0, 0)
      [] value.is = "constructor" ->
             IF Reference!IsFunction(value) THEN ResultNode("partial", 0, 0)
             ELSE ResultNode("constructor", IndexOf(ConstructorTable, value.con), Len(value.args))
RECURSIVE Preorder(_)
Preorder(value) ==
    <<Outline(value)>> \o
    (IF value.is = "constructor" /\ ~Reference!IsFunction(value)
     THEN FlattenSeq([i \in DOMAIN value.args |-> Preorder(value.args[i])]) ELSE <<>>)
Anonymous(node) ==
    IF node.tag \notin {"closure", "partial"} THEN node
    ELSE ResultNode(IF program.written THEN "function" ELSE node.tag, 0, node.count)
Payload(value) == IF value.tag = "wide" THEN heap[value.payload].n ELSE value.payload
Answer ==
    IF request.deep THEN [i \in DOMAIN output |-> Anonymous(output[i])]
    ELSE <<Anonymous(ResultNode(control.value.tag, Payload(control.value), 0))>>
Expected ==
    LET nodes == IF request.deep THEN Preorder(MeantInFull) ELSE <<[Outline(MeantInFull) EXCEPT !.count = 0]>>
    IN  [i \in DOMAIN nodes |-> Anonymous(nodes[i])]

(* The type of a value: the arguments that the result of its constructor   *)
(* gives to the parameters of the declaration, and the fields at them.     *)
RECURSIVE Solutions(_, _)
Solutions(schema, type) ==
    CASE schema.k = "par" -> {<<schema.name, type>>}
      [] schema.k = "con" /\ type.k = "con" /\ schema.name = type.name /\ Len(schema.args) = Len(type.args) ->
             UNION {Solutions(schema.args[i], type.args[i]) : i \in DOMAIN schema.args}
      [] OTHER -> {<<"mismatch", NoType>>}
RECURSIVE Instantiated(_, _)
Instantiated(schema, solutions) ==
    IF schema.k = "par" THEN (CHOOSE s \in solutions : s[1] = schema.name)[2]
    ELSE Con(schema.name, [i \in DOMAIN schema.args |-> Instantiated(schema.args[i], solutions)])
RECURSIVE HasType(_, _)
HasType(value, type) ==
    CASE value.is = "integer" -> type = Integer
      [] value.is = "wide"    -> type = SignedInteger64
      [] value.is = "boolean" -> type = Boolean
      [] value.is = "closure" -> type.name = "->"
      [] value.is = "constructor" /\ Reference!IsFunction(value) -> type.name = "->"
      [] OTHER ->
             LET c == Constructor(value.con)
                 d == Shape(OwnerOf(value.con))
                 plain == Con(d.name, [i \in DOMAIN d.parameters |-> Par(d.parameters[i])])
                 solutions == Solutions(IF c.result = NoType THEN plain ELSE c.result, type)
             IN  /\ \A s, t \in solutions : s[1] = t[1] => s = t
                 /\ \A s \in solutions : s[2] # NoType
                 /\ \A i \in DOMAIN value.args : HasType(value.args[i], Instantiated(c.fields[i], solutions))

(* The type of the answer: of main, or of its result for an input.         *)
AnswerType(main) == IF request.input = <<>> THEN main ELSE main.args[2]

MeantByTheProgram ==
    CASE status = "complete" -> Reference!IsValue(MeantInFull) /\ Answer = Expected
      [] status \in {"TypeError", "DivideByZero", "NonExhaustiveCase", "BadModule"} ->
             MeantInFull = Reference!Faulty(status)
      [] status \in {"Blackhole", "CyclicResult"} -> MeantInFull = Reference!Unknown
      [] OTHER -> TRUE

(***************************************************************************)
(* Properties                                                              *)
(***************************************************************************)
(* The evaluator of the GPU gives the answer that the program means: a     *)
(* value is that value, a fault of the program is that fault, and only a   *)
(* program that does not end can wait for itself.  Whatever the budgets,   *)
(* they only decide whether there is an answer.                            *)
Misread ==
    /\ program.written
    /\ \/ Frontend!CapturesAreRebound(program.module)
       \/ Frontend!ArityOfAnother(program.module)
       \/ Frontend!AppliesToNothing(program.module)
AnswersAreTheReference ==
    [][compilation'.at = "answered" /\ ~Misread /\ ~RepeatedBinders(Source) /\ ~RecursiveData(Source) => MeantByTheProgram]_compilation

(* What an inferencer accepts does not go wrong, and its answer has the    *)
(* type that was inferred for main, for the programs in which no shortcut  *)
(* of the inferencers and no mismatch of the phases is at work.            *)
GoesWrong == status \in {"TypeError", "NonExhaustiveCase", "BadModule"}
HasTypeOfMain(verdict) ==
    status = "complete" /\ request.deep => HasType(MeantInFull, AnswerType(verdict.main))
Mismatched == EmptyCalls(Source) \/ RepeatedBinders(Source) \/ RecursiveData(Source)
WellTypedProgramsDoNotGoWrong ==
    [][compilation'.at = "answered" /\ ~Misread /\ ~Mismatched /\ ~UnsupportedOperations(Source) =>
        LET byHost == HostTypes!InferTypes(Source)
            byGpu == GpuTypes!InferTypesOnGpu(Source, compilation'.core)
        IN  /\ byHost.code = "none" /\ ~byHost.shortened => ~GoesWrong /\ HasTypeOfMain(byHost)
            /\ byGpu.code = "none" /\ byGpu.ghosts = {} => ~GoesWrong /\ HasTypeOfMain(byGpu)]_compilation

(* The equalities of an arm are scoped to it, so that nothing the host     *)
(* accepts goes wrong, with no exception for its shortcut.                 *)
HostRefinementsAreScoped ==
    [][compilation'.at = "answered" =>
        LET byHost == HostTypes!InferTypes(Source)
        IN  byHost.code = "none" => ~GoesWrong /\ HasTypeOfMain(byHost)]_compilation

(* The two inferencers accept the same programs, with the same type of     *)
(* main and the same diagnostics, where no shortcut is at work.            *)
HostAndGpuAgree ==
    [][compilation'.at = "lowered" /\ ~Mismatched /\ ~QuantifiedAnnotations(Source) =>
        LET byHost == HostTypes!InferTypes(Source)
            byGpu == GpuTypes!InferTypesOnGpu(Source, compilation'.core)
        IN  byHost.shortened \/ byGpu.ghosts # {} \/ (byHost.code = byGpu.code /\ byHost.main = byGpu.main)]_compilation

(* A certificate that the planner hands out is confirmed, also next to     *)
(* others in a batch and while a spoilt one is rejected; a module that is  *)
(* confirmed does not go wrong, its answer has the type of the annotation, *)
(* and inference would have come to the same type.                         *)
Annotated(type) == IF Len(Source) = 1 /\ type # NoType THEN <<[Source[1] EXCEPT !.annotation = type]>> ELSE Source
Spoilt(plan) ==
    LET term == SelectInSeq(plan.terms, LAMBDA t : t.kind # "variable")
    IN  [plan EXCEPT !.assignments[term] = (@ % Len(plan.types)) + 1]
CertificatesAreSound ==
    [][compilation'.at \in {"lowered", "answered"} /\ ~Misread /\ ~Mismatched =>
        \A core \in {compilation'.core} :
            LET byHost == HostTypes!InferTypes(Source)
                plan == Certificates!PrepareCertificate(Annotated(byHost.main), core)
            IN  plan.ready =>
                    \/ /\ compilation'.at = "lowered"
                       /\ Certificates!CheckCertificates(<<plan, Spoilt(plan), plan>>) = <<TRUE, Len(plan.types) = 1, TRUE>>
                       /\ byHost.code = "none" /\ byHost.main = plan.entry
                    \/ compilation'.at = "answered" /\ ~GoesWrong /\ HasTypeOfMain([main |-> plan.entry])]_compilation

(* Every evaluation ends, whatever the program: the fuel sees to it.       *)
EveryEvaluationEnds == [](host.at = "ready" => <>(host.at = "done"))
=============================================================================
