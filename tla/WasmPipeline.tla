---------------------------- MODULE WasmPipeline ----------------------------
(***************************************************************************)
(* The other backend: the module that is emitted for a lowered program,    *)
(* in each of the ways in which it can be compiled, and the host that      *)
(* calls it (src/src/functional/wasm_host_boundary.ts, wasm_backend_plan). *)
(* Compilation and execution are pure functions of the Core: the property  *)
(* compares their answer with what the program means.                      *)
(***************************************************************************)
EXTENDS SemanticPipeline

CONSTANT WasmFuel \* the depth of the emitted code, and the rounds of a loop

Wasm == INSTANCE WasmCodegen WITH HalfRange <- HalfWord

(***************************************************************************)
(* The host boundary                                                       *)
(***************************************************************************)
IsFunctionType(type) == type.k = "con" /\ type.name = "->"
ResultType(type) == IF IsFunctionType(type) THEN type.args[2] ELSE type

(* requireFirstOrderWasmType: no function, however deep.                   *)
RECURSIVE FirstOrder(_, _)
FirstOrder(type, visited) ==
    LET d == Shape(type.name)
        bindings == {<<d.parameters[i], type.args[i]>> : i \in DOMAIN type.args}
        fields == UNION {ToSet(d.constructors[j].fields) : j \in DOMAIN d.constructors}
    IN  /\ type.k = "con" /\ type.name # "->"
        /\ \A i \in DOMAIN type.args : FirstOrder(type.args[i], visited)
        /\ \/ type \in visited \cup {Integer, Boolean, SignedInteger64}
           \/ \A f \in fields : ~Quantified(f) /\ FirstOrder(Instantiated(f, bindings), visited \cup {type})

(* functionalWasmEntry: a value, or a function of one.                     *)
ValidEntry(main) == FirstOrder(ResultType(main), {}) /\ (IsFunctionType(main) => FirstOrder(main.args[1], {}))

(* compileLetRec does not take a recursive value other than a function.    *)
Emittable(w) == \A n \in DOMAIN w.nodes : w.nodes[n].tag = "letrec" => w.nodes[w.nodes[n].value].tag = "lambda"

(* The modules that can be emitted: with the runtime; without it, for a    *)
(* scalar program; and main as an export of native integers.               *)
Artifacts(w, main) ==
    {"runtime"}
    \cup (IF main \in {Integer, Boolean} /\ Wasm!CompactScalarProgramIsProvable(w) THEN {"compact"} ELSE {})
    \cup (IF ResultType(main) = Integer /\ (IsFunctionType(main) => main.args[1] = Integer) THEN {"export"} ELSE {})

RunArtifact(w, artifact, main, input) ==
    CASE artifact = "runtime" -> Wasm!RunProgram(w, input, WasmFuel)
      [] artifact = "compact" -> Wasm!RunCompact(w, IF main = Integer THEN "integer" ELSE "boolean", WasmFuel)
      [] artifact = "export"  -> Wasm!RunExport(w, input, WasmFuel)

(* A value is the value that is meant; a trap, or no end, is a fault of    *)
(* the program or its having no end.  An artifact that is discarded is     *)
(* replaced by another.                                                    *)
IsTheReference(run, meant) ==
    CASE run.m.status = "ok"   -> Reference!IsValue(meant) /\ run.nodes = Preorder(meant)
      [] run.m.status \in {"trap", "exhausted"} -> ~Reference!IsValue(meant)
      [] OTHER -> run.m.status \in {"discarded", "invalid"}

(***************************************************************************)
(* The module that is emitted for a well-typed program answers as the      *)
(* program means, in every way to compile it, with and without inlining:   *)
(* no local is read where it is not, no object is taken for another one,   *)
(* no loop, fold, worker, known function or reuse of memory changes an     *)
(* answer.  Except where one of the four mistakes of the code is seen      *)
(* (ghosts): a function that is not in its set, a callee that is not       *)
(* evaluated, memory that is not initialised, a join point in a value.     *)
(***************************************************************************)
WasmAnswersAreTheReference ==
    [][compilation'.at = "lowered" /\ ~Mismatched /\ ~UnsupportedOperations(Source) =>
        LET main == HostTypes!InferTypes(Source)
            Right(w, artifact, inputs) ==
                LET run == RunArtifact(w, artifact, main.main, EncodeInput(inputs))
                    meaning == Reference!MeaningOfModule(Source, inputs, MeaningFuel)
                IN  run.m.ghosts # {} \/ IsTheReference(run, Reference!Shown(Source, meaning, MeaningFuel))
        IN  main.code = "none" /\ ~main.shortened /\ ValidEntry(main.main) =>
                \A core \in {compilation'.core}, inline \in BOOLEAN :
                    LET w == Wasm!PlanFor(core, inline)
                        called == {inputs \in program.inputs : IsFunctionType(main.main) <=> inputs # <<>>}
                    IN  \A artifact \in Artifacts(w, main.main), inputs \in called :
                            Emittable(w) => Right(w, artifact, inputs)]_compilation
=============================================================================
