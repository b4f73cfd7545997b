---------------------------- MODULE InferenceRun ----------------------------
(***************************************************************************)
(* runGpuSemanticTypeInferenceMachine (src/src/semantic/                   *)
(* gpu_type_inference_runner.ts) and the kernels it drives: one module is  *)
(* compiled and type-inferred on the device in dispatches of bounded       *)
(* length.  The host reads the state back after each dispatch, goes on,    *)
(* grows an arena that was exhausted (a new buffer, the live regions       *)
(* copied to their new bases, the failed transition repeated), or settles. *)
(*                                                                         *)
(* The program is abstracted to Trace, what its transitions ask of the     *)
(* arenas: two words per type record, one per frame, scratch words at      *)
(* fixed places, output records that depend on all of them.                *)
(***************************************************************************)
EXTENDS Integers, Sequences, FiniteSets

CONSTANTS
    Trace,          \* the transitions: records [kind, n, at]
    SemanticSteps,  \* steps of the semantic pass before inference starts
    Options         \* what Init chooses from: records with the fields
                    \*   maximumSteps, maximumStepsPerDispatch,
                    \*   capacity (of each arena), words and outputs (the
                    \*   device limits), readback (records per dispatch)

Arenas == {"type", "frame", "scratch", "output"}
TypeWords == 2
MaximumWords == 16   \* the largest buffer of the model

ASSUME InferenceAssumption ==
    /\ SemanticSteps \in Nat \ {0}
    /\ Trace \in Seq([kind : {"types", "push", "pop", "scratch", "out"}, n : Nat, at : Nat])
    /\ \A o \in Options :
         /\ o.maximumSteps \in Nat \ {0} /\ o.maximumStepsPerDispatch \in Nat \ {0}
         /\ o.capacity \in [Arenas -> Nat] /\ o.readback \in Nat
         /\ o.words \in 0 .. MaximumWords /\ o.outputs \in 0 .. MaximumWords

VARIABLES
    options,   \* of this run
    host,      \* the runner: where it stands, its layout and counters
    dev,       \* the state buffer
    memory,    \* contents of the buffers, by buffer
    live,      \* buffers created and not destroyed
    aborted    \* options.signal

vars == <<options, host, dev, memory, live, aborted>>

MinOf(a, b) == IF a < b THEN a ELSE b
MaxOf(a, b) == IF a > b THEN a ELSE b

Words == 0 .. MaximumWords - 1
Blank == [w \in Words |-> 0]

(* createWorkspaceLayout: the arenas one after the other in one buffer.    *)
Base(capacity, arena) ==
    CASE arena = "type"    -> 0
      [] arena = "frame"   -> TypeWords * capacity["type"]
      [] arena = "scratch" -> TypeWords * capacity["type"] + capacity["frame"]
WorkspaceWords(capacity) == Base(capacity, "scratch") + capacity["scratch"]
Fits(capacity) == WorkspaceWords(capacity) <= options.words /\ capacity["output"] <= options.outputs

-----------------------------------------------------------------------------
(* What the program computes when nothing interrupts it: the arenas after  *)
(* n transitions.                                                          *)
Effect(op, n, s) ==
    CASE op.kind = "types"   -> [s EXCEPT !.types = @ \o [i \in 1 .. op.n |-> <<n, i>>]]
      [] op.kind = "push"    -> [s EXCEPT !.frames = Append(@, n)]
      [] op.kind = "pop"     -> [s EXCEPT !.frames = SubSeq(@, 1, Len(@) - 1)]
      [] op.kind = "scratch" -> [s EXCEPT !.scratch[op.at] = n]
      [] op.kind = "out"     -> [s EXCEPT !.frames = Append(@, n),
                                   !.outputs = Append(@, <<s.types[Len(s.types)], s.frames[Len(s.frames)],
                                                           s.scratch[op.at]>>)]

ScratchWords == {Trace[t].at : t \in 1 .. Len(Trace)}

Reference[n \in 0 .. Len(Trace)] ==
    IF n = 0 THEN [types |-> <<>>, frames |-> <<>>, scratch |-> [w \in ScratchWords |-> 0], outputs |-> <<>>]
    ELSE Effect(Trace[n], n, Reference[n - 1])

(* A program only reads what it has written before.                        *)
ASSUME TraceAssumption ==
    \A n \in 1 .. Len(Trace) :
        /\ Trace[n].kind \in {"pop", "out"} => Reference[n - 1].frames # <<>>
        /\ Trace[n].kind = "out" =>
             /\ Reference[n - 1].types # <<>>
             /\ \E k \in 1 .. n - 1 : Trace[k].kind = "scratch" /\ Trace[k].at = Trace[n].at

-----------------------------------------------------------------------------
(* Buffers.  A workspace or output has at most one successor at a time, so *)
(* two names are enough for each.                                          *)
Metadata == <<"metadata", 0>>
StateBuffer == <<"state", 0>>
Readback == <<"readback", 0>>
OutputReadback == <<"output readback", 0>>
Workspace(k) == <<"workspace", k>>
Output(k) == <<"output", k>>
NoBuffer == <<"none", 0>>

(* The variables of the runner that its finally block destroys.            *)
Held(h) == {h.metadata, h.workspace, h.output, h.state, h.readback, h.outputReadback}

(* The runner settles: the finally block runs.                             *)
Settle(h, buffers, result) ==
    /\ host' = [h EXCEPT !.at = "settled", !.result = result]
    /\ live' = buffers \ Held(h)

Thrown == [kind |-> "thrown", steps |-> 0, outputs |-> <<>>]
Exhausted == [kind |-> "exhausted", steps |-> 0, outputs |-> <<>>]
OutOfFuel(steps) == [kind |-> "out of fuel", steps |-> steps, outputs |-> <<>>]

Init ==
    /\ options \in Options
    /\ host = [at |-> "start", capacity |-> options.capacity, previousSemantic |-> 0,
               previousTransitions |-> 0, pass |-> TRUE, quantum |-> 0,
               metadata |-> NoBuffer, workspace |-> NoBuffer, output |-> NoBuffer,
               state |-> NoBuffer, readback |-> NoBuffer, outputReadback |-> NoBuffer,
               expanded |-> NoBuffer, bound |-> {}, copied |-> <<>>, result |-> Thrown]
    /\ dev = [semantic |-> "pending", semanticSteps |-> 0, previousSemantic |-> 0,
              status |-> "uninitialized", transitions |-> 0, code |-> "none", detail |-> 0,
              top |-> [a \in Arenas |-> 0], capacity |-> options.capacity, left |-> 0]
    /\ memory = <<>>
    /\ live = {}
    /\ aborted = FALSE

(* The buffer holds these contents from now on.                            *)
Written(buffer, contents) ==
    [b \in DOMAIN memory \cup {buffer} |-> IF b = buffer THEN contents ELSE memory[b]]

(* finishAfterInferenceSetupFailure: without buffers for inference the     *)
(* semantic pass alone is run to its end, to report its diagnostics first. *)
Fallback(h, buffers) ==
    /\ host' = [h EXCEPT !.at = "fallback"]
    /\ live' = buffers

(* Preflight, then createInferenceBuffers: all four buffers or none.       *)
CreateBuffers(outcome) ==
    /\ host.at = "start"
    /\ IF aborted THEN Settle(host, live, Thrown) /\ UNCHANGED memory
       ELSE IF ~Fits(options.capacity) \/ outcome = "out of memory"
       THEN Fallback(host, live) /\ UNCHANGED memory
       ELSE IF outcome = "rejected" THEN Settle(host, live, Thrown) /\ UNCHANGED memory
       ELSE /\ host' = [host EXCEPT !.at = "create readback", !.metadata = Metadata,
                          !.workspace = Workspace(0), !.output = Output(0), !.state = StateBuffer]
            /\ live' = {Metadata, Workspace(0), Output(0), StateBuffer}
            /\ memory' = [b \in {Workspace(0), Output(0)} |-> Blank]
    /\ UNCHANGED <<options, dev, aborted>>

(* The readback buffer; a larger one, with the core nodes, is tried first, *)
(* which changes nothing here.  Without it the other buffers are destroyed *)
(* before the fallback.                                                    *)
CreateReadback(outcome) ==
    /\ host.at = "create readback"
    /\ CASE outcome = "created" ->
              /\ host' = [host EXCEPT !.at = "bind", !.readback = Readback]
              /\ live' = live \cup {Readback}
         [] outcome = "out of memory" ->
              Fallback([host EXCEPT !.metadata = NoBuffer, !.workspace = NoBuffer,
                                    !.output = NoBuffer, !.state = NoBuffer],
                       live \ Held(host))
         [] outcome = "rejected" -> Settle(host, live, Thrown)
    /\ UNCHANGED <<options, dev, memory, aborted>>

Bind(outcome) ==
    /\ host.at = "bind"
    /\ IF outcome = "created"
       THEN /\ host' = [host EXCEPT !.at = "loop", !.bound = {host.workspace, host.output}]
            /\ UNCHANGED live
       ELSE Settle(host, live, Thrown)
    /\ outcome # "out of memory"
    /\ UNCHANGED <<options, dev, memory, aborted>>

(* The head of the loop: abort, fuel, and the dispatch that is submitted.  *)
Dispatch ==
    /\ host.at = "loop"
    /\ LET remaining == options.maximumSteps - host.previousSemantic - host.previousTransitions IN
       IF aborted THEN Settle(host, live, Thrown) /\ UNCHANGED dev
       ELSE IF remaining = 0
       THEN Settle(host, live, OutOfFuel(host.previousSemantic + host.previousTransitions)) /\ UNCHANGED dev
       ELSE /\ host' = [host EXCEPT !.at = "running semantic",
                          !.quantum = MinOf(options.maximumStepsPerDispatch, remaining)]
            /\ dev' = [dev EXCEPT !.left = options.maximumStepsPerDispatch]
            /\ UNCHANGED live
    /\ UNCHANGED <<options, memory, aborted>>

-----------------------------------------------------------------------------
(* The device.  compile_module runs the semantic pass, a step at a time,   *)
(* until it ends, is out of steps, or has used up the dispatch.            *)
SemanticGoesOn ==
    /\ host.pass /\ dev.semantic = "pending"
    /\ dev.semanticSteps < options.maximumSteps /\ dev.left > 0

SemanticStep ==
    /\ host.at = "running semantic"
    /\ SemanticGoesOn
    /\ dev' = [dev EXCEPT !.semanticSteps = @ + 1, !.left = @ - 1,
                          !.semantic = IF dev.semanticSteps + 1 = SemanticSteps THEN "ok" ELSE @]
    /\ UNCHANGED <<options, host, memory, live, aborted>>

SemanticPassEnds ==
    /\ host.at = "running semantic"
    /\ ~SemanticGoesOn
    /\ host' = [host EXCEPT !.at = "running prologue"]
    /\ dev' = IF host.pass /\ dev.semantic = "pending" /\ dev.semanticSteps >= options.maximumSteps
              THEN [dev EXCEPT !.semantic = "step limit"] ELSE dev
    /\ UNCHANGED <<options, memory, live, aborted>>

(* The head of infer_lane: what the semantic pass took of this dispatch is *)
(* not there for inference, and neither is fuel that is spent.             *)
InferLaneBegins ==
    /\ host.at = "running prologue"
    /\ LET quantum == options.maximumStepsPerDispatch
           used    == dev.semanticSteps - dev.previousSemantic
           limit   == IF \/ dev.semantic # "ok" \/ used >= quantum
                         \/ dev.semanticSteps + dev.transitions >= options.maximumSteps
                      THEN 0
                      ELSE MinOf(quantum - used,
                                 options.maximumSteps - (dev.semanticSteps + dev.transitions))
       IN  dev' = [dev EXCEPT !.previousSemantic = dev.semanticSteps, !.left = limit,
                     !.status = IF limit > 0 /\ @ = "uninitialized" THEN "pending" ELSE @]
    /\ host' = [host EXCEPT !.at = "running inference"]
    /\ UNCHANGED <<options, memory, live, aborted>>

(* What a transition requires before it writes anything, in the order of   *)
(* its checks (require_type_slots, require_output_slots, ...).             *)
Required(op) ==
    CASE op.kind = "types"   -> <<[arena |-> "type", top |-> dev.top["type"] + op.n]>>
      [] op.kind = "push"    -> <<[arena |-> "frame", top |-> dev.top["frame"] + 1]>>
      [] op.kind = "pop"     -> <<>>
      [] op.kind = "scratch" -> <<[arena |-> "scratch", top |-> op.at + 1]>>
      [] op.kind = "out"     -> <<[arena |-> "output", top |-> dev.top["output"] + 1],
                                  [arena |-> "frame", top |-> dev.top["frame"] + 1]>>

Exceeds(r) == r.top > dev.capacity[r.arena]

Lacking(op) == \E i \in 1 .. Len(Required(op)) : Exceeds(Required(op)[i])

(* The requirement that is reported.                                       *)
FirstLacking(op) ==
    Required(op)[CHOOSE i \in 1 .. Len(Required(op)) :
                    /\ Exceeds(Required(op)[i])
                    /\ \A j \in 1 .. i - 1 : ~Exceeds(Required(op)[j])]

(* Addresses in the buffers that are bound.                                *)
Bound(kind) == CHOOSE b \in host.bound : b[1] = kind
Read(arena, index) ==
    memory[Bound("workspace")][Base(dev.capacity, arena) + (IF arena = "type" THEN TypeWords ELSE 1) * index]

(* The writes of a transition to the two buffers.                          *)
WorkspaceWrites(op) ==
    LET m == memory[Bound("workspace")]
        n == dev.transitions + 1
        at(arena) == Base(dev.capacity, arena)
    IN  CASE op.kind = "types" ->
               [w \in Words |-> IF \E i \in 1 .. op.n : w = TypeWords * (dev.top["type"] + i - 1)
                                THEN <<n, w \div TypeWords - dev.top["type"] + 1>> ELSE m[w]]
          [] op.kind \in {"push", "out"} -> [m EXCEPT ![at("frame") + dev.top["frame"]] = n]
          [] op.kind = "scratch" -> [m EXCEPT ![at("scratch") + op.at] = n]
          [] op.kind = "pop" -> m

OutputWrites(op) ==
    LET m == memory[Bound("output")] IN
    IF op.kind # "out" THEN m
    ELSE [m EXCEPT ![dev.top["output"]] =
            <<Read("type", dev.top["type"] - 1), Read("frame", dev.top["frame"] - 1), Read("scratch", op.at)>>]

NewTop(op) ==
    [a \in Arenas |-> dev.top[a] + (CASE op.kind = "types" /\ a = "type" -> op.n
                                      [] op.kind \in {"push", "out"} /\ a = "frame" -> 1
                                      [] op.kind = "out" /\ a = "output" -> 1
                                      [] op.kind = "pop" /\ a = "frame" -> -1
                                      [] OTHER -> 0)]

(* One transition of infer_lane: it is done, or an arena is exhausted and  *)
(* nothing is written; both count.  Past the last one, the type is there.  *)
Transition ==
    /\ host.at = "running inference"
    /\ dev.status = "pending" /\ dev.left > 0
    /\ LET next == dev.transitions + 1 IN
       IF next > Len(Trace)
       THEN /\ dev' = [dev EXCEPT !.transitions = @ + 1, !.left = @ - 1, !.status = "complete"]
            /\ UNCHANGED memory
       ELSE IF Lacking(Trace[next])
       THEN /\ dev' = [dev EXCEPT !.transitions = @ + 1, !.left = @ - 1, !.status = "exhausted",
                         !.code = FirstLacking(Trace[next]).arena, !.detail = FirstLacking(Trace[next]).top]
            /\ UNCHANGED memory
       ELSE /\ dev' = [dev EXCEPT !.transitions = @ + 1, !.left = @ - 1, !.top = NewTop(Trace[next])]
            /\ memory' = [b \in DOMAIN memory |->
                            CASE b = Bound("workspace") -> WorkspaceWrites(Trace[next])
                              [] b = Bound("output")    -> OutputWrites(Trace[next])
                              [] OTHER -> memory[b]]
    /\ UNCHANGED <<options, host, live, aborted>>

(* The kernel ends, the state and the first output records are copied to   *)
(* the readback buffer, and the map request of the host answers.           *)
DispatchEnds ==
    /\ host.at = "running inference"
    /\ ~(dev.status = "pending" /\ dev.left > 0)
    /\ host' = [host EXCEPT !.at = "read",
                  !.copied = [i \in 1 .. MinOf(options.readback, host.capacity["output"]) |->
                                memory[Bound("output")][i - 1]]]
    /\ UNCHANGED <<options, dev, memory, live, aborted>>

-----------------------------------------------------------------------------
(* assertConsistentState.                                                  *)
ConsistentState ==
    LET semantic  == dev.semanticSteps - host.previousSemantic
        inference == dev.transitions - host.previousTransitions
    IN  /\ semantic >= 0 /\ inference >= 0
        /\ semantic + inference \in 1 .. host.quantum
        /\ dev.semantic # "ok" => inference = 0
        /\ \A a \in Arenas : dev.top[a] <= host.capacity[a]

(* The host reads the state: semantic pass pending or failed, inference    *)
(* pending, out of fuel, complete with the output at hand or not, or       *)
(* exhausted.                                                              *)
ReadState ==
    /\ host.at = "read"
    /\ LET h     == [host EXCEPT !.pass = (dev.semantic = "pending")]
           again == [h EXCEPT !.at = "loop", !.previousSemantic = dev.semanticSteps,
                              !.previousTransitions = dev.transitions]
           total == dev.semanticSteps + dev.transitions
           count == dev.top["output"]
       IN  IF aborted \/ ~ConsistentState THEN Settle(h, live, Thrown)
           ELSE CASE dev.semantic = "pending" ->
                       /\ host' = [h EXCEPT !.at = "loop", !.previousSemantic = dev.semanticSteps]
                       /\ UNCHANGED live
                  [] dev.semantic = "step limit" -> Settle(h, live, OutOfFuel(dev.semanticSteps))
                  [] dev.semantic = "ok" /\ dev.status \in {"uninitialized", "pending"} ->
                       IF total >= options.maximumSteps THEN Settle(h, live, OutOfFuel(total))
                       ELSE host' = again /\ UNCHANGED live
                  [] dev.semantic = "ok" /\ dev.status = "complete" ->
                       IF count <= options.readback
                       THEN Settle(h, live, [kind |-> "complete", steps |-> total,
                                             outputs |-> SubSeq(host.copied, 1, count)])
                       ELSE host' = [h EXCEPT !.at = "read output"] /\ UNCHANGED live
                  [] dev.semantic = "ok" /\ dev.status = "exhausted" ->
                       host' = [h EXCEPT !.at = "grow"] /\ UNCHANGED live
    /\ UNCHANGED <<options, dev, memory, aborted>>

(* The output did not come with the state: it is copied on its own, into a *)
(* buffer that may be rejected, or exist when the copy is.                 *)
ReadOutput(outcome) ==
    /\ host.at = "read output"
    /\ outcome # "out of memory"
    /\ LET h == [host EXCEPT !.outputReadback = OutputReadback] IN
       CASE outcome = "created" ->
              Settle(h, live \cup {OutputReadback},
                     [kind |-> "complete", steps |-> dev.semanticSteps + dev.transitions,
                      outputs |-> [i \in 1 .. dev.top["output"] |-> memory[host.output][i - 1]]])
         [] outcome = "rejected" -> Settle(host, live, Thrown)
         [] outcome = "copy rejected" -> Settle(h, live \cup {OutputReadback}, Thrown)
    /\ UNCHANGED <<options, dev, memory, aborted>>

MutantGrownDoublesZero ==
    IF dev.code = "output"
    THEN [host.capacity EXCEPT !["output"] = MaxOf(@ * 2, dev.detail * 2)]
    ELSE [host.capacity EXCEPT ![dev.code] = @ * 2]

(* The capacities after growth: the output by need, an arena by doubling.  *)
Grown ==
    IF dev.code = "output"
    THEN [host.capacity EXCEPT !["output"] = MaxOf(@ * 2, dev.detail * 2)]
    ELSE [host.capacity EXCEPT ![dev.code] = MaxOf(1, @ * 2)]

MutantMovedForgetsScratch(from, to) ==
    [w \in Words |->
        IF w < TypeWords * dev.top["type"] THEN from[w]
        ELSE IF w - Base(to, "frame") \in 0 .. dev.top["frame"] - 1
        THEN from[Base(host.capacity, "frame") + w - Base(to, "frame")]
        ELSE 0]

(* createExpandedWorkspace: the live part of each arena at its new base;   *)
(* scratch has no top and is copied whole.                                 *)
Moved(from, to) ==
    [w \in Words |->
        IF w < TypeWords * dev.top["type"] THEN from[w]
        ELSE IF w - Base(to, "frame") \in 0 .. dev.top["frame"] - 1
        THEN from[Base(host.capacity, "frame") + w - Base(to, "frame")]
        ELSE IF w - Base(to, "scratch") \in 0 .. host.capacity["scratch"] - 1
        THEN from[Base(host.capacity, "scratch") + w - Base(to, "scratch")]
        ELSE 0]

(* The expanded buffer is created and filled: one more buffer is live.     *)
(* Beyond the limits, or out of memory, the run reports exhaustion; a copy *)
(* that is rejected destroys the new buffer first.                         *)
Grow(outcome) ==
    /\ host.at = "grow"
    /\ LET buffer == IF dev.code = "output" THEN Output(1 - host.output[2])
                                            ELSE Workspace(1 - host.workspace[2])
       IN  IF ~Fits(Grown) \/ outcome = "out of memory"
           THEN Settle(host, live, Exhausted) /\ UNCHANGED memory
           ELSE IF outcome = "rejected"
           THEN Settle(host, live, Thrown) /\ UNCHANGED memory
           ELSE /\ host' = [host EXCEPT !.at = "rebind", !.expanded = buffer]
                /\ live' = live \cup {buffer}
                /\ memory' = Written(buffer, IF dev.code = "output"
                                THEN [w \in Words |-> IF w < dev.top["output"] THEN memory[host.output][w] ELSE 0]
                                ELSE Moved(memory[host.workspace], Grown))
    /\ UNCHANGED <<options, dev, aborted>>

MutantRebindForgetsExpanded(outcome) ==
    /\ host.at = "rebind" /\ outcome = "rejected"
    /\ Settle(host, live, Thrown)
    /\ UNCHANGED <<options, dev, memory, aborted>>

(* The new bind group is there: the expanded buffer replaces the old one,  *)
(* which is destroyed, and the state buffer is written: new capacities,    *)
(* pending again, the failed transition uncounted.                         *)
Rebind(outcome) ==
    /\ host.at = "rebind"
    /\ outcome # "out of memory"
    /\ LET output == dev.code = "output" IN
       IF outcome = "rejected"
       THEN Settle(host, live \ {host.expanded}, Thrown) /\ UNCHANGED dev
       ELSE /\ host' = [host EXCEPT !.at = "loop", !.capacity = Grown, !.expanded = NoBuffer,
                 !.output = IF output THEN host.expanded ELSE @,
                 !.workspace = IF output THEN @ ELSE host.expanded,
                 !.bound = IF output THEN {host.workspace, host.expanded} ELSE {host.expanded, host.output},
                 !.previousSemantic = dev.semanticSteps, !.previousTransitions = dev.transitions - 1]
            /\ live' = live \ {IF output THEN host.output ELSE host.workspace}
            /\ dev' = [dev EXCEPT !.capacity = Grown, !.status = "pending", !.code = "none",
                         !.detail = 0, !.transitions = @ - 1]
    /\ UNCHANGED <<options, memory, aborted>>

(* runSemanticCompilationToCompletion, after a setup failure: it may be    *)
(* aborted or rejected; otherwise the failure is reported.                 *)
FallbackEnds(outcome) ==
    /\ host.at = "fallback"
    /\ outcome # "out of memory"
    /\ Settle(host, live, IF aborted \/ outcome = "rejected" THEN Thrown
                          ELSE IF SemanticSteps > options.maximumSteps THEN OutOfFuel(options.maximumSteps)
                          ELSE Exhausted)
    /\ UNCHANGED <<options, dev, memory, aborted>>

(* A dispatch is cancelled while it waits in the scheduler, or rejected by *)
(* the device.                                                             *)
DispatchRejected ==
    /\ host.at = "running semantic"
    /\ Settle(host, live, Thrown)
    /\ UNCHANGED <<options, dev, memory, aborted>>

Abort ==
    /\ ~aborted
    /\ host.at # "settled"
    /\ aborted' = TRUE
    /\ UNCHANGED <<options, host, dev, memory, live>>

Outcomes == {"created", "out of memory", "rejected"}

HostStep ==
    \/ Dispatch \/ ReadState
    \/ \E outcome \in Outcomes \cup {"copy rejected"} : ReadOutput(outcome)
    \/ \E outcome \in Outcomes :
         CreateBuffers(outcome) \/ CreateReadback(outcome) \/ Bind(outcome)
         \/ Grow(outcome) \/ Rebind(outcome) \/ FallbackEnds(outcome)

DeviceStep == SemanticStep \/ SemanticPassEnds \/ InferLaneBegins \/ Transition \/ DispatchEnds

Next == HostStep \/ DeviceStep \/ DispatchRejected \/ Abort

Spec == Init /\ [][Next]_vars

(* The device runs what is submitted and the host resumes its awaits.      *)
FairSpec == Spec /\ WF_vars(HostStep) /\ WF_vars(DeviceStep)

-----------------------------------------------------------------------------
Running == {"running semantic", "running prologue", "running inference", "read"}

(* The counters and tops stay in their ranges.                             *)
TypeOK ==
    /\ options \in Options
    /\ dev.semanticSteps \in 0 .. options.maximumSteps
    /\ dev.transitions \in 0 .. Len(Trace) + 1
    /\ \A a \in Arenas : dev.top[a] \in 0 .. dev.capacity[a]
    /\ live = {} \/ Metadata \in live

(* The arenas hold what the reference holds after as many transitions.     *)
ArenasAreTheReference ==
    LET s == Reference[dev.transitions] IN
    /\ dev.top["type"] = Len(s.types) /\ dev.top["frame"] = Len(s.frames)
    /\ \A i \in 1 .. Len(s.types) : Read("type", i - 1) = s.types[i]
    /\ \A i \in 1 .. Len(s.frames) : Read("frame", i - 1) = s.frames[i]
    /\ \A i \in 1 .. Len(s.outputs) : memory[Bound("output")][i - 1] = s.outputs[i]

(* The answer is that of the uninterrupted computation with the same fuel, *)
(* at the same number of steps.                                            *)
AnswerIsTheReference ==
    CASE host.result.kind = "complete" ->
           /\ host.result.steps = SemanticSteps + Len(Trace) + 1
           /\ host.result.steps <= options.maximumSteps
           /\ host.result.outputs = Reference[Len(Trace)].outputs
      [] host.result.kind = "out of fuel" ->
           /\ host.result.steps = options.maximumSteps
           /\ SemanticSteps + Len(Trace) + 1 > options.maximumSteps
      [] OTHER -> TRUE

(* What a run computes and answers does not depend on how it was cut into  *)
(* dispatches or on which arenas had to grow and move.                     *)
ComputesTheReference ==
    /\ host.at = "settled" => AnswerIsTheReference
    /\ (/\ host.at \in {"loop", "running inference"}
        /\ dev.status = "pending" /\ dev.transitions <= Len(Trace)) => ArenasAreTheReference

(* "Every buffer this runner creates is destroyed before this promise      *)
(* settles, including failed or aborted runs."                             *)
EverythingIsDestroyed == host.at = "settled" => live = {}

(* A run ends: fuel bounds the transitions, the device limits the growth.  *)
EveryRunSettles == <>(host.at = "settled")
=============================================================================
