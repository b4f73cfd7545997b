------------------------- MODULE InferenceRun_proofs -------------------------
(***************************************************************************)
(* Proofs about InferenceRun: for any program, fuel, dispatch length,      *)
(* initial capacities and device limits, a run computes what the           *)
(* uninterrupted computation does, and destroys every buffer it made.      *)
(***************************************************************************)
EXTENDS InferenceRun, Selections

(* Where a run stands: before its buffers, with some of them, with all.    *)
Bare == {"start", "fallback"}
Looping == Running \cup {"loop", "read output", "grow", "rebind"}
Places == Bare \cup Looping \cup {"create readback", "bind", "settled"}
Built == Looping \cup {"create readback", "bind"}

Buffers ==
    {Metadata, StateBuffer, Readback, OutputReadback, NoBuffer}
    \cup {Workspace(k) : k \in {0, 1}} \cup {Output(k) : k \in {0, 1}}

(* What a word of the arenas may hold, and the state of the reference.     *)
TypeCells == Int \X Int
OutputCells == TypeCells \X Int \X Int
Values == Int \cup TypeCells \cup OutputCells
Contents == [Words -> Values]

Machines ==
    [types : Seq(TypeCells), frames : Seq(Int), scratch : [ScratchWords -> Int],
     outputs : Seq(OutputCells)]

Capacities == [Arenas -> Nat]

HostRecords ==
    [at : Places, capacity : Capacities, previousSemantic : Int, previousTransitions : Int,
     pass : BOOLEAN, quantum : Int, metadata : Buffers, workspace : Buffers, output : Buffers,
     state : Buffers, readback : Buffers, outputReadback : Buffers, expanded : Buffers,
     bound : SUBSET Buffers, copied : Seq(Values),
     result : [kind : {"thrown", "exhausted", "out of fuel", "complete"}, steps : Int,
               outputs : Seq(Values)]]

DeviceRecords ==
    [semantic : {"pending", "ok", "step limit"}, semanticSteps : Nat, previousSemantic : Int,
     status : {"uninitialized", "pending", "complete", "exhausted"}, transitions : Nat,
     code : Arenas \cup {"none"}, detail : Int, top : Capacities, capacity : Capacities, left : Nat]

Records == options \in Options /\ host \in HostRecords /\ dev \in DeviceRecords

-----------------------------------------------------------------------------
(* Counters: fuel is never overspent, and what the host remembers of the   *)
(* last dispatch is what the device had then.                              *)
Spent == dev.semanticSteps + dev.transitions

SemanticOK ==
    /\ dev.semanticSteps <= SemanticSteps /\ dev.semanticSteps <= options.maximumSteps
    /\ dev.semantic = "ok" => dev.semanticSteps = SemanticSteps
    /\ dev.semantic # "ok" =>
         /\ dev.semanticSteps < SemanticSteps /\ dev.status = "uninitialized"
         /\ host.previousTransitions = 0
    /\ dev.semantic = "step limit" => dev.semanticSteps = options.maximumSteps

StatusOK ==
    /\ dev.status = "uninitialized" => dev.transitions = 0
    /\ dev.status = "pending" => dev.transitions <= Len(Trace)
    /\ dev.status = "complete" => dev.transitions = Len(Trace) + 1
    /\ dev.status = "exhausted" =>
         dev.transitions \in 1 .. Len(Trace) /\ dev.code \in Arenas /\ dev.detail \in Nat

FuelOK ==
    /\ Spent <= options.maximumSteps
    /\ host.at = "running inference" => dev.left + Spent <= options.maximumSteps

PlaceOK ==
    /\ host.at \in Places \ (Looping \cup {"settled"}) =>
         /\ dev.semantic = "pending" /\ dev.semanticSteps = 0
         /\ host.previousSemantic = 0
    /\ host.at = "loop" =>
         /\ dev.semantic # "step limit" /\ dev.status \in {"uninitialized", "pending"}
         /\ host.previousSemantic = dev.semanticSteps /\ host.previousTransitions = dev.transitions
    /\ host.at = "read output" => dev.semantic = "ok" /\ dev.status = "complete"
    /\ host.at \in {"grow", "rebind"} => dev.semantic = "ok" /\ dev.status = "exhausted"

CountersOK == SemanticOK /\ StatusOK /\ FuelOK /\ PlaceOK

-----------------------------------------------------------------------------
(* Buffers: the live ones are those in the variables of the finally block, *)
(* and the expanded one between its creation and the new bind group.       *)
BuffersOK ==
    /\ live = IF host.at = "settled" THEN {} ELSE (Held(host) \cup {host.expanded}) \ {NoBuffer}
    /\ host.at # "settled" /\ host.at # "rebind" => host.expanded = NoBuffer
    /\ host.at # "settled" => host.outputReadback = NoBuffer
    /\ host.at \in Bare => Held(host) = {NoBuffer}
    /\ host.at = "create readback" => host.readback = NoBuffer
    /\ host.at \in Built =>
         /\ host.metadata = Metadata /\ host.state = StateBuffer
         /\ host.at # "create readback" => host.readback = Readback
         /\ \E k \in {0, 1} : host.workspace = Workspace(k)
         /\ \E k \in {0, 1} : host.output = Output(k)
    /\ host.at = "rebind" =>
         host.expanded = IF dev.code = "output" THEN Output(1 - host.output[2])
                                                ELSE Workspace(1 - host.workspace[2])
    /\ host.at \in Looping => host.bound = {host.workspace, host.output}

-----------------------------------------------------------------------------
(* Contents: the arenas hold what the reference has after the transitions  *)
(* that were performed; the one that exhausted an arena was not.           *)
Performed == IF dev.status \in {"complete", "exhausted"} THEN dev.transitions - 1 ELSE dev.transitions

TopsHold(capacity, top, s) ==
    /\ top["type"] = Len(s.types) /\ top["frame"] = Len(s.frames) /\ top["output"] = Len(s.outputs)
    /\ top["type"] <= capacity["type"] /\ top["frame"] <= capacity["frame"]
    /\ top["output"] <= capacity["output"]

TypesHold(m, s) == \A i \in 1 .. Len(s.types) : m[TypeWords * (i - 1)] = s.types[i]

FramesHold(m, capacity, s) ==
    \A i \in 1 .. Len(s.frames) : m[Base(capacity, "frame") + (i - 1)] = s.frames[i]

(* Scratch words that the program has written by its n-th transition.      *)
ScratchHold(m, capacity, s, n) ==
    \A k \in 1 .. n : Trace[k].kind = "scratch" =>
        /\ Trace[k].at < capacity["scratch"]
        /\ m[Base(capacity, "scratch") + Trace[k].at] = s.scratch[Trace[k].at]

OutputsHold(o, s) == \A i \in 1 .. Len(s.outputs) : o[i - 1] = s.outputs[i]

Within(capacity) ==
    WorkspaceWords(capacity) <= MaximumWords /\ capacity["output"] <= MaximumWords

Holds(m, o, capacity, top, n) ==
    /\ m \in Contents /\ o \in Contents /\ Within(capacity)
    /\ TopsHold(capacity, top, Reference[n])
    /\ TypesHold(m, Reference[n])
    /\ FramesHold(m, capacity, Reference[n])
    /\ ScratchHold(m, capacity, Reference[n], n)
    /\ OutputsHold(o, Reference[n])

MemoryOK ==
    /\ dev.capacity = host.capacity
    /\ host.at = "start" => host.capacity = options.capacity /\ \A a \in Arenas : dev.top[a] = 0
    /\ host.at \in Bare \cup {"create readback", "bind"} => Performed = 0
    /\ host.at \in Built =>
         /\ {host.workspace, host.output} \subseteq DOMAIN memory
         /\ Holds(memory[host.workspace], memory[host.output], host.capacity, dev.top, Performed)
    /\ host.at = "read" =>
         host.copied = [i \in 1 .. MinOf(options.readback, host.capacity["output"]) |->
                          memory[host.output][i - 1]]
    /\ host.at = "rebind" =>
         /\ host.expanded \in DOMAIN memory
         /\ IF dev.code = "output"
            THEN Holds(memory[host.workspace], memory[host.expanded], Grown, dev.top, Performed)
            ELSE Holds(memory[host.expanded], memory[host.output], Grown, dev.top, Performed)

ResultOK == host.at = "settled" => AnswerIsTheReference

(* The conjunction that is inductive.                                      *)
IInv == Records /\ CountersOK /\ BuffersOK /\ MemoryOK /\ ResultOK

-----------------------------------------------------------------------------
(* The layout.                                                             *)
LEMMA Bases ==
    ASSUME NEW capacity \in Capacities
    PROVE  /\ Base(capacity, "type") = 0
           /\ Base(capacity, "frame") = 2 * capacity["type"]
           /\ Base(capacity, "scratch") = 2 * capacity["type"] + capacity["frame"]
           /\ WorkspaceWords(capacity) = 2 * capacity["type"] + capacity["frame"] + capacity["scratch"]
           /\ capacity["type"] \in Nat /\ capacity["frame"] \in Nat
           /\ capacity["scratch"] \in Nat /\ capacity["output"] \in Nat
BY DEF Base, WorkspaceWords, Capacities, Arenas, TypeWords

(* The names of the buffers are different.                                 *)
LEMMA BuffersDiffer ==
    ASSUME NEW j \in {0, 1}, NEW k \in {0, 1}
    PROVE  /\ Workspace(k) \notin {Metadata, StateBuffer, Readback, OutputReadback, NoBuffer, Output(j)}
           /\ Output(k) \notin {Metadata, StateBuffer, Readback, OutputReadback, NoBuffer}
           /\ Workspace(k) # Workspace(1 - k) /\ Output(k) # Output(1 - k)
           /\ Workspace(k)[2] = k /\ Output(k)[2] = k /\ 1 - k \in {0, 1}
           /\ Workspace(k)[1] = "workspace" /\ Output(k)[1] = "output"
           /\ NoBuffer \notin {Metadata, StateBuffer, Readback, OutputReadback}
BY DEF Workspace, Output, Metadata, StateBuffer, Readback, OutputReadback, NoBuffer

(* The transitions of the program.                                         *)
LEMMA Transitions ==
    /\ Len(Trace) \in Nat
    /\ \A n \in 1 .. Len(Trace) :
         /\ Trace[n].kind \in {"types", "push", "pop", "scratch", "out"}
         /\ Trace[n].n \in Nat /\ Trace[n].at \in Nat /\ Trace[n].at \in ScratchWords
<1>1. Trace \in Seq([kind : {"types", "push", "pop", "scratch", "out"}, n : Nat, at : Nat])
  BY InferenceAssumption DEF InferenceAssumption
<1>2. \A n \in 1 .. Len(Trace) : Trace[n] \in [kind : {"types", "push", "pop", "scratch", "out"}, n : Nat, at : Nat]
  BY <1>1, ElementOfSeq
<1>3. Len(Trace) \in Nat
  BY <1>1
<1> QED
  BY <1>2, <1>3 DEF ScratchWords

-----------------------------------------------------------------------------
(* The reference.  Its definition is that of a function with the equations *)
(* it states, by induction over its domain.                                *)
Start == [types |-> <<>>, frames |-> <<>>, scratch |-> [w \in ScratchWords |-> 0], outputs |-> <<>>]

Stages(f, k) ==
    f = [n \in 0 .. k |-> IF n = 0 THEN Start ELSE Effect(Trace[n], n, f[n - 1])]

(* There is such a function on every initial part of the program.          *)
LEMMA StagesExist == \A k \in Nat : \E f : Stages(f, k)
<1> DEFINE S == {k \in Nat : \E f : Stages(f, k)}
<1>1. 0 \in S
  <2> DEFINE f == [n \in 0 .. 0 |-> Start]
  <2>1. \A n \in 0 .. 0 : n = 0
    OBVIOUS
  <2>2. f = [n \in 0 .. 0 |-> IF n = 0 THEN Start ELSE Effect(Trace[n], n, f[n - 1])]
    BY <2>1
  <2> HIDE DEF f
  <2>3. Stages(f, 0)
    BY <2>2 DEF Stages
  <2> QED
    BY <2>3
<1>2. ASSUME NEW k \in S PROVE k + 1 \in S
  <2>1. PICK f : Stages(f, k)
    OBVIOUS
  <2> DEFINE g == [n \in 0 .. k + 1 |-> IF n = k + 1 THEN Effect(Trace[k + 1], k + 1, f[k]) ELSE f[n]]
  <2>2. k \in Nat
    OBVIOUS
  <2>3. ASSUME NEW n \in 0 .. k + 1
        PROVE  g[n] = IF n = 0 THEN Start ELSE Effect(Trace[n], n, g[n - 1])
    <3>1. CASE n = k + 1
      <4>1. n - 1 = k /\ n # 0 /\ k \in 0 .. k + 1 /\ k # k + 1
        BY <2>2, <3>1
      <4>2. g[k] = f[k]
        BY <4>1
      <4> QED
        BY <3>1, <4>1, <4>2
    <3>2. CASE n # k + 1
      <4>1. n \in 0 .. k /\ (n # 0 => n - 1 \in 0 .. k + 1 /\ n - 1 # k + 1)
        BY <2>2, <3>2
      <4>2. f[n] = IF n = 0 THEN Start ELSE Effect(Trace[n], n, f[n - 1])
        BY <2>1, <4>1 DEF Stages
      <4>3. n # 0 => g[n - 1] = f[n - 1]
        BY <4>1
      <4> QED
        BY <3>2, <4>2, <4>3
    <3> QED
      BY <3>1, <3>2
  <2>4. g = [n \in 0 .. k + 1 |-> g[n]]
    OBVIOUS
  <2> HIDE DEF g
  <2>5. Stages(g, k + 1)
    BY <2>3, <2>4 DEF Stages
  <2> QED
    BY <2>2, <2>5
<1> HIDE DEF S
<1>3. S = Nat
  <2>1. S \subseteq Nat
    BY DEF S
  <2> QED
    BY <1>1, <1>2, <2>1, InductionOnSet
<1> QED
  BY <1>3 DEF S

(* The equations of the reference.                                         *)
LEMMA ReferenceEquations ==
    /\ Reference[0] = Start
    /\ \A n \in 1 .. Len(Trace) : Reference[n] = Effect(Trace[n], n, Reference[n - 1])
<1>1. PICK f : Stages(f, Len(Trace))
  BY StagesExist, Transitions
<1>2. Reference = CHOOSE g : g = [n \in 0 .. Len(Trace) |-> IF n = 0 THEN Start ELSE Effect(Trace[n], n, g[n - 1])]
  BY DEF Reference, Start
<1>3. Reference = [n \in 0 .. Len(Trace) |-> IF n = 0 THEN Start ELSE Effect(Trace[n], n, Reference[n - 1])]
  BY <1>1, <1>2 DEF Stages
<1>4. 0 \in 0 .. Len(Trace) /\ \A n \in 1 .. Len(Trace) : n \in 0 .. Len(Trace) /\ n # 0
  BY Transitions
<1> QED
  BY <1>3, <1>4

-----------------------------------------------------------------------------
(* What each kind of transition makes of the state s of the reference.     *)
TypesAdded(s, r, k, n) ==
    /\ r.frames = s.frames /\ r.outputs = s.outputs /\ r.scratch = s.scratch
    /\ Len(r.types) = Len(s.types) + k
    /\ \A i \in 1 .. Len(s.types) : r.types[i] = s.types[i]
    /\ \A i \in 1 .. k : r.types[Len(s.types) + i] = <<n, i>>

FramePushed(s, r, n) ==
    /\ r.types = s.types /\ r.scratch = s.scratch
    /\ Len(r.frames) = Len(s.frames) + 1
    /\ \A i \in 1 .. Len(s.frames) : r.frames[i] = s.frames[i]
    /\ r.frames[Len(s.frames) + 1] = n

FramePopped(s, r) ==
    /\ r.types = s.types /\ r.outputs = s.outputs /\ r.scratch = s.scratch
    /\ Len(s.frames) \in Nat \ {0} /\ Len(r.frames) = Len(s.frames) - 1
    /\ \A i \in 1 .. Len(s.frames) - 1 : r.frames[i] = s.frames[i]

ScratchWritten(s, r, at, n) ==
    /\ r.types = s.types /\ r.outputs = s.outputs /\ r.frames = s.frames
    /\ \A w \in ScratchWords : r.scratch[w] = IF w = at THEN n ELSE s.scratch[w]

Record(s, at) == <<s.types[Len(s.types)], s.frames[Len(s.frames)], s.scratch[at]>>

RecordOut(s, r, at) ==
    /\ Len(r.outputs) = Len(s.outputs) + 1
    /\ \A i \in 1 .. Len(s.outputs) : r.outputs[i] = s.outputs[i]
    /\ r.outputs[Len(s.outputs) + 1] = Record(s, at)
    /\ Len(s.types) \in 1 .. Len(s.types) /\ Len(s.frames) \in 1 .. Len(s.frames)
    /\ Record(s, at) \in OutputCells

(* Type records are added.                                                 *)
LEMMA TypesEffect ==
    ASSUME NEW s \in Machines, NEW op, op.kind = "types", op.n \in Nat, NEW n \in Nat
    PROVE  Effect(op, n, s) \in Machines /\ TypesAdded(s, Effect(op, n, s), op.n, n)
<1> DEFINE new == [i \in 1 .. op.n |-> <<n, i>>]
<1>1. Effect(op, n, s) = [s EXCEPT !.types = s.types \o new]
  BY DEF Effect, Machines
<1>2. new \in Seq(TypeCells) /\ Len(new) = op.n /\ \A i \in 1 .. op.n : new[i] = <<n, i>>
  <2>1. \A i \in 1 .. op.n : <<n, i>> \in TypeCells
    BY DEF TypeCells
  <2> QED
    BY <2>1, IsASeq
<1> HIDE DEF new
<1>3. s.types \in Seq(TypeCells) /\ Len(s.types) \in Nat
  BY DEF Machines
<1>4. /\ s.types \o new \in Seq(TypeCells) /\ Len(s.types \o new) = Len(s.types) + op.n
      /\ \A i \in 1 .. Len(s.types) + op.n :
           (s.types \o new)[i] = IF i <= Len(s.types) THEN s.types[i] ELSE new[i - Len(s.types)]
  <2> DEFINE old == s.types
  <2>1. old \in Seq(TypeCells)
    BY <1>3
  <2> HIDE DEF old
  <2>2. /\ old \o new \in Seq(TypeCells) /\ Len(old \o new) = Len(old) + Len(new)
        /\ \A i \in 1 .. Len(old) + Len(new) : (old \o new)[i] = IF i <= Len(old) THEN old[i] ELSE new[i - Len(old)]
    BY <1>2, <2>1, ConcatProperties
  <2> QED
    BY <1>2, <2>2 DEF old
<1>5. \A i \in 1 .. Len(s.types) : (s.types \o new)[i] = s.types[i]
  BY <1>3, <1>4
<1>6. ASSUME NEW i \in 1 .. op.n PROVE (s.types \o new)[Len(s.types) + i] = <<n, i>>
  <2>1. /\ Len(s.types) + i \in 1 .. Len(s.types) + op.n /\ ~(Len(s.types) + i <= Len(s.types))
        /\ (Len(s.types) + i) - Len(s.types) = i
    BY <1>3
  <2> QED
    BY <1>2, <1>4, <2>1
<1>7. /\ Effect(op, n, s) \in Machines /\ Effect(op, n, s).types = s.types \o new
      /\ Effect(op, n, s).frames = s.frames /\ Effect(op, n, s).outputs = s.outputs
      /\ Effect(op, n, s).scratch = s.scratch
  BY <1>1, <1>4 DEF Machines
<1> QED
  BY <1>4, <1>5, <1>6, <1>7 DEF TypesAdded

(* A frame is pushed.                                                      *)
LEMMA PushEffect ==
    ASSUME NEW s \in Machines, NEW op, op.kind = "push", NEW n \in Nat
    PROVE  /\ Effect(op, n, s) \in Machines /\ FramePushed(s, Effect(op, n, s), n)
           /\ Effect(op, n, s).outputs = s.outputs
<1>1. Effect(op, n, s) = [s EXCEPT !.frames = Append(s.frames, n)]
  BY DEF Effect, Machines
<1>2. s.frames \in Seq(Int) /\ Len(s.frames) \in Nat
  BY DEF Machines
<1>3. /\ Append(s.frames, n) \in Seq(Int) /\ Len(Append(s.frames, n)) = Len(s.frames) + 1
      /\ \A i \in 1 .. Len(s.frames) : Append(s.frames, n)[i] = s.frames[i]
      /\ Append(s.frames, n)[Len(s.frames) + 1] = n
  BY <1>2, AppendProperties
<1>4. /\ Effect(op, n, s) \in Machines /\ Effect(op, n, s).frames = Append(s.frames, n)
      /\ Effect(op, n, s).types = s.types /\ Effect(op, n, s).outputs = s.outputs
      /\ Effect(op, n, s).scratch = s.scratch
  BY <1>1, <1>3 DEF Machines
<1> QED
  BY <1>3, <1>4 DEF FramePushed

(* The last frame is popped.                                               *)
LEMMA PopEffect ==
    ASSUME NEW s \in Machines, NEW op, op.kind = "pop", NEW n \in Nat, s.frames # <<>>
    PROVE  Effect(op, n, s) \in Machines /\ FramePopped(s, Effect(op, n, s))
<1> DEFINE rest == SubSeq(s.frames, 1, Len(s.frames) - 1)
<1>1. Effect(op, n, s) = [s EXCEPT !.frames = rest]
  BY DEF Effect, Machines
<1>2. s.frames \in Seq(Int) /\ Len(s.frames) \in Nat \ {0}
  BY EmptySeq DEF Machines
<1>3. \A i \in 1 .. Len(s.frames) - 1 : s.frames[i] \in Int
  BY <1>2, ElementOfSeq
<1>4. /\ rest \in Seq(Int) /\ Len(rest) = Len(s.frames) - 1
      /\ \A i \in 1 .. Len(s.frames) - 1 : rest[i] = s.frames[i]
  BY <1>2, <1>3, SubSeqProperties
<1> HIDE DEF rest
<1>5. /\ Effect(op, n, s) \in Machines /\ Effect(op, n, s).frames = rest
      /\ Effect(op, n, s).types = s.types /\ Effect(op, n, s).outputs = s.outputs
      /\ Effect(op, n, s).scratch = s.scratch
  BY <1>1, <1>4 DEF Machines
<1> QED
  BY <1>2, <1>4, <1>5 DEF FramePopped

(* A scratch word is written.                                              *)
LEMMA ScratchEffect ==
    ASSUME NEW s \in Machines, NEW op, op.kind = "scratch", op.at \in ScratchWords, NEW n \in Nat
    PROVE  Effect(op, n, s) \in Machines /\ ScratchWritten(s, Effect(op, n, s), op.at, n)
<1>1. Effect(op, n, s) = [s EXCEPT !.scratch[op.at] = n]
  BY DEF Effect, Machines
<1>2. [s.scratch EXCEPT ![op.at] = n] \in [ScratchWords -> Int] /\ s.scratch \in [ScratchWords -> Int]
  BY DEF Machines
<1>3. /\ Effect(op, n, s) \in Machines /\ Effect(op, n, s).scratch = [s.scratch EXCEPT ![op.at] = n]
      /\ Effect(op, n, s).types = s.types /\ Effect(op, n, s).outputs = s.outputs
      /\ Effect(op, n, s).frames = s.frames
  BY <1>1, <1>2 DEF Machines
<1> QED
  BY <1>2, <1>3 DEF ScratchWritten

(* An output record is written, and a frame pushed.                        *)
LEMMA OutEffect ==
    ASSUME NEW s \in Machines, NEW op, op.kind = "out", op.at \in ScratchWords, NEW n \in Nat,
           s.frames # <<>>, s.types # <<>>
    PROVE  /\ Effect(op, n, s) \in Machines /\ FramePushed(s, Effect(op, n, s), n)
           /\ RecordOut(s, Effect(op, n, s), op.at)
<1> DEFINE record == Record(s, op.at)
<1>1. Effect(op, n, s) = [s EXCEPT !.frames = Append(s.frames, n), !.outputs = Append(s.outputs, record)]
  BY DEF Effect, Machines, Record
<1>2. /\ s.frames \in Seq(Int) /\ s.types \in Seq(TypeCells) /\ s.outputs \in Seq(OutputCells)
      /\ s.scratch[op.at] \in Int
      /\ Len(s.frames) \in 1 .. Len(s.frames) /\ Len(s.types) \in 1 .. Len(s.types)
  BY EmptySeq DEF Machines
<1>3. record \in OutputCells
  <2>1. s.types[Len(s.types)] \in TypeCells /\ s.frames[Len(s.frames)] \in Int
    BY <1>2, ElementOfSeq
  <2> QED
    BY <1>2, <2>1 DEF OutputCells, Record
<1> HIDE DEF record
<1>4. /\ Append(s.frames, n) \in Seq(Int) /\ Len(Append(s.frames, n)) = Len(s.frames) + 1
      /\ \A i \in 1 .. Len(s.frames) : Append(s.frames, n)[i] = s.frames[i]
      /\ Append(s.frames, n)[Len(s.frames) + 1] = n
  BY <1>2, AppendProperties
<1>5. /\ Append(s.outputs, record) \in Seq(OutputCells) /\ Len(Append(s.outputs, record)) = Len(s.outputs) + 1
      /\ \A i \in 1 .. Len(s.outputs) : Append(s.outputs, record)[i] = s.outputs[i]
      /\ Append(s.outputs, record)[Len(s.outputs) + 1] = record
  BY <1>2, <1>3, AppendProperties
<1>6. /\ Effect(op, n, s) \in Machines /\ Effect(op, n, s).frames = Append(s.frames, n)
      /\ Effect(op, n, s).outputs = Append(s.outputs, record)
      /\ Effect(op, n, s).types = s.types /\ Effect(op, n, s).scratch = s.scratch
  BY <1>1, <1>4, <1>5 DEF Machines
<1>7. record = Record(s, op.at)
  BY DEF record
<1> QED
  BY <1>2, <1>3, <1>4, <1>5, <1>6, <1>7 DEF FramePushed, RecordOut

(* The reference is typed at every stage.                                  *)
LEMMA ReferenceIsAMachine == \A n \in 0 .. Len(Trace) : Reference[n] \in Machines
<1> DEFINE S == {n \in Nat : n <= Len(Trace) => Reference[n] \in Machines}
<1>1. 0 \in S
  <2>1. \A X : <<>> \in Seq(X)
    BY EmptySeq
  <2>2. Start \in Machines
    BY <2>1 DEF Start, Machines
  <2> QED
    BY <2>2, ReferenceEquations
<1>2. ASSUME NEW k \in S PROVE k + 1 \in S
  <2> SUFFICES ASSUME k + 1 <= Len(Trace) PROVE Reference[k + 1] \in Machines
    OBVIOUS
  <2>1. k \in Nat /\ k + 1 \in 1 .. Len(Trace) /\ (k + 1) - 1 = k /\ k <= Len(Trace) /\ k + 1 \in Nat
    BY Transitions
  <2> DEFINE op == Trace[k + 1]
  <2>2. Reference[k + 1] = Effect(op, k + 1, Reference[k]) /\ Reference[k] \in Machines
    BY <2>1, ReferenceEquations
  <2>3. op.kind \in {"types", "push", "pop", "scratch", "out"} /\ op.n \in Nat /\ op.at \in ScratchWords
    BY <2>1, Transitions
  <2>4. /\ op.kind \in {"pop", "out"} => Reference[k].frames # <<>>
        /\ op.kind = "out" => Reference[k].types # <<>>
    BY <2>1, TraceAssumption DEF TraceAssumption
  <2> HIDE DEF op
  <2>5. CASE op.kind = "types"
    BY <2>1, <2>2, <2>3, <2>5, TypesEffect
  <2>6. CASE op.kind = "push"
    BY <2>1, <2>2, <2>6, PushEffect
  <2>7. CASE op.kind = "pop"
    BY <2>1, <2>2, <2>4, <2>7, PopEffect
  <2>8. CASE op.kind = "scratch"
    BY <2>1, <2>2, <2>3, <2>8, ScratchEffect
  <2>9. CASE op.kind = "out"
    <3> DEFINE before == Reference[k]
    <3>1. before \in Machines /\ before.frames # <<>> /\ before.types # <<>> /\ k + 1 \in Nat
      BY <2>1, <2>2, <2>4, <2>9
    <3> HIDE DEF before
    <3>2. Effect(op, k + 1, before) \in Machines
      BY <2>3, <2>9, <3>1, OutEffect
    <3> QED
      BY <2>2, <3>2 DEF before
  <2>10. op.kind = "types" \/ op.kind = "push" \/ op.kind = "pop" \/ op.kind = "scratch" \/ op.kind = "out"
    BY <2>3
  <2> QED
    BY <2>5, <2>6, <2>7, <2>8, <2>9, <2>10
<1> HIDE DEF S
<1>3. S = Nat
  <2>1. S \subseteq Nat
    BY DEF S
  <2> QED
    BY <1>1, <1>2, <2>1, InductionOnSet
<1> QED
  BY <1>3, Transitions DEF S

-----------------------------------------------------------------------------
(* What a transition writes.                                               *)

(* One word is written.                                                    *)
Wrote(m, m2, a, v) == m2 \in Contents /\ m2[a] = v /\ \A w \in Words : w # a => m2[w] = m[w]

(* This is what an update of the contents does.                            *)
LEMMA OneWrite ==
    ASSUME NEW m \in Contents, NEW a \in Words, NEW v \in Values
    PROVE  Wrote(m, [m EXCEPT ![a] = v], a, v)
BY DEF Contents, Wrote

(* Numbers that are words.                                                 *)
LEMMA WordsAre == MaximumWords \in Nat /\ \A w \in Nat : w < MaximumWords => w \in Words
BY DEF Words, MaximumWords

(* Where the live parts of the arenas are.                                 *)
LEMMA Regions ==
    ASSUME NEW capacity \in Capacities, NEW top \in Capacities, Within(capacity),
           top["type"] <= capacity["type"], top["frame"] <= capacity["frame"],
           top["output"] <= capacity["output"]
    PROVE  /\ \A i \in 1 .. capacity["type"] : TypeWords * (i - 1) \in Words /\ TypeWords * (i - 1) < 2 * capacity["type"]
           /\ \A i \in 1 .. capacity["frame"] :
                /\ Base(capacity, "frame") + (i - 1) \in Words
                /\ 2 * capacity["type"] <= Base(capacity, "frame") + (i - 1)
                /\ Base(capacity, "frame") + (i - 1) < 2 * capacity["type"] + capacity["frame"]
           /\ \A w \in Nat : w < capacity["scratch"] =>
                /\ Base(capacity, "scratch") + w \in Words
                /\ 2 * capacity["type"] + capacity["frame"] <= Base(capacity, "scratch") + w
           /\ \A i \in 1 .. capacity["output"] : i - 1 \in Words
           /\ \A i \in 1 .. top["type"] : i \in 1 .. capacity["type"]
           /\ \A i \in 1 .. top["frame"] : i \in 1 .. capacity["frame"]
           /\ \A i \in 1 .. top["output"] : i \in 1 .. capacity["output"]
<1>1. /\ Base(capacity, "frame") = 2 * capacity["type"]
      /\ Base(capacity, "scratch") = 2 * capacity["type"] + capacity["frame"]
      /\ 2 * capacity["type"] + capacity["frame"] + capacity["scratch"] <= MaximumWords
      /\ capacity["output"] <= MaximumWords
      /\ capacity["type"] \in Nat /\ capacity["frame"] \in Nat
      /\ capacity["scratch"] \in Nat /\ capacity["output"] \in Nat
  BY Bases DEF Within
<1>2. top["type"] \in Nat /\ top["frame"] \in Nat /\ top["output"] \in Nat
  BY Bases
<1>3. \A i \in 1 .. capacity["type"] : TypeWords * (i - 1) \in Words /\ TypeWords * (i - 1) < 2 * capacity["type"]
  BY <1>1, WordsAre DEF TypeWords
<1>4. ASSUME NEW i \in 1 .. capacity["frame"]
      PROVE  /\ Base(capacity, "frame") + (i - 1) \in Words
             /\ 2 * capacity["type"] <= Base(capacity, "frame") + (i - 1)
             /\ Base(capacity, "frame") + (i - 1) < 2 * capacity["type"] + capacity["frame"]
  BY <1>1, WordsAre
<1>5. ASSUME NEW w \in Nat, w < capacity["scratch"]
      PROVE  /\ Base(capacity, "scratch") + w \in Words
             /\ 2 * capacity["type"] + capacity["frame"] <= Base(capacity, "scratch") + w
  BY <1>1, <1>5, WordsAre
<1>6. \A i \in 1 .. capacity["output"] : i - 1 \in Words
  BY <1>1, WordsAre
<1>7. /\ \A i \in 1 .. top["type"] : i \in 1 .. capacity["type"]
      /\ \A i \in 1 .. top["frame"] : i \in 1 .. capacity["frame"]
      /\ \A i \in 1 .. top["output"] : i \in 1 .. capacity["output"]
  BY <1>1, <1>2
<1> QED
  BY <1>3, <1>4, <1>5, <1>6, <1>7

(* Arenas whose live words are the same hold the same.                     *)
LEMMA SameWords ==
    ASSUME NEW m, NEW m2, NEW capacity \in Capacities, NEW top \in Capacities, NEW s,
           NEW n \in Nat, n <= Len(Trace), Within(capacity), TopsHold(capacity, top, s)
    PROVE  /\ (TypesHold(m, s) /\ \A w \in Words : w < 2 * capacity["type"] => m2[w] = m[w])
                => TypesHold(m2, s)
           /\ (/\ FramesHold(m, capacity, s)
               /\ \A w \in Words : 2 * capacity["type"] <= w /\ w < 2 * capacity["type"] + capacity["frame"]
                                     => m2[w] = m[w])
                => FramesHold(m2, capacity, s)
           /\ (/\ ScratchHold(m, capacity, s, n)
               /\ \A w \in Words : 2 * capacity["type"] + capacity["frame"] <= w => m2[w] = m[w])
                => ScratchHold(m2, capacity, s, n)
<1>1. /\ Len(s.types) = top["type"] /\ Len(s.frames) = top["frame"]
      /\ top["type"] <= capacity["type"] /\ top["frame"] <= capacity["frame"]
      /\ top["output"] <= capacity["output"]
  BY DEF TopsHold
<1>2. ASSUME TypesHold(m, s), \A w \in Words : w < 2 * capacity["type"] => m2[w] = m[w]
      PROVE  TypesHold(m2, s)
  <2> SUFFICES ASSUME NEW i \in 1 .. Len(s.types) PROVE m2[TypeWords * (i - 1)] = s.types[i]
    BY DEF TypesHold
  <2>1. TypeWords * (i - 1) \in Words /\ TypeWords * (i - 1) < 2 * capacity["type"]
    BY <1>1, Regions
  <2> QED
    BY <1>2, <2>1 DEF TypesHold
<1>3. ASSUME FramesHold(m, capacity, s),
             \A w \in Words : 2 * capacity["type"] <= w /\ w < 2 * capacity["type"] + capacity["frame"]
                                => m2[w] = m[w]
      PROVE  FramesHold(m2, capacity, s)
  <2> SUFFICES ASSUME NEW i \in 1 .. Len(s.frames) PROVE m2[Base(capacity, "frame") + (i - 1)] = s.frames[i]
    BY DEF FramesHold
  <2>1. /\ Base(capacity, "frame") + (i - 1) \in Words
        /\ 2 * capacity["type"] <= Base(capacity, "frame") + (i - 1)
        /\ Base(capacity, "frame") + (i - 1) < 2 * capacity["type"] + capacity["frame"]
    BY <1>1, Regions
  <2> QED
    BY <1>3, <2>1 DEF FramesHold
<1>4. ASSUME ScratchHold(m, capacity, s, n),
             \A w \in Words : 2 * capacity["type"] + capacity["frame"] <= w => m2[w] = m[w]
      PROVE  ScratchHold(m2, capacity, s, n)
  <2> SUFFICES ASSUME NEW k \in 1 .. n, Trace[k].kind = "scratch"
               PROVE  /\ Trace[k].at < capacity["scratch"]
                      /\ m2[Base(capacity, "scratch") + Trace[k].at] = s.scratch[Trace[k].at]
    BY DEF ScratchHold
  <2>1. /\ Trace[k].at < capacity["scratch"]
        /\ m[Base(capacity, "scratch") + Trace[k].at] = s.scratch[Trace[k].at]
    BY <1>4 DEF ScratchHold
  <2>2. k \in 1 .. Len(Trace)
    BY Transitions
  <2>3. Trace[k].at \in Nat
    BY <2>2, Transitions
  <2>4. /\ Base(capacity, "scratch") + Trace[k].at \in Words
        /\ 2 * capacity["type"] + capacity["frame"] <= Base(capacity, "scratch") + Trace[k].at
    BY <1>1, <2>1, <2>3, Regions
  <2> QED
    BY <1>4, <2>1, <2>4
<1> QED
  BY <1>2, <1>3, <1>4

(* A transition that lacks nothing has room for what it writes.            *)
LEMMA RoomForTypes ==
    ASSUME NEW op, op.kind = "types", ~Lacking(op)
    PROVE  ~(dev.top["type"] + op.n > dev.capacity["type"])
BY DEF Lacking, Exceeds, Required

(* There is a place for the frame that is pushed.                          *)
LEMMA RoomForPush ==
    ASSUME NEW op, op.kind = "push", ~Lacking(op)
    PROVE  ~(dev.top["frame"] + 1 > dev.capacity["frame"])
BY DEF Lacking, Exceeds, Required

(* The scratch word that is written is in its arena.                       *)
LEMMA RoomForScratch ==
    ASSUME NEW op, op.kind = "scratch", ~Lacking(op)
    PROVE  ~(op.at + 1 > dev.capacity["scratch"])
BY DEF Lacking, Exceeds, Required

(* There is a place for the output record, and for the frame.              *)
LEMMA RoomForOut ==
    ASSUME NEW op, op.kind = "out", ~Lacking(op)
    PROVE  ~(dev.top["frame"] + 1 > dev.capacity["frame"]) /\ ~(dev.top["output"] + 1 > dev.capacity["output"])
BY DEF Lacking, Exceeds, Required

(* The tops after a transition.                                            *)
LEMMA NewTops ==
    ASSUME dev \in DeviceRecords, NEW op
    PROVE  /\ op.kind = "types" =>
                NewTop(op) = [a \in Arenas |-> IF a = "type" THEN dev.top[a] + op.n ELSE dev.top[a]]
           /\ op.kind = "push" =>
                NewTop(op) = [a \in Arenas |-> IF a = "frame" THEN dev.top[a] + 1 ELSE dev.top[a]]
           /\ op.kind = "pop" =>
                NewTop(op) = [a \in Arenas |-> IF a = "frame" THEN dev.top[a] - 1 ELSE dev.top[a]]
           /\ op.kind = "scratch" => NewTop(op) = dev.top
           /\ op.kind = "out" =>
                NewTop(op) = [a \in Arenas |-> IF a \in {"frame", "output"} THEN dev.top[a] + 1 ELSE dev.top[a]]
<1>0. dev.top \in [Arenas -> Nat]
  BY DEF DeviceRecords, Capacities
<1>1. \A a \in Arenas : dev.top[a] + 0 = dev.top[a] /\ dev.top[a] + (-1) = dev.top[a] - 1
  <2>1. \A k \in Nat : k + 0 = k /\ k + (-1) = k - 1
    OBVIOUS
  <2> QED
    BY <1>0, <2>1
<1>2. dev.top = [a \in Arenas |-> dev.top[a]]
  BY <1>0
<1> QED
  BY <1>1, <1>2 DEF NewTop

(* Shorthands for the statement of the next lemmas: the n-th transition is *)
(* performed on arenas that hold what the reference had before it.         *)
Memory0 == memory[Bound("workspace")]
Output0 == memory[Bound("output")]

Ready(op, n) ==
    /\ dev \in DeviceRecords /\ n \in 1 .. Len(Trace) /\ op = Trace[n] /\ n = dev.transitions + 1
    /\ Holds(Memory0, Output0, dev.capacity, dev.top, n - 1)
    /\ ~Lacking(op)

Advanced(op, n) ==
    /\ NewTop(op) \in Capacities
    /\ Holds(WorkspaceWrites(op), OutputWrites(op), dev.capacity, NewTop(op), n)

(* What is known before a transition.                                      *)
LEMMA ReadyFacts ==
    ASSUME NEW op, NEW n, Ready(op, n)
    PROVE  /\ n \in 1 .. Len(Trace) /\ n \in Nat /\ n - 1 \in 0 .. Len(Trace) /\ n - 1 \in Nat /\ n <= Len(Trace)
           /\ n - 1 <= Len(Trace) /\ n = dev.transitions + 1 /\ op = Trace[n]
           /\ Reference[n - 1] \in Machines /\ Reference[n] = Effect(op, n, Reference[n - 1])
           /\ op.n \in Nat /\ op.at \in Nat /\ op.at \in ScratchWords
           /\ dev.capacity \in Capacities /\ dev.top \in Capacities /\ Within(dev.capacity)
           /\ Memory0 \in Contents /\ Output0 \in Contents
           /\ TopsHold(dev.capacity, dev.top, Reference[n - 1])
           /\ TypesHold(Memory0, Reference[n - 1])
           /\ FramesHold(Memory0, dev.capacity, Reference[n - 1])
           /\ ScratchHold(Memory0, dev.capacity, Reference[n - 1], n - 1)
           /\ OutputsHold(Output0, Reference[n - 1])
<1>1. n \in 1 .. Len(Trace) /\ n = dev.transitions + 1 /\ op = Trace[n] /\ Len(Trace) \in Nat
  BY Transitions DEF Ready
<1>2. n \in Nat /\ n - 1 \in 0 .. Len(Trace) /\ n - 1 \in Nat /\ n <= Len(Trace) /\ n - 1 <= Len(Trace)
  BY <1>1
<1>3. Reference[n - 1] \in Machines /\ Reference[n] = Effect(op, n, Reference[n - 1])
  BY <1>1, <1>2, ReferenceEquations, ReferenceIsAMachine
<1>4. op.n \in Nat /\ op.at \in Nat /\ op.at \in ScratchWords
  BY <1>1, Transitions
<1>5. dev.capacity \in Capacities /\ dev.top \in Capacities
  BY DEF Ready, DeviceRecords
<1> QED
  BY <1>1, <1>2, <1>3, <1>4, <1>5 DEF Ready, Holds

(* Scratch words written before are still there if they are not written.   *)
LEMMA ScratchStays ==
    ASSUME NEW m, NEW capacity, NEW s, NEW s2, NEW n \in Nat, n # 0, ScratchHold(m, capacity, s, n - 1),
           Trace[n].kind # "scratch", s2.scratch = s.scratch
    PROVE  ScratchHold(m, capacity, s2, n)
<1>1. \A k \in 1 .. n : k \in 1 .. n - 1 \/ k = n
  OBVIOUS
<1> QED
  BY <1>1 DEF ScratchHold

(* Type records are allocated.                                             *)
LEMMA TypesAdvance ==
    ASSUME NEW op, NEW n, Ready(op, n), op.kind = "types"
    PROVE  Advanced(op, n)
<1> DEFINE m == Memory0
<1> DEFINE m2 == WorkspaceWrites(op)
<1> DEFINE s == Reference[n - 1]
<1> DEFINE s2 == Reference[n]
<1> DEFINE capacity == dev.capacity
<1> DEFINE top == dev.top
<1>0. /\ n \in Nat /\ n # 0 /\ op.n \in Nat /\ s \in Machines /\ capacity \in Capacities /\ top \in Capacities
      /\ Within(capacity) /\ m \in Contents /\ TopsHold(capacity, top, s) /\ TypesHold(m, s)
      /\ FramesHold(m, capacity, s) /\ ScratchHold(m, capacity, s, n - 1) /\ Output0 \in Contents
      /\ OutputsHold(Output0, s) /\ n - 1 \in Nat /\ n - 1 <= Len(Trace) /\ n = dev.transitions + 1
      /\ Trace[n].kind # "scratch"
  BY ReadyFacts
<1>1. /\ s2 \in Machines /\ s2.frames = s.frames /\ s2.outputs = s.outputs /\ s2.scratch = s.scratch
      /\ Len(s2.types) = Len(s.types) + op.n
      /\ \A i \in 1 .. Len(s.types) : s2.types[i] = s.types[i]
      /\ \A i \in 1 .. op.n : s2.types[Len(s.types) + i] = <<n, i>>
  <2>1. s2 = Effect(op, n, s)
    BY ReadyFacts
  <2>2. n \in Nat /\ op.n \in Nat /\ s \in Machines
    BY <1>0
  <2> HIDE DEF s, s2
  <2>3. Effect(op, n, s) \in Machines /\ TypesAdded(s, Effect(op, n, s), op.n, n)
    BY <2>2, TypesEffect
  <2> QED
    BY <2>1, <2>3 DEF TypesAdded
<1>2. OutputWrites(op) = Output0
  BY DEF OutputWrites, Output0
<1>3. NewTop(op) = [a \in Arenas |-> IF a = "type" THEN top[a] + op.n ELSE top[a]]
  BY NewTops DEF Ready
<1>4. /\ top["type"] \in Nat /\ capacity["type"] \in Nat /\ Len(s.types) = top["type"]
      /\ top["type"] + op.n <= capacity["type"]
      /\ top["type"] <= capacity["type"] /\ top["frame"] <= capacity["frame"] /\ top["output"] <= capacity["output"]
  <2>1. Len(s.types) = top["type"] /\ top["type"] <= capacity["type"] /\ top["frame"] <= capacity["frame"]
        /\ top["output"] <= capacity["output"]
    BY <1>0 DEF TopsHold
  <2>2. top["type"] \in Nat /\ capacity["type"] \in Nat /\ op.n \in Nat
    BY <1>0, Bases
  <2>3. ~(top["type"] + op.n > capacity["type"])
    BY RoomForTypes DEF Ready
  <2> HIDE DEF top, capacity, s
  <2> QED
    BY <2>1, <2>2, <2>3
<1>15. op.n \in Nat /\ \A i \in 1 .. op.n : i \in Nat /\ 1 <= i /\ i <= op.n
  BY <1>0
<1>5. m2 = [w \in Words |-> IF \E i \in 1 .. op.n : w = TypeWords * (top["type"] + i - 1)
                            THEN <<n, w \div TypeWords - top["type"] + 1>> ELSE m[w]]
  BY <1>0 DEF WorkspaceWrites, Memory0
<1> HIDE DEF m, m2, s, s2, capacity, top
<1>6. m2 \in Contents
  <2>1. \A w \in Words : <<n, w \div TypeWords - top["type"] + 1>> \in TypeCells
    BY <1>0, <1>4, SMTT(40) DEF TypeCells, TypeWords, Words, MaximumWords
  <2>2. \A w \in Words : m[w] \in Values
    BY <1>0 DEF Contents
  <2>3. \A w \in Words : m2[w] \in Values
    BY <1>5, <2>1, <2>2 DEF Values
  <2>4. m2 = [w \in Words |-> m2[w]]
    BY <1>5
  <2> QED
    BY <2>3, <2>4 DEF Contents
<1>7. ASSUME NEW i \in 1 .. op.n
      PROVE  /\ TypeWords * (top["type"] + i - 1) \in Words
             /\ m2[TypeWords * (top["type"] + i - 1)] = <<n, i>>
  <2> DEFINE w == TypeWords * (top["type"] + i - 1)
  <2>1. top["type"] + i \in 1 .. capacity["type"] /\ top["type"] + i - 1 \in Nat
    BY <1>4, <1>15
  <2>2. TypeWords * ((top["type"] + i) - 1) \in Words
    BY <1>0, <1>4, <2>1, Regions
  <2>3. w \in Words
    <3>1. (top["type"] + i) - 1 = top["type"] + i - 1
      BY <1>4
    <3> QED
      BY <2>2, <3>1
  <2>4. w \div TypeWords - top["type"] + 1 = i
    BY <1>4, <2>1 DEF TypeWords
  <2> HIDE DEF w
  <2>5. m2[w] = <<n, w \div TypeWords - top["type"] + 1>>
    BY <1>5, <2>3 DEF w
  <2> QED
    BY <2>3, <2>4, <2>5 DEF w
<1>8. ASSUME NEW w \in Words, w < 2 * top["type"] \/ 2 * capacity["type"] <= w
      PROVE  m2[w] = m[w]
  <2>1. \A i \in 1 .. op.n : w # TypeWords * (top["type"] + i - 1)
    BY <1>0, <1>4, <1>8 DEF TypeWords, Words, MaximumWords
  <2> QED
    BY <1>5, <2>1
<1>9. TypesHold(m2, s2)
  <2> SUFFICES ASSUME NEW i \in 1 .. Len(s2.types) PROVE m2[TypeWords * (i - 1)] = s2.types[i]
    BY DEF TypesHold
  <2>1. CASE i \in 1 .. Len(s.types)
    <3>1. TypeWords * (i - 1) \in Words
      BY <1>0, <1>4, <2>1, Regions
    <3>2. TypeWords * (i - 1) < 2 * top["type"]
      BY <1>4, <2>1 DEF TypeWords
    <3>3. m2[TypeWords * (i - 1)] = m[TypeWords * (i - 1)]
      BY <1>8, <3>1, <3>2
    <3>4. m[TypeWords * (i - 1)] = s.types[i]
      BY <1>0, <2>1 DEF TypesHold
    <3> QED
      BY <1>1, <2>1, <3>3, <3>4
  <2>2. CASE i \notin 1 .. Len(s.types)
    <3>1. PICK j \in 1 .. op.n : i = Len(s.types) + j
      <4>1. i - Len(s.types) \in 1 .. op.n /\ i = Len(s.types) + (i - Len(s.types))
        <5>1. Len(s2.types) = Len(s.types) + op.n /\ Len(s.types) \in Nat /\ op.n \in Nat
          BY <1>1, <1>4, <1>15
        <5> QED
          BY <2>2, <5>1
      <4> QED
        BY <4>1
    <3>2. i - 1 = top["type"] + j - 1
      BY <1>4, <3>1
    <3> QED
      BY <1>1, <1>7, <3>1, <3>2
  <2> QED
    BY <2>1, <2>2
<1>10. FramesHold(m2, capacity, s2)
  <2>1. FramesHold(m2, capacity, s)
    BY <1>0, <1>8, SameWords
  <2> QED
    BY <1>1, <2>1 DEF FramesHold
<1>11. ScratchHold(m2, capacity, s2, n)
  <2>1. \A w \in Words : 2 * capacity["type"] + capacity["frame"] <= w => m2[w] = m[w]
    <3>1. capacity["frame"] \in Nat
      BY <1>0, Bases
    <3> QED
      <4>1. \A w \in Words : 2 * capacity["type"] + capacity["frame"] <= w => 2 * capacity["type"] <= w
        BY <1>4, <3>1 DEF Words, MaximumWords
      <4> QED
        BY <1>8, <4>1
  <2>2. ScratchHold(m2, capacity, s, n - 1)
    BY <1>0, <2>1, SameWords
  <2> QED
    BY <1>0, <1>1, <2>2, ScratchStays
<1>12. TopsHold(capacity, NewTop(op), s2)
  BY <1>0, <1>1, <1>3, <1>4 DEF TopsHold, Arenas
<1>13. OutputsHold(Output0, s2)
  BY <1>0, <1>1 DEF OutputsHold
<1>14. NewTop(op) \in Capacities
  BY <1>0, <1>3 DEF Capacities
<1> QED
  BY <1>0, <1>2, <1>6, <1>9, <1>10, <1>11, <1>12, <1>13, <1>14 DEF Advanced, Holds, m2, s2, capacity

(* The place of the frame that is pushed.                                  *)
LEMMA FramePlace ==
    ASSUME NEW capacity \in Capacities, NEW top \in Capacities, Within(capacity),
           top["type"] <= capacity["type"], top["frame"] <= capacity["frame"],
           top["output"] <= capacity["output"], ~(top["frame"] + 1 > capacity["frame"])
    PROVE  /\ Base(capacity, "frame") + top["frame"] \in Words
           /\ 2 * capacity["type"] <= Base(capacity, "frame") + top["frame"]
           /\ Base(capacity, "frame") + top["frame"] < 2 * capacity["type"] + capacity["frame"]
<1>1. top["frame"] \in Nat /\ capacity["frame"] \in Nat
  BY Bases
<1>2. top["frame"] + 1 \in 1 .. capacity["frame"] /\ (top["frame"] + 1) - 1 = top["frame"]
  BY <1>1
<1>3. /\ Base(capacity, "frame") + ((top["frame"] + 1) - 1) \in Words
      /\ 2 * capacity["type"] <= Base(capacity, "frame") + ((top["frame"] + 1) - 1)
      /\ Base(capacity, "frame") + ((top["frame"] + 1) - 1) < 2 * capacity["type"] + capacity["frame"]
  BY <1>2, Regions
<1> QED
  BY <1>2, <1>3

(* A frame is written above the others.                                    *)
LEMMA FrameIsWritten ==
    ASSUME NEW m, NEW m2, NEW a, NEW capacity \in Capacities, NEW top \in Capacities, NEW s, NEW s2,
           NEW n \in Nat, n # 0, n <= Len(Trace), Within(capacity), TopsHold(capacity, top, s),
           TypesHold(m, s), FramesHold(m, capacity, s), ScratchHold(m, capacity, s, n - 1),
           FramePushed(s, s2, n), Trace[n].kind # "scratch", ~(top["frame"] + 1 > capacity["frame"]),
           a = Base(capacity, "frame") + top["frame"], Wrote(m, m2, a, n)
    PROVE  /\ m2 \in Contents /\ TypesHold(m2, s2) /\ FramesHold(m2, capacity, s2)
           /\ ScratchHold(m2, capacity, s2, n)
<1>1. /\ Len(s.types) = top["type"] /\ Len(s.frames) = top["frame"]
      /\ top["type"] <= capacity["type"] /\ top["frame"] <= capacity["frame"]
      /\ top["output"] <= capacity["output"]
      /\ top["type"] \in Nat /\ top["frame"] \in Nat
      /\ capacity["type"] \in Nat /\ capacity["frame"] \in Nat
      /\ Base(capacity, "frame") = 2 * capacity["type"]
  BY Bases DEF TopsHold
<1>2. /\ top["frame"] \in Nat /\ capacity["frame"] \in Nat /\ capacity["type"] \in Nat
      /\ top["frame"] + 1 <= capacity["frame"]
  BY <1>1
<1>3. a \in Words /\ 2 * capacity["type"] <= a /\ a < 2 * capacity["type"] + capacity["frame"]
  BY <1>1, FramePlace
<1>6. m2 \in Contents /\ m2[a] = n /\ \A w \in Words : w # a => m2[w] = m[w]
  BY DEF Wrote
<1>7. \A w \in Words : w < 2 * capacity["type"] => m2[w] = m[w]
  <2>1. \A w \in Words : w < 2 * capacity["type"] => w # a
    <3> SUFFICES ASSUME NEW w \in Words, w < 2 * capacity["type"], w = a PROVE FALSE
      OBVIOUS
    <3>1. capacity["type"] \in Nat /\ a \in Int /\ a < 2 * capacity["type"] /\ 2 * capacity["type"] <= a
      BY <1>2, <1>3 DEF Words
    <3> QED
      BY <3>1
  <2> QED
    BY <1>6, <2>1
<1>8. \A w \in Words : 2 * capacity["type"] + capacity["frame"] <= w => m2[w] = m[w]
  <2>1. \A w \in Words : 2 * capacity["type"] + capacity["frame"] <= w => w # a
    BY <1>2, <1>3 DEF Words, MaximumWords
  <2> QED
    BY <1>6, <2>1
<1>9. n - 1 \in Nat /\ n - 1 <= Len(Trace)
  BY Transitions
<1>10. TypesHold(m2, s2)
  <2>1. TypesHold(m2, s)
    BY <1>7, <1>9, SameWords
  <2> QED
    BY <2>1 DEF TypesHold, FramePushed
<1>11. ScratchHold(m2, capacity, s2, n)
  <2>1. ScratchHold(m2, capacity, s, n - 1)
    BY <1>8, <1>9, SameWords
  <2> QED
    BY <2>1, ScratchStays DEF FramePushed
<1>12. FramesHold(m2, capacity, s2)
  <2> SUFFICES ASSUME NEW i \in 1 .. Len(s2.frames)
               PROVE  m2[Base(capacity, "frame") + (i - 1)] = s2.frames[i]
    BY DEF FramesHold
  <2>0. Len(s2.frames) = top["frame"] + 1
    BY <1>1 DEF FramePushed
  <2>1. CASE i = top["frame"] + 1
    <3>1. Base(capacity, "frame") + (i - 1) = a
      <4>1. i - 1 = top["frame"]
        BY <1>1, <2>1
      <4> QED
        BY <4>1
    <3>2. s2.frames[i] = n
      BY <1>1, <2>1 DEF FramePushed
    <3> QED
      BY <1>6, <3>1, <3>2
  <2>2. CASE i # top["frame"] + 1
    <3>1. i \in 1 .. Len(s.frames) /\ i \in 1 .. capacity["frame"]
      <4>1. Len(s.frames) = top["frame"]
        BY <1>1
      <4> QED
        BY <1>2, <2>0, <2>2, <4>1
    <3>2. Base(capacity, "frame") + (i - 1) \in Words
      BY <1>1, <3>1, Regions
    <3>3. Base(capacity, "frame") + (i - 1) # a
      BY <1>1, <3>1
    <3>4. m2[Base(capacity, "frame") + (i - 1)] = m[Base(capacity, "frame") + (i - 1)]
      BY <1>6, <3>2, <3>3
    <3>5. m[Base(capacity, "frame") + (i - 1)] = s.frames[i]
      BY <3>1 DEF FramesHold
    <3>6. s2.frames[i] = s.frames[i]
      BY <3>1 DEF FramePushed
    <3> QED
      BY <3>4, <3>5, <3>6
  <2> QED
    BY <2>1, <2>2
<1> QED
  BY <1>6, <1>10, <1>11, <1>12

(* A frame is pushed.                                                      *)
LEMMA PushAdvance ==
    ASSUME NEW op, NEW n, Ready(op, n), op.kind = "push"
    PROVE  Advanced(op, n)
<1> DEFINE m == Memory0
<1> DEFINE m2 == WorkspaceWrites(op)
<1> DEFINE o == Output0
<1> DEFINE o2 == OutputWrites(op)
<1> DEFINE s == Reference[n - 1]
<1> DEFINE s2 == Reference[n]
<1> DEFINE capacity == dev.capacity
<1> DEFINE top == dev.top
<1>0. /\ n \in Nat /\ n # 0 /\ n <= Len(Trace) /\ n - 1 \in Nat /\ n - 1 <= Len(Trace)
      /\ op = Trace[n] /\ op.at \in Nat /\ op.at \in ScratchWords
      /\ s \in Machines /\ s2 = Effect(op, n, s) /\ n = dev.transitions + 1
      /\ capacity \in Capacities /\ top \in Capacities /\ Within(capacity) /\ m \in Contents
      /\ o \in Contents /\ TopsHold(capacity, top, s) /\ TypesHold(m, s) /\ FramesHold(m, capacity, s)
      /\ ScratchHold(m, capacity, s, n - 1) /\ OutputsHold(o, s)
  BY ReadyFacts
<1>1. m2 = [m EXCEPT ![Base(capacity, "frame") + top["frame"]] = n]
  BY <1>0 DEF WorkspaceWrites, Memory0
<1>2. o2 = o
  BY DEF OutputWrites, Output0
<1>3. /\ ~(top["frame"] + 1 > capacity["frame"])
      /\ NewTop(op) = [a \in Arenas |-> IF a = "frame" THEN top[a] + 1 ELSE top[a]]
  BY RoomForPush, NewTops DEF Ready
<1> HIDE DEF m, m2, o, o2, s, s2, capacity, top
<1>4. /\ top["type"] \in Nat /\ top["frame"] \in Nat /\ top["output"] \in Nat
      /\ capacity["type"] \in Nat /\ capacity["frame"] \in Nat /\ capacity["scratch"] \in Nat
      /\ capacity["output"] \in Nat
  BY <1>0, Bases
<1>5. /\ Len(s.types) = top["type"] /\ Len(s.frames) = top["frame"] /\ Len(s.outputs) = top["output"]
      /\ top["type"] <= capacity["type"] /\ top["frame"] <= capacity["frame"]
      /\ top["output"] <= capacity["output"]
  BY <1>0 DEF TopsHold
<1>6. s2 \in Machines /\ FramePushed(s, s2, n) /\ s2.outputs = s.outputs
  BY <1>0, PushEffect
<1>7. Wrote(m, m2, Base(capacity, "frame") + top["frame"], n)
  <2>1. Base(capacity, "frame") + top["frame"] \in Words
    BY <1>0, <1>3, <1>5, FramePlace
  <2>2. n \in Values
    BY <1>0 DEF Values
  <2> QED
    BY <1>0, <1>1, <2>1, <2>2, OneWrite
<1>8. m2 \in Contents /\ TypesHold(m2, s2) /\ FramesHold(m2, capacity, s2) /\ ScratchHold(m2, capacity, s2, n)
  <2> DEFINE place == Base(capacity, "frame") + top["frame"]
  <2>1. Trace[n].kind # "scratch"
    BY <1>0
  <2>2. place = Base(capacity, "frame") + top["frame"] /\ Wrote(m, m2, place, n)
    BY <1>7
  <2> HIDE DEF place
  <2> QED
    BY <1>0, <1>3, <1>6, <2>1, <2>2, FrameIsWritten
<1>9. OutputsHold(o2, s2)
  BY <1>0, <1>2, <1>6 DEF OutputsHold
<1>10. NewTop(op) \in Capacities
  BY <1>0, <1>3 DEF Capacities
<1>11. TopsHold(capacity, NewTop(op), s2)
  <2>1. Len(s2.types) = top["type"] /\ Len(s2.frames) = top["frame"] + 1 /\ Len(s2.outputs) = top["output"]
    BY <1>5, <1>6 DEF FramePushed
  <2>2. /\ NewTop(op)["type"] = top["type"] /\ NewTop(op)["frame"] = top["frame"] + 1
        /\ NewTop(op)["output"] = top["output"]
    BY <1>3 DEF Arenas
  <2>3. top["frame"] + 1 <= capacity["frame"]
    BY <1>3, <1>4
  <2> QED
    BY <1>5, <2>1, <2>2, <2>3 DEF TopsHold
<1> QED
  BY <1>0, <1>2, <1>8, <1>9, <1>10, <1>11 DEF Advanced, Holds, m2, o2, s2, capacity

(* The last frame is popped.                                               *)
LEMMA PopAdvance ==
    ASSUME NEW op, NEW n, Ready(op, n), op.kind = "pop"
    PROVE  Advanced(op, n)
<1> DEFINE m == Memory0
<1> DEFINE m2 == WorkspaceWrites(op)
<1> DEFINE o == Output0
<1> DEFINE o2 == OutputWrites(op)
<1> DEFINE s == Reference[n - 1]
<1> DEFINE s2 == Reference[n]
<1> DEFINE capacity == dev.capacity
<1> DEFINE top == dev.top
<1>0. /\ n \in Nat /\ n # 0 /\ n <= Len(Trace) /\ n - 1 \in Nat /\ n - 1 <= Len(Trace)
      /\ op = Trace[n] /\ op.at \in Nat /\ op.at \in ScratchWords
      /\ s \in Machines /\ s2 = Effect(op, n, s) /\ n = dev.transitions + 1
      /\ capacity \in Capacities /\ top \in Capacities /\ Within(capacity) /\ m \in Contents
      /\ o \in Contents /\ TopsHold(capacity, top, s) /\ TypesHold(m, s) /\ FramesHold(m, capacity, s)
      /\ ScratchHold(m, capacity, s, n - 1) /\ OutputsHold(o, s)
  BY ReadyFacts
<1>1. m2 = m /\ o2 = o
  BY DEF WorkspaceWrites, Memory0, OutputWrites, Output0
<1>2. NewTop(op) = [a \in Arenas |-> IF a = "frame" THEN top[a] - 1 ELSE top[a]]
  BY NewTops DEF Ready
<1>3. s.frames # <<>>
  <2>1. n \in 1 .. Len(Trace) /\ Trace[n].kind = "pop"
    BY <1>0 DEF Ready
  <2> QED
    BY <2>1, TraceAssumption DEF TraceAssumption
<1> HIDE DEF m, m2, o, o2, s, s2, capacity, top
<1>4. /\ top["type"] \in Nat /\ top["frame"] \in Nat /\ top["output"] \in Nat
      /\ capacity["type"] \in Nat /\ capacity["frame"] \in Nat /\ capacity["scratch"] \in Nat
      /\ capacity["output"] \in Nat
  BY <1>0, Bases
<1>5. /\ Len(s.types) = top["type"] /\ Len(s.frames) = top["frame"] /\ Len(s.outputs) = top["output"]
      /\ top["type"] <= capacity["type"] /\ top["frame"] <= capacity["frame"]
      /\ top["output"] <= capacity["output"]
  BY <1>0 DEF TopsHold
<1>6. s2 \in Machines /\ FramePopped(s, s2)
  BY <1>0, <1>3, PopEffect
<1>7. top["frame"] - 1 \in Nat /\ top["frame"] - 1 <= capacity["frame"]
  <2>1. top["frame"] \in Nat \ {0}
    BY <1>5, <1>6 DEF FramePopped
  <2> QED
    BY <1>4, <1>5, <2>1
<1>8. TypesHold(m2, s2) /\ OutputsHold(o2, s2) /\ FramesHold(m2, capacity, s2)
  <2>1. \A i \in 1 .. Len(s2.frames) : i \in 1 .. Len(s.frames) /\ i \in 1 .. Len(s.frames) - 1
    BY <1>6 DEF FramePopped
  <2> QED
    BY <1>0, <1>1, <1>6, <2>1 DEF FramePopped, TypesHold, OutputsHold, FramesHold
<1>9. ScratchHold(m2, capacity, s2, n)
  <2>1. Trace[n].kind # "scratch"
    BY <1>0
  <2> QED
    BY <1>0, <1>1, <1>6, <2>1, ScratchStays DEF FramePopped
<1>10. NewTop(op) \in Capacities
  BY <1>0, <1>2, <1>7 DEF Capacities
<1>11. TopsHold(capacity, NewTop(op), s2)
  <2>1. Len(s2.types) = top["type"] /\ Len(s2.frames) = top["frame"] - 1 /\ Len(s2.outputs) = top["output"]
    BY <1>5, <1>6 DEF FramePopped
  <2>2. /\ NewTop(op)["type"] = top["type"] /\ NewTop(op)["frame"] = top["frame"] - 1
        /\ NewTop(op)["output"] = top["output"]
    BY <1>2 DEF Arenas
  <2> QED
    BY <1>5, <1>7, <2>1, <2>2 DEF TopsHold
<1> QED
  BY <1>0, <1>1, <1>8, <1>9, <1>10, <1>11 DEF Advanced, Holds, m2, o2, s2, capacity

(* A scratch word is written.                                              *)
LEMMA ScratchAdvance ==
    ASSUME NEW op, NEW n, Ready(op, n), op.kind = "scratch"
    PROVE  Advanced(op, n)
<1> DEFINE m == Memory0
<1> DEFINE m2 == WorkspaceWrites(op)
<1> DEFINE o == Output0
<1> DEFINE o2 == OutputWrites(op)
<1> DEFINE s == Reference[n - 1]
<1> DEFINE s2 == Reference[n]
<1> DEFINE capacity == dev.capacity
<1> DEFINE top == dev.top
<1>0. /\ n \in Nat /\ n # 0 /\ n <= Len(Trace) /\ n - 1 \in Nat /\ n - 1 <= Len(Trace)
      /\ op = Trace[n] /\ op.at \in Nat /\ op.at \in ScratchWords
      /\ s \in Machines /\ s2 = Effect(op, n, s) /\ n = dev.transitions + 1
      /\ capacity \in Capacities /\ top \in Capacities /\ Within(capacity) /\ m \in Contents
      /\ o \in Contents /\ TopsHold(capacity, top, s) /\ TypesHold(m, s) /\ FramesHold(m, capacity, s)
      /\ ScratchHold(m, capacity, s, n - 1) /\ OutputsHold(o, s)
  BY ReadyFacts
<1> DEFINE place == Base(capacity, "scratch") + op.at
<1>1. m2 = [m EXCEPT ![place] = n]
  BY <1>0 DEF WorkspaceWrites, Memory0
<1>2. o2 = o
  BY DEF OutputWrites, Output0
<1>3. ~(op.at + 1 > capacity["scratch"]) /\ NewTop(op) = top
  BY RoomForScratch, NewTops DEF Ready
<1> HIDE DEF m, m2, o, o2, s, s2, capacity, top
<1>4. /\ top["type"] \in Nat /\ top["frame"] \in Nat /\ top["output"] \in Nat
      /\ capacity["type"] \in Nat /\ capacity["frame"] \in Nat /\ capacity["scratch"] \in Nat
      /\ capacity["output"] \in Nat
  BY <1>0, Bases
<1>5. /\ Len(s.types) = top["type"] /\ Len(s.frames) = top["frame"] /\ Len(s.outputs) = top["output"]
      /\ top["type"] <= capacity["type"] /\ top["frame"] <= capacity["frame"]
      /\ top["output"] <= capacity["output"]
  BY <1>0 DEF TopsHold
<1>6. s2 \in Machines /\ ScratchWritten(s, s2, op.at, n)
  BY <1>0, ScratchEffect
<1>7. op.at < capacity["scratch"]
  <2>1. op.at \in Nat
    BY <1>0
  <2> QED
    BY <1>3, <1>4, <2>1
<1>8. place \in Words /\ 2 * capacity["type"] + capacity["frame"] <= place
  BY <1>0, <1>5, <1>7, Regions
<1>12. Base(capacity, "scratch") = 2 * capacity["type"] + capacity["frame"]
  BY <1>0, Bases
<1>9. \A w \in Words : w < 2 * capacity["type"] + capacity["frame"] => w # place
  <2> HIDE DEF place
  <2>1. place \in Int /\ \A w \in Words : w \in Int
    BY <1>8 DEF Words
  <2> QED
    BY <1>4, <1>8, <2>1
<1>10. Wrote(m, m2, place, n)
  <2> HIDE DEF place
  <2>1. n \in Values
    BY <1>0 DEF Values
  <2> QED
    BY <1>0, <1>1, <1>8, <2>1, OneWrite
<1>11. m2 \in Contents /\ m2[place] = n /\ \A w \in Words : w # place => m2[w] = m[w]
  BY <1>10 DEF Wrote
<1>13. TypesHold(m2, s2) /\ FramesHold(m2, capacity, s2)
  <2> HIDE DEF place
  <2>1. \A w \in Words : w < 2 * capacity["type"] => m2[w] = m[w]
    <3>1. \A w \in Words : w < 2 * capacity["type"] => w < 2 * capacity["type"] + capacity["frame"]
      BY <1>4 DEF Words
    <3> QED
      BY <1>9, <1>11, <3>1
  <2>2. \A w \in Words : 2 * capacity["type"] <= w /\ w < 2 * capacity["type"] + capacity["frame"]
                             => m2[w] = m[w]
    BY <1>9, <1>11
  <2>3. TypesHold(m2, s) /\ FramesHold(m2, capacity, s)
    BY <1>0, <2>1, <2>2, SameWords
  <2> QED
    BY <1>6, <2>3 DEF ScratchWritten, TypesHold, FramesHold
<1>14. ScratchHold(m2, capacity, s2, n)
  <2> SUFFICES ASSUME NEW k \in 1 .. n, Trace[k].kind = "scratch"
               PROVE  /\ Trace[k].at < capacity["scratch"]
                      /\ m2[Base(capacity, "scratch") + Trace[k].at] = s2.scratch[Trace[k].at]
    BY DEF ScratchHold
  <2>1. k \in 1 .. Len(Trace) /\ (k = n \/ k \in 1 .. n - 1)
    BY <1>0, Transitions
  <2>2. Trace[k].at \in ScratchWords /\ Trace[k].at \in Nat
    BY <2>1, Transitions
  <2>3. CASE Trace[k].at = op.at
    BY <1>6, <1>7, <1>11, <2>2, <2>3 DEF ScratchWritten
  <2>4. CASE Trace[k].at # op.at
    <3>1. k \in 1 .. n - 1
      BY <1>0, <2>1, <2>4
    <3>2. /\ Trace[k].at < capacity["scratch"]
          /\ m[Base(capacity, "scratch") + Trace[k].at] = s.scratch[Trace[k].at]
      BY <1>0, <3>1 DEF ScratchHold
    <3>3. s2.scratch[Trace[k].at] = s.scratch[Trace[k].at]
      BY <1>6, <2>2, <2>4 DEF ScratchWritten
    <3>4. Base(capacity, "scratch") + Trace[k].at \in Words
      BY <1>0, <1>5, <2>2, <3>2, Regions
    <3>5. Base(capacity, "scratch") + Trace[k].at # place
      <4>1. op.at \in Nat /\ Trace[k].at \in Nat
        BY <1>0, <2>2
      <4>2. Base(capacity, "scratch") \in Nat
        BY <1>4, <1>12
      <4> QED
        BY <2>4, <4>1, <4>2
    <3> QED
      BY <1>11, <3>2, <3>3, <3>4, <3>5
  <2> QED
    BY <2>3, <2>4
<1>15. OutputsHold(o2, s2)
  BY <1>0, <1>2, <1>6 DEF OutputsHold, ScratchWritten
<1>16. NewTop(op) \in Capacities /\ TopsHold(capacity, NewTop(op), s2)
  BY <1>0, <1>3, <1>6 DEF TopsHold, ScratchWritten
<1> QED
  BY <1>0, <1>2, <1>11, <1>13, <1>14, <1>15, <1>16 DEF Advanced, Holds, m2, o2, s2, capacity

(* An output record is written, and a frame.                               *)
LEMMA OutAdvance ==
    ASSUME NEW op, NEW n, Ready(op, n), op.kind = "out"
    PROVE  Advanced(op, n)
<1> DEFINE m == Memory0
<1> DEFINE m2 == WorkspaceWrites(op)
<1> DEFINE o == Output0
<1> DEFINE o2 == OutputWrites(op)
<1> DEFINE s == Reference[n - 1]
<1> DEFINE s2 == Reference[n]
<1> DEFINE capacity == dev.capacity
<1> DEFINE top == dev.top
<1>0. /\ n \in Nat /\ n # 0 /\ n <= Len(Trace) /\ n - 1 \in Nat /\ n - 1 <= Len(Trace)
      /\ op = Trace[n] /\ op.at \in Nat /\ op.at \in ScratchWords
      /\ s \in Machines /\ s2 = Effect(op, n, s) /\ n = dev.transitions + 1
      /\ capacity \in Capacities /\ top \in Capacities /\ Within(capacity) /\ m \in Contents
      /\ o \in Contents /\ TopsHold(capacity, top, s) /\ TypesHold(m, s) /\ FramesHold(m, capacity, s)
      /\ ScratchHold(m, capacity, s, n - 1) /\ OutputsHold(o, s)
  BY ReadyFacts
<1> DEFINE record == Record(s, op.at)
<1>1. m2 = [m EXCEPT ![Base(capacity, "frame") + top["frame"]] = n]
  BY <1>0 DEF WorkspaceWrites, Memory0
<1>2. o2 = [o EXCEPT ![top["output"]] =
               <<m[0 + 2 * (top["type"] - 1)], m[Base(capacity, "frame") + 1 * (top["frame"] - 1)],
                 m[Base(capacity, "scratch") + 1 * op.at]>>]
  <2>1. Base(capacity, "type") = 0
    BY <1>0, Bases
  <2> QED
    BY <2>1 DEF OutputWrites, Output0, Memory0, Read, TypeWords
<1>3. /\ ~(top["frame"] + 1 > capacity["frame"])
      /\ ~(top["output"] + 1 > capacity["output"])
      /\ NewTop(op) = [a \in Arenas |-> IF a \in {"frame", "output"} THEN top[a] + 1 ELSE top[a]]
  BY RoomForOut, NewTops DEF Ready
<1>16. /\ s.frames # <<>> /\ s.types # <<>>
       /\ \E k \in 1 .. n - 1 : Trace[k].kind = "scratch" /\ Trace[k].at = op.at
  <2>1. n \in 1 .. Len(Trace) /\ op = Trace[n] /\ Trace[n].kind = "out"
    BY <1>0 DEF Ready
  <2> QED
    BY <2>1, TraceAssumption DEF TraceAssumption
<1> HIDE DEF m, m2, o, o2, s, s2, capacity, top, record
<1>4. /\ top["type"] \in Nat /\ top["frame"] \in Nat /\ top["output"] \in Nat
      /\ capacity["type"] \in Nat /\ capacity["frame"] \in Nat /\ capacity["scratch"] \in Nat
      /\ capacity["output"] \in Nat
  BY <1>0, Bases
<1>5. /\ Len(s.types) = top["type"] /\ Len(s.frames) = top["frame"] /\ Len(s.outputs) = top["output"]
      /\ top["type"] <= capacity["type"] /\ top["frame"] <= capacity["frame"]
      /\ top["output"] <= capacity["output"]
  BY <1>0 DEF TopsHold
<1>6. s2 \in Machines /\ FramePushed(s, s2, n) /\ RecordOut(s, s2, op.at)
  BY <1>0, <1>16, OutEffect
<1>7. Wrote(m, m2, Base(capacity, "frame") + top["frame"], n)
  <2>1. Base(capacity, "frame") + top["frame"] \in Words
    BY <1>0, <1>3, <1>5, FramePlace
  <2>2. n \in Values
    BY <1>0 DEF Values
  <2> QED
    BY <1>0, <1>1, <2>1, <2>2, OneWrite
<1>8. m2 \in Contents /\ TypesHold(m2, s2) /\ FramesHold(m2, capacity, s2) /\ ScratchHold(m2, capacity, s2, n)
  <2> DEFINE place == Base(capacity, "frame") + top["frame"]
  <2>1. Trace[n].kind # "scratch"
    BY <1>0
  <2>2. place = Base(capacity, "frame") + top["frame"] /\ Wrote(m, m2, place, n)
    BY <1>7
  <2> HIDE DEF place
  <2> QED
    BY <1>0, <1>3, <1>6, <2>1, <2>2, FrameIsWritten
<1>9. o2 = [o EXCEPT ![top["output"]] = record]
  <2>1. top["type"] \in 1 .. Len(s.types) /\ top["frame"] \in 1 .. Len(s.frames)
    BY <1>5, <1>6 DEF RecordOut
  <2>2. m[0 + 2 * (top["type"] - 1)] = s.types[Len(s.types)]
    <3>1. 0 + 2 * (top["type"] - 1) = TypeWords * (top["type"] - 1)
      BY <1>4 DEF TypeWords
    <3> QED
      BY <1>0, <1>5, <2>1, <3>1 DEF TypesHold
  <2>3. m[Base(capacity, "frame") + 1 * (top["frame"] - 1)] = s.frames[Len(s.frames)]
    <3>1. 1 * (top["frame"] - 1) = top["frame"] - 1
      BY <1>4
    <3> QED
      BY <1>0, <1>5, <2>1, <3>1 DEF FramesHold
  <2>4. m[Base(capacity, "scratch") + 1 * op.at] = s.scratch[op.at]
    <3>1. 1 * op.at = op.at
      BY <1>0
    <3> QED
      BY <1>0, <1>16, <3>1 DEF ScratchHold
  <2> QED
    BY <1>2, <2>2, <2>3, <2>4 DEF record, Record
<1>10. Wrote(o, o2, top["output"], record)
  <2>1. top["output"] \in Words
    <3>1. top["output"] + 1 \in 1 .. capacity["output"] /\ (top["output"] + 1) - 1 = top["output"]
      BY <1>3, <1>4
    <3>2. (top["output"] + 1) - 1 \in Words
      BY <1>0, <1>5, <3>1, Regions
    <3> QED
      BY <3>1, <3>2
  <2>2. record \in Values
    BY <1>6 DEF RecordOut, record, Values
  <2> QED
    BY <1>0, <1>9, <2>1, <2>2, OneWrite
<1>11. OutputsHold(o2, s2)
  <2> SUFFICES ASSUME NEW i \in 1 .. Len(s2.outputs) PROVE o2[i - 1] = s2.outputs[i]
    BY DEF OutputsHold
  <2>1. Len(s2.outputs) = top["output"] + 1
    BY <1>5, <1>6 DEF RecordOut
  <2>2. CASE i = top["output"] + 1
    <3>1. i - 1 = top["output"]
      BY <1>4, <2>2
    <3> QED
      BY <1>5, <1>6, <1>10, <2>2, <3>1 DEF RecordOut, Wrote, record
  <2>3. CASE i # top["output"] + 1
    <3>1. i \in 1 .. top["output"] /\ i \in 1 .. capacity["output"] /\ i - 1 # top["output"]
      BY <1>4, <1>5, <2>1, <2>3
    <3>2. i - 1 \in Words
      BY <1>0, <1>5, <3>1, Regions
    <3>3. o2[i - 1] = o[i - 1]
      BY <1>10, <3>1, <3>2 DEF Wrote
    <3>4. o[i - 1] = s.outputs[i] /\ s2.outputs[i] = s.outputs[i]
      BY <1>0, <1>5, <1>6, <3>1 DEF OutputsHold, RecordOut
    <3> QED
      BY <3>3, <3>4
  <2> QED
    BY <2>2, <2>3
<1>12. NewTop(op) \in Capacities
  BY <1>0, <1>3 DEF Capacities
<1>13. TopsHold(capacity, NewTop(op), s2)
  <2>1. Len(s2.types) = top["type"] /\ Len(s2.frames) = top["frame"] + 1 /\ Len(s2.outputs) = top["output"] + 1
    BY <1>5, <1>6 DEF FramePushed, RecordOut
  <2>2. /\ NewTop(op)["type"] = top["type"] /\ NewTop(op)["frame"] = top["frame"] + 1
        /\ NewTop(op)["output"] = top["output"] + 1
    BY <1>3 DEF Arenas
  <2>3. top["frame"] + 1 <= capacity["frame"] /\ top["output"] + 1 <= capacity["output"]
    BY <1>3, <1>4
  <2> QED
    BY <1>5, <2>1, <2>2, <2>3 DEF TopsHold
<1>14. o2 \in Contents
  BY <1>10 DEF Wrote
<1> QED
  BY <1>0, <1>8, <1>11, <1>12, <1>13, <1>14 DEF Advanced, Holds, m2, o2, s2, capacity

(* Any transition that lacks nothing.                                      *)
LEMMA OneTransition ==
    ASSUME NEW op, NEW n, Ready(op, n)
    PROVE  Advanced(op, n)
<1>1. op.kind \in {"types", "push", "pop", "scratch", "out"}
  BY Transitions DEF Ready
<1> QED
  BY <1>1, TypesAdvance, PushAdvance, PopAdvance, ScratchAdvance, OutAdvance

-----------------------------------------------------------------------------
(* Growth.                                                                 *)

(* The capacities after it: none is smaller, and they are within limits.   *)
LEMMA GrownFacts ==
    ASSUME Records, dev.code \in Arenas, dev.detail \in Nat
    PROVE  /\ Grown \in Capacities
           /\ Grown["type"] >= host.capacity["type"] /\ Grown["frame"] >= host.capacity["frame"]
           /\ Grown["scratch"] >= host.capacity["scratch"] /\ Grown["output"] >= host.capacity["output"]
           /\ dev.code = "output" =>
                /\ Grown["type"] = host.capacity["type"] /\ Grown["frame"] = host.capacity["frame"]
                /\ Grown["scratch"] = host.capacity["scratch"]
           /\ dev.code # "output" => Grown["output"] = host.capacity["output"]
           /\ Fits(Grown) => Within(Grown)
<1>1. host.capacity \in [Arenas -> Nat]
  BY DEF Records, HostRecords, Capacities
<1>2. \A c \in Nat, d \in Nat : MaxOf(c * 2, d * 2) \in Nat /\ MaxOf(c * 2, d * 2) >= c
  BY DEF MaxOf
<1>3. \A c \in Nat : MaxOf(1, c * 2) \in Nat /\ MaxOf(1, c * 2) >= c
  BY DEF MaxOf
<1>4. \A a \in Arenas : host.capacity[a] \in Nat /\ host.capacity[a] >= host.capacity[a]
  <2>1. \A c \in Nat : c >= c
    OBVIOUS
  <2> QED
    BY <1>1, <2>1
<1>5. Fits(Grown) /\ Grown \in Capacities => Within(Grown)
  <2> SUFFICES ASSUME Fits(Grown), Grown \in Capacities PROVE Within(Grown)
    OBVIOUS
  <2>1. options.words \in 0 .. MaximumWords /\ options.outputs \in 0 .. MaximumWords
    BY InferenceAssumption DEF InferenceAssumption, Records
  <2>2. WorkspaceWords(Grown) \in Nat /\ Grown["output"] \in Nat
    BY Bases
  <2>3. WorkspaceWords(Grown) <= options.words /\ Grown["output"] <= options.outputs
    BY DEF Fits
  <2> HIDE DEF Grown
  <2>4. WorkspaceWords(Grown) <= MaximumWords /\ Grown["output"] <= MaximumWords
    BY <2>1, <2>2, <2>3, WordsAre
  <2> QED
    BY <2>4 DEF Within
<1>6. CASE dev.code = "output"
  <2> DEFINE c == MaxOf(host.capacity["output"] * 2, dev.detail * 2)
  <2>1. Grown = [host.capacity EXCEPT !["output"] = c]
    BY <1>6 DEF Grown
  <2>2. c \in Nat /\ c >= host.capacity["output"]
    BY <1>2, <1>4 DEF Arenas
  <2> HIDE DEF c
  <2>3. /\ Grown \in Capacities /\ Grown["type"] = host.capacity["type"]
        /\ Grown["frame"] = host.capacity["frame"] /\ Grown["scratch"] = host.capacity["scratch"]
        /\ Grown["output"] = c
    BY <1>1, <2>1, <2>2 DEF Arenas, Capacities
  <2> HIDE DEF Grown
  <2> QED
    BY <1>4, <1>5, <1>6, <2>2, <2>3 DEF Arenas
<1>7. CASE dev.code # "output"
  <2> DEFINE c == MaxOf(1, host.capacity[dev.code] * 2)
  <2>1. Grown = [host.capacity EXCEPT ![dev.code] = c]
    BY <1>7 DEF Grown
  <2>2. c \in Nat /\ c >= host.capacity[dev.code]
    BY <1>3, <1>4
  <2> HIDE DEF c
  <2>3. Grown \in Capacities /\ \A a \in Arenas : Grown[a] = IF a = dev.code THEN c ELSE host.capacity[a]
    BY <1>1, <2>1, <2>2 DEF Capacities
  <2>4. \A a \in Arenas : Grown[a] >= host.capacity[a]
    BY <1>4, <2>2, <2>3
  <2>5. Grown["output"] = host.capacity["output"]
    BY <1>7, <2>3 DEF Arenas
  <2> HIDE DEF Grown
  <2> QED
    BY <1>5, <1>7, <2>3, <2>4, <2>5 DEF Arenas
<1> QED
  BY <1>6, <1>7

(* The arenas are moved to their new bases.                                *)
LEMMA MovedHolds ==
    ASSUME host.capacity \in Capacities, dev.top \in Capacities, NEW to \in Capacities,
           Within(host.capacity), Within(to),
           to["type"] >= host.capacity["type"], to["frame"] >= host.capacity["frame"],
           to["scratch"] >= host.capacity["scratch"],
           NEW s, TopsHold(host.capacity, dev.top, s), NEW n \in Nat, n <= Len(Trace),
           NEW from \in Contents, TypesHold(from, s), FramesHold(from, host.capacity, s),
           ScratchHold(from, host.capacity, s, n)
    PROVE  /\ Moved(from, to) \in Contents
           /\ TypesHold(Moved(from, to), s) /\ FramesHold(Moved(from, to), to, s)
           /\ ScratchHold(Moved(from, to), to, s, n)
<1> DEFINE m2 == Moved(from, to)
<1> DEFINE old == host.capacity
<1> DEFINE top == dev.top
<1>1. m2 = [w \in Words |->
              IF w < 2 * top["type"] THEN from[w]
              ELSE IF w - Base(to, "frame") \in 0 .. top["frame"] - 1
              THEN from[Base(old, "frame") + w - Base(to, "frame")]
              ELSE IF w - Base(to, "scratch") \in 0 .. old["scratch"] - 1
              THEN from[Base(old, "scratch") + w - Base(to, "scratch")]
              ELSE 0]
  BY DEF Moved, TypeWords
<1>2. /\ top["type"] \in Nat /\ top["frame"] \in Nat
      /\ top["type"] <= old["type"] /\ top["frame"] <= old["frame"]
      /\ Len(s.types) = top["type"] /\ Len(s.frames) = top["frame"] /\ top["output"] <= old["output"]
  BY Bases DEF TopsHold
<1>3. /\ old["type"] \in Nat /\ old["frame"] \in Nat /\ old["scratch"] \in Nat
      /\ Base(old, "frame") = 2 * old["type"] /\ Base(old, "scratch") = 2 * old["type"] + old["frame"]
      /\ 2 * old["type"] + old["frame"] + old["scratch"] <= MaximumWords
  BY Bases DEF Within
<1>4. /\ to["type"] \in Nat /\ to["frame"] \in Nat /\ to["scratch"] \in Nat
      /\ Base(to, "frame") = 2 * to["type"] /\ Base(to, "scratch") = 2 * to["type"] + to["frame"]
      /\ 2 * to["type"] + to["frame"] + to["scratch"] <= MaximumWords
      /\ to["type"] >= old["type"] /\ to["frame"] >= old["frame"] /\ to["scratch"] >= old["scratch"]
  BY Bases DEF Within
<1>5. from \in Contents /\ TypesHold(from, s) /\ FramesHold(from, old, s) /\ ScratchHold(from, old, s, n)
  OBVIOUS
<1> DEFINE o1 == old["type"]
<1> DEFINE o2 == old["frame"]
<1> DEFINE o3 == old["scratch"]
<1> DEFINE t1 == to["type"]
<1> DEFINE t2 == to["frame"]
<1> DEFINE t3 == to["scratch"]
<1> DEFINE h1 == top["type"]
<1> DEFINE h2 == top["frame"]
<1> DEFINE fromFrames == Base(old, "frame")
<1> DEFINE fromScratch == Base(old, "scratch")
<1> DEFINE toFrames == Base(to, "frame")
<1> DEFINE toScratch == Base(to, "scratch")
<1>10. /\ h1 \in Nat /\ h2 \in Nat /\ o1 \in Nat /\ o2 \in Nat /\ o3 \in Nat
       /\ t1 \in Nat /\ t2 \in Nat /\ t3 \in Nat
  BY <1>2, <1>3, <1>4
<1>11. /\ h1 <= o1 /\ h2 <= o2 /\ o1 <= t1 /\ o2 <= t2 /\ o3 <= t3
       /\ 2 * o1 + o2 + o3 <= MaximumWords /\ 2 * t1 + t2 + t3 <= MaximumWords
  BY <1>2, <1>3, <1>4
<1>12. /\ fromFrames = 2 * o1 /\ fromScratch = 2 * o1 + o2
       /\ toFrames = 2 * t1 /\ toScratch = 2 * t1 + t2
  BY <1>3, <1>4
<1>13. m2 = [w \in Words |->
              IF w < 2 * h1 THEN from[w]
              ELSE IF w - toFrames \in 0 .. h2 - 1
              THEN from[fromFrames + w - toFrames]
              ELSE IF w - toScratch \in 0 .. o3 - 1
              THEN from[fromScratch + w - toScratch]
              ELSE 0]
  BY <1>1
<1> HIDE DEF m2, old, top, o1, o2, o3, t1, t2, t3, h1, h2, fromFrames, fromScratch, toFrames, toScratch
<1>6. m2 \in Contents
  <2>1. \A w \in Words : w \in Int
    BY DEF Words
  <2>2. \A w \in Words : from[w] \in Values
    BY <1>5 DEF Contents
  <2>3. 0 \in Values
    BY DEF Values
  <2>4. ASSUME NEW w \in Words, w - toFrames \in 0 .. h2 - 1
        PROVE  fromFrames + w - toFrames \in Words
    <3>1. fromFrames + w - toFrames \in Nat /\ fromFrames + w - toFrames < MaximumWords
      BY <1>10, <1>11, <1>12, <2>1, <2>4, WordsAre
    <3> QED
      BY <3>1, WordsAre
  <2>5. ASSUME NEW w \in Words, w - toScratch \in 0 .. o3 - 1
        PROVE  fromScratch + w - toScratch \in Words
    <3>1. fromScratch + w - toScratch \in Nat /\ fromScratch + w - toScratch < MaximumWords
      BY <1>10, <1>11, <1>12, <2>1, <2>5, WordsAre
    <3> QED
      BY <3>1, WordsAre
  <2>6. \A w \in Words : m2[w] \in Values
    BY <1>13, <2>2, <2>3, <2>4, <2>5
  <2>7. m2 = [w \in Words |-> m2[w]]
    BY <1>13
  <2> QED
    BY <2>6, <2>7 DEF Contents
<1>7. TypesHold(m2, s)
  <2> SUFFICES ASSUME NEW i \in 1 .. Len(s.types) PROVE m2[TypeWords * (i - 1)] = s.types[i]
    BY DEF TypesHold
  <2>1. i \in 1 .. top["type"] /\ TypeWords * (i - 1) < 2 * top["type"]
    BY <1>2 DEF TypeWords
  <2>2. TypeWords * (i - 1) \in Words
    <3>1. i \in 1 .. old["type"]
      BY <1>2, <1>3, <2>1
    <3> QED
      BY <1>2, <3>1, Regions DEF old, top
  <2>3. m2[TypeWords * (i - 1)] = from[TypeWords * (i - 1)]
    BY <1>13, <2>1, <2>2 DEF h1
  <2> QED
    BY <1>5, <2>3 DEF TypesHold
<1>8. FramesHold(m2, to, s)
  <2> SUFFICES ASSUME NEW i \in 1 .. Len(s.frames) PROVE m2[Base(to, "frame") + (i - 1)] = s.frames[i]
    BY DEF FramesHold
  <2> DEFINE w == toFrames + (i - 1)
  <2>1. i \in 1 .. h2
    BY <1>2 DEF h2
  <2>2. w \in Nat /\ w < MaximumWords /\ ~(w < 2 * h1)
    BY <1>10, <1>11, <1>12, <2>1, WordsAre
  <2>3. w - toFrames \in 0 .. h2 - 1 /\ fromFrames + w - toFrames = fromFrames + (i - 1)
    BY <1>10, <1>11, <1>12, <2>1
  <2>4. w \in Words
    BY <2>2, WordsAre
  <2>5. w = Base(to, "frame") + (i - 1)
    BY DEF toFrames
  <2> HIDE DEF w
  <2>6. m2[w] = from[Base(old, "frame") + (i - 1)]
    BY <1>13, <2>2, <2>3, <2>4 DEF fromFrames
  <2> QED
    BY <1>5, <2>5, <2>6 DEF FramesHold
<1>9. ScratchHold(m2, to, s, n)
  <2> SUFFICES ASSUME NEW k \in 1 .. n, Trace[k].kind = "scratch"
               PROVE  /\ Trace[k].at < to["scratch"]
                      /\ m2[Base(to, "scratch") + Trace[k].at] = s.scratch[Trace[k].at]
    BY DEF ScratchHold
  <2> DEFINE at == Trace[k].at
  <2> DEFINE w == toScratch + at
  <2>1. k \in 1 .. Len(Trace)
    BY Transitions
  <2>2. at \in Nat
    BY <2>1, Transitions
  <2>3. at < old["scratch"] /\ from[Base(old, "scratch") + at] = s.scratch[at]
    BY <1>5 DEF ScratchHold
  <2> HIDE DEF at
  <2>11. at < o3
    BY <2>3 DEF o3
  <2>4. at < to["scratch"]
    <3>1. at < t3
      BY <1>10, <1>11, <2>2, <2>11
    <3> QED
      BY <3>1 DEF t3
  <2>5. w \in Nat /\ w < MaximumWords /\ ~(w < 2 * h1)
    BY <1>10, <1>11, <1>12, <2>2, <2>11, WordsAre
  <2>6. ~(w - toFrames \in 0 .. h2 - 1)
    BY <1>10, <1>11, <1>12, <2>2, <2>11
  <2>7. w - toScratch \in 0 .. o3 - 1 /\ fromScratch + w - toScratch = fromScratch + at
    BY <1>10, <1>11, <1>12, <2>2, <2>11
  <2>8. w \in Words
    BY <2>5, WordsAre
  <2>9. w = Base(to, "scratch") + at
    BY DEF toScratch
  <2> HIDE DEF w
  <2>10. m2[w] = from[Base(old, "scratch") + at]
    BY <1>13, <2>5, <2>6, <2>7, <2>8 DEF fromScratch
  <2> QED
    BY <2>3, <2>4, <2>9, <2>10 DEF at
<1> QED
  BY <1>6, <1>7, <1>8, <1>9 DEF m2

(* An arena or the output is grown, and holds what it held.                *)
LEMMA GrowthHolds ==
    ASSUME Records, dev.code \in Arenas, dev.detail \in Nat, Fits(Grown),
           NEW n \in Nat, n <= Len(Trace), NEW m, NEW o, Holds(m, o, host.capacity, dev.top, n)
    PROVE  /\ dev.code = "output" =>
                Holds(m, [w \in Words |-> IF w < dev.top["output"] THEN o[w] ELSE 0], Grown, dev.top, n)
           /\ dev.code # "output" => Holds(Moved(m, Grown), o, Grown, dev.top, n)
<1> DEFINE s == Reference[n]
<1> DEFINE old == host.capacity
<1> DEFINE to == Grown
<1> DEFINE top == dev.top
<1>1. /\ to \in Capacities /\ Within(to)
      /\ to["type"] >= old["type"] /\ to["frame"] >= old["frame"]
      /\ to["scratch"] >= old["scratch"] /\ to["output"] >= old["output"]
      /\ dev.code = "output" =>
           to["type"] = old["type"] /\ to["frame"] = old["frame"] /\ to["scratch"] = old["scratch"]
  BY GrownFacts
<1>2. old \in Capacities /\ top \in Capacities
  BY DEF Records, HostRecords, DeviceRecords
<1>3. /\ m \in Contents /\ o \in Contents /\ Within(old) /\ TopsHold(old, top, s) /\ TypesHold(m, s)
      /\ FramesHold(m, old, s) /\ ScratchHold(m, old, s, n) /\ OutputsHold(o, s)
  BY DEF Holds
<1>9. dev.code # "output" =>
        /\ Moved(m, to) \in Contents /\ TypesHold(Moved(m, to), s) /\ FramesHold(Moved(m, to), to, s)
        /\ ScratchHold(Moved(m, to), to, s, n)
  <2> HIDE DEF to, s
  <2> QED
    BY <1>1, <1>2, <1>3, MovedHolds
<1> DEFINE o2 == [w \in Words |-> IF w < top["output"] THEN o[w] ELSE 0]
<1>10. o2 = [w \in Words |-> IF w < top["output"] THEN o[w] ELSE 0]
  OBVIOUS
<1> HIDE DEF s, old, to, top, o2
<1>4. /\ top["type"] \in Nat /\ top["frame"] \in Nat /\ top["output"] \in Nat
      /\ old["type"] \in Nat /\ old["frame"] \in Nat /\ old["output"] \in Nat
      /\ to["type"] \in Nat /\ to["frame"] \in Nat /\ to["output"] \in Nat
  BY <1>1, <1>2, Bases
<1>5. TopsHold(to, top, s)
  <2>1. /\ top["type"] <= old["type"] /\ top["frame"] <= old["frame"] /\ top["output"] <= old["output"]
    BY <1>3 DEF TopsHold
  <2>2. /\ old["type"] <= to["type"] /\ old["frame"] <= to["frame"] /\ old["output"] <= to["output"]
    BY <1>1, <1>4
  <2>3. top["type"] <= to["type"]
    BY <1>4, <2>1, <2>2
  <2>4. top["frame"] <= to["frame"]
    BY <1>4, <2>1, <2>2
  <2>5. top["output"] <= to["output"]
    BY <1>4, <2>1, <2>2
  <2> QED
    BY <1>3, <2>3, <2>4, <2>5 DEF TopsHold
<1>6. ASSUME dev.code = "output" PROVE Holds(m, o2, to, top, n)
  <2>1. Base(to, "frame") = Base(old, "frame") /\ Base(to, "scratch") = Base(old, "scratch")
    BY <1>1, <1>2, <1>6, Bases
  <2>2. FramesHold(m, to, s) /\ ScratchHold(m, to, s, n)
    BY <1>1, <1>3, <1>6, <2>1 DEF FramesHold, ScratchHold
  <2>3. o2 \in Contents
    <3>1. \A w \in Words : o2[w] \in Values
      BY <1>3, <1>10 DEF Contents, Values
    <3>2. o2 = [w \in Words |-> o2[w]]
      BY <1>10
    <3> QED
      BY <3>1, <3>2 DEF Contents
  <2>4. OutputsHold(o2, s)
    <3> SUFFICES ASSUME NEW i \in 1 .. Len(s.outputs) PROVE o2[i - 1] = s.outputs[i]
      BY DEF OutputsHold
    <3>1. Len(s.outputs) = top["output"]
      BY <1>3 DEF TopsHold
    <3>2. top["type"] <= old["type"] /\ top["frame"] <= old["frame"] /\ top["output"] <= old["output"]
      BY <1>3 DEF TopsHold
    <3>3. i - 1 < top["output"] /\ i \in 1 .. old["output"]
      BY <1>4, <3>1, <3>2
    <3>4. i - 1 \in Words
      BY <1>2, <1>3, <3>2, <3>3, Regions
    <3> QED
      BY <1>3, <1>10, <3>3, <3>4 DEF OutputsHold
  <2> QED
    BY <1>1, <1>3, <1>5, <2>2, <2>3, <2>4 DEF Holds, s
<1>7. ASSUME dev.code # "output" PROVE Holds(Moved(m, to), o, to, top, n)
  BY <1>1, <1>3, <1>5, <1>7, <1>9 DEF Holds, s
<1> QED
  BY <1>6, <1>7, <1>10 DEF to, top

-----------------------------------------------------------------------------
(* The invariant.                                                          *)

(* The buffers that are bound while the loop runs.                         *)
LEMMA BoundBuffers ==
    ASSUME BuffersOK, host.at \in Looping
    PROVE  /\ Bound("workspace") = host.workspace /\ Bound("output") = host.output
           /\ host.workspace # host.output
<1>1. /\ host.bound = {host.workspace, host.output}
      /\ \E k \in {0, 1} : host.workspace = Workspace(k)
      /\ \E k \in {0, 1} : host.output = Output(k)
  BY DEF BuffersOK, Built
<1>2. host.workspace[1] = "workspace" /\ host.output[1] = "output"
  BY <1>1, BuffersDiffer
<1> HIDE DEF Looping
<1> QED
  BY <1>1, <1>2 DEF Bound

(* What an answer has to be.                                               *)
Right(result) ==
    CASE result.kind = "complete" ->
           /\ result.steps = SemanticSteps + Len(Trace) + 1
           /\ result.steps <= options.maximumSteps
           /\ result.outputs = Reference[Len(Trace)].outputs
      [] result.kind = "out of fuel" ->
           /\ result.steps = options.maximumSteps
           /\ SemanticSteps + Len(Trace) + 1 > options.maximumSteps
      [] OTHER -> TRUE

Results ==
    [kind : {"thrown", "exhausted", "out of fuel", "complete"}, steps : Int, outputs : Seq(Values)]

(* The failures are right.                                                 *)
LEMMA Failures == Right(Thrown) /\ Right(Exhausted) /\ Thrown \in Results /\ Exhausted \in Results
<1>1. <<>> \in Seq(Values)
  BY EmptySeq
<1> QED
  BY <1>1 DEF Right, Thrown, Exhausted, Results

(* The run settles with a right answer, and holds no other buffers than    *)
(* those that its variables name.                                          *)
LEMMA Settling ==
    ASSUME IInv, NEW h \in HostRecords, NEW buffers, NEW result \in Results,
           Settle(h, buffers, result), UNCHANGED <<options, dev, memory>>,
           h.capacity = host.capacity, h.previousTransitions = host.previousTransitions,
           buffers \subseteq Held(h), Right(result)
    PROVE  IInv'
<1>1. host' = [h EXCEPT !.at = "settled", !.result = result] /\ live' = {}
  BY DEF Settle
<1>2. /\ host' \in HostRecords /\ host'.at = "settled" /\ host'.result = result
      /\ host'.capacity = host.capacity /\ host'.previousTransitions = host.previousTransitions
  BY <1>1 DEF HostRecords, Results, Places
<1>3. Records'
  BY <1>2 DEF IInv, Records
<1>4. CountersOK'
  <2>1. SemanticOK' /\ StatusOK'
    BY <1>2 DEF IInv, CountersOK, SemanticOK, StatusOK
  <2>2. FuelOK'
    BY <1>2 DEF IInv, CountersOK, FuelOK, Spent
  <2>3. PlaceOK'
    BY <1>2 DEF PlaceOK, Looping, Running
  <2> QED
    BY <2>1, <2>2, <2>3 DEF CountersOK
<1>5. BuffersOK'
  BY <1>1, <1>2 DEF BuffersOK, Bare, Built, Looping, Running
<1>6. MemoryOK'
  BY <1>2 DEF IInv, MemoryOK, Bare, Built, Looping, Running
<1>7. ResultOK'
  BY <1>2 DEF ResultOK, AnswerIsTheReference, Right
<1> QED
  BY <1>3, <1>4, <1>5, <1>6, <1>7 DEF IInv

(* The numbers of the model.                                               *)
LEMMA Numbers ==
    ASSUME Records
    PROVE  /\ SemanticSteps \in Nat \ {0} /\ options.maximumSteps \in Nat \ {0}
           /\ options.maximumStepsPerDispatch \in Nat \ {0} /\ options.readback \in Nat
           /\ options.capacity \in Capacities /\ Len(Trace) \in Nat
           /\ dev.semanticSteps \in Nat /\ dev.transitions \in Nat /\ dev.left \in Nat
           /\ dev.previousSemantic \in Int /\ host.previousSemantic \in Int /\ host.previousTransitions \in Int
BY InferenceAssumption, Transitions DEF InferenceAssumption, Records, Capacities, DeviceRecords, HostRecords

(* Initially.                                                              *)
LEMMA InitInv == Init => IInv
<1> SUFFICES ASSUME Init PROVE IInv
  OBVIOUS
<1>1. options \in Options /\ options.capacity \in Capacities /\ SemanticSteps \in Nat \ {0}
      /\ options.maximumSteps \in Nat \ {0}
  BY InferenceAssumption DEF Init, InferenceAssumption, Capacities
<1>2. <<>> \in Seq(Values)
  BY EmptySeq
<1>3. Records
  <2>1. host \in HostRecords
    BY <1>1, <1>2 DEF Init, HostRecords, Places, Bare, Buffers, Thrown
  <2>2. dev \in DeviceRecords
    BY <1>1 DEF Init, DeviceRecords, Capacities
  <2> QED
    BY <1>1, <2>1, <2>2 DEF Records
<1>4. CountersOK
  <2>1. /\ dev.semantic = "pending" /\ dev.semanticSteps = 0 /\ dev.transitions = 0
        /\ dev.status = "uninitialized" /\ host.at = "start" /\ host.previousSemantic = 0
        /\ host.previousTransitions = 0
    BY DEF Init
  <2>2. SemanticOK
    BY <1>1, <2>1 DEF SemanticOK
  <2>3. StatusOK /\ PlaceOK
    BY <2>1 DEF StatusOK, PlaceOK
  <2>4. FuelOK
    BY <1>1, <2>1 DEF FuelOK, Spent
  <2> QED
    BY <2>2, <2>3, <2>4 DEF CountersOK
<1>5. BuffersOK
  BY DEF Init, BuffersOK, Held, Bare, Built, Looping, Running
<1>6. MemoryOK
  BY DEF Init, MemoryOK, Performed, Bare, Built, Looping, Running
<1>7. ResultOK
  BY DEF Init, ResultOK
<1> QED
  BY <1>3, <1>4, <1>5, <1>6, <1>7 DEF IInv

(* Between the start and the end the live buffers are held by variables of *)
(* the runner.                                                             *)
LEMMA LiveIsHeld ==
    ASSUME IInv, host.at # "settled", host.at # "rebind"
    PROVE  live \subseteq Held(host) /\ host \in HostRecords
BY DEF IInv, BuffersOK, Records

(* The fallback starts without buffers.                                    *)
LEMMA FallingBack ==
    ASSUME IInv, NEW h \in HostRecords, NEW buffers, Fallback(h, buffers), UNCHANGED <<options, dev>>,
           host.at \in {"start", "create readback"}, h.capacity = host.capacity,
           h.previousSemantic = host.previousSemantic, h.previousTransitions = host.previousTransitions,
           buffers = {}, Held(h) = {NoBuffer}, h.expanded = NoBuffer
    PROVE  IInv'
<1>1. host' = [h EXCEPT !.at = "fallback"] /\ live' = {}
  BY DEF Fallback
<1>2. /\ host' \in HostRecords /\ host'.at = "fallback" /\ Held(host') = {NoBuffer}
      /\ host'.capacity = host.capacity /\ host'.expanded = NoBuffer
      /\ host'.previousSemantic = host.previousSemantic
      /\ host'.previousTransitions = host.previousTransitions
  BY <1>1 DEF HostRecords, Places, Bare, Held
<1>3. Records'
  BY <1>2 DEF IInv, Records
<1>4. CountersOK'
  <2>1. SemanticOK' /\ StatusOK'
    BY <1>2 DEF IInv, CountersOK, SemanticOK, StatusOK
  <2>2. FuelOK'
    BY <1>2 DEF IInv, CountersOK, FuelOK, Spent
  <2>3. PlaceOK'
    BY <1>2 DEF IInv, CountersOK, PlaceOK, Looping, Running, Places, Bare
  <2> QED
    BY <2>1, <2>2, <2>3 DEF CountersOK
<1>5. BuffersOK'
  BY <1>1, <1>2 DEF BuffersOK, Bare, Built, Looping, Running, Held
<1>6. MemoryOK'
  BY <1>2 DEF IInv, MemoryOK, Bare, Built, Looping, Running, Performed
<1>7. ResultOK'
  BY <1>2 DEF ResultOK
<1> QED
  BY <1>3, <1>4, <1>5, <1>6, <1>7 DEF IInv

(* Empty arenas hold what the reference starts with.                       *)
LEMMA BlankHolds ==
    ASSUME NEW capacity \in Capacities, NEW top \in Capacities, \A a \in Arenas : top[a] = 0, Within(capacity)
    PROVE  Holds(Blank, Blank, capacity, top, 0)
<1>1. Reference[0] = Start
  BY ReferenceEquations
<1>2. Len(Start.types) = 0 /\ Len(Start.frames) = 0 /\ Len(Start.outputs) = 0
  BY DEF Start
<1>3. TopsHold(capacity, top, Start)
  BY <1>2, Bases DEF TopsHold, Arenas
<1>4. /\ TypesHold(Blank, Start) /\ FramesHold(Blank, capacity, Start)
      /\ ScratchHold(Blank, capacity, Start, 0) /\ OutputsHold(Blank, Start)
  BY <1>2 DEF TypesHold, FramesHold, ScratchHold, OutputsHold
<1>5. Blank \in Contents
  BY DEF Blank, Contents, Values
<1> QED
  BY <1>1, <1>3, <1>4, <1>5 DEF Holds

(* CreateBuffers.                                                          *)
LEMMA CreateBuffersInv ==
    ASSUME IInv, NEW outcome, CreateBuffers(outcome)
    PROVE  IInv'
<1>1. host.at = "start" /\ UNCHANGED <<options, dev>>
  BY DEF CreateBuffers
<1>2. live \subseteq Held(host) /\ host \in HostRecords
  BY <1>1, LiveIsHeld
<1>3. CASE Settle(host, live, Thrown) /\ UNCHANGED memory
  BY <1>1, <1>2, <1>3, Failures, Settling
<1>4. CASE Fallback(host, live) /\ UNCHANGED memory
  <2>1. Held(host) = {NoBuffer} /\ host.expanded = NoBuffer /\ live = {}
    BY <1>1 DEF IInv, BuffersOK, Bare
  <2> QED
    BY <1>1, <1>2, <1>4, <2>1, FallingBack
<1>5. CASE /\ Fits(options.capacity)
           /\ host' = [host EXCEPT !.at = "create readback", !.metadata = Metadata,
                          !.workspace = Workspace(0), !.output = Output(0), !.state = StateBuffer]
           /\ live' = {Metadata, Workspace(0), Output(0), StateBuffer}
           /\ memory' = [b \in {Workspace(0), Output(0)} |-> Blank]
  <2>1. /\ host' \in HostRecords /\ host'.at = "create readback"
        /\ host'.metadata = Metadata /\ host'.workspace = Workspace(0) /\ host'.output = Output(0)
        /\ host'.state = StateBuffer /\ host'.readback = host.readback
        /\ host'.outputReadback = host.outputReadback /\ host'.expanded = host.expanded
        /\ host'.capacity = host.capacity /\ host'.previousSemantic = host.previousSemantic
        /\ host'.previousTransitions = host.previousTransitions
    BY <1>2, <1>5, ZenonT(40) DEF HostRecords, Places, Buffers
  <2>2. Records'
    BY <1>1, <2>1 DEF IInv, Records
  <2>3. CountersOK'
    <3>1. SemanticOK' /\ StatusOK'
      BY <1>1, <2>1 DEF IInv, CountersOK, SemanticOK, StatusOK
    <3>2. FuelOK'
      BY <1>1, <2>1 DEF IInv, CountersOK, FuelOK, Spent
    <3>3. PlaceOK'
      BY <1>1, <2>1 DEF IInv, CountersOK, PlaceOK, Looping, Running, Places, Bare
    <3> QED
      BY <3>1, <3>2, <3>3 DEF CountersOK
  <2>4. BuffersOK'
    <3>1. host.readback = NoBuffer /\ host.outputReadback = NoBuffer /\ host.expanded = NoBuffer
      BY <1>1 DEF IInv, BuffersOK, Bare, Held
    <3>2. /\ Workspace(0) # NoBuffer /\ Output(0) # NoBuffer /\ Metadata # NoBuffer /\ StateBuffer # NoBuffer
      BY BuffersDiffer
    <3>3. live' = (Held(host') \cup {host'.expanded}) \ {NoBuffer}
      BY <1>5, <2>1, <3>1, <3>2 DEF Held
    <3> QED
      BY <2>1, <3>1, <3>3 DEF BuffersOK, Bare, Built, Looping, Running
  <2>5. MemoryOK'
    <3>1. dev.capacity = host.capacity /\ host.capacity = options.capacity /\ Performed = 0
          /\ \A a \in Arenas : dev.top[a] = 0
      BY <1>1 DEF IInv, MemoryOK, Bare
    <3>2. Performed' = 0
      BY <1>1, <3>1 DEF Performed
    <3>3. dev.top \in Capacities /\ host.capacity \in Capacities
      BY DEF IInv, Records, DeviceRecords, HostRecords
    <3>4. Within(host.capacity)
      <4>1. options.words \in 0 .. MaximumWords /\ options.outputs \in 0 .. MaximumWords
        BY InferenceAssumption DEF InferenceAssumption, IInv, Records
      <4>2. WorkspaceWords(host.capacity) \in Nat /\ host.capacity["output"] \in Nat
        BY <3>3, Bases
      <4>3. WorkspaceWords(host.capacity) <= options.words /\ host.capacity["output"] <= options.outputs
        BY <1>5, <3>1 DEF Fits
      <4>4. WorkspaceWords(host.capacity) <= MaximumWords /\ host.capacity["output"] <= MaximumWords
        BY <4>1, <4>2, <4>3, WordsAre
      <4> QED
        BY <4>4 DEF Within
    <3>5. Holds(Blank, Blank, host.capacity, dev.top, 0)
      BY <3>1, <3>3, <3>4, BlankHolds
    <3>6. memory'[host'.workspace] = Blank /\ memory'[host'.output] = Blank
          /\ {host'.workspace, host'.output} \subseteq DOMAIN memory'
      BY <1>5, <2>1
    <3> QED
      BY <1>1, <2>1, <3>1, <3>2, <3>5, <3>6 DEF MemoryOK, Bare, Built, Looping, Running
  <2>6. ResultOK'
    BY <2>1 DEF ResultOK
  <2> QED
    BY <2>2, <2>3, <2>4, <2>5, <2>6 DEF IInv
<1> QED
  BY <1>3, <1>4, <1>5 DEF CreateBuffers

(* Steps that leave the buffers and the arenas alone.                      *)
Keeps ==
    /\ host'.metadata = host.metadata /\ host'.workspace = host.workspace /\ host'.output = host.output
    /\ host'.state = host.state /\ host'.readback = host.readback
    /\ host'.outputReadback = host.outputReadback /\ host'.expanded = host.expanded
    /\ host'.bound = host.bound /\ host'.capacity = host.capacity
    /\ live' = live /\ memory' = memory
    /\ dev'.capacity = dev.capacity /\ dev'.top = dev.top /\ Performed' = Performed

(* They keep the invariants of both while the loop runs.                   *)
LEMMA Keeping ==
    ASSUME IInv, Keeps, host.at \in Looping, host.at # "rebind",
           host'.at \in Looping, host'.at # "rebind", host'.at # "read" \/ (host' = host /\ options' = options)
    PROVE  BuffersOK' /\ MemoryOK' /\ ResultOK'
<1>1. host.at # "settled" /\ host'.at # "settled" /\ host.at \in Built /\ host'.at \in Built
      /\ host'.at \notin {"start", "create readback", "bind"} /\ host'.at \notin Bare
      /\ host.at # "create readback"
  BY DEF Built, Looping, Running, Bare
<1>2. BuffersOK'
  <2>1. Held(host') = Held(host)
    BY DEF Keeps, Held
  <2> QED
    BY <1>1, <2>1 DEF IInv, BuffersOK, Keeps
<1>3. MemoryOK'
  <2>1. /\ {host.workspace, host.output} \subseteq DOMAIN memory
        /\ Holds(memory[host.workspace], memory[host.output], host.capacity, dev.top, Performed)
    BY <1>1 DEF IInv, MemoryOK
  <2>2. /\ {host'.workspace, host'.output} \subseteq DOMAIN memory'
        /\ Holds(memory'[host'.workspace], memory'[host'.output], host'.capacity, dev'.top, Performed')
    BY <2>1 DEF Keeps
  <2>3. host'.at = "read" =>
          host'.copied = [i \in 1 .. MinOf(options'.readback, host'.capacity["output"]) |->
                            memory'[host'.output][i - 1]]
    BY DEF IInv, MemoryOK, Keeps
  <2> QED
    BY <1>1, <2>2, <2>3 DEF IInv, MemoryOK, Keeps
<1>4. ResultOK'
  BY <1>1 DEF ResultOK
<1> QED
  BY <1>2, <1>3, <1>4

(* CreateReadback.                                                         *)
LEMMA CreateReadbackInv ==
    ASSUME IInv, NEW outcome \in Outcomes, CreateReadback(outcome)
    PROVE  IInv'
<1>1. host.at = "create readback" /\ UNCHANGED <<options, dev, memory>>
  BY DEF CreateReadback
<1>2. live \subseteq Held(host) /\ host \in HostRecords
  BY <1>1, LiveIsHeld
<1>3. CASE Settle(host, live, Thrown)
  BY <1>1, <1>2, <1>3, Failures, Settling
<1>4. CASE Fallback([host EXCEPT !.metadata = NoBuffer, !.workspace = NoBuffer,
                                 !.output = NoBuffer, !.state = NoBuffer], live \ Held(host))
  <2> DEFINE h == [host EXCEPT !.metadata = NoBuffer, !.workspace = NoBuffer,
                               !.output = NoBuffer, !.state = NoBuffer]
  <2>1. h \in HostRecords /\ h.capacity = host.capacity /\ h.previousSemantic = host.previousSemantic
        /\ h.previousTransitions = host.previousTransitions /\ h.expanded = host.expanded
    BY <1>2 DEF HostRecords, Buffers
  <2>2. host.readback = NoBuffer /\ host.outputReadback = NoBuffer /\ host.expanded = NoBuffer
    BY <1>1 DEF IInv, BuffersOK
  <2>3. Held(h) = {NoBuffer}
    BY <1>2, <2>2 DEF Held, HostRecords
  <2>4. live \ Held(host) = {}
    BY <1>2
  <2>5. Fallback(h, {})
    BY <1>4, <2>4
  <2> HIDE DEF h
  <2> QED
    BY <1>1, <2>1, <2>2, <2>3, <2>5, FallingBack
<1>5. CASE host' = [host EXCEPT !.at = "bind", !.readback = Readback] /\ live' = live \cup {Readback}
  <2>1. /\ host' \in HostRecords /\ host'.at = "bind" /\ host'.readback = Readback
        /\ host'.metadata = host.metadata /\ host'.workspace = host.workspace /\ host'.output = host.output
        /\ host'.state = host.state /\ host'.outputReadback = host.outputReadback
        /\ host'.expanded = host.expanded /\ host'.capacity = host.capacity
        /\ host'.previousSemantic = host.previousSemantic
        /\ host'.previousTransitions = host.previousTransitions
    BY <1>2, <1>5 DEF HostRecords, Places, Buffers
  <2>2. Records'
    BY <1>1, <2>1 DEF IInv, Records
  <2>3. CountersOK'
    <3>1. SemanticOK' /\ StatusOK'
      BY <1>1, <2>1 DEF IInv, CountersOK, SemanticOK, StatusOK
    <3>2. FuelOK'
      BY <1>1, <2>1 DEF IInv, CountersOK, FuelOK, Spent
    <3>3. PlaceOK'
      BY <1>1, <2>1 DEF IInv, CountersOK, PlaceOK, Looping, Running, Places, Bare
    <3> QED
      BY <3>1, <3>2, <3>3 DEF CountersOK
  <2>4. BuffersOK'
    <3>1. /\ live = (Held(host) \cup {host.expanded}) \ {NoBuffer}
          /\ host.readback = NoBuffer /\ host.outputReadback = NoBuffer /\ host.expanded = NoBuffer
          /\ host.metadata = Metadata /\ host.state = StateBuffer
          /\ (\E k \in {0, 1} : host.workspace = Workspace(k)) /\ (\E k \in {0, 1} : host.output = Output(k))
      BY <1>1 DEF IInv, BuffersOK, Built
    <3>2. Readback # NoBuffer
      BY BuffersDiffer
    <3>3. live' = (Held(host') \cup {host'.expanded}) \ {NoBuffer}
      BY <1>5, <2>1, <3>1, <3>2 DEF Held
    <3> QED
      BY <2>1, <3>1, <3>3 DEF BuffersOK, Bare, Built, Looping, Running
  <2>5. MemoryOK'
    <3>1. Performed' = Performed
      BY <1>1 DEF Performed
    <3>2. /\ {host.workspace, host.output} \subseteq DOMAIN memory
          /\ Holds(memory[host.workspace], memory[host.output], host.capacity, dev.top, Performed)
          /\ Performed = 0 /\ dev.capacity = host.capacity
      BY <1>1 DEF IInv, MemoryOK, Built
    <3> QED
      BY <1>1, <2>1, <3>1, <3>2 DEF MemoryOK, Bare, Built, Looping, Running
  <2>6. ResultOK'
    BY <2>1 DEF ResultOK
  <2> QED
    BY <2>2, <2>3, <2>4, <2>5, <2>6 DEF IInv
<1> QED
  BY <1>3, <1>4, <1>5 DEF CreateReadback, Outcomes

(* Bind.                                                                   *)
LEMMA BindInv ==
    ASSUME IInv, NEW outcome, Bind(outcome)
    PROVE  IInv'
<1>1. host.at = "bind" /\ UNCHANGED <<options, dev, memory>>
  BY DEF Bind
<1>2. live \subseteq Held(host) /\ host \in HostRecords
  BY <1>1, LiveIsHeld
<1>3. CASE Settle(host, live, Thrown)
  BY <1>1, <1>2, <1>3, Failures, Settling
<1>4. CASE host' = [host EXCEPT !.at = "loop", !.bound = {host.workspace, host.output}] /\ live' = live
  <2>1. /\ host' \in HostRecords /\ host'.at = "loop" /\ host'.readback = host.readback
        /\ host'.metadata = host.metadata /\ host'.workspace = host.workspace /\ host'.output = host.output
        /\ host'.state = host.state /\ host'.outputReadback = host.outputReadback
        /\ host'.expanded = host.expanded /\ host'.capacity = host.capacity
        /\ host'.bound = {host.workspace, host.output}
        /\ host'.previousSemantic = host.previousSemantic
        /\ host'.previousTransitions = host.previousTransitions
    BY <1>2, <1>4 DEF HostRecords, Places, Looping
  <2>2. Records'
    BY <1>1, <2>1 DEF IInv, Records
  <2>3. CountersOK'
    <3>1. SemanticOK' /\ StatusOK'
      BY <1>1, <2>1 DEF IInv, CountersOK, SemanticOK, StatusOK
    <3>2. FuelOK'
      BY <1>1, <2>1 DEF IInv, CountersOK, FuelOK, Spent
    <3>3. PlaceOK'
      <4>1. /\ dev.semantic = "pending" /\ dev.semanticSteps = 0 /\ host.previousSemantic = 0
            /\ dev.status = "uninitialized" /\ dev.transitions = 0 /\ host.previousTransitions = 0
        BY <1>1 DEF IInv, CountersOK, PlaceOK, SemanticOK, StatusOK, Looping, Running, Places, Bare
      <4> QED
        BY <1>1, <2>1, <4>1 DEF PlaceOK, Looping
    <3> QED
      BY <3>1, <3>2, <3>3 DEF CountersOK
  <2>4. BuffersOK'
    <3>1. Held(host') = Held(host)
      BY <2>1 DEF Held
    <3> QED
      BY <1>1, <1>4, <2>1, <3>1 DEF IInv, BuffersOK, Bare, Built, Looping, Running
  <2>5. MemoryOK'
    <3>1. Performed' = Performed
      BY <1>1 DEF Performed
    <3>2. /\ {host.workspace, host.output} \subseteq DOMAIN memory
          /\ Holds(memory[host.workspace], memory[host.output], host.capacity, dev.top, Performed)
          /\ dev.capacity = host.capacity
      BY <1>1 DEF IInv, MemoryOK, Built
    <3> QED
      BY <1>1, <2>1, <3>1, <3>2 DEF MemoryOK, Bare, Built, Looping, Running
  <2>6. ResultOK'
    BY <2>1 DEF ResultOK
  <2> QED
    BY <2>2, <2>3, <2>4, <2>5, <2>6 DEF IInv
<1> QED
  BY <1>3, <1>4 DEF Bind

(* Out of fuel is right when all of it is spent and something is left to   *)
(* be done.                                                                *)
LEMMA OutOfFuelIsRight ==
    ASSUME Records, CountersOK, dev.status \in {"uninitialized", "pending"} ,
           NEW steps, steps = options.maximumSteps, Spent = options.maximumSteps
    PROVE  OutOfFuel(steps) \in Results /\ Right(OutOfFuel(steps))
<1>1. <<>> \in Seq(Values)
  BY EmptySeq
<1>2. SemanticSteps + Len(Trace) + 1 > options.maximumSteps
  <2>1. dev.semanticSteps <= SemanticSteps /\ dev.transitions <= Len(Trace)
    <3>1. dev.semanticSteps <= SemanticSteps
      BY DEF CountersOK, SemanticOK
    <3>2. dev.transitions = 0 \/ dev.transitions <= Len(Trace)
      BY DEF CountersOK, StatusOK
    <3>3. Len(Trace) \in Nat
      BY Numbers
    <3> QED
      BY <3>1, <3>2, <3>3
  <2>2. dev.semanticSteps + dev.transitions = options.maximumSteps
    BY DEF Spent
  <2> QED
    BY <2>1, <2>2, Numbers
<1>3. steps \in Int
  BY Numbers
<1> QED
  BY <1>1, <1>2, <1>3 DEF OutOfFuel, Results, Right

(* Dispatch.                                                               *)
LEMMA DispatchInv ==
    ASSUME IInv, Dispatch
    PROVE  IInv'
<1>1. host.at = "loop" /\ UNCHANGED <<options, memory>>
  BY DEF Dispatch
<1>2. live \subseteq Held(host) /\ host \in HostRecords /\ Records
  BY <1>1, LiveIsHeld DEF IInv
<1>3. /\ dev.semantic # "step limit" /\ dev.status \in {"uninitialized", "pending"}
      /\ host.previousSemantic = dev.semanticSteps /\ host.previousTransitions = dev.transitions
  BY <1>1 DEF IInv, CountersOK, PlaceOK
<1> DEFINE remaining == options.maximumSteps - host.previousSemantic - host.previousTransitions
<1>4. CASE Settle(host, live, Thrown) /\ UNCHANGED dev
  BY <1>1, <1>2, <1>4, Failures, Settling
<1>5. CASE /\ remaining = 0
           /\ Settle(host, live, OutOfFuel(host.previousSemantic + host.previousTransitions)) /\ UNCHANGED dev
  <2> DEFINE steps == host.previousSemantic + host.previousTransitions
  <2>1. steps = options.maximumSteps /\ Spent = options.maximumSteps
    <3>1. host.previousSemantic \in Int /\ host.previousTransitions \in Int /\ options.maximumSteps \in Nat
      BY <1>2, Numbers
    <3>2. options.maximumSteps - host.previousSemantic - host.previousTransitions = 0
      BY <1>5
    <3>3. steps = options.maximumSteps
      BY <3>1, <3>2
    <3>4. Spent = steps
      BY <1>3 DEF Spent
    <3> QED
      BY <3>3, <3>4
  <2> HIDE DEF steps
  <2>2. OutOfFuel(steps) \in Results /\ Right(OutOfFuel(steps))
    BY <1>2, <1>3, <2>1, OutOfFuelIsRight DEF IInv
  <2> QED
    BY <1>1, <1>2, <1>5, <2>2, Settling DEF steps
<1>6. CASE /\ host' = [host EXCEPT !.at = "running semantic",
                          !.quantum = MinOf(options.maximumStepsPerDispatch, remaining)]
           /\ dev' = [dev EXCEPT !.left = options.maximumStepsPerDispatch]
           /\ UNCHANGED live
  <2>1. MinOf(options.maximumStepsPerDispatch, remaining) \in Int
    <3>1. /\ options.maximumSteps \in Nat /\ options.maximumStepsPerDispatch \in Nat
          /\ host.previousSemantic \in Int /\ host.previousTransitions \in Int
      BY <1>2, Numbers
    <3> QED
      BY <3>1 DEF MinOf
  <2> HIDE DEF remaining
  <2>2. /\ host' \in HostRecords /\ host'.at = "running semantic" /\ host'.readback = host.readback
        /\ host'.metadata = host.metadata /\ host'.workspace = host.workspace /\ host'.output = host.output
        /\ host'.state = host.state /\ host'.outputReadback = host.outputReadback
        /\ host'.expanded = host.expanded /\ host'.capacity = host.capacity /\ host'.bound = host.bound
        /\ host'.previousTransitions = host.previousTransitions
    BY <1>2, <1>6, <2>1 DEF HostRecords, Places, Looping, Running
  <2>3. /\ dev' \in DeviceRecords /\ dev'.semantic = dev.semantic /\ dev'.semanticSteps = dev.semanticSteps
        /\ dev'.status = dev.status /\ dev'.transitions = dev.transitions /\ dev'.code = dev.code
        /\ dev'.detail = dev.detail /\ dev'.top = dev.top /\ dev'.capacity = dev.capacity
    BY <1>2, <1>6, Numbers DEF Records, DeviceRecords
  <2>4. Records'
    BY <1>1, <1>2, <2>2, <2>3 DEF Records
  <2>5. CountersOK'
    <3>1. SemanticOK' /\ StatusOK'
      BY <1>1, <2>2, <2>3 DEF IInv, CountersOK, SemanticOK, StatusOK
    <3>2. FuelOK'
      BY <1>1, <2>2, <2>3 DEF IInv, CountersOK, FuelOK, Spent
    <3>3. PlaceOK'
      BY <2>2 DEF PlaceOK, Looping, Running
    <3> QED
      BY <3>1, <3>2, <3>3 DEF CountersOK
  <2>6. Keeps
    BY <1>1, <1>6, <2>2, <2>3 DEF Keeps, Performed
  <2>7. BuffersOK' /\ MemoryOK' /\ ResultOK'
    BY <1>1, <2>2, <2>6, Keeping DEF Looping, Running
  <2> QED
    BY <2>4, <2>5, <2>7 DEF IInv
<1> QED
  BY <1>4, <1>5, <1>6 DEF Dispatch

(* SemanticStep.                                                           *)
LEMMA SemanticStepInv ==
    ASSUME IInv, SemanticStep
    PROVE  IInv'
<1>1. /\ host.at = "running semantic" /\ UNCHANGED <<options, host, memory, live>>
      /\ dev.semantic = "pending" /\ dev.semanticSteps < options.maximumSteps /\ dev.left > 0
      /\ dev' = [dev EXCEPT !.semanticSteps = @ + 1, !.left = @ - 1,
                    !.semantic = IF dev.semanticSteps + 1 = SemanticSteps THEN "ok" ELSE @]
  BY DEF SemanticStep, SemanticGoesOn
<1>2. Records
  BY DEF IInv
<1> DEFINE next == dev.semanticSteps + 1
<1>3. dev.left - 1 \in Nat /\ next \in Nat
  <2>1. dev.left \in Nat /\ dev.left > 0 /\ dev.semanticSteps \in Nat
    BY <1>1, <1>2, Numbers
  <2> QED
    BY <2>1
<1>4. /\ dev' \in DeviceRecords /\ dev'.semanticSteps = next
      /\ dev'.semantic = (IF next = SemanticSteps THEN "ok" ELSE "pending")
      /\ dev'.status = dev.status /\ dev'.transitions = dev.transitions /\ dev'.code = dev.code
      /\ dev'.detail = dev.detail /\ dev'.top = dev.top /\ dev'.capacity = dev.capacity
  BY <1>1, <1>2, <1>3 DEF Records, DeviceRecords
<1>5. Records'
  BY <1>1, <1>2, <1>4 DEF Records
<1>6. /\ dev.semanticSteps < SemanticSteps /\ dev.status = "uninitialized"
      /\ host.previousTransitions = 0 /\ dev.transitions = 0
  BY <1>1 DEF IInv, CountersOK, SemanticOK, StatusOK
<1>7. CountersOK'
  <2>1. /\ next <= SemanticSteps /\ next <= options.maximumSteps
        /\ (next # SemanticSteps => next < SemanticSteps)
    <3>1. /\ dev.semanticSteps \in Nat /\ SemanticSteps \in Nat /\ options.maximumSteps \in Nat
          /\ dev.semanticSteps < SemanticSteps /\ dev.semanticSteps < options.maximumSteps
      BY <1>1, <1>2, <1>6, Numbers
    <3> QED
      BY <3>1
  <2> HIDE DEF next
  <2>2. SemanticOK'
    <3>1. dev'.semanticSteps <= SemanticSteps /\ dev'.semanticSteps <= options'.maximumSteps
      BY <1>1, <1>4, <2>1
    <3>2. dev'.semantic = "ok" => dev'.semanticSteps = SemanticSteps
      BY <1>4
    <3>3. dev'.semantic # "ok" => dev'.semanticSteps < SemanticSteps
      BY <1>4, <2>1
    <3>4. dev'.status = "uninitialized"
      BY <1>4, <1>6
    <3>5. host'.previousTransitions = 0
      BY <1>1, <1>6
    <3>6. dev'.semantic # "step limit"
      BY <1>4
    <3> QED
      BY <3>1, <3>2, <3>3, <3>4, <3>5, <3>6 DEF SemanticOK
  <2>3. StatusOK'
    BY <1>4, <1>6 DEF StatusOK
  <2>4. FuelOK'
    <3>1. Spent' = next
      <4>1. next + 0 = next
        BY <1>3
      <4> QED
        BY <1>4, <1>6, <4>1 DEF Spent
    <3> QED
      BY <1>1, <2>1, <3>1 DEF FuelOK
  <2>5. PlaceOK'
    BY <1>1 DEF PlaceOK, Looping, Running
  <2> QED
    BY <2>2, <2>3, <2>4, <2>5 DEF CountersOK
<1>8. Keeps
  BY <1>1, <1>4, <1>6 DEF Keeps, Performed
<1>9. BuffersOK' /\ MemoryOK' /\ ResultOK'
  BY <1>1, <1>8, Keeping DEF Looping, Running
<1> QED
  BY <1>5, <1>7, <1>9 DEF IInv

(* SemanticPassEnds.                                                       *)
LEMMA SemanticPassEndsInv ==
    ASSUME IInv, SemanticPassEnds
    PROVE  IInv'
<1>1. /\ host.at = "running semantic" /\ UNCHANGED <<options, memory, live>>
      /\ host' = [host EXCEPT !.at = "running prologue"]
  BY DEF SemanticPassEnds
<1>2. Records
  BY DEF IInv
<1>3. /\ host' \in HostRecords /\ host'.at = "running prologue" /\ host'.readback = host.readback
      /\ host'.metadata = host.metadata /\ host'.workspace = host.workspace /\ host'.output = host.output
      /\ host'.state = host.state /\ host'.outputReadback = host.outputReadback
      /\ host'.expanded = host.expanded /\ host'.capacity = host.capacity /\ host'.bound = host.bound
      /\ host'.previousTransitions = host.previousTransitions
  BY <1>1, <1>2 DEF Records, HostRecords, Places, Looping, Running
<1>4. /\ dev' \in DeviceRecords /\ dev'.semanticSteps = dev.semanticSteps
      /\ dev'.status = dev.status /\ dev'.transitions = dev.transitions /\ dev'.code = dev.code
      /\ dev'.detail = dev.detail /\ dev'.top = dev.top /\ dev'.capacity = dev.capacity
      /\ \/ dev'.semantic = dev.semantic
         \/ dev.semantic = "pending" /\ dev'.semantic = "step limit" /\ dev.semanticSteps >= options.maximumSteps
  BY <1>2 DEF SemanticPassEnds, Records, DeviceRecords
<1>5. Records'
  BY <1>1, <1>2, <1>3, <1>4 DEF Records
<1>6. CountersOK'
  <2>1. dev.semanticSteps >= options.maximumSteps => dev.semanticSteps = options.maximumSteps
    <3>1. dev.semanticSteps <= options.maximumSteps
      BY DEF IInv, CountersOK, SemanticOK
    <3> QED
      BY <1>2, <3>1, Numbers
  <2>2. SemanticOK'
    BY <1>1, <1>3, <1>4, <2>1 DEF IInv, CountersOK, SemanticOK
  <2>3. StatusOK'
    BY <1>4 DEF IInv, CountersOK, StatusOK
  <2>4. FuelOK'
    BY <1>1, <1>3, <1>4 DEF IInv, CountersOK, FuelOK, Spent
  <2>5. PlaceOK'
    BY <1>3 DEF PlaceOK, Looping, Running
  <2> QED
    BY <2>2, <2>3, <2>4, <2>5 DEF CountersOK
<1>7. Keeps
  BY <1>1, <1>3, <1>4 DEF Keeps, Performed
<1>8. BuffersOK' /\ MemoryOK' /\ ResultOK'
  BY <1>1, <1>3, <1>7, Keeping DEF Looping, Running
<1> QED
  BY <1>5, <1>6, <1>8 DEF IInv

(* InferLaneBegins.                                                        *)
LEMMA InferLaneBeginsInv ==
    ASSUME IInv, InferLaneBegins
    PROVE  IInv'
<1> DEFINE quantum == options.maximumStepsPerDispatch
<1> DEFINE used == dev.semanticSteps - dev.previousSemantic
<1> DEFINE nothing == \/ dev.semantic # "ok" \/ used >= quantum
                      \/ dev.semanticSteps + dev.transitions >= options.maximumSteps
<1> DEFINE limit == IF nothing THEN 0
                    ELSE MinOf(quantum - used, options.maximumSteps - (dev.semanticSteps + dev.transitions))
<1>1. /\ host.at = "running prologue" /\ UNCHANGED <<options, memory, live>>
      /\ host' = [host EXCEPT !.at = "running inference"]
      /\ dev' = [dev EXCEPT !.previousSemantic = dev.semanticSteps, !.left = limit,
                     !.status = IF limit > 0 /\ @ = "uninitialized" THEN "pending" ELSE @]
  BY DEF InferLaneBegins
<1>2. Records
  BY DEF IInv
<1>3. limit \in Nat /\ limit + Spent <= options.maximumSteps /\ (limit > 0 => dev.semantic = "ok")
  <2>1. /\ dev.semanticSteps \in Nat /\ dev.transitions \in Nat /\ dev.previousSemantic \in Int
        /\ options.maximumSteps \in Nat /\ options.maximumStepsPerDispatch \in Nat
    BY <1>2, Numbers
  <2>2. dev.semanticSteps + dev.transitions <= options.maximumSteps
    BY DEF IInv, CountersOK, FuelOK, Spent
  <2>3. CASE nothing
    <3>1. limit = 0
      BY <2>3
    <3>2. 0 + (dev.semanticSteps + dev.transitions) <= options.maximumSteps
      BY <2>1, <2>2
    <3> HIDE DEF limit
    <3> QED
      BY <3>1, <3>2 DEF Spent
  <2>4. CASE ~nothing
    <3> DEFINE spent == dev.semanticSteps + dev.transitions
    <3>1. used \in Int /\ ~(used >= quantum) /\ spent \in Nat /\ ~(spent >= options.maximumSteps)
      BY <2>1, <2>4
    <3>2. limit = MinOf(quantum - used, options.maximumSteps - spent) /\ dev.semantic = "ok"
      BY <2>4
    <3>3. spent = Spent
      BY DEF Spent
    <3> HIDE DEF limit, used, spent, nothing
    <3>4. limit \in Nat /\ limit + spent <= options.maximumSteps
      BY <2>1, <3>1, <3>2 DEF MinOf
    <3> QED
      BY <3>2, <3>3, <3>4
  <2> QED
    BY <2>3, <2>4
<1> HIDE DEF limit
<1>4. /\ host' \in HostRecords /\ host'.at = "running inference" /\ host'.readback = host.readback
      /\ host'.metadata = host.metadata /\ host'.workspace = host.workspace /\ host'.output = host.output
      /\ host'.state = host.state /\ host'.outputReadback = host.outputReadback
      /\ host'.expanded = host.expanded /\ host'.capacity = host.capacity /\ host'.bound = host.bound
      /\ host'.previousTransitions = host.previousTransitions
  BY <1>1, <1>2 DEF Records, HostRecords, Places, Looping, Running
<1>5. /\ dev' \in DeviceRecords /\ dev'.semanticSteps = dev.semanticSteps /\ dev'.semantic = dev.semantic
      /\ dev'.transitions = dev.transitions /\ dev'.code = dev.code /\ dev'.left = limit
      /\ dev'.detail = dev.detail /\ dev'.top = dev.top /\ dev'.capacity = dev.capacity
      /\ \/ dev'.status = dev.status
         \/ dev.status = "uninitialized" /\ dev'.status = "pending" /\ dev.semantic = "ok"
  <2>1. dev.semanticSteps \in Int
    BY <1>2, Numbers
  <2> QED
    BY <1>1, <1>2, <1>3, <2>1 DEF Records, DeviceRecords
<1>6. Records'
  BY <1>1, <1>2, <1>4, <1>5 DEF Records
<1>7. CountersOK'
  <2>1. SemanticOK'
    BY <1>1, <1>4, <1>5 DEF IInv, CountersOK, SemanticOK
  <2>2. StatusOK'
    <3>1. Len(Trace) \in Nat /\ 0 <= Len(Trace)
      BY <1>2, Numbers
    <3> QED
      BY <1>5, <3>1 DEF IInv, CountersOK, StatusOK
  <2>3. FuelOK'
    <3>1. Spent' = Spent /\ Spent <= options.maximumSteps
      BY <1>5 DEF IInv, CountersOK, FuelOK, Spent
    <3> QED
      BY <1>1, <1>3, <1>5, <3>1 DEF FuelOK
  <2>4. PlaceOK'
    BY <1>4 DEF PlaceOK, Looping, Running
  <2> QED
    BY <2>1, <2>2, <2>3, <2>4 DEF CountersOK
<1>8. Keeps
  <2>1. Performed' = Performed
    BY <1>5 DEF Performed
  <2> QED
    BY <1>1, <1>4, <1>5, <2>1 DEF Keeps
<1>9. BuffersOK' /\ MemoryOK' /\ ResultOK'
  BY <1>1, <1>4, <1>8, Keeping DEF Looping, Running
<1> QED
  BY <1>6, <1>7, <1>9 DEF IInv

(* The requirement that is reported is one of an arena.                    *)
LEMMA FirstLackingFacts ==
    ASSUME Records, NEW n \in 1 .. Len(Trace), NEW op, op = Trace[n], Lacking(op)
    PROVE  FirstLacking(op).arena \in Arenas /\ FirstLacking(op).top \in Nat
<1> DEFINE R == Required(op)
<1> DEFINE P(i) == i \in 1 .. Len(R) /\ Exceeds(R[i]) /\ \A j \in 1 .. i - 1 : ~Exceeds(R[j])
<1>1. op.kind \in {"types", "push", "pop", "scratch", "out"} /\ op.n \in Nat /\ op.at \in Nat
  BY Transitions
<1>2. \A a \in Arenas : dev.top[a] \in Nat
  BY DEF Records, DeviceRecords, Capacities
<1>3. dev.top["type"] + op.n \in Nat /\ dev.top["frame"] + 1 \in Nat /\ op.at + 1 \in Nat
      /\ dev.top["output"] + 1 \in Nat
  <2>1. dev.top["type"] \in Nat /\ dev.top["frame"] \in Nat /\ dev.top["output"] \in Nat
    BY <1>2 DEF Arenas
  <2>2. op.n \in Nat /\ op.at \in Nat
    BY <1>1
  <2>3. \A x, y \in Nat : x + y \in Nat /\ x + 1 \in Nat
    OBVIOUS
  <2> QED
    BY <2>1, <2>2, <2>3
<1>4. \A i \in 1 .. Len(R) : R[i].arena \in Arenas /\ R[i].top \in Nat
  BY <1>1, <1>3 DEF Required, Arenas
<1>5. PICK i \in 1 .. Len(R) : Exceeds(R[i])
  BY DEF Lacking
<1>6. Len(R) \in 0 .. 2
  BY <1>1 DEF Required
<1> HIDE DEF R
<1>7. \E k : P(k)
  <2>1. CASE Exceeds(R[1])
    <3>1. P(1)
      BY <1>5, <1>6, <2>1
    <3> QED
      BY <3>1
  <2>2. CASE ~Exceeds(R[1])
    <3>1. i = 2
      BY <1>5, <1>6, <2>2
    <3>2. \A j \in 1 .. 2 - 1 : j = 1
      OBVIOUS
    <3>3. P(2)
      BY <1>5, <2>2, <3>1, <3>2
    <3> QED
      BY <3>3
  <2> QED
    BY <2>1, <2>2
<1>8. P(CHOOSE k : P(k))
  BY <1>7
<1>9. FirstLacking(op) = R[CHOOSE k \in 1 .. Len(R) : Exceeds(R[k]) /\ \A j \in 1 .. k - 1 : ~Exceeds(R[j])]
  BY DEF FirstLacking, R
<1>10. \E k \in 1 .. Len(R) : FirstLacking(op) = R[k]
  BY <1>7, <1>9
<1> QED
  BY <1>4, <1>10

(* What every transition does to the counters.                             *)
Counts ==
    /\ host.at = "running inference" /\ dev.status = "pending" /\ dev.left > 0
    /\ UNCHANGED <<options, host, live>>
    /\ dev' \in DeviceRecords
    /\ dev'.transitions = dev.transitions + 1 /\ dev'.left = dev.left - 1
    /\ dev'.semantic = dev.semantic /\ dev'.semanticSteps = dev.semanticSteps
    /\ dev'.capacity = dev.capacity

(* Counters after a transition that leaves its status right.               *)
LEMMA Counting ==
    ASSUME IInv, Counts, StatusOK', dev'.status # "uninitialized"
    PROVE  Records' /\ CountersOK'
<1>1. Records
  BY DEF IInv
<1>2. Records'
  BY <1>1 DEF Counts, Records
<1>3. dev.semantic = "ok" /\ dev.semanticSteps = SemanticSteps
  BY DEF IInv, CountersOK, SemanticOK, Counts
<1>4. SemanticOK'
  <2>1. dev'.semantic = "ok" /\ dev'.semanticSteps = SemanticSteps /\ UNCHANGED options
    BY <1>3 DEF Counts
  <2>2. dev.semanticSteps <= SemanticSteps /\ dev.semanticSteps <= options.maximumSteps
    BY DEF IInv, CountersOK, SemanticOK
  <2> QED
    BY <1>3, <2>1, <2>2 DEF SemanticOK
<1>5. FuelOK'
  <2>1. dev.left + (dev.semanticSteps + dev.transitions) <= options.maximumSteps
    BY DEF IInv, CountersOK, FuelOK, Spent, Counts
  <2>2. /\ dev.left \in Nat /\ dev.semanticSteps \in Nat /\ dev.transitions \in Nat
        /\ options.maximumSteps \in Nat
    BY <1>1, Numbers
  <2>3. dev.left > 0
    BY DEF Counts
  <2>4. /\ dev.semanticSteps + (dev.transitions + 1) <= options.maximumSteps
        /\ (dev.left - 1) + (dev.semanticSteps + (dev.transitions + 1)) <= options.maximumSteps
    BY <2>1, <2>2, <2>3
  <2> QED
    BY <2>4 DEF FuelOK, Spent, Counts
<1>6. PlaceOK'
  BY DEF PlaceOK, Looping, Running, Counts
<1> QED
  BY <1>2, <1>4, <1>5, <1>6 DEF CountersOK

(* Transition.                                                             *)
LEMMA TransitionInv ==
    ASSUME IInv, Transition
    PROVE  IInv'
<1> DEFINE next == dev.transitions + 1
<1> DEFINE op == Trace[next]
<1>1. /\ host.at = "running inference" /\ dev.status = "pending" /\ dev.left > 0
      /\ UNCHANGED <<options, host, live>>
  BY DEF Transition
<1>2. Records
  BY DEF IInv
<1>3. dev.left - 1 \in Nat /\ next \in Nat /\ next - 1 = dev.transitions /\ next # 0
  <2>1. dev.left \in Nat /\ dev.transitions \in Nat /\ dev.left > 0
    BY <1>1, <1>2, Numbers
  <2> QED
    BY <2>1
<1>4. dev.transitions <= Len(Trace) /\ Len(Trace) \in Nat /\ dev.transitions \in Nat
  BY <1>1, <1>2, Numbers DEF IInv, CountersOK, StatusOK
<1>5. Performed = dev.transitions
  BY <1>1 DEF Performed
<1>6. host.at \in Looping /\ host.at \in Built /\ host.at # "rebind"
  BY <1>1 DEF Looping, Running, Built
<1>7. CASE /\ next > Len(Trace)
           /\ dev' = [dev EXCEPT !.transitions = @ + 1, !.left = @ - 1, !.status = "complete"]
           /\ UNCHANGED memory
  <2>1. /\ Counts /\ dev'.status = "complete" /\ dev'.top = dev.top
    BY <1>1, <1>2, <1>3, <1>7 DEF Counts, Records, DeviceRecords
  <2>2. StatusOK'
    <3>1. next = Len(Trace) + 1
      BY <1>4, <1>7
    <3>2. dev'.transitions = Len(Trace) + 1
      BY <2>1, <3>1 DEF Counts
    <3> QED
      BY <2>1, <3>2 DEF StatusOK
  <2>3. Keeps
    <3>1. Performed' = dev'.transitions - 1
      BY <2>1 DEF Performed
    <3>2. Performed' = Performed
      BY <1>3, <1>5, <2>1, <3>1 DEF Counts
    <3> QED
      BY <1>1, <1>7, <2>1, <3>2 DEF Keeps, Counts
  <2>4. Records' /\ CountersOK'
    BY <2>1, <2>2, Counting
  <2>5. BuffersOK' /\ MemoryOK' /\ ResultOK'
    BY <1>1, <1>6, <2>3, Keeping
  <2> QED
    BY <2>4, <2>5 DEF IInv
<1>8. CASE /\ ~(next > Len(Trace)) /\ Lacking(op)
           /\ dev' = [dev EXCEPT !.transitions = @ + 1, !.left = @ - 1, !.status = "exhausted",
                         !.code = FirstLacking(op).arena, !.detail = FirstLacking(op).top]
           /\ UNCHANGED memory
  <2>0. next \in 1 .. Len(Trace)
    BY <1>3, <1>4, <1>8
  <2>1. FirstLacking(op).arena \in Arenas /\ FirstLacking(op).top \in Nat
    BY <1>2, <1>8, <2>0, FirstLackingFacts
  <2>2. /\ Counts /\ dev'.status = "exhausted" /\ dev'.top = dev.top
        /\ dev'.code \in Arenas /\ dev'.detail \in Nat
    <3> DEFINE lack == FirstLacking(op)
    <3>1. lack.arena \in Arenas /\ lack.top \in Nat
      BY <2>1
    <3>2. dev' = [dev EXCEPT !.transitions = @ + 1, !.left = @ - 1, !.status = "exhausted",
                         !.code = lack.arena, !.detail = lack.top]
      BY <1>8
    <3> DEFINE arena == lack.arena
    <3> DEFINE top == lack.top
    <3>3. /\ dev' = [dev EXCEPT !.transitions = next, !.left = dev.left - 1, !.status = "exhausted",
                         !.code = arena, !.detail = top]
          /\ arena \in Arenas /\ top \in Nat /\ top \in Int /\ dev \in DeviceRecords
      BY <1>2, <3>1, <3>2 DEF Records
    <3> HIDE DEF lack, arena, top, next
    <3>4. /\ dev' \in DeviceRecords /\ dev'.status = "exhausted" /\ dev'.top = dev.top
          /\ dev'.code = arena /\ dev'.detail = top /\ dev'.transitions = next
          /\ dev'.left = dev.left - 1 /\ dev'.semantic = dev.semantic
          /\ dev'.semanticSteps = dev.semanticSteps /\ dev'.capacity = dev.capacity
      BY <1>3, <3>3 DEF DeviceRecords
    <3>5. Counts
      BY <1>1, <3>4 DEF Counts, next
    <3> QED
      BY <3>3, <3>4, <3>5
  <2>3. StatusOK'
    <3>1. dev'.transitions \in 1 .. Len(Trace)
      BY <2>0, <2>2 DEF Counts
    <3> QED
      BY <2>2, <3>1 DEF StatusOK
  <2>4. Keeps
    <3>1. Performed' = dev'.transitions - 1
      BY <2>2 DEF Performed
    <3>2. Performed' = Performed
      BY <1>3, <1>5, <2>2, <3>1 DEF Counts
    <3> QED
      BY <1>1, <1>8, <2>2, <3>2 DEF Keeps, Counts
  <2>5. Records' /\ CountersOK'
    BY <2>2, <2>3, Counting
  <2>6. BuffersOK' /\ MemoryOK' /\ ResultOK'
    BY <1>1, <1>6, <2>4, Keeping
  <2> QED
    BY <2>5, <2>6 DEF IInv
<1>9. CASE /\ ~(next > Len(Trace)) /\ ~Lacking(op)
           /\ dev' = [dev EXCEPT !.transitions = @ + 1, !.left = @ - 1, !.top = NewTop(op)]
           /\ memory' = [b \in DOMAIN memory |->
                            CASE b = Bound("workspace") -> WorkspaceWrites(op)
                              [] b = Bound("output")    -> OutputWrites(op)
                              [] OTHER -> memory[b]]
  <2>0. next \in 1 .. Len(Trace)
    BY <1>3, <1>4, <1>9
  <2>1. /\ Bound("workspace") = host.workspace /\ Bound("output") = host.output
        /\ host.workspace # host.output
    BY <1>6, BoundBuffers DEF IInv
  <2>2. /\ {host.workspace, host.output} \subseteq DOMAIN memory
        /\ Holds(memory[host.workspace], memory[host.output], host.capacity, dev.top, Performed)
        /\ dev.capacity = host.capacity
    BY <1>6 DEF IInv, MemoryOK
  <2>3. Ready(op, next)
    <3>1. Holds(Memory0, Output0, dev.capacity, dev.top, next - 1)
      BY <1>3, <1>5, <2>1, <2>2 DEF Memory0, Output0
    <3> QED
      BY <1>2, <1>9, <2>0, <3>1 DEF Ready, Records
  <2>4. NewTop(op) \in Capacities /\ Holds(WorkspaceWrites(op), OutputWrites(op), dev.capacity, NewTop(op), next)
    <3>1. Advanced(op, next)
      <4> HIDE DEF op, next
      <4> QED
        BY <2>3, OneTransition
    <3> QED
      BY <3>1 DEF Advanced
  <2>5. /\ Counts /\ dev'.status = "pending" /\ dev'.top = NewTop(op)
    <3> DEFINE top == NewTop(op)
    <3>1. top \in Capacities
      BY <2>4
    <3>2. dev' = [dev EXCEPT !.transitions = @ + 1, !.left = @ - 1, !.top = top]
      BY <1>9
    <3> HIDE DEF top
    <3>3. Counts /\ dev'.status = "pending" /\ dev'.top = top
      BY <1>1, <1>2, <1>3, <3>1, <3>2 DEF Counts, Records, DeviceRecords
    <3> QED
      BY <3>3 DEF top
  <2>6. StatusOK'
    <3>1. dev'.transitions <= Len(Trace)
      <4>1. next <= Len(Trace)
        BY <1>4, <2>0
      <4> QED
        BY <2>5, <4>1 DEF Counts
    <3> QED
      BY <2>5, <3>1 DEF StatusOK
  <2>7. Records' /\ CountersOK'
    BY <2>5, <2>6, Counting
  <2>8. BuffersOK' /\ ResultOK'
    <3>1. host'.at = host.at
      BY <1>1
    <3> QED
      BY <1>1, <3>1 DEF IInv, BuffersOK, ResultOK
  <2>9. MemoryOK'
    <3>1. Performed' = next
      BY <2>5 DEF Performed, Counts
    <3>2. /\ memory'[host.workspace] = WorkspaceWrites(op) /\ memory'[host.output] = OutputWrites(op)
          /\ DOMAIN memory' = DOMAIN memory
      BY <1>9, <2>1, <2>2
    <3> QED
      BY <1>1, <2>2, <2>4, <2>5, <3>1, <3>2 DEF MemoryOK, Bare, Built, Looping, Running, Counts
  <2> QED
    BY <2>7, <2>8, <2>9 DEF IInv
<1> QED
  BY <1>7, <1>8, <1>9 DEF Transition

(* The output records of the reference are those in the output buffer.     *)
LEMMA OutputsRead ==
    ASSUME NEW m, NEW o, NEW capacity \in Capacities, NEW top \in Capacities,
           NEW n \in 0 .. Len(Trace), Holds(m, o, capacity, top, n),
           NEW answer \in Seq(Values), Len(answer) = top["output"],
           \A i \in 1 .. top["output"] : answer[i] = o[i - 1]
    PROVE  answer = Reference[n].outputs
<1> DEFINE outs == Reference[n].outputs
<1>1. outs \in Seq(OutputCells)
  BY ReferenceIsAMachine DEF Machines
<1>2. OutputCells \subseteq Values
  BY DEF Values
<1>3. Len(outs) = top["output"] /\ \A i \in 1 .. Len(outs) : o[i - 1] = outs[i]
  BY DEF Holds, TopsHold, OutputsHold
<1> HIDE DEF outs
<1>4. outs \in Seq(Values)
  BY <1>1, <1>2, SeqMonotonic
<1>5. Len(answer) = Len(outs) /\ \A i \in 1 .. Len(answer) : answer[i] = outs[i]
  BY <1>3
<1>6. answer = outs
  BY <1>4, <1>5, SeqEqual
<1> QED
  BY <1>6 DEF outs

(* What is copied of the output buffer is a sequence of values.            *)
LEMMA CopiesAreValues ==
    ASSUME NEW o \in Contents, NEW k \in Nat, k <= MaximumWords
    PROVE  /\ [i \in 1 .. k |-> o[i - 1]] \in Seq(Values)
           /\ Len([i \in 1 .. k |-> o[i - 1]]) = k
<1>1. \A i \in 1 .. k : i - 1 \in Words
  BY WordsAre
<1>2. \A i \in 1 .. k : o[i - 1] \in Values
  BY <1>1 DEF Contents
<1> QED
  BY <1>2, IsASeq

(* The complete answer is right.                                           *)
LEMMA CompleteIsRight ==
    ASSUME Records, CountersOK, dev.semantic = "ok", dev.status = "complete",
           NEW outputs \in Seq(Values), outputs = Reference[Len(Trace)].outputs,
           NEW steps, steps = dev.semanticSteps + dev.transitions
    PROVE  /\ [kind |-> "complete", steps |-> steps, outputs |-> outputs] \in Results
           /\ Right([kind |-> "complete", steps |-> steps, outputs |-> outputs])
<1>1. steps \in Int
  BY Numbers
<1>2. steps = SemanticSteps + Len(Trace) + 1
  <2>1. dev.semanticSteps = SemanticSteps
    BY DEF CountersOK, SemanticOK
  <2>2. dev.transitions = Len(Trace) + 1
    BY DEF CountersOK, StatusOK
  <2>3. SemanticSteps \in Nat /\ Len(Trace) \in Nat
    BY Numbers
  <2>4. SemanticSteps + (Len(Trace) + 1) = SemanticSteps + Len(Trace) + 1
    BY <2>3
  <2> QED
    BY <2>1, <2>2, <2>4
<1>3. steps <= options.maximumSteps
  BY DEF CountersOK, FuelOK, Spent
<1> QED
  BY <1>1, <1>2, <1>3 DEF Results, Right

(* DispatchEnds.                                                           *)
LEMMA DispatchEndsInv ==
    ASSUME IInv, DispatchEnds
    PROVE  IInv'
<1> DEFINE k == MinOf(options.readback, host.capacity["output"])
<1> DEFINE copied == [i \in 1 .. k |-> memory[Bound("output")][i - 1]]
<1>1. host.at = "running inference" /\ UNCHANGED <<options, dev, memory, live>>
      /\ host' = [host EXCEPT !.at = "read", !.copied = copied]
  BY DEF DispatchEnds
<1>2. Records /\ host \in HostRecords
  BY DEF IInv, Records
<1>3. Bound("output") = host.output
  BY <1>1, BoundBuffers DEF IInv, Looping, Running
<1>4. /\ {host.workspace, host.output} \subseteq DOMAIN memory
      /\ Holds(memory[host.workspace], memory[host.output], host.capacity, dev.top, Performed)
      /\ dev.capacity = host.capacity
  BY <1>1 DEF IInv, MemoryOK, Built, Looping, Running
<1>5. copied = [i \in 1 .. k |-> memory[host.output][i - 1]] /\ copied \in Seq(Values)
  <2>1. memory[host.output] \in Contents /\ host.capacity["output"] <= MaximumWords
    BY <1>4 DEF Holds, Within
  <2>2. host.capacity["output"] \in Nat /\ options.readback \in Nat
    <3>1. host.capacity \in Capacities
      BY <1>2 DEF HostRecords
    <3> QED
      BY <1>2, <3>1, Bases, Numbers
  <2>3. k \in Nat /\ k <= MaximumWords
    BY <2>1, <2>2, WordsAre DEF MinOf
  <2> DEFINE o == memory[host.output]
  <2>4. o \in Contents
    BY <2>1
  <2>5. copied = [i \in 1 .. k |-> o[i - 1]]
    BY <1>3
  <2> HIDE DEF k, o, copied
  <2>6. copied \in Seq(Values)
    BY <2>3, <2>4, <2>5, CopiesAreValues
  <2> QED
    BY <2>5, <2>6 DEF o
<1> HIDE DEF copied, k
<1>6. /\ host' \in HostRecords /\ host'.at = "read" /\ host'.copied = copied
      /\ host'.readback = host.readback
      /\ host'.metadata = host.metadata /\ host'.workspace = host.workspace /\ host'.output = host.output
      /\ host'.state = host.state /\ host'.outputReadback = host.outputReadback
      /\ host'.expanded = host.expanded /\ host'.capacity = host.capacity /\ host'.bound = host.bound
      /\ host'.previousTransitions = host.previousTransitions
  BY <1>1, <1>2, <1>5 DEF HostRecords, Places, Looping, Running
<1>7. Records'
  BY <1>1, <1>2, <1>6 DEF Records
<1>8. CountersOK'
  <2>1. SemanticOK' /\ StatusOK'
    BY <1>1, <1>6 DEF IInv, CountersOK, SemanticOK, StatusOK
  <2>2. FuelOK'
    BY <1>1, <1>6 DEF IInv, CountersOK, FuelOK, Spent
  <2>3. PlaceOK'
    BY <1>6 DEF PlaceOK, Looping, Running
  <2> QED
    BY <2>1, <2>2, <2>3 DEF CountersOK
<1>9. BuffersOK'
  <2>1. Held(host') = Held(host)
    BY <1>6 DEF Held
  <2> QED
    BY <1>1, <1>6, <2>1 DEF IInv, BuffersOK, Bare, Built, Looping, Running
<1>10. MemoryOK'
  <2>1. Performed' = Performed
    BY <1>1 DEF Performed
  <2>2. host'.copied = [i \in 1 .. MinOf(options'.readback, host'.capacity["output"]) |-> memory'[host'.output][i - 1]]
    BY <1>1, <1>5, <1>6 DEF k
  <2> QED
    BY <1>1, <1>4, <1>6, <2>1, <2>2, ZenonT(40) DEF MemoryOK, Bare, Built, Looping, Running
<1>11. ResultOK'
  BY <1>6 DEF ResultOK
<1> QED
  BY <1>7, <1>8, <1>9, <1>10, <1>11 DEF IInv

(* ReadState.                                                              *)
LEMMA ReadStateInv ==
    ASSUME IInv, ReadState
    PROVE  IInv'
<1> DEFINE h == [host EXCEPT !.pass = (dev.semantic = "pending")]
<1> DEFINE total == dev.semanticSteps + dev.transitions
<1> DEFINE count == dev.top["output"]
<1> DEFINE again == [h EXCEPT !.at = "loop", !.previousSemantic = dev.semanticSteps,
                              !.previousTransitions = dev.transitions]
<1>1. host.at = "read" /\ UNCHANGED <<options, dev, memory>>
  BY DEF ReadState
<1>2. live \subseteq Held(host) /\ host \in HostRecords /\ Records /\ CountersOK
  BY <1>1, LiveIsHeld DEF IInv
<1>3. /\ h \in HostRecords /\ h.at = "read" /\ h.readback = host.readback
      /\ h.metadata = host.metadata /\ h.workspace = host.workspace /\ h.output = host.output
      /\ h.state = host.state /\ h.outputReadback = host.outputReadback
      /\ h.expanded = host.expanded /\ h.capacity = host.capacity /\ h.bound = host.bound
      /\ h.previousTransitions = host.previousTransitions /\ h.previousSemantic = host.previousSemantic
  <2> DEFINE pass == dev.semantic = "pending"
  <2>1. pass \in BOOLEAN
    OBVIOUS
  <2>2. h = [host EXCEPT !.pass = pass]
    OBVIOUS
  <2> HIDE DEF h, pass
  <2> QED
    BY <1>1, <1>2, <2>1, <2>2 DEF HostRecords
<1>4. Held(h) = Held(host)
  BY <1>3 DEF Held
<1>5. host' = again =>
        /\ host' \in HostRecords /\ host'.at = "loop" /\ host'.readback = host.readback
        /\ host'.metadata = host.metadata /\ host'.workspace = host.workspace /\ host'.output = host.output
        /\ host'.state = host.state /\ host'.outputReadback = host.outputReadback
        /\ host'.expanded = host.expanded /\ host'.capacity = host.capacity /\ host'.bound = host.bound
        /\ host'.previousTransitions = dev.transitions /\ host'.previousSemantic = dev.semanticSteps
  <2>1. dev.semanticSteps \in Int /\ dev.transitions \in Int
    BY <1>2, Numbers
  <2>2. h \in HostRecords
    BY <1>3
  <2> SUFFICES ASSUME host' = again
               PROVE  /\ host' \in HostRecords /\ host'.at = "loop" /\ host'.readback = host.readback
                      /\ host'.metadata = host.metadata /\ host'.workspace = host.workspace
                      /\ host'.output = host.output /\ host'.state = host.state
                      /\ host'.outputReadback = host.outputReadback
                      /\ host'.expanded = host.expanded /\ host'.capacity = host.capacity
                      /\ host'.bound = host.bound /\ host'.previousTransitions = dev.transitions
                      /\ host'.previousSemantic = dev.semanticSteps
    OBVIOUS
  <2>3. host' = [h EXCEPT !.at = "loop", !.previousSemantic = dev.semanticSteps, !.previousTransitions = dev.transitions]
    OBVIOUS
  <2> HIDE DEF h, again
  <2> QED
    BY <1>3, <2>1, <2>2, <2>3, ZenonT(40) DEF HostRecords, Places, Looping
<1>6. ASSUME NEW result \in Results, Right(result), Settle(h, live, result) PROVE IInv'
  <2> HIDE DEF h
  <2> QED
    BY <1>1, <1>2, <1>3, <1>4, <1>6, Settling
<1>7. ASSUME Keeps, host' \in HostRecords, CountersOK',
             host'.at \in {"loop", "read output", "grow"}
      PROVE  IInv'
  <2>1. Records'
    BY <1>1, <1>2, <1>7 DEF Records
  <2>2. BuffersOK' /\ MemoryOK' /\ ResultOK'
    BY <1>1, <1>7, Keeping DEF Looping, Running
  <2> QED
    BY <1>7, <2>1, <2>2 DEF IInv
<1>8. Performed' = Performed
  BY <1>1 DEF Performed
<1>9. CASE Settle(h, live, Thrown)
  BY <1>6, <1>9, Failures
<1>10. CASE /\ dev.semantic = "pending"
            /\ host' = [h EXCEPT !.at = "loop", !.previousSemantic = dev.semanticSteps]
            /\ UNCHANGED live
  <2>1. /\ host' \in HostRecords /\ host'.at = "loop" /\ host'.readback = host.readback
        /\ host'.metadata = host.metadata /\ host'.workspace = host.workspace /\ host'.output = host.output
        /\ host'.state = host.state /\ host'.outputReadback = host.outputReadback
        /\ host'.expanded = host.expanded /\ host'.capacity = host.capacity /\ host'.bound = host.bound
        /\ host'.previousTransitions = host.previousTransitions /\ host'.previousSemantic = dev.semanticSteps
    <3>1. dev.semanticSteps \in Int
      BY <1>2, Numbers
    <3>2. host' = [h EXCEPT !.at = "loop", !.previousSemantic = dev.semanticSteps]
      BY <1>10
    <3> HIDE DEF h
    <3> QED
      BY <1>3, <3>1, <3>2 DEF HostRecords, Places, Looping
  <2>2. Keeps
    BY <1>1, <1>8, <1>10, <2>1 DEF Keeps
  <2>3. dev.status = "uninitialized" /\ dev.transitions = 0 /\ host.previousTransitions = 0
    BY <1>2, <1>10 DEF CountersOK, SemanticOK, StatusOK
  <2>4. CountersOK'
    <3>1. SemanticOK' /\ StatusOK'
      BY <1>1, <1>2, <2>1 DEF CountersOK, SemanticOK, StatusOK
    <3>2. FuelOK'
      BY <1>1, <1>2, <2>1 DEF CountersOK, FuelOK, Spent
    <3>3. PlaceOK'
      BY <1>1, <1>10, <2>1, <2>3 DEF PlaceOK, Looping
    <3> QED
      BY <3>1, <3>2, <3>3 DEF CountersOK
  <2> QED
    BY <1>7, <2>1, <2>2, <2>4
<1>11. CASE dev.semantic = "step limit" /\ Settle(h, live, OutOfFuel(dev.semanticSteps))
  <2>1. dev.semanticSteps = options.maximumSteps /\ dev.status = "uninitialized" /\ dev.transitions = 0
    BY <1>2, <1>11 DEF CountersOK, SemanticOK, StatusOK
  <2>2. Spent = options.maximumSteps
    <3>1. options.maximumSteps + 0 = options.maximumSteps
      BY <1>2, Numbers
    <3> QED
      BY <2>1, <3>1 DEF Spent
  <2> HIDE DEF h
  <2> QED
    BY <1>2, <1>6, <1>11, <2>1, <2>2, OutOfFuelIsRight
<1>12. CASE /\ dev.semantic = "ok" /\ dev.status \in {"uninitialized", "pending"}
            /\ total >= options.maximumSteps /\ Settle(h, live, OutOfFuel(total))
  <2>1. Spent <= options.maximumSteps /\ Spent = total
    BY <1>2 DEF CountersOK, FuelOK, Spent
  <2>2. total \in Nat /\ options.maximumSteps \in Nat
    BY <1>2, Numbers
  <2> HIDE DEF h, total
  <2>3. total = options.maximumSteps /\ Spent = options.maximumSteps
    BY <1>12, <2>1, <2>2
  <2>4. OutOfFuel(total) \in Results /\ Right(OutOfFuel(total))
    BY <1>2, <1>12, <2>3, OutOfFuelIsRight
  <2> QED
    BY <1>6, <1>12, <2>4
<1>13. CASE /\ dev.semantic = "ok" /\ dev.status \in {"uninitialized", "pending"}
            /\ host' = again /\ UNCHANGED live
  <2>1. Keeps
    BY <1>1, <1>5, <1>8, <1>13 DEF Keeps
  <2>2. CountersOK'
    <3>1. SemanticOK' /\ StatusOK'
      BY <1>1, <1>2, <1>5, <1>13 DEF CountersOK, SemanticOK, StatusOK
    <3>2. FuelOK'
      BY <1>1, <1>2, <1>5, <1>13 DEF CountersOK, FuelOK, Spent
    <3>3. PlaceOK'
      BY <1>1, <1>5, <1>13 DEF PlaceOK, Looping
    <3> QED
      BY <3>1, <3>2, <3>3 DEF CountersOK
  <2> QED
    BY <1>5, <1>7, <1>13, <2>1, <2>2
<1>14. CASE /\ dev.semantic = "ok" /\ dev.status = "complete" /\ count <= options.readback
            /\ Settle(h, live, [kind |-> "complete", steps |-> total, outputs |-> SubSeq(host.copied, 1, count)])
  <2> DEFINE answer == SubSeq(host.copied, 1, count)
  <2> DEFINE k == MinOf(options.readback, host.capacity["output"])
  <2>1. /\ Holds(memory[host.workspace], memory[host.output], host.capacity, dev.top, Performed)
        /\ host.copied = [i \in 1 .. k |-> memory[host.output][i - 1]]
    BY <1>1 DEF IInv, MemoryOK, Built, Looping, Running
  <2>2. Performed = Len(Trace) /\ Len(Trace) \in 0 .. Len(Trace)
    <3>1. dev.transitions = Len(Trace) + 1
      BY <1>2, <1>14 DEF CountersOK, StatusOK
    <3>2. Len(Trace) \in Nat
      BY Transitions
    <3> QED
      BY <1>14, <3>1, <3>2 DEF Performed
  <2>3. host.capacity \in Capacities /\ dev.top \in Capacities /\ host.copied \in Seq(Values)
    BY <1>2 DEF Records, HostRecords, DeviceRecords
  <2>4. count \in Nat /\ options.readback \in Nat /\ host.capacity["output"] \in Nat
    BY <1>2, <2>3, Bases, Numbers
  <2>5. count <= host.capacity["output"]
    BY <2>1 DEF Holds, TopsHold
  <2>6. k \in Nat /\ count <= k
    BY <1>14, <2>4, <2>5 DEF MinOf
  <2> HIDE DEF h, total, count, k
  <2>7. \A i \in 1 .. count : i \in 1 .. k /\ i \in Int
    BY <2>4, <2>6
  <2>8. \A i \in 1 .. count : host.copied[i] = memory[host.output][i - 1]
    BY <2>1, <2>7
  <2>9. \A i \in 1 .. count : host.copied[i] \in Values
    <3>1. Len(host.copied) = k
      BY <2>1, <2>6
    <3> QED
      BY <2>3, <2>7, <3>1, ElementOfSeq
  <2>10. answer \in Seq(Values) /\ Len(answer) = count /\ \A i \in 1 .. count : answer[i] = host.copied[i]
    <3>1. /\ answer \in Seq(Values) /\ Len(answer) = (IF 1 <= count THEN count - 1 + 1 ELSE 0)
          /\ \A i \in 1 .. count - 1 + 1 : answer[i] = host.copied[1 + i - 1]
      BY <2>4, <2>9, SubSeqProperties
    <3>2. count - 1 + 1 = count /\ (1 <= count \/ count = 0) /\ \A i \in 1 .. count : 1 + i - 1 = i
      BY <2>4
    <3> HIDE DEF answer
    <3> QED
      BY <3>1, <3>2
  <2> HIDE DEF answer
  <2>11. answer = Reference[Len(Trace)].outputs
    <3>1. Holds(memory[host.workspace], memory[host.output], host.capacity, dev.top, Len(Trace))
      BY <2>1, <2>2
    <3>2. Len(answer) = dev.top["output"] /\ \A i \in 1 .. dev.top["output"] : answer[i] = memory[host.output][i - 1]
      BY <2>8, <2>10 DEF count
    <3> QED
      BY <2>2, <2>3, <2>10, <3>1, <3>2, OutputsRead
  <2>12. /\ [kind |-> "complete", steps |-> total, outputs |-> answer] \in Results
         /\ Right([kind |-> "complete", steps |-> total, outputs |-> answer])
    BY <1>2, <1>14, <2>10, <2>11, CompleteIsRight DEF total
  <2> QED
    BY <1>6, <1>14, <2>12 DEF answer
<1>15. CASE /\ dev.semantic = "ok" /\ dev.status \in {"complete", "exhausted"}
            /\ host' = [h EXCEPT !.at = IF dev.status = "complete" THEN "read output" ELSE "grow"]
            /\ UNCHANGED live
  <2>1. /\ host' \in HostRecords /\ host'.at = (IF dev.status = "complete" THEN "read output" ELSE "grow")
        /\ host'.readback = host.readback
        /\ host'.metadata = host.metadata /\ host'.workspace = host.workspace /\ host'.output = host.output
        /\ host'.state = host.state /\ host'.outputReadback = host.outputReadback
        /\ host'.expanded = host.expanded /\ host'.capacity = host.capacity /\ host'.bound = host.bound
        /\ host'.previousTransitions = host.previousTransitions
    <3> HIDE DEF h
    <3> QED
      BY <1>2, <1>3, <1>15 DEF HostRecords, Places, Looping
  <2>2. Keeps
    BY <1>1, <1>8, <1>15, <2>1 DEF Keeps
  <2>3. CountersOK'
    <3>1. SemanticOK' /\ StatusOK'
      BY <1>1, <1>2, <2>1 DEF CountersOK, SemanticOK, StatusOK
    <3>2. FuelOK'
      BY <1>1, <1>2, <2>1 DEF CountersOK, FuelOK, Spent
    <3>3. PlaceOK'
      BY <1>1, <1>15, <2>1 DEF PlaceOK, Looping
    <3> QED
      BY <3>1, <3>2, <3>3 DEF CountersOK
  <2> QED
    BY <1>7, <2>1, <2>2, <2>3
<1>16. \/ Settle(h, live, Thrown)
       \/ /\ dev.semantic = "pending"
          /\ host' = [h EXCEPT !.at = "loop", !.previousSemantic = dev.semanticSteps] /\ UNCHANGED live
       \/ dev.semantic = "step limit" /\ Settle(h, live, OutOfFuel(dev.semanticSteps))
       \/ /\ dev.semantic = "ok" /\ dev.status \in {"uninitialized", "pending"}
          /\ IF total >= options.maximumSteps THEN Settle(h, live, OutOfFuel(total))
             ELSE host' = again /\ UNCHANGED live
       \/ /\ dev.semantic = "ok" /\ dev.status = "complete"
          /\ IF count <= options.readback
             THEN Settle(h, live, [kind |-> "complete", steps |-> total, outputs |-> SubSeq(host.copied, 1, count)])
             ELSE host' = [h EXCEPT !.at = "read output"] /\ UNCHANGED live
       \/ dev.semantic = "ok" /\ dev.status = "exhausted" /\ host' = [h EXCEPT !.at = "grow"] /\ UNCHANGED live
  <2>1. /\ dev.semantic \in {"pending", "ok", "step limit"}
        /\ dev.status \in {"uninitialized", "pending", "complete", "exhausted"}
    BY <1>2 DEF Records, DeviceRecords
  <2> QED
    BY <2>1 DEF ReadState
<1> HIDE DEF h, total, count, again
<1> QED
  BY <1>9, <1>10, <1>11, <1>12, <1>13, <1>14, <1>15, <1>16

(* The ways in which the reading of the output may go.                     *)
ReadOutcome(outcome) == outcome \in Outcomes \cup {"copy rejected"}

(* ReadOutput.                                                             *)
LEMMA ReadOutputInv ==
    ASSUME IInv, NEW outcome, ReadOutcome(outcome), ReadOutput(outcome)
    PROVE  IInv'
<1> DEFINE h == [host EXCEPT !.outputReadback = OutputReadback]
<1> DEFINE buffers == live \cup {OutputReadback}
<1> DEFINE count == dev.top["output"]
<1> DEFINE steps == dev.semanticSteps + dev.transitions
<1> DEFINE answer == [i \in 1 .. count |-> memory[host.output][i - 1]]
<1>1. host.at = "read output" /\ UNCHANGED <<options, dev, memory>>
  BY DEF ReadOutput
<1>2. live \subseteq Held(host) /\ host \in HostRecords /\ Records /\ CountersOK
  BY <1>1, LiveIsHeld DEF IInv
<1>3. /\ h \in HostRecords /\ h.capacity = host.capacity
      /\ h.previousTransitions = host.previousTransitions /\ h.outputReadback = OutputReadback
      /\ h.metadata = host.metadata /\ h.workspace = host.workspace /\ h.output = host.output
      /\ h.state = host.state /\ h.readback = host.readback
  <2>1. OutputReadback \in Buffers
    BY DEF Buffers
  <2> QED
    BY <1>2, <2>1 DEF HostRecords
<1>4. buffers \subseteq Held(h)
  <2>1. host.outputReadback = NoBuffer /\ NoBuffer \notin live
    BY <1>1 DEF IInv, BuffersOK
  <2> HIDE DEF h
  <2> QED
    BY <1>2, <1>3, <2>1 DEF Held
<1> HIDE DEF h, buffers
<1>5. ASSUME NEW result \in Results, Right(result), Settle(h, buffers, result) PROVE IInv'
  BY <1>1, <1>2, <1>3, <1>4, <1>5, Settling
<1>6. CASE Settle(host, live, Thrown)
  BY <1>1, <1>2, <1>6, Failures, Settling
<1>7. CASE Settle(h, buffers, Thrown)
  BY <1>5, <1>7, Failures
<1>8. CASE Settle(h, buffers, [kind |-> "complete", steps |-> steps, outputs |-> answer])
  <2>1. dev.semantic = "ok" /\ dev.status = "complete"
    BY <1>1, <1>2 DEF CountersOK, PlaceOK
  <2>2. Performed = Len(Trace) /\ Len(Trace) \in 0 .. Len(Trace)
    <3>1. dev.transitions = Len(Trace) + 1
      BY <1>2, <2>1 DEF CountersOK, StatusOK
    <3>2. Len(Trace) \in Nat
      BY Transitions
    <3> QED
      BY <2>1, <3>1, <3>2 DEF Performed
  <2>3. Holds(memory[host.workspace], memory[host.output], host.capacity, dev.top, Len(Trace))
    BY <1>1, <2>2 DEF IInv, MemoryOK, Built, Looping, Running
  <2>4. host.capacity \in Capacities /\ dev.top \in Capacities
    BY <1>2 DEF Records, HostRecords, DeviceRecords
  <2>5. count \in Nat /\ host.capacity["output"] \in Nat
    BY <2>4, Bases
  <2>6. count <= host.capacity["output"] /\ host.capacity["output"] <= MaximumWords
    BY <2>3 DEF Holds, TopsHold, Within
  <2>7. count <= MaximumWords
    BY <2>5, <2>6, WordsAre
  <2> DEFINE o == memory[host.output]
  <2>8. o \in Contents /\ answer = [i \in 1 .. count |-> o[i - 1]]
    BY <2>3 DEF Holds
  <2> HIDE DEF count, answer, o, steps
  <2>9. answer \in Seq(Values) /\ Len(answer) = count
    BY <2>5, <2>7, <2>8, CopiesAreValues
  <2>10. answer = Reference[Len(Trace)].outputs
    <3>1. Len(answer) = dev.top["output"] /\ \A i \in 1 .. dev.top["output"] : answer[i] = memory[host.output][i - 1]
      BY <2>8, <2>9 DEF count, o
    <3> QED
      BY <2>2, <2>3, <2>4, <2>9, <3>1, OutputsRead
  <2>11. /\ [kind |-> "complete", steps |-> steps, outputs |-> answer] \in Results
         /\ Right([kind |-> "complete", steps |-> steps, outputs |-> answer])
    BY <1>2, <2>1, <2>9, <2>10, CompleteIsRight DEF steps
  <2> QED
    BY <1>5, <1>8, <2>11
<1> QED
  BY <1>6, <1>7, <1>8 DEF ReadOutput, ReadOutcome, Outcomes, h, buffers

(* Grow.                                                                   *)
LEMMA GrowInv ==
    ASSUME IInv, NEW outcome, Grow(outcome)
    PROVE  IInv'
<1> DEFINE buffer == IF dev.code = "output" THEN Output(1 - host.output[2]) ELSE Workspace(1 - host.workspace[2])
<1> DEFINE contents == IF dev.code = "output"
                       THEN [w \in Words |-> IF w < dev.top["output"] THEN memory[host.output][w] ELSE 0]
                       ELSE Moved(memory[host.workspace], Grown)
<1>1. host.at = "grow" /\ UNCHANGED <<options, dev>>
  BY DEF Grow
<1>2. live \subseteq Held(host) /\ host \in HostRecords /\ Records /\ CountersOK
  BY <1>1, LiveIsHeld DEF IInv
<1>3. CASE Settle(host, live, Exhausted) /\ UNCHANGED memory
  BY <1>1, <1>2, <1>3, Failures, Settling
<1>4. CASE Settle(host, live, Thrown) /\ UNCHANGED memory
  BY <1>1, <1>2, <1>4, Failures, Settling
<1>5. CASE /\ Fits(Grown) /\ host' = [host EXCEPT !.at = "rebind", !.expanded = buffer]
           /\ live' = live \cup {buffer} /\ memory' = Written(buffer, contents)
  <2>1. PICK k \in {0, 1} : host.workspace = Workspace(k)
    BY <1>1 DEF IInv, BuffersOK, Built, Looping
  <2>2. PICK j \in {0, 1} : host.output = Output(j)
    BY <1>1 DEF IInv, BuffersOK, Built, Looping
  <2>3. /\ buffer \in Buffers /\ buffer # NoBuffer /\ buffer # host.workspace /\ buffer # host.output
    <3>1. buffer = IF dev.code = "output" THEN Output(1 - j) ELSE Workspace(1 - k)
      BY <2>1, <2>2, BuffersDiffer
    <3>2. 1 - j \in {0, 1} /\ 1 - k \in {0, 1}
      BY BuffersDiffer
    <3>3. Output(1 - j) # Output(j) /\ Workspace(1 - k) # Workspace(k)
      BY BuffersDiffer
    <3>4. Output(1 - j) # Workspace(k) /\ Workspace(1 - k) # Output(j)
      BY <3>2, BuffersDiffer
    <3>5. Output(1 - j) # NoBuffer /\ Workspace(1 - k) # NoBuffer
      BY <3>2, BuffersDiffer
    <3>6. Output(1 - j) \in Buffers /\ Workspace(1 - k) \in Buffers
      BY <3>2 DEF Buffers
    <3> HIDE DEF buffer
    <3> QED
      BY <2>1, <2>2, <3>1, <3>3, <3>4, <3>5, <3>6
  <2>4. dev.semantic = "ok" /\ dev.status = "exhausted"
    BY <1>1, <1>2 DEF CountersOK, PlaceOK
  <2>5. dev.code \in Arenas /\ dev.detail \in Nat /\ dev.transitions \in 1 .. Len(Trace)
    BY <1>2, <2>4 DEF CountersOK, StatusOK
  <2>6. Performed \in Nat /\ Performed <= Len(Trace)
    <3>1. Performed = dev.transitions - 1 /\ Len(Trace) \in Nat
      BY <2>4, Transitions DEF Performed
    <3> QED
      BY <2>5, <3>1
  <2>7. /\ {host.workspace, host.output} \subseteq DOMAIN memory
        /\ Holds(memory[host.workspace], memory[host.output], host.capacity, dev.top, Performed)
        /\ dev.capacity = host.capacity
    BY <1>1 DEF IInv, MemoryOK, Built, Looping
  <2>8. /\ dev.code = "output" => Holds(memory[host.workspace], contents, Grown, dev.top, Performed)
        /\ dev.code # "output" => Holds(contents, memory[host.output], Grown, dev.top, Performed)
    <3> DEFINE m == memory[host.workspace]
    <3> DEFINE o == memory[host.output]
    <3>1. Holds(m, o, host.capacity, dev.top, Performed)
      BY <2>7
    <3>2. /\ dev.code = "output" => contents = [w \in Words |-> IF w < dev.top["output"] THEN o[w] ELSE 0]
          /\ dev.code # "output" => contents = Moved(m, Grown)
      OBVIOUS
    <3> DEFINE n == Performed
    <3>3. n \in Nat /\ n <= Len(Trace) /\ Holds(m, o, host.capacity, dev.top, n)
      BY <2>6, <3>1
    <3> HIDE DEF m, o, contents, n
    <3>4. /\ dev.code = "output" =>
                Holds(m, [w \in Words |-> IF w < dev.top["output"] THEN o[w] ELSE 0], Grown, dev.top, n)
          /\ dev.code # "output" => Holds(Moved(m, Grown), o, Grown, dev.top, n)
      BY <1>2, <1>5, <2>5, <3>3, GrowthHolds
    <3> QED
      BY <3>2, <3>4 DEF m, o, n
  <2> HIDE DEF contents
  <2>9. /\ host' \in HostRecords /\ host'.at = "rebind" /\ host'.readback = host.readback
        /\ host'.metadata = host.metadata /\ host'.workspace = host.workspace /\ host'.output = host.output
        /\ host'.state = host.state /\ host'.outputReadback = host.outputReadback
        /\ host'.expanded = buffer /\ host'.capacity = host.capacity /\ host'.bound = host.bound
        /\ host'.previousTransitions = host.previousTransitions
    <3> HIDE DEF buffer
    <3> QED
      BY <1>2, <1>5, <2>3 DEF HostRecords, Places, Looping
  <2>10. Records'
    BY <1>1, <1>2, <2>9 DEF Records
  <2>11. CountersOK'
    <3>1. SemanticOK' /\ StatusOK'
      BY <1>1, <1>2, <2>9 DEF CountersOK, SemanticOK, StatusOK
    <3>2. FuelOK'
      BY <1>1, <1>2, <2>9 DEF CountersOK, FuelOK, Spent
    <3>3. PlaceOK'
      BY <1>1, <2>4, <2>9 DEF PlaceOK, Looping
    <3> QED
      BY <3>1, <3>2, <3>3 DEF CountersOK
  <2>12. BuffersOK'
    <3>1. host'.expanded = IF dev'.code = "output" THEN Output(1 - host'.output[2])
                                                   ELSE Workspace(1 - host'.workspace[2])
      BY <1>1, <2>9
    <3> HIDE DEF buffer
    <3>2. Held(host') = Held(host) /\ host.expanded = NoBuffer
          /\ live = (Held(host) \cup {host.expanded}) \ {NoBuffer}
      BY <1>1, <2>9 DEF IInv, BuffersOK, Held
    <3>3. live' = (Held(host') \cup {host'.expanded}) \ {NoBuffer}
      BY <1>5, <2>3, <2>9, <3>2
    <3>4. /\ host.outputReadback = NoBuffer /\ host.metadata = Metadata /\ host.state = StateBuffer
          /\ host.readback = Readback /\ host.bound = {host.workspace, host.output}
      BY <1>1 DEF IInv, BuffersOK, Built, Looping
    <3> QED
      BY <2>1, <2>2, <2>9, <3>1, <3>3, <3>4 DEF BuffersOK, Bare, Built, Looping, Running
  <2>13. MemoryOK'
    <3> HIDE DEF buffer
    <3>1. Performed' = Performed /\ Grown' = Grown
      BY <1>1, <2>9 DEF Performed, Grown
    <3>2. /\ memory'[buffer] = contents /\ memory'[host.workspace] = memory[host.workspace]
          /\ memory'[host.output] = memory[host.output]
          /\ {host.workspace, host.output, buffer} \subseteq DOMAIN memory'
      BY <1>5, <2>3, <2>7 DEF Written
    <3>3. Holds(memory'[host.workspace], memory'[host.output], host.capacity, dev.top, Performed)
      BY <2>7, <3>2
    <3>4. IF dev.code = "output"
          THEN Holds(memory'[host.workspace], memory'[buffer], Grown, dev.top, Performed)
          ELSE Holds(memory'[buffer], memory'[host.output], Grown, dev.top, Performed)
      BY <2>8, <3>2
    <3> QED
      BY <1>1, <2>7, <2>9, <3>1, <3>2, <3>3, <3>4 DEF MemoryOK, Bare, Built, Looping, Running
  <2>14. ResultOK'
    BY <2>9 DEF ResultOK
  <2> QED
    BY <2>10, <2>11, <2>12, <2>13, <2>14 DEF IInv
<1> QED
  BY <1>3, <1>4, <1>5 DEF Grow

(* Rebind.                                                                 *)
LEMMA RebindInv ==
    ASSUME IInv, NEW outcome, Rebind(outcome)
    PROVE  IInv'
<1> DEFINE old == IF dev.code = "output" THEN host.output ELSE host.workspace
<1> DEFINE workspace == IF dev.code = "output" THEN host.workspace ELSE host.expanded
<1> DEFINE output == IF dev.code = "output" THEN host.expanded ELSE host.output
<1>1. host.at = "rebind" /\ UNCHANGED <<options, memory>>
  BY DEF Rebind
<1>2. host \in HostRecords /\ Records /\ CountersOK
  BY DEF IInv, Records
<1>3. live = (Held(host) \cup {host.expanded}) \ {NoBuffer}
  BY <1>1 DEF IInv, BuffersOK
<1>4. CASE Settle(host, live \ {host.expanded}, Thrown) /\ UNCHANGED dev
  <2>1. live \ {host.expanded} \subseteq Held(host)
    BY <1>3
  <2> QED
    BY <1>1, <1>2, <1>4, <2>1, Failures, Settling
<1>5. CASE /\ host' = [host EXCEPT !.at = "loop", !.capacity = Grown, !.expanded = NoBuffer,
                 !.output = output, !.workspace = workspace, !.bound = {workspace, output},
                 !.previousSemantic = dev.semanticSteps, !.previousTransitions = dev.transitions - 1]
           /\ live' = live \ {old}
           /\ dev' = [dev EXCEPT !.capacity = Grown, !.status = "pending", !.code = "none",
                        !.detail = 0, !.transitions = dev.transitions - 1]
  <2>1. PICK k \in {0, 1} : host.workspace = Workspace(k)
    BY <1>1 DEF IInv, BuffersOK, Built, Looping
  <2>2. PICK j \in {0, 1} : host.output = Output(j)
    BY <1>1 DEF IInv, BuffersOK, Built, Looping
  <2>3. /\ dev.semantic = "ok" /\ dev.status = "exhausted"
        /\ dev.code \in Arenas /\ dev.detail \in Nat /\ dev.transitions \in 1 .. Len(Trace)
    BY <1>1, <1>2 DEF CountersOK, PlaceOK, StatusOK
  <2>4. dev.transitions - 1 \in Nat /\ dev.transitions - 1 \in Int /\ dev.transitions - 1 <= Len(Trace)
    BY <2>3, Transitions
  <2>5. Grown \in Capacities
    BY <1>2, <2>3, GrownFacts
  <2>6. host.expanded = IF dev.code = "output" THEN Output(1 - j) ELSE Workspace(1 - k)
    BY <1>1, <2>1, <2>2, BuffersDiffer DEF IInv, BuffersOK
  <2>7. 1 - j \in {0, 1} /\ 1 - k \in {0, 1}
    BY BuffersDiffer
  <2>8. (\E i \in {0, 1} : workspace = Workspace(i)) /\ (\E i \in {0, 1} : output = Output(i))
    BY <2>1, <2>2, <2>6, <2>7
  <2>9. workspace \in Buffers /\ output \in Buffers /\ NoBuffer \in Buffers
    BY <2>8 DEF Buffers
  <2>10. /\ host.expanded # NoBuffer /\ old # NoBuffer /\ host.expanded # old
         /\ old \notin {workspace, output, Metadata, StateBuffer, Readback, NoBuffer}
    <3>1. Output(1 - j) # Output(j) /\ Workspace(1 - k) # Workspace(k)
      BY BuffersDiffer
    <3>2. /\ Output(1 - j) \notin {Metadata, StateBuffer, Readback, OutputReadback, NoBuffer}
          /\ Workspace(1 - k) \notin {Metadata, StateBuffer, Readback, OutputReadback, NoBuffer}
      BY <2>7, BuffersDiffer
    <3>3. /\ Output(j) \notin {Metadata, StateBuffer, Readback, OutputReadback, NoBuffer}
          /\ Workspace(k) \notin {Metadata, StateBuffer, Readback, OutputReadback, NoBuffer}
      BY BuffersDiffer
    <3>4. Workspace(k) # Output(j)
      BY BuffersDiffer
    <3> QED
      BY <2>1, <2>2, <2>6, <3>1, <3>2, <3>3, <3>4
  <2>11. Held(host) = {Metadata, host.workspace, host.output, StateBuffer, Readback, NoBuffer}
    BY <1>1 DEF IInv, BuffersOK, Built, Looping, Held
  <2>12. /\ IF dev.code = "output"
            THEN Holds(memory[host.workspace], memory[host.expanded], Grown, dev.top, Performed)
            ELSE Holds(memory[host.expanded], memory[host.output], Grown, dev.top, Performed)
         /\ {host.workspace, host.output, host.expanded} \subseteq DOMAIN memory
    BY <1>1 DEF IInv, MemoryOK, Built, Looping
  <2>13. /\ Holds(memory[workspace], memory[output], Grown, dev.top, Performed)
         /\ {workspace, output} \subseteq DOMAIN memory
    BY <2>12
  <2>14. {workspace, output} \cup {old} = {host.workspace, host.output, host.expanded}
    OBVIOUS
  <2> DEFINE grown == Grown
  <2> DEFINE before == dev.transitions - 1
  <2>15. grown \in Capacities /\ before \in Nat /\ before \in Int
    BY <2>4, <2>5
  <2>16. dev.semanticSteps \in Int
    BY <1>2, Numbers
  <2> HIDE DEF workspace, output, old, grown, before
  <2>17. /\ host' \in HostRecords /\ host'.at = "loop" /\ host'.readback = host.readback
         /\ host'.metadata = host.metadata /\ host'.workspace = workspace /\ host'.output = output
         /\ host'.state = host.state /\ host'.outputReadback = host.outputReadback
         /\ host'.expanded = NoBuffer /\ host'.capacity = grown /\ host'.bound = {workspace, output}
         /\ host'.previousTransitions = before /\ host'.previousSemantic = dev.semanticSteps
    <3>1. host' = [host EXCEPT !.at = "loop", !.capacity = grown, !.expanded = NoBuffer,
                 !.output = output, !.workspace = workspace, !.bound = {workspace, output},
                 !.previousSemantic = dev.semanticSteps, !.previousTransitions = before]
      BY <1>5 DEF grown, before
    <3>2. {workspace, output} \in SUBSET Buffers
      BY <2>9
    <3> QED
      BY <1>2, <2>9, <2>15, <2>16, <3>1, <3>2 DEF HostRecords, Places, Looping
  <2>18. /\ dev' \in DeviceRecords /\ dev'.semantic = dev.semantic /\ dev'.semanticSteps = dev.semanticSteps
         /\ dev'.status = "pending" /\ dev'.transitions = before /\ dev'.top = dev.top
         /\ dev'.capacity = grown
    <3> DEFINE zero == 0
    <3> DEFINE none == "none"
    <3>1. dev' = [dev EXCEPT !.capacity = grown, !.status = "pending", !.code = none,
                        !.detail = zero, !.transitions = before]
      BY <1>5 DEF grown, before
    <3>2. dev \in DeviceRecords /\ zero \in Int /\ none \in Arenas \cup {"none"}
      BY <1>2 DEF Records
    <3> HIDE DEF zero, none
    <3> QED
      BY <2>15, <3>1, <3>2 DEF DeviceRecords
  <2>19. Records'
    BY <1>1, <1>2, <2>17, <2>18 DEF Records
  <2>20. CountersOK'
    <3>1. SemanticOK'
      <4>1. dev'.semantic = "ok" /\ dev'.semanticSteps = dev.semanticSteps
        BY <2>3, <2>18
      <4> QED
        BY <1>1, <1>2, <2>3, <4>1 DEF CountersOK, SemanticOK
    <3>2. StatusOK'
      BY <2>4, <2>18 DEF StatusOK, before
    <3>3. FuelOK'
      <4>1. Spent <= options.maximumSteps
        BY <1>2 DEF CountersOK, FuelOK
      <4>2. dev.semanticSteps \in Nat /\ dev.transitions \in Nat /\ options.maximumSteps \in Nat
        BY <1>2, Numbers
      <4>3. dev.semanticSteps + before <= options.maximumSteps
        BY <4>1, <4>2 DEF Spent, before
      <4>4. Spent' <= options'.maximumSteps
        BY <1>1, <2>18, <4>3 DEF Spent
      <4> QED
        BY <2>17, <4>4 DEF FuelOK
    <3>4. PlaceOK'
      BY <2>3, <2>17, <2>18 DEF PlaceOK, Looping
    <3> QED
      BY <3>1, <3>2, <3>3, <3>4 DEF CountersOK
  <2>21. BuffersOK'
    <3>1. /\ host.outputReadback = NoBuffer /\ host.metadata = Metadata /\ host.state = StateBuffer
          /\ host.readback = Readback
      BY <1>1 DEF IInv, BuffersOK, Built, Looping
    <3>2. Held(host') = {Metadata, workspace, output, StateBuffer, Readback, NoBuffer}
      BY <2>17, <3>1 DEF Held
    <3>3. live' = (Held(host') \cup {host'.expanded}) \ {NoBuffer}
      <4>1. live' = ((Held(host) \cup {host.expanded}) \ {NoBuffer}) \ {old}
        BY <1>3, <1>5
      <4> QED
        BY <2>10, <2>11, <2>14, <2>17, <3>2, <4>1
    <3> QED
      BY <2>8, <2>17, <3>1, <3>3 DEF BuffersOK, Bare, Built, Looping, Running
  <2>22. MemoryOK'
    <3>1. Performed' = Performed
      BY <2>3, <2>18 DEF Performed, before
    <3>2. /\ Holds(memory'[workspace], memory'[output], grown, dev.top, Performed)
          /\ {workspace, output} \subseteq DOMAIN memory'
      BY <1>1, <2>13 DEF grown
    <3> QED
      BY <2>17, <2>18, <3>1, <3>2 DEF MemoryOK, Bare, Built, Looping, Running
  <2>23. ResultOK'
    BY <2>17 DEF ResultOK
  <2> QED
    BY <2>19, <2>20, <2>21, <2>22, <2>23 DEF IInv
<1>6. \/ Settle(host, live \ {host.expanded}, Thrown) /\ UNCHANGED dev
      \/ /\ host' = [host EXCEPT !.at = "loop", !.capacity = Grown, !.expanded = NoBuffer,
                 !.output = output, !.workspace = workspace, !.bound = {workspace, output},
                 !.previousSemantic = dev.semanticSteps, !.previousTransitions = dev.transitions - 1]
         /\ live' = live \ {old}
         /\ dev' = [dev EXCEPT !.capacity = Grown, !.status = "pending", !.code = "none",
                      !.detail = 0, !.transitions = dev.transitions - 1]
  <2>1. /\ host.output = IF dev.code = "output" THEN host.output ELSE host.output
        /\ {host.workspace, host.expanded} = {host.expanded, host.workspace}
    OBVIOUS
  <2> HIDE DEF Grown
  <2>2. CASE dev.code = "output"
    BY <2>2 DEF Rebind
  <2>3. CASE dev.code # "output"
    BY <2>3 DEF Rebind
  <2> QED
    BY <2>2, <2>3
<1> HIDE DEF old, workspace, output
<1> QED
  BY <1>4, <1>5, <1>6

(* FallbackEnds.                                                           *)
LEMMA FallbackEndsInv ==
    ASSUME IInv, NEW outcome, FallbackEnds(outcome)
    PROVE  IInv'
<1>1. host.at = "fallback" /\ UNCHANGED <<options, dev, memory>>
  BY DEF FallbackEnds
<1>2. live \subseteq Held(host) /\ host \in HostRecords /\ Records
  BY <1>1, LiveIsHeld DEF IInv
<1>3. ASSUME NEW result \in Results, Right(result), Settle(host, live, result) PROVE IInv'
  BY <1>1, <1>2, <1>3, Settling
<1>4. SemanticSteps > options.maximumSteps =>
        OutOfFuel(options.maximumSteps) \in Results /\ Right(OutOfFuel(options.maximumSteps))
  <2>1. <<>> \in Seq(Values)
    BY EmptySeq
  <2>2. /\ options.maximumSteps \in Int
        /\ SemanticSteps > options.maximumSteps => SemanticSteps + Len(Trace) + 1 > options.maximumSteps
    BY <1>2, Numbers
  <2> QED
    BY <2>1, <2>2 DEF OutOfFuel, Results, Right
<1>5. \/ Settle(host, live, Thrown) \/ Settle(host, live, Exhausted)
      \/ SemanticSteps > options.maximumSteps /\ Settle(host, live, OutOfFuel(options.maximumSteps))
  BY DEF FallbackEnds
<1> QED
  BY <1>3, <1>4, <1>5, Failures

(* DispatchRejected.                                                       *)
LEMMA DispatchRejectedInv ==
    ASSUME IInv, DispatchRejected
    PROVE  IInv'
<1>1. host.at = "running semantic" /\ UNCHANGED <<options, dev, memory>> /\ Settle(host, live, Thrown)
  BY DEF DispatchRejected
<1>2. live \subseteq Held(host) /\ host \in HostRecords
  BY <1>1, LiveIsHeld
<1> QED
  BY <1>1, <1>2, Failures, Settling

(* Steps that change nothing but the signal.                               *)
LEMMA NothingElse ==
    ASSUME IInv, UNCHANGED <<options, host, dev, memory, live>>
    PROVE  IInv'
<1>1. Records'
  BY DEF IInv, Records
<1>2. CountersOK'
  BY DEF IInv, CountersOK, SemanticOK, StatusOK, FuelOK, Spent, PlaceOK
<1>3. BuffersOK'
  BY DEF IInv, BuffersOK
<1>4. MemoryOK'
  BY DEF IInv, MemoryOK, Performed, Grown
<1>5. ResultOK'
  BY DEF IInv, ResultOK, AnswerIsTheReference
<1> QED
  BY <1>1, <1>2, <1>3, <1>4, <1>5 DEF IInv

(* Every step keeps the invariant.                                         *)
LEMMA NextInv == IInv /\ [Next]_vars => IInv'
<1> SUFFICES ASSUME IInv, [Next]_vars PROVE IInv'
  OBVIOUS
<1>1. CASE UNCHANGED vars
  BY <1>1, NothingElse DEF vars
<1>2. CASE HostStep
  <2>1. CASE Dispatch
    BY <2>1, DispatchInv
  <2>2. CASE ReadState
    BY <2>2, ReadStateInv
  <2>3. ASSUME NEW outcome \in Outcomes \cup {"copy rejected"}, ReadOutput(outcome) PROVE IInv'
    BY <2>3, ReadOutputInv DEF ReadOutcome
  <2>4. ASSUME NEW outcome \in Outcomes, CreateBuffers(outcome) PROVE IInv'
    BY <2>4, CreateBuffersInv
  <2>5. ASSUME NEW outcome \in Outcomes, CreateReadback(outcome) PROVE IInv'
    BY <2>5, CreateReadbackInv
  <2>6. ASSUME NEW outcome \in Outcomes, Bind(outcome) PROVE IInv'
    BY <2>6, BindInv
  <2>7. ASSUME NEW outcome \in Outcomes, Grow(outcome) PROVE IInv'
    BY <2>7, GrowInv
  <2>8. ASSUME NEW outcome \in Outcomes, Rebind(outcome) PROVE IInv'
    BY <2>8, RebindInv
  <2>9. ASSUME NEW outcome \in Outcomes, FallbackEnds(outcome) PROVE IInv'
    BY <2>9, FallbackEndsInv
  <2> QED
    BY <1>2, <2>1, <2>2, <2>3, <2>4, <2>5, <2>6, <2>7, <2>8, <2>9 DEF HostStep
<1>3. CASE DeviceStep
  BY <1>3, SemanticStepInv, SemanticPassEndsInv, InferLaneBeginsInv, TransitionInv, DispatchEndsInv DEF DeviceStep
<1>4. CASE DispatchRejected
  BY <1>4, DispatchRejectedInv
<1>5. CASE Abort
  BY <1>5, NothingElse DEF Abort
<1> QED
  BY <1>1, <1>2, <1>3, <1>4, <1>5 DEF Next

(* The buffers, the counters and the contents of the arenas are as the     *)
(* runner expects them, wherever it stands.                                *)
THEOREM RunnerInvariant == Spec => []IInv
<1> QED
  BY InitInv, NextInv, PTL DEF Spec

(* "Every buffer this runner creates is destroyed before this promise      *)
(* settles, including failed or aborted runs."                             *)
THEOREM BuffersAreDestroyed == Spec => []EverythingIsDestroyed
<1>1. IInv => EverythingIsDestroyed
  BY DEF IInv, BuffersOK, EverythingIsDestroyed
<1> QED
  BY <1>1, RunnerInvariant, PTL

(* Where the arenas are compared with the reference.                       *)
Compared ==
    /\ host.at \in {"loop", "running inference"}
    /\ dev.status = "pending" /\ dev.transitions <= Len(Trace)

(* The live parts of the arenas are those of the reference.                *)
LEMMA ArenasHold ==
    ASSUME IInv, Compared
    PROVE  ArenasAreTheReference
<1> DEFINE s == Reference[dev.transitions]
<1>1. /\ host.at \in Looping /\ Records
      /\ Bound("workspace") = host.workspace /\ Bound("output") = host.output
  <2>1. host.at \in Looping
    BY DEF Compared, Looping, Running
  <2> QED
    BY <2>1, BoundBuffers DEF IInv
<1>2. /\ Holds(memory[host.workspace], memory[host.output], host.capacity, dev.top, Performed)
      /\ dev.capacity = host.capacity /\ Performed = dev.transitions
  BY <1>1 DEF IInv, MemoryOK, Built, Performed, Compared
<1>3. dev.capacity \in Capacities /\ Base(dev.capacity, "type") = 0 /\ Base(dev.capacity, "frame") \in Nat
  <2>1. dev.capacity \in Capacities
    BY <1>1 DEF Records, DeviceRecords
  <2>2. Base(dev.capacity, "frame") = 2 * dev.capacity["type"] /\ dev.capacity["type"] \in Nat
    BY <2>1, Bases
  <2> QED
    BY <2>1, <2>2, Bases
<1>4. /\ TopsHold(dev.capacity, dev.top, s) /\ TypesHold(memory[host.workspace], s)
      /\ FramesHold(memory[host.workspace], dev.capacity, s) /\ OutputsHold(memory[host.output], s)
  BY <1>2 DEF Holds
<1>5. s \in Machines
  <2>1. dev.transitions \in 0 .. Len(Trace)
    <3>1. dev.transitions \in Nat /\ Len(Trace) \in Nat /\ dev.transitions <= Len(Trace)
      BY <1>1, Numbers DEF Compared
    <3> QED
      BY <3>1
  <2> QED
    BY <2>1, ReferenceIsAMachine
<1> HIDE DEF s
<1>6. ASSUME NEW i \in 1 .. Len(s.types) PROVE Read("type", i - 1) = s.types[i]
  <2>1. 0 + TypeWords * (i - 1) = TypeWords * (i - 1)
    BY DEF TypeWords
  <2>2. Read("type", i - 1) = memory[host.workspace][0 + TypeWords * (i - 1)]
    BY <1>1, <1>3 DEF Read
  <2> QED
    BY <1>4, <2>1, <2>2 DEF TypesHold
<1>7. ASSUME NEW i \in 1 .. Len(s.frames) PROVE Read("frame", i - 1) = s.frames[i]
  <2>1. 1 * (i - 1) = i - 1
    OBVIOUS
  <2>2. Read("frame", i - 1) = memory[host.workspace][Base(dev.capacity, "frame") + 1 * (i - 1)]
    BY <1>1 DEF Read
  <2> QED
    BY <1>4, <2>1, <2>2 DEF FramesHold
<1>8. dev.top["type"] = Len(s.types) /\ dev.top["frame"] = Len(s.frames)
  BY <1>4 DEF TopsHold
<1>9. \A i \in 1 .. Len(s.outputs) : memory[Bound("output")][i - 1] = s.outputs[i]
  BY <1>1, <1>4 DEF OutputsHold
<1> QED
  BY <1>6, <1>7, <1>8, <1>9 DEF ArenasAreTheReference, s

(* What a run computes and answers does not depend on how it was cut into  *)
(* dispatches or on which arenas had to grow and move.                     *)
THEOREM TheReferenceIsComputed == Spec => []ComputesTheReference
<1>1. IInv => ComputesTheReference
  BY ArenasHold DEF IInv, ResultOK, ComputesTheReference, Compared
<1> QED
  BY <1>1, RunnerInvariant, PTL
=============================================================================
