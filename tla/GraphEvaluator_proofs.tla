------------------------ MODULE GraphEvaluator_proofs ------------------------
(***************************************************************************)
(* Proofs about GraphEvaluator: for any modules, inputs and limits, the    *)
(* host accepts every snapshot, and the work of a thunk is done once.      *)
(***************************************************************************)
EXTENDS GraphEvaluator, SequenceTheorems, FiniteSetTheorems, TLAPS

-----------------------------------------------------------------------------
LEMMA AtMostItself == \A m \in Nat : m <= m
  OBVIOUS

LEMMA LastPosition ==
    \A m, n \in Nat : n = m + 1 => m + 1 \in m + 1 .. n /\ (m + 1) - m = 1 /\ 1 \in 1 .. 1
  OBVIOUS

LEMMA OneLessIsLess == \A m, n \in Nat : m = n - 1 => m <= n
  OBVIOUS

(* Sequences of any elements.                                              *)
IsASequence(q) == \E S : q \in Seq(S)

LEMMA SequenceDomain ==
    ASSUME NEW q, IsASequence(q)
    PROVE  Len(q) \in Nat /\ DOMAIN q = 1 .. Len(q)
  BY DEF IsASequence

LEMMA OneElement ==
    ASSUME NEW e
    PROVE  IsASequence(<<e>>) /\ Len(<<e>>) = 1 /\ \A i \in 1 .. Len(<<e>>) : <<e>>[i] = e
<1>1. <<e>> \in Seq({e})
  OBVIOUS
<1>2. IsASequence(<<e>>)
  BY <1>1 DEF IsASequence
<1>3. Len(<<e>>) = 1
  OBVIOUS
<1>4. \A i \in {1} : <<e>>[i] = e
  OBVIOUS
<1>5. 1 .. 1 = {1}
  OBVIOUS
<1> QED
  BY <1>2, <1>3, <1>4, <1>5

LEMMA Concatenation ==
    ASSUME NEW q, NEW r, IsASequence(q), IsASequence(r)
    PROVE  /\ IsASequence(q \o r)
           /\ Len(q \o r) = Len(q) + Len(r)
           /\ \A i \in 1 .. Len(q) : (q \o r)[i] = q[i]
           /\ \A i \in Len(q) + 1 .. Len(q) + Len(r) : (q \o r)[i] = r[i - Len(q)]
<1>1. PICK S : q \in Seq(S)
  BY DEF IsASequence
<1>2. PICK T : r \in Seq(T)
  BY DEF IsASequence
<1>3. q \in Seq(S \cup T) /\ r \in Seq(S \cup T)
  BY <1>1, <1>2, SeqMonotonic
<1>4. q \o r \in Seq(S \cup T)
  BY <1>3
<1> QED
  BY <1>3, <1>4 DEF IsASequence

LEMMA Prefix ==
    ASSUME NEW q, IsASequence(q), NEW n \in 0 .. Len(q)
    PROVE  /\ IsASequence(SubSeq(q, 1, n))
           /\ Len(SubSeq(q, 1, n)) = n
           /\ \A i \in 1 .. n : SubSeq(q, 1, n)[i] = q[i]
<1>1. PICK S : q \in Seq(S)
  BY DEF IsASequence
<1>2. SubSeq(q, 1, n) \in Seq(S)
  BY <1>1
<1> QED
  BY <1>1, <1>2 DEF IsASequence

LEMMA FunctionIsASequence ==
    ASSUME NEW n \in Nat, NEW q, q = [i \in 1 .. n |-> q[i]]
    PROVE  IsASequence(q) /\ Len(q) = n
<1> DEFINE S == {q[i] : i \in 1 .. n}
<1>1. q \in [1 .. n -> S]
  OBVIOUS
<1> HIDE DEF S
<1>2. q \in Seq(S)
  BY <1>1, SeqDef
<1>3. Len(q) \in Nat /\ DOMAIN q = 1 .. Len(q)
  BY <1>2, LenProperties
<1>4. DOMAIN q = 1 .. n
  BY <1>1
<1>5. \A i \in Nat : (i \in 1 .. n) <=> (i \in 1 .. Len(q))
  BY <1>3, <1>4
<1>6. ASSUME n < Len(q) PROVE FALSE
  <2>1. Len(q) \in 1 .. Len(q) /\ Len(q) \notin 1 .. n
    BY <1>3, <1>6
  <2> QED
    BY <1>3, <1>5, <2>1
<1>7. ASSUME Len(q) < n PROVE FALSE
  <2>1. n \in 1 .. n /\ n \notin 1 .. Len(q)
    BY <1>3, <1>7
  <2> QED
    BY <1>5, <2>1
<1>8. Len(q) = n
  BY <1>3, <1>6, <1>7
<1> QED
  BY <1>2, <1>8 DEF IsASequence

-----------------------------------------------------------------------------
(* What is evaluated: the node records hold counts, and so do the nodes of *)
(* an input; there is at least one definition.  The limits are positive    *)
(* (boundedOption of evaluator.ts).                                        *)
WellFormed(module) ==
    /\ Len(module.definitions) \in Nat \ {0}
    /\ \A i \in DOMAIN module.nodes :
           module.nodes[i].tag = "apply" => IsASequence(module.nodes[i].arguments)
WellFormedInput(input) == \A i \in DOMAIN input : input[i].count \in Nat

EvaluationRequests(modules, inputs) ==
    [module : modules, caseDispatch : {<<>>}, maximumSteps : Nat \ {0},
     maximumStepsPerDispatch : Nat \ {0}, heapSlots : Nat \ {0}, stackFrames : Nat \ {0},
     resultNodes : Nat \ {0}, deep : BOOLEAN, input : inputs]

-----------------------------------------------------------------------------
(* The inductive invariant.                                                *)
RequestOK ==
    /\ WellFormed(Code)
    /\ WellFormedInput(request.input)
    /\ request.maximumSteps \in Nat \ {0}
    /\ request.maximumStepsPerDispatch \in Nat \ {0}
    /\ request.heapSlots \in Nat
    /\ request.stackFrames \in Nat
    /\ request.resultNodes \in Nat

HeapOK == IsASequence(heap) /\ Len(heap) <= request.heapSlots
StackOK ==
    /\ IsASequence(stack)
    /\ peakStack \in Nat
    /\ Len(stack) <= peakStack
    /\ peakStack <= request.stackFrames
ListsOK ==
    /\ IsASequence(globals)
    /\ Len(globals) <= Len(Code.definitions)
    /\ IsASequence(output)
    /\ Len(output) <= request.resultNodes

(* The definitions that have a global are the ones before control.         *)
ControlOK ==
    /\ status = "pending" => "mode" \in DOMAIN control
    /\ status = "pending" /\ control.mode = "initialize global" =>
           /\ control = [mode |-> "initialize global", definition |-> Len(globals) + 1]
           /\ Len(globals) < Len(Code.definitions)
    /\ status = "complete" => stack = <<>>

(* A dispatch starts with fuel, and a state that is not pending any more   *)
(* was reached by a step.                                                  *)
ProgressOK ==
    /\ steps \in Nat /\ steps <= request.maximumSteps
    /\ thunkEvaluations \in Nat /\ thunkEvaluations <= steps
    /\ host.previousSteps \in Nat /\ host.previousSteps <= steps
    /\ steps <= host.previousSteps + request.maximumStepsPerDispatch
    /\ host.at # "done" => host.previousSteps < request.maximumSteps
    /\ host.at = "ready" => status = "pending" /\ steps = host.previousSteps
    /\ host.at = "gpu" =>
           /\ host.dispatchStart = host.previousSteps
           /\ status # "pending" => steps > host.previousSteps
    /\ host.at = "readback" =>
           /\ steps > host.previousSteps
           /\ status = "pending" => steps < request.maximumSteps

(* The frames that update and the thunks that are being evaluated.         *)
IsUpdate(q, i) == i \in 1 .. Len(q) /\ q[i].kind = "update"
StateOf(slot) == IF slot.kind = "thunk" THEN slot.state ELSE "none"
HasState(slot) == "kind" \in DOMAIN slot /\ (slot.kind = "thunk" => "state" \in DOMAIN slot)
StatesOK == \A t \in 1 .. Len(heap) : HasState(heap[t])
UpdatesOK ==
    /\ \A i \in 1 .. Len(stack) :
           stack[i].kind = "update" =>
               /\ stack[i].thunk \in 1 .. Len(heap)
               /\ StateOf(heap[stack[i].thunk]) = "evaluating"
    /\ \A i, j \in 1 .. Len(stack) :
           stack[i].kind = "update" /\ stack[j].kind = "update" /\ stack[i].thunk = stack[j].thunk => i = j
    /\ \A t \in 1 .. Len(heap) :
           StateOf(heap[t]) = "evaluating" =>
               \E i \in 1 .. Len(stack) : stack[i].kind = "update" /\ stack[i].thunk = t
EvaluationsOK == thunkEvaluations <= Cardinality(Thunks({"evaluating", "evaluated"}))

Hosts == [at : {"idle", "ready", "gpu", "readback", "done"}, dispatchStart : Nat, previousSteps : Nat]
IInv ==
    /\ host \in Hosts
    /\ host.at = "idle" => status = "uninitialized"
    /\ host.at # "idle" =>
           /\ RequestOK /\ HeapOK /\ StackOK /\ ListsOK /\ ControlOK /\ ProgressOK
           /\ StatesOK /\ EvaluationsOK
           /\ Sound => UpdatesOK

-----------------------------------------------------------------------------
(* What every transition does to the heap and to the stack.                *)
Fresh(slot) == HasState(slot) /\ StateOf(slot) # "evaluating"
SameWork(old, new) ==
    /\ HasState(new)
    /\ StateOf(old) = "evaluating" <=> StateOf(new) = "evaluating"
    /\ StateOf(old) = "evaluated" => StateOf(new) = "evaluated"
Grows(old, new) ==
    /\ IsASequence(new)
    /\ Len(old) <= Len(new)
    /\ \A t \in 1 .. Len(old) : SameWork(old[t], new[t])
    /\ \A t \in Len(old) + 1 .. Len(new) : Fresh(new[t])
HeapStep == Grows(heap, heap') /\ Len(heap') <= request.heapSlots

SameUpdates(old, new) ==
    /\ \A i : IsUpdate(old, i) <=> IsUpdate(new, i)
    /\ \A i : IsUpdate(old, i) => old[i].thunk = new[i].thunk
StackStep ==
    /\ IsASequence(stack')
    /\ peakStack' \in Nat
    /\ Len(stack') <= peakStack'
    /\ peakStack' <= request.stackFrames
    /\ SameUpdates(stack, stack')

ControlStep ==
    /\ status' = "pending" => "mode" \in DOMAIN control' /\ control'.mode # "initialize global"
    /\ status' = "complete" => stack' = <<>>

(* The thunks with work that are counted stay finite and only get more.    *)
Counted == Thunks({"evaluating", "evaluated"})
LEMMA CountedIsFinite ==
    ASSUME IsASequence(heap)
    PROVE  IsFiniteSet(Counted) /\ Cardinality(Counted) \in Nat
<1>1. Counted \subseteq 1 .. Len(heap)
  BY SequenceDomain DEF Counted, Thunks
<1>2. IsFiniteSet(1 .. Len(heap))
  BY SequenceDomain, FS_Interval
<1> QED
  BY <1>1, <1>2, FS_Subset, FS_CardinalityType

LEMMA CountedGrows ==
    ASSUME IsASequence(heap), StatesOK, Grows(heap, heap')
    PROVE  /\ Counted \subseteq Counted'
           /\ IsFiniteSet(Counted') /\ Cardinality(Counted') \in Nat
           /\ Cardinality(Counted) <= Cardinality(Counted')
<1>1. IsASequence(heap') /\ Len(heap) \in Nat /\ Len(heap') \in Nat
      /\ DOMAIN heap = 1 .. Len(heap) /\ DOMAIN heap' = 1 .. Len(heap')
  BY SequenceDomain DEF Grows
<1>2. Counted \subseteq Counted'
  <2> SUFFICES ASSUME NEW t \in Counted PROVE t \in Counted'
    OBVIOUS
  <2>1. t \in 1 .. Len(heap) /\ heap[t].kind = "thunk" /\ heap[t].state \in {"evaluating", "evaluated"}
    BY <1>1 DEF Counted, Thunks
  <2>2. StateOf(heap[t]) \in {"evaluating", "evaluated"}
    BY <2>1 DEF StateOf
  <2>3. SameWork(heap[t], heap'[t])
    BY <2>1 DEF Grows
  <2>4. StateOf(heap'[t]) \in {"evaluating", "evaluated"}
    BY <2>2, <2>3 DEF SameWork
  <2>5. heap'[t].kind = "thunk" /\ heap'[t].state \in {"evaluating", "evaluated"}
    BY <2>4 DEF StateOf
  <2>6. t \in DOMAIN heap'
    BY <1>1, <2>1 DEF Grows
  <2> QED
    BY <2>5, <2>6 DEF Counted, Thunks
<1>3. IsFiniteSet(Counted')
  <2>1. Counted' \subseteq 1 .. Len(heap')
    BY <1>1 DEF Counted, Thunks
  <2>2. IsFiniteSet(1 .. Len(heap'))
    BY <1>1, FS_Interval
  <2> QED
    BY <2>1, <2>2, FS_Subset
<1> QED
  BY <1>2, <1>3, CountedIsFinite, FS_Subset, FS_CardinalityType

LEMMA SharingIsKept ==
    ASSUME IsASequence(heap), IsASequence(stack), StatesOK, UpdatesOK, EvaluationsOK,
           thunkEvaluations \in Nat,
           Grows(heap, heap'), IsASequence(stack'), SameUpdates(stack, stack'),
           thunkEvaluations' = thunkEvaluations
    PROVE  StatesOK' /\ UpdatesOK' /\ EvaluationsOK'
<1>1. /\ Len(heap) \in Nat /\ Len(heap') \in Nat /\ Len(heap) <= Len(heap')
      /\ Len(stack) \in Nat /\ Len(stack') \in Nat
  BY SequenceDomain DEF Grows
<1>2. \A t \in 1 .. Len(heap') :
          \/ t \in 1 .. Len(heap) /\ SameWork(heap[t], heap'[t])
          \/ t \notin 1 .. Len(heap) /\ Fresh(heap'[t])
  <2> TAKE t \in 1 .. Len(heap')
  <2>1. CASE t \in 1 .. Len(heap)
    BY <2>1 DEF Grows
  <2>2. CASE t \notin 1 .. Len(heap)
    <3>1. t \in Len(heap) + 1 .. Len(heap')
      BY <1>1, <2>2
    <3> QED
      BY <3>1, <2>2 DEF Grows
  <2> QED
    BY <2>1, <2>2
<1>3. StatesOK'
  BY <1>2 DEF StatesOK, SameWork, Fresh
<1>4. \A i \in 1 .. Len(stack') : stack'[i].kind = "update" =>
          i \in 1 .. Len(stack) /\ stack[i].kind = "update" /\ stack[i].thunk = stack'[i].thunk
  BY DEF SameUpdates, IsUpdate
<1>5. \A i \in 1 .. Len(stack) : stack[i].kind = "update" =>
          i \in 1 .. Len(stack') /\ stack'[i].kind = "update" /\ stack[i].thunk = stack'[i].thunk
  BY DEF SameUpdates, IsUpdate
<1>6. ASSUME NEW i \in 1 .. Len(stack'), stack'[i].kind = "update"
      PROVE  stack'[i].thunk \in 1 .. Len(heap') /\ StateOf(heap'[stack'[i].thunk]) = "evaluating"
  <2>1. stack'[i].thunk \in 1 .. Len(heap) /\ StateOf(heap[stack'[i].thunk]) = "evaluating"
    BY <1>4, <1>6 DEF UpdatesOK
  <2>2. stack'[i].thunk \in 1 .. Len(heap')
    BY <2>1, <1>1
  <2> QED
    BY <2>1, <2>2, <1>2 DEF SameWork
<1>7. ASSUME NEW t \in 1 .. Len(heap'), StateOf(heap'[t]) = "evaluating"
      PROVE  \E i \in 1 .. Len(stack') : stack'[i].kind = "update" /\ stack'[i].thunk = t
  <2>1. t \in 1 .. Len(heap) /\ StateOf(heap[t]) = "evaluating"
    BY <1>7, <1>2 DEF SameWork, Fresh
  <2> QED
    BY <2>1, <1>5 DEF UpdatesOK
<1>8. \A i, j \in 1 .. Len(stack') :
          stack'[i].kind = "update" /\ stack'[j].kind = "update" /\ stack'[i].thunk = stack'[j].thunk => i = j
  BY <1>4 DEF UpdatesOK
<1>9. UpdatesOK'
  BY <1>6, <1>7, <1>8 DEF UpdatesOK
<1>10. EvaluationsOK'
  <2> Counted = Thunks({"evaluating", "evaluated"}) /\ Counted' = Thunks({"evaluating", "evaluated"})'
    BY DEF Counted
  <2>1. thunkEvaluations <= Cardinality(Counted) /\ Cardinality(Counted) \in Nat
    BY CountedIsFinite DEF EvaluationsOK, Counted
  <2>2. thunkEvaluations' <= Cardinality(Counted')
    BY <2>1, CountedGrows
  <2> QED
    BY <2>2 DEF EvaluationsOK, Counted
<1> QED
  BY <1>3, <1>9, <1>10
(* The heap, by the ways in which it changes.                              *)
LEMMA HeapStays ==
    ASSUME HeapOK, StatesOK
    PROVE  Grows(heap, heap)
<1>1. Len(heap) \in Nat
  BY SequenceDomain DEF HeapOK
<1> QED
  BY <1>1 DEF Grows, HeapOK, StatesOK, SameWork

LEMMA UnchangedHeapStep ==
    ASSUME HeapOK, StatesOK, heap' = heap
    PROVE  HeapStep
  BY HeapStays DEF HeapStep, HeapOK

Allocated(slots, written) ==
    LET room == request.heapSlots - Len(heap)
    IN  IF Len(slots) <= room THEN heap' = written \o slots ELSE heap' = heap \o SubSeq(slots, 1, room)

LEMMA AppendedGrows ==
    ASSUME NEW written, Grows(heap, written), Len(written) = Len(heap), IsASequence(heap),
           NEW slots, IsASequence(slots), \A i \in 1 .. Len(slots) : Fresh(slots[i])
    PROVE  /\ Grows(heap, written \o slots)
           /\ Len(written \o slots) = Len(heap) + Len(slots)
<1>1. IsASequence(written) /\ Len(heap) \in Nat /\ Len(slots) \in Nat
  BY SequenceDomain DEF Grows
<1>2. /\ IsASequence(written \o slots)
      /\ Len(written \o slots) = Len(heap) + Len(slots)
      /\ \A t \in 1 .. Len(heap) : (written \o slots)[t] = written[t]
      /\ \A t \in Len(heap) + 1 .. Len(heap) + Len(slots) : (written \o slots)[t] = slots[t - Len(heap)]
  BY <1>1, Concatenation
<1>3. \A t \in Len(heap) + 1 .. Len(heap) + Len(slots) : t - Len(heap) \in 1 .. Len(slots)
  BY <1>1
<1> QED
  BY <1>1, <1>2, <1>3 DEF Grows

LEMMA AllocationStep ==
    ASSUME HeapOK, StatesOK, request.heapSlots \in Nat,
           NEW written, Grows(heap, written), Len(written) = Len(heap),
           NEW slots, IsASequence(slots), \A i \in 1 .. Len(slots) : Fresh(slots[i]),
           Allocated(slots, written)
    PROVE  HeapStep
<1> DEFINE room == request.heapSlots - Len(heap)
<1>1. Len(heap) \in Nat /\ Len(slots) \in Nat /\ room \in Nat
  BY SequenceDomain DEF HeapOK
<1>2. CASE Len(slots) <= room
  <2>1. heap' = written \o slots
    BY <1>2 DEF Allocated
  <2>2. Grows(heap, written \o slots) /\ Len(written \o slots) = Len(heap) + Len(slots)
    BY AppendedGrows DEF HeapOK
  <2> QED
    BY <1>1, <1>2, <2>1, <2>2 DEF HeapStep
<1>3. CASE ~(Len(slots) <= room)
  <2> DEFINE fitting == SubSeq(slots, 1, room)
  <2>1. heap' = heap \o fitting
    BY <1>3 DEF Allocated
  <2>2. room \in 0 .. Len(slots)
    BY <1>1, <1>3
  <2>3. IsASequence(fitting) /\ Len(fitting) = room /\ \A i \in 1 .. room : fitting[i] = slots[i]
    BY <2>2, Prefix
  <2>4. \A i \in 1 .. Len(fitting) : Fresh(fitting[i])
    BY <2>2, <2>3, <1>1
  <2> HIDE DEF fitting
  <2>5. Grows(heap, heap \o fitting) /\ Len(heap \o fitting) = Len(heap) + Len(fitting)
    BY <2>3, <2>4, AppendedGrows, HeapStays DEF HeapOK
  <2> QED
    BY <1>1, <2>1, <2>3, <2>5 DEF HeapStep
<1> QED
  BY <1>2, <1>3

(* A mark of a constructor is not a state of a thunk.                      *)
LEMMA MarkStep ==
    ASSUME HeapOK, StatesOK, NEW t, NEW marked,
           heap' = [heap EXCEPT ![t] = [heap[t] EXCEPT !.marked = marked]]
    PROVE  HeapStep
<1>1. Len(heap) \in Nat /\ DOMAIN heap = 1 .. Len(heap)
  BY SequenceDomain DEF HeapOK
<1>2. heap' = [i \in 1 .. Len(heap) |-> heap'[i]]
  BY <1>1, SequenceDomain DEF HeapOK, IsASequence
<1>3. IsASequence(heap') /\ Len(heap') = Len(heap)
  BY <1>1, <1>2, FunctionIsASequence
<1>4. \A i \in 1 .. Len(heap) : SameWork(heap[i], heap'[i])
  <2> TAKE i \in 1 .. Len(heap)
  <2>1. HasState(heap[i])
    BY DEF StatesOK
  <2>2. CASE i # t
    BY <1>1, <2>1, <2>2 DEF SameWork
  <2>3. CASE i = t
    <3>1. heap'[i] = [heap[i] EXCEPT !.marked = marked]
      BY <1>1, <2>3
    <3> QED
      BY <3>1, <2>1 DEF SameWork, HasState, StateOf
  <2> QED
    BY <2>2, <2>3
<1> QED
  BY <1>1, <1>3, <1>4 DEF HeapStep, Grows, HeapOK

(* The stack, by the ways in which it changes.                             *)
LEMMA UnchangedStackStep ==
    ASSUME StackOK, stack' = stack, peakStack' = peakStack
    PROVE  StackStep
  BY DEF StackOK, StackStep, SameUpdates

LEMMA PoppedKeeps ==
    ASSUME IsASequence(stack), stack # <<>>
    PROVE  /\ IsASequence(Popped)
           /\ Len(stack) \in Nat \ {0} /\ Len(Popped) = Len(stack) - 1
           /\ \A i \in 1 .. Len(stack) - 1 : Popped[i] = stack[i]
           /\ Top.kind # "update" => SameUpdates(stack, Popped)
<1>1. Len(stack) \in Nat \ {0}
  BY DEF IsASequence
<1>2. Len(stack) - 1 \in 0 .. Len(stack)
  BY <1>1
<1>3. /\ IsASequence(Popped) /\ Len(Popped) = Len(stack) - 1
      /\ \A i \in 1 .. Len(stack) - 1 : Popped[i] = stack[i]
  BY <1>2, Prefix DEF Popped
<1>4. ASSUME Top.kind # "update" PROVE SameUpdates(stack, Popped)
  <2>1. \A i : i \in 1 .. Len(stack) <=> (i \in 1 .. Len(Popped) \/ i = Len(stack))
    BY <1>1, <1>3
  <2> QED
    BY <1>1, <1>3, <1>4, <2>1 DEF SameUpdates, IsUpdate, Top
<1> QED
  BY <1>1, <1>3, <1>4

LEMMA PopStep ==
    ASSUME StackOK, stack # <<>>, Top.kind # "update", Pop, request.stackFrames \in Nat
    PROVE  StackStep
  BY PoppedKeeps DEF StackOK, StackStep, Pop

Pushed(base, frames) ==
    LET room == request.stackFrames - Len(base)
        fitting == IF Len(frames) <= room THEN Len(frames) ELSE room
    IN  /\ stack' = base \o SubSeq(frames, 1, fitting)
        /\ peakStack' = Largest(peakStack, Len(base) + fitting)

LEMMA PushedIs ==
    ASSUME StackOK, request.stackFrames \in Nat, NEW base, NEW frames,
           IsASequence(base), Len(base) <= Len(stack), IsASequence(frames), Pushed(base, frames)
    PROVE  \E fitting \in 0 .. Len(frames) :
               /\ Len(frames) <= request.stackFrames - Len(base) => fitting = Len(frames)
               /\ ~(Len(frames) <= request.stackFrames - Len(base)) => fitting = request.stackFrames - Len(base)
               /\ IsASequence(stack') /\ Len(stack') = Len(base) + fitting
               /\ peakStack' \in Nat /\ Len(stack') <= peakStack' /\ peakStack' <= request.stackFrames
               /\ \A i \in 1 .. Len(base) : stack'[i] = base[i]
               /\ \A i \in Len(base) + 1 .. Len(stack') : stack'[i] = frames[i - Len(base)]
<1> DEFINE room == request.stackFrames - Len(base)
           fitting == IF Len(frames) <= room THEN Len(frames) ELSE room
           kept == SubSeq(frames, 1, fitting)
<1>1. /\ Len(base) \in Nat /\ Len(frames) \in Nat /\ Len(stack) \in Nat /\ room \in Nat
      /\ peakStack \in Nat /\ peakStack <= request.stackFrames
  BY SequenceDomain DEF StackOK
<1>2. fitting \in 0 .. Len(frames) /\ fitting <= room
  BY <1>1
<1>3. stack' = base \o kept /\ peakStack' = Largest(peakStack, Len(base) + fitting)
  BY DEF Pushed
<1> HIDE DEF fitting
<1>4. IsASequence(kept) /\ Len(kept) = fitting /\ \A i \in 1 .. fitting : kept[i] = frames[i]
  BY <1>2, Prefix
<1> HIDE DEF kept
<1>5. /\ IsASequence(stack') /\ Len(stack') = Len(base) + fitting
      /\ \A i \in 1 .. Len(base) : stack'[i] = base[i]
      /\ \A i \in Len(base) + 1 .. Len(base) + fitting : stack'[i] = kept[i - Len(base)]
  BY <1>3, <1>4, Concatenation
<1>6. \A i \in Len(base) + 1 .. Len(base) + fitting : i - Len(base) \in 1 .. fitting
  BY <1>1, <1>2
<1>7. peakStack' \in Nat /\ Len(stack') <= peakStack' /\ peakStack' <= request.stackFrames
  BY <1>1, <1>2, <1>3, <1>5 DEF Largest
<1>8. /\ Len(frames) <= room => fitting = Len(frames)
      /\ ~(Len(frames) <= room) => fitting = room
  BY DEF fitting
<1>9. \A i \in Len(base) + 1 .. Len(stack') : stack'[i] = frames[i - Len(base)]
  BY <1>4, <1>5, <1>6
<1> HIDE DEF room
<1> QED
  BY <1>2, <1>5, <1>7, <1>8, <1>9 DEF room

LEMMA PushStep ==
    ASSUME StackOK, request.stackFrames \in Nat, NEW base, NEW frames,
           IsASequence(base), Len(base) <= Len(stack), SameUpdates(stack, base),
           IsASequence(frames), \A i \in 1 .. Len(frames) : frames[i].kind # "update",
           Pushed(base, frames)
    PROVE  StackStep
<1>1. PICK fitting \in 0 .. Len(frames) :
          /\ IsASequence(stack') /\ Len(stack') = Len(base) + fitting
          /\ peakStack' \in Nat /\ Len(stack') <= peakStack' /\ peakStack' <= request.stackFrames
          /\ \A i \in 1 .. Len(base) : stack'[i] = base[i]
          /\ \A i \in Len(base) + 1 .. Len(stack') : stack'[i] = frames[i - Len(base)]
  BY PushedIs
<1>2. Len(base) \in Nat /\ Len(frames) \in Nat
  BY SequenceDomain
<1>3. \A i \in Len(base) + 1 .. Len(stack') : stack'[i].kind # "update"
  <2> SUFFICES ASSUME NEW i \in Len(base) + 1 .. Len(stack') PROVE stack'[i].kind # "update"
    OBVIOUS
  <2>1. stack'[i] = frames[i - Len(base)]
    BY <1>1
  <2>2. Len(stack') = Len(base) + fitting /\ fitting <= Len(frames) /\ fitting \in Nat
    BY <1>1, <1>2
  <2>3. i - Len(base) \in 1 .. Len(frames)
    BY <1>2, <2>2
  <2> QED
    BY <2>1, <2>3
<1>4. \A i : i \in 1 .. Len(stack') <=> (i \in 1 .. Len(base) \/ i \in Len(base) + 1 .. Len(stack'))
  <2>1. Len(stack') \in Nat /\ Len(base) <= Len(stack')
    BY <1>1, <1>2, SequenceDomain
  <2> QED
    BY <1>2, <2>1
<1>5. SameUpdates(base, stack')
  BY <1>1, <1>3, <1>4 DEF SameUpdates, IsUpdate
<1> QED
  BY <1>1, <1>5 DEF StackStep, SameUpdates
-----------------------------------------------------------------------------
(* A turn of the loop.                                                     *)
LEMMA TurnFacts ==
    ASSUME IInv, NEW mode, Turn(mode)
    PROVE  /\ RequestOK /\ HeapOK /\ StackOK /\ ListsOK /\ ControlOK /\ ProgressOK
           /\ StatesOK /\ UpdatesOK /\ EvaluationsOK
           /\ status = "pending" /\ "mode" \in DOMAIN control /\ control.mode = mode
           /\ request' = request
           /\ request.heapSlots \in Nat /\ request.stackFrames \in Nat
  BY DEF IInv, Turn, Running, Sound, ControlOK, RequestOK

LEMMA ProgressOfATurn ==
    ASSUME IInv, NEW mode, Turn(mode), thunkEvaluations' \in Nat, thunkEvaluations' <= steps + 1
    PROVE  ProgressOK'
<1>1. /\ ProgressOK /\ RequestOK /\ host.at = "gpu"
      /\ steps' = steps + 1 /\ request' = request /\ host' = host
      /\ steps < request.maximumSteps
      /\ steps - host.dispatchStart < request.maximumStepsPerDispatch
  BY DEF IInv, Turn, Running, FuelLeft, DispatchLeft
<1>2. /\ steps \in Nat /\ host.previousSteps \in Nat /\ host.dispatchStart = host.previousSteps
      /\ request.maximumSteps \in Nat /\ request.maximumStepsPerDispatch \in Nat
      /\ host.previousSteps <= steps /\ host.previousSteps < request.maximumSteps
  BY <1>1 DEF ProgressOK, RequestOK
<1> QED
  BY <1>1, <1>2 DEF ProgressOK

LEMMA ListsAreKept ==
    ASSUME ListsOK, request' = request, globals' = globals, output' = output
    PROVE  ListsOK'
  BY DEF ListsOK, Code

LEMMA TurnStep ==
    ASSUME IInv, NEW mode, Turn(mode), HeapStep, StackStep, ControlStep, ListsOK',
           thunkEvaluations' = thunkEvaluations
    PROVE  IInv'
<1>1. host' = host /\ request' = request /\ host.at = "gpu" /\ IInv
  BY DEF Turn, Running
<1>2. ProgressOK'
  <2>1. thunkEvaluations \in Nat /\ steps \in Nat /\ thunkEvaluations <= steps
    BY TurnFacts DEF ProgressOK
  <2> QED
    BY <2>1, ProgressOfATurn
<1>3. StatesOK' /\ UpdatesOK' /\ EvaluationsOK'
  <2>1. thunkEvaluations \in Nat
    BY TurnFacts DEF ProgressOK
  <2> QED
    BY <2>1, TurnFacts, SharingIsKept DEF HeapStep, StackStep, HeapOK, StackOK
<1>4. RequestOK' /\ HeapOK' /\ StackOK'
  <2>1. RequestOK'
    BY <1>1, TurnFacts DEF RequestOK, Code, WellFormed, WellFormedInput
  <2>2. HeapOK'
    BY <1>1 DEF HeapOK, HeapStep, Grows
  <2>3. StackOK'
    BY <1>1 DEF StackOK, StackStep
  <2> QED
    BY <2>1, <2>2, <2>3
<1>5. ControlOK'
  BY DEF ControlOK, ControlStep
<1> QED
  BY <1>1, <1>2, <1>3, <1>4, <1>5 DEF IInv

(* The part of the transitions that evaluate, enter and return, which      *)
(* leave the lists alone.                                                  *)
LEMMA KeepingStep ==
    ASSUME IInv, NEW mode, Turn(mode), HeapStep, StackStep, ControlStep, Keep
    PROVE  IInv'
<1>1. ListsOK'
  BY TurnFacts, ListsAreKept DEF Keep
<1> QED
  BY <1>1, TurnStep DEF Keep

LEMMA FailIsControlStep ==
    ASSUME NEW fault, fault \notin {"pending", "complete"}, Fail(fault)
    PROVE  ControlStep
  BY DEF Fail, ControlStep

LEMMA GotoIsControlStep ==
    ASSUME status = "pending", NEW next, "mode" \in DOMAIN next, next.mode # "initialize global", Goto(next)
    PROVE  ControlStep
  BY DEF Goto, ControlStep

(* The transitions that allocate.                                          *)
LEMMA AllocateStep ==
    ASSUME IInv, NEW mode, Turn(mode),
           NEW slots, IsASequence(slots), \A i \in 1 .. Len(slots) : Fresh(slots[i]),
           NEW next, "mode" \in DOMAIN next, next.mode # "initialize global",
           Allocate(slots, next)
    PROVE  HeapStep /\ ControlStep
<1>1. Allocated(slots, heap)
  BY DEF Allocate, AllocateInto, Allocated
<1>2. HeapStep
  BY <1>1, TurnFacts, HeapStays, AllocationStep
<1>3. Goto(next) \/ Fail("OutOfHeap")
  BY DEF Allocate, AllocateInto
<1> QED
  BY <1>2, <1>3, TurnFacts, GotoIsControlStep, FailIsControlStep

(* The transitions that push.                                              *)
LEMMA PushOntoStep ==
    ASSUME IInv, NEW mode, Turn(mode),
           NEW base, IsASequence(base), Len(base) <= Len(stack), SameUpdates(stack, base),
           NEW frames, IsASequence(frames), \A i \in 1 .. Len(frames) : frames[i].kind # "update",
           NEW next, "mode" \in DOMAIN next, next.mode # "initialize global",
           PushOnto(base, frames, next)
    PROVE  StackStep /\ ControlStep
<1>1. Pushed(base, frames)
  BY DEF PushOnto, Pushed
<1>2. StackStep
  BY <1>1, TurnFacts, PushStep
<1>3. Goto(next) \/ Fail("StackOverflow")
  BY DEF PushOnto
<1> QED
  BY <1>2, <1>3, TurnFacts, GotoIsControlStep, FailIsControlStep

LEMMA OneFrame ==
    ASSUME NEW frame, frame.kind # "update"
    PROVE  IsASequence(<<frame>>) /\ \A i \in 1 .. Len(<<frame>>) : <<frame>>[i].kind # "update"
<1> DEFINE frames == <<frame>>
<1>1. IsASequence(frames) /\ \A i \in 1 .. Len(frames) : frames[i] = frame
  BY OneElement
<1> HIDE DEF frames
<1>2. \A i \in 1 .. Len(frames) : frames[i].kind # "update"
  BY <1>1
<1> QED
  BY <1>1, <1>2 DEF frames

LEMMA PushOneStep ==
    ASSUME IInv, NEW mode, Turn(mode), NEW frame, frame.kind # "update",
           NEW next, "mode" \in DOMAIN next, next.mode # "initialize global",
           Push(frame, next)
    PROVE  StackStep /\ ControlStep
<1>1. IsASequence(stack) /\ Len(stack) \in Nat
  BY TurnFacts, SequenceDomain DEF StackOK
<1>2. Len(stack) <= Len(stack)
  BY <1>1, AtMostItself
<1>5. SameUpdates(stack, stack)
  BY DEF SameUpdates
<1>3. IsASequence(<<frame>>) /\ \A i \in 1 .. Len(<<frame>>) : <<frame>>[i].kind # "update"
  BY OneFrame
<1>4. PushOnto(stack, <<frame>>, next)
  BY DEF Push
<1> QED
  BY <1>1, <1>2, <1>3, <1>4, <1>5, PushOntoStep

LEMMA ReplaceTopStep ==
    ASSUME IInv, NEW mode, Turn(mode), stack # <<>>, Top.kind # "update", NEW frame, frame.kind # "update",
           NEW next, "mode" \in DOMAIN next, next.mode # "initialize global",
           PushOnto(Popped, <<frame>>, next)
    PROVE  StackStep /\ ControlStep
<1>1. IsASequence(stack)
  BY TurnFacts DEF StackOK
<1>2. IsASequence(Popped) /\ SameUpdates(stack, Popped)
  BY <1>1, PoppedKeeps
<1>3. Len(Popped) <= Len(stack)
  <2>1. Len(stack) \in Nat /\ Len(Popped) \in Nat /\ Len(Popped) = Len(stack) - 1
    BY <1>1, <1>2, PoppedKeeps, SequenceDomain
  <2> QED
    BY <2>1, OneLessIsLess
<1>4. IsASequence(<<frame>>) /\ \A i \in 1 .. Len(<<frame>>) : <<frame>>[i].kind # "update"
  BY OneFrame
<1> QED
  BY <1>2, <1>3, <1>4, PushOntoStep

-----------------------------------------------------------------------------
(* New slots.                                                              *)
AllFresh(slots) == IsASequence(slots) /\ \A i \in 1 .. Len(slots) : Fresh(slots[i])

LEMMA NewSlotsAreFresh ==
    ASSUME NEW a, NEW b, NEW c
    PROVE  /\ Fresh(Thunk(a, b)) /\ Fresh(Evaluated(a)) /\ Fresh(InputThunk(a))
           /\ Fresh(Closure(a, b, c)) /\ Fresh(Partial(a, b, c)) /\ Fresh(Constructed(a, b, c))
           /\ Fresh(Field(a, b)) /\ Fresh(Wide(a)) /\ Fresh(Environment(a, b))
<1>1. Fresh(Thunk(a, b))
  BY DEF Thunk, Fresh, HasState, StateOf
<1>2. Fresh(Evaluated(a))
  BY DEF Evaluated, Thunk, Fresh, HasState, StateOf
<1>3. Fresh(InputThunk(a))
  BY DEF InputThunk, Thunk, Fresh, HasState, StateOf
<1>4. Fresh(Closure(a, b, c)) /\ Fresh(Partial(a, b, c)) /\ Fresh(Constructed(a, b, c))
  BY DEF Closure, Partial, Constructed, Fresh, HasState, StateOf
<1>5. Fresh(Field(a, b)) /\ Fresh(Wide(a))
  BY DEF Field, Wide, Fresh, HasState, StateOf
<1>6. Fresh(Environment(a, b))
  BY DEF Environment, Fresh, HasState, StateOf
<1> QED
  BY <1>1, <1>2, <1>3, <1>4, <1>5, <1>6

LEMMA OneFresh ==
    ASSUME NEW a, Fresh(a)
    PROVE  AllFresh(<<a>>)
<1> DEFINE slots == <<a>>
<1>1. IsASequence(slots) /\ \A i \in 1 .. Len(slots) : slots[i] = a
  BY OneElement
<1> HIDE DEF slots
<1>2. AllFresh(slots)
  BY <1>1 DEF AllFresh
<1> QED
  BY <1>2 DEF slots

LEMMA MoreFresh ==
    ASSUME NEW slots, NEW more, AllFresh(slots), AllFresh(more)
    PROVE  AllFresh(slots \o more)
<1>1. Len(slots) \in Nat /\ Len(more) \in Nat
  BY SequenceDomain DEF AllFresh
<1>2. \A i \in 1 .. Len(slots) + Len(more) :
          i \in 1 .. Len(slots) \/ (i \in Len(slots) + 1 .. Len(slots) + Len(more) /\ i - Len(slots) \in 1 .. Len(more))
  BY <1>1
<1> QED
  BY <1>2, Concatenation DEF AllFresh

LEMMA TwoFresh ==
    ASSUME NEW a, NEW b, Fresh(a), Fresh(b)
    PROVE  AllFresh(<<a, b>>)
<1>1. <<a, b>> \in Seq({a, b})
  OBVIOUS
<1>2. IsASequence(<<a, b>>)
  BY <1>1 DEF IsASequence
<1>3. Len(<<a, b>>) = 2 /\ 1 .. 2 = {1, 2}
  OBVIOUS
<1>4. <<a, b>>[1] = a /\ <<a, b>>[2] = b
  OBVIOUS
<1>5. \A i \in {1, 2} : Fresh(<<a, b>>[i])
  BY <1>4
<1> QED
  BY <1>2, <1>3, <1>5 DEF AllFresh

-----------------------------------------------------------------------------
(* The transitions of MODE_EVAL.                                           *)
LEMMA SimpleStep ==
    ASSUME IInv, NEW mode, Turn(mode), heap' = heap, KeepStack, Keep,
           \/ \E fault : fault \notin {"pending", "complete"} /\ Fail(fault)
           \/ \E next : "mode" \in DOMAIN next /\ next.mode # "initialize global" /\ Goto(next)
    PROVE  IInv'
<1>1. HeapStep /\ StackStep
  BY TurnFacts, UnchangedHeapStep, UnchangedStackStep DEF KeepStack
<1>2. ControlStep
  BY TurnFacts, FailIsControlStep, GotoIsControlStep
<1> QED
  BY <1>1, <1>2, KeepingStep

LEMMA AllocatingStep ==
    ASSUME IInv, NEW mode, Turn(mode), NEW slots, AllFresh(slots),
           NEW next, "mode" \in DOMAIN next, next.mode # "initialize global",
           Allocate(slots, next), KeepStack, Keep
    PROVE  IInv'
<1>1. HeapStep /\ ControlStep
  BY AllocateStep DEF AllFresh
<1>2. StackStep
  BY TurnFacts, UnchangedStackStep DEF KeepStack
<1> QED
  BY <1>1, <1>2, KeepingStep

LEMMA PushingStep ==
    ASSUME IInv, NEW mode, Turn(mode), NEW frame, frame.kind # "update",
           NEW next, "mode" \in DOMAIN next, next.mode # "initialize global",
           Push(frame, next), heap' = heap, Keep
    PROVE  IInv'
<1>1. HeapStep
  BY TurnFacts, UnchangedHeapStep
<1>2. StackStep /\ ControlStep
  BY PushOneStep
<1> QED
  BY <1>1, <1>2, KeepingStep

LEMMA Modes ==
    ASSUME NEW a, NEW b
    PROVE  /\ "mode" \in DOMAIN Eval(a, b) /\ Eval(a, b).mode # "initialize global"
           /\ "mode" \in DOMAIN EnterThunk(a) /\ EnterThunk(a).mode # "initialize global"
           /\ "mode" \in DOMAIN Return(a, b) /\ Return(a, b).mode # "initialize global"
           /\ "mode" \in DOMAIN Reify /\ Reify.mode # "initialize global"
  BY DEF Eval, EnterThunk, Return, Reify

LEMMA EvaluateLiteralStep ==
    ASSUME IInv, EvaluateLiteral
    PROVE  IInv'
<1>1. Turn("eval") /\ heap' = heap /\ KeepStack /\ Keep
  BY DEF EvaluateLiteral, Evaluating
<1>2. Goto(Return("integer", Wrapped(Node.n))) \/ Goto(Return("boolean", Node.b))
  BY DEF EvaluateLiteral
<1> QED
  BY <1>1, <1>2, Modes, SimpleStep

LEMMA EvaluateLetStep ==
    ASSUME IInv, EvaluateLet
    PROVE  IInv'
<1>1. Turn("eval") /\ KeepStack /\ Keep
  BY DEF EvaluateLet, Evaluating
<1>2. CASE Node.used
  <2> DEFINE slots == <<Thunk(Node.value, control.environment), Environment(control.environment, Slot(1))>>
  <2>1. Allocate(slots, Eval(Node.body, Slot(2)))
    BY <1>2 DEF EvaluateLet
  <2>2. AllFresh(slots)
    BY NewSlotsAreFresh, TwoFresh
  <2> QED
    BY <1>1, <2>1, <2>2, Modes, AllocatingStep
<1>3. CASE ~Node.used
  <2> DEFINE slots == <<Environment(control.environment, 0)>>
  <2>1. Allocate(slots, Eval(Node.body, Slot(1)))
    BY <1>3 DEF EvaluateLet
  <2>2. AllFresh(slots)
    BY NewSlotsAreFresh, OneFresh
  <2> QED
    BY <1>1, <2>1, <2>2, Modes, AllocatingStep
<1> QED
  BY <1>2, <1>3

LEMMA EvaluateStrictLetStep ==
    ASSUME IInv, EvaluateStrictLet
    PROVE  IInv'
<1> DEFINE frame == [kind |-> "strict let", node |-> Node.body, environment |-> control.environment]
<1>1. Turn("eval") /\ heap' = heap /\ Keep /\ Push(frame, Eval(Node.value, control.environment))
  BY DEF EvaluateStrictLet, Evaluating
<1>2. frame.kind # "update"
  OBVIOUS
<1> HIDE DEF frame
<1> QED
  BY <1>1, <1>2, Modes, PushingStep

LEMMA EvaluateLetRecStep ==
    ASSUME IInv, EvaluateLetRec
    PROVE  IInv'
<1>1. Turn("eval") /\ KeepStack /\ Keep
  BY DEF EvaluateLetRec, Evaluating
<1>2. CASE Code.nodes[Node.value].tag = "lambda"
  <2> DEFINE slots == <<Thunk(Node.value, Slot(2)), Environment(control.environment, Slot(1))>>
  <2>1. Allocate(slots, Eval(Node.body, Slot(2)))
    BY <1>2 DEF EvaluateLetRec
  <2>2. AllFresh(slots)
    BY NewSlotsAreFresh, TwoFresh
  <2> QED
    BY <1>1, <2>1, <2>2, Modes, AllocatingStep
<1>3. CASE Code.nodes[Node.value].tag # "lambda"
  <2>1. Fail("BadModule") /\ heap' = heap
    BY <1>3 DEF EvaluateLetRec
  <2> QED
    BY <1>1, <2>1, SimpleStep
<1> QED
  BY <1>2, <1>3
LEMMA EvaluateIfStep ==
    ASSUME IInv, EvaluateIf
    PROVE  IInv'
<1> DEFINE frame == [kind |-> "if", consequent |-> Node.consequent, alternate |-> Node.alternate,
                     environment |-> control.environment]
<1>1. Turn("eval") /\ heap' = heap /\ Keep /\ Push(frame, Eval(Node.test, control.environment))
  BY DEF EvaluateIf, Evaluating
<1>2. frame.kind # "update"
  OBVIOUS
<1> HIDE DEF frame
<1> QED
  BY <1>1, <1>2, Modes, PushingStep

LEMMA EvaluateLambdaStep ==
    ASSUME IInv, EvaluateLambda
    PROVE  IInv'
<1> DEFINE slots == <<Closure(control.node, control.environment, 0)>>
<1>1. Turn("eval") /\ KeepStack /\ Keep /\ Allocate(slots, Return("closure", Slot(1)))
  BY DEF EvaluateLambda, Evaluating
<1>2. AllFresh(slots)
  BY NewSlotsAreFresh, OneFresh
<1> QED
  BY <1>1, <1>2, Modes, AllocatingStep

LEMMA EvaluateApplyStep ==
    ASSUME IInv, EvaluateApply
    PROVE  IInv'
<1> DEFINE n == Len(Node.arguments)
           frames == IF n = 0 THEN <<[kind |-> "apply zero"]>>
                     ELSE [i \in 1 .. n |-> ArgumentFrame(Node.arguments[n + 1 - i])]
<1>1. /\ Turn("eval") /\ control.node \in DOMAIN Code.nodes /\ Node.tag = "apply"
      /\ heap' = heap /\ Keep /\ PushOnto(stack, frames, Eval(Node.callee, control.environment))
  BY DEF EvaluateApply, Evaluating
<1>2. n \in Nat
  <2>1. IsASequence(Node.arguments)
    BY <1>1, TurnFacts DEF RequestOK, WellFormed, Node
  <2> QED
    BY <2>1, SequenceDomain
<1>3. IsASequence(frames) /\ \A i \in 1 .. Len(frames) : frames[i].kind # "update"
  <2>1. CASE n = 0
    <3>1. [kind |-> "apply zero"].kind # "update"
      OBVIOUS
    <3> QED
      BY <2>1, <3>1, OneFrame
  <2>2. CASE n # 0
    <3> DEFINE made == [i \in 1 .. n |-> ArgumentFrame(Node.arguments[n + 1 - i])]
    <3>1. frames = made
      BY <2>2
    <3>2. \A a : ArgumentFrame(a).kind # "update"
      BY DEF ArgumentFrame
    <3>3. \A i \in 1 .. n : made[i].kind # "update"
      BY <3>2
    <3>4. made = [i \in 1 .. n |-> made[i]]
      OBVIOUS
    <3> HIDE DEF made, n
    <3>5. IsASequence(made) /\ Len(made) = n
      BY <1>2, <3>4, FunctionIsASequence
    <3> QED
      BY <3>1, <3>3, <3>5
  <2> QED
    BY <2>1, <2>2
<1> HIDE DEF frames
<1>4. IsASequence(stack) /\ Len(stack) \in Nat
  BY <1>1, TurnFacts, SequenceDomain DEF StackOK
<1>5. Len(stack) <= Len(stack) /\ SameUpdates(stack, stack)
  BY <1>4, AtMostItself DEF SameUpdates
<1>6. StackStep /\ ControlStep
  BY <1>1, <1>3, <1>4, <1>5, Modes, PushOntoStep
<1>7. HeapStep
  BY <1>1, TurnFacts, UnchangedHeapStep
<1> QED
  BY <1>1, <1>6, <1>7, KeepingStep

LEMMA EvaluatePrimStep ==
    ASSUME IInv, EvaluatePrim
    PROVE  IInv'
<1> DEFINE unary == [kind |-> "unary", op |-> Node.op]
           convert == [kind |-> "convert", op |-> Node.op]
           left == [kind |-> "binary left", op |-> Node.op, node |-> Node.operands[2],
                    environment |-> control.environment]
           next == Eval(Node.operands[1], control.environment)
<1>1. Turn("eval") /\ heap' = heap /\ Keep
  BY DEF EvaluatePrim, Evaluating
<1>2. Push(unary, next) \/ Push(convert, next) \/ Push(left, next) \/ (Fail("BadModule") /\ KeepStack)
  BY DEF EvaluatePrim
<1>3. unary.kind # "update" /\ convert.kind # "update" /\ left.kind # "update"
  OBVIOUS
<1> HIDE DEF unary, convert, left
<1>4. CASE Push(unary, next)
  BY <1>1, <1>3, <1>4, Modes, PushingStep
<1>5. CASE Push(convert, next)
  BY <1>1, <1>3, <1>5, Modes, PushingStep
<1>6. CASE Push(left, next)
  BY <1>1, <1>3, <1>6, Modes, PushingStep
<1>7. CASE Fail("BadModule") /\ KeepStack
  BY <1>1, <1>7, SimpleStep
<1> QED
  BY <1>2, <1>4, <1>5, <1>6, <1>7

LEMMA EvaluateCaseStep ==
    ASSUME IInv, EvaluateCase
    PROVE  IInv'
<1> DEFINE frame == [kind |-> "case", first |-> Node.first, count |-> Node.count, environment |-> control.environment]
<1>1. Turn("eval") /\ heap' = heap /\ Keep /\ Push(frame, Eval(Node.scrutinee, control.environment))
  BY DEF EvaluateCase, Evaluating
<1>2. frame.kind # "update"
  OBVIOUS
<1> HIDE DEF frame
<1> QED
  BY <1>1, <1>2, Modes, PushingStep

LEMMA EvaluateLocalStep ==
    ASSUME IInv, EvaluateLocal
    PROVE  IInv'
<1> DEFINE at == EnvironmentAt(control.environment, Node.depth)
<1>1. Turn("eval") /\ heap' = heap /\ KeepStack /\ Keep
  BY DEF EvaluateLocal, Evaluating
<1>2. Fail("BadModule") \/ Goto(EnterThunk(heap[at].value))
  BY DEF EvaluateLocal
<1> QED
  BY <1>1, <1>2, Modes, SimpleStep

LEMMA EvaluateGlobalStep ==
    ASSUME IInv, EvaluateGlobal
    PROVE  IInv'
<1>1. Turn("eval") /\ heap' = heap /\ KeepStack /\ Keep /\ Goto(EnterThunk(globals[Node.definition]))
  BY DEF EvaluateGlobal, Evaluating
<1> QED
  BY <1>1, Modes, SimpleStep

LEMMA EvaluateConstructorStep ==
    ASSUME IInv, EvaluateConstructor
    PROVE  IInv'
<1> DEFINE made == <<Constructed(Node.constructor, 0, 0)>>
           partial == <<Partial(Node.constructor, 0, 0)>>
<1>1. Turn("eval") /\ KeepStack /\ Keep
  BY DEF EvaluateConstructor, Evaluating
<1>2. Allocate(made, Return("constructor", Slot(1))) \/ Allocate(partial, Return("partial", Slot(1)))
  BY DEF EvaluateConstructor
<1>3. AllFresh(made) /\ AllFresh(partial)
  BY NewSlotsAreFresh, OneFresh
<1> HIDE DEF made, partial
<1> QED
  BY <1>1, <1>2, <1>3, Modes, AllocatingStep

LEMMA EvaluateFaultStep ==
    ASSUME IInv, EvaluateFault
    PROVE  IInv'
<1>1. Turn("eval") /\ heap' = heap /\ KeepStack /\ Keep /\ Fail("BadModule")
  BY DEF EvaluateFault, Evaluating
<1> QED
  BY <1>1, SimpleStep

LEMMA EvaluateNodeStep ==
    ASSUME IInv, EvaluateNode
    PROVE  IInv'
  BY EvaluateLiteralStep, EvaluateLetStep, EvaluateStrictLetStep, EvaluateLetRecStep, EvaluateIfStep,
     EvaluateLambdaStep, EvaluateApplyStep, EvaluatePrimStep, EvaluateCaseStep, EvaluateLocalStep,
     EvaluateGlobalStep, EvaluateConstructorStep, EvaluateFaultStep
  DEF EvaluateNode

-----------------------------------------------------------------------------
(* MODE_ENTER_THUNK.  A thunk gets a frame that updates it exactly when it *)
(* is marked.                                                              *)
LEMMA MarkedThunk ==
    ASSUME IsASequence(heap), StatesOK, NEW t \in 1 .. Len(heap), heap[t].kind = "thunk", NEW state,
           heap' = [heap EXCEPT ![t] = [heap[t] EXCEPT !.state = state]]
    PROVE  /\ IsASequence(heap') /\ Len(heap') = Len(heap)
           /\ \A i \in 1 .. Len(heap) : i # t => heap'[i] = heap[i]
           /\ HasState(heap'[t]) /\ heap'[t].kind = "thunk" /\ heap'[t].state = state
<1>1. Len(heap) \in Nat /\ DOMAIN heap = 1 .. Len(heap)
  BY SequenceDomain
<1>2. heap' = [i \in 1 .. Len(heap) |-> heap'[i]]
  BY <1>1, SequenceDomain DEF IsASequence
<1>3. IsASequence(heap') /\ Len(heap') = Len(heap)
  BY <1>1, <1>2, FunctionIsASequence
<1>4. heap'[t] = [heap[t] EXCEPT !.state = state] /\ \A i \in 1 .. Len(heap) : i # t => heap'[i] = heap[i]
  BY <1>1
<1>5. HasState(heap[t])
  BY DEF StatesOK
<1>6. HasState(heap'[t]) /\ heap'[t].kind = "thunk" /\ heap'[t].state = state
  BY <1>4, <1>5 DEF HasState
<1> QED
  BY <1>3, <1>4, <1>6
LEMMA EnteredThunkIsCounted ==
    ASSUME IsASequence(heap), EvaluationsOK, thunkEvaluations \in Nat,
           NEW t \in 1 .. Len(heap), heap[t].kind = "thunk", heap[t].state = "unevaluated",
           Len(heap') = Len(heap), IsASequence(heap'),
           \A i \in 1 .. Len(heap) : i # t => heap'[i] = heap[i],
           heap'[t].kind = "thunk", heap'[t].state = "evaluating",
           thunkEvaluations' = thunkEvaluations + 1
    PROVE  EvaluationsOK'
<1>1. DOMAIN heap = 1 .. Len(heap) /\ DOMAIN heap' = 1 .. Len(heap)
  BY SequenceDomain
<1>2. Counted' = Counted \cup {t} /\ t \notin Counted
  BY <1>1 DEF Counted, Thunks
<1>3. IsFiniteSet(Counted) /\ Cardinality(Counted) \in Nat
  BY CountedIsFinite
<1>4. Cardinality(Counted') = Cardinality(Counted) + 1
  BY <1>2, <1>3, FS_AddElement
<1>5. thunkEvaluations <= Cardinality(Counted)
  BY DEF EvaluationsOK, Counted
<1>6. thunkEvaluations' <= Cardinality(Counted')
  BY <1>3, <1>4, <1>5
<1> QED
  BY <1>6 DEF EvaluationsOK, Counted

LEMMA UpdatesAfterEntering ==
    ASSUME UpdatesOK, Len(stack) \in Nat, Len(heap) \in Nat,
           NEW t \in 1 .. Len(heap), heap[t].kind = "thunk", heap[t].state = "unevaluated",
           Len(heap') = Len(heap), \A i \in 1 .. Len(heap) : i # t => heap'[i] = heap[i],
           heap'[t].kind = "thunk", heap'[t].state = "evaluating",
           Len(stack') = Len(stack) + 1, \A i \in 1 .. Len(stack) : stack'[i] = stack[i],
           stack'[Len(stack) + 1].kind = "update", stack'[Len(stack) + 1].thunk = t
    PROVE  UpdatesOK'
<1> DEFINE top == Len(stack) + 1
<1>1. /\ \A i \in 1 .. Len(stack') : i \in 1 .. Len(stack) \/ i = top
      /\ \A i \in 1 .. Len(stack) : i \in 1 .. Len(stack') /\ i # top
      /\ top \in 1 .. Len(stack')
  OBVIOUS
<1>2. stack'[top].kind = "update" /\ stack'[top].thunk = t
  OBVIOUS
<1> HIDE DEF top
<1>3. StateOf(heap'[t]) = "evaluating" /\ StateOf(heap[t]) = "unevaluated"
  BY DEF StateOf
<1>4. \A i \in 1 .. Len(stack) : stack[i].kind = "update" =>
          stack[i].thunk \in 1 .. Len(heap) /\ StateOf(heap[stack[i].thunk]) = "evaluating" /\ stack[i].thunk # t
  BY <1>3 DEF UpdatesOK
<1>5. ASSUME NEW i \in 1 .. Len(stack'), stack'[i].kind = "update"
      PROVE  stack'[i].thunk \in 1 .. Len(heap') /\ StateOf(heap'[stack'[i].thunk]) = "evaluating"
  <2>1. CASE i = top
    BY <1>2, <1>3, <2>1
  <2>2. CASE i \in 1 .. Len(stack)
    <3>1. stack'[i] = stack[i]
      BY <2>2
    <3>2. stack[i].thunk \in 1 .. Len(heap) /\ stack[i].thunk # t /\ StateOf(heap[stack[i].thunk]) = "evaluating"
      BY <1>4, <1>5, <2>2, <3>1
    <3> QED
      BY <3>1, <3>2
  <2> QED
    BY <1>1, <2>1, <2>2
<1>6. ASSUME NEW i \in 1 .. Len(stack'), NEW j \in 1 .. Len(stack'),
             stack'[i].kind = "update", stack'[j].kind = "update", stack'[i].thunk = stack'[j].thunk
      PROVE  i = j
  BY <1>1, <1>2, <1>4, <1>6 DEF UpdatesOK
<1>7. ASSUME NEW s \in 1 .. Len(heap'), StateOf(heap'[s]) = "evaluating"
      PROVE  \E i \in 1 .. Len(stack') : stack'[i].kind = "update" /\ stack'[i].thunk = s
  <2>1. CASE s = t
    BY <1>1, <1>2, <2>1
  <2>2. CASE s # t
    <3>1. StateOf(heap[s]) = "evaluating" /\ s \in 1 .. Len(heap)
      BY <1>7, <2>2
    <3>2. PICK i \in 1 .. Len(stack) : stack[i].kind = "update" /\ stack[i].thunk = s
      BY <3>1 DEF UpdatesOK
    <3> QED
      BY <1>1, <3>2
  <2> QED
    BY <2>1, <2>2
<1> QED
  BY <1>5, <1>6, <1>7 DEF UpdatesOK

LEMMA EnterUnevaluatedStep ==
    ASSUME IInv, EnterUnevaluated
    PROVE  IInv'
<1> DEFINE t == control.thunk
           frame == [kind |-> "update", thunk |-> t]
           next == Eval(heap[t].node, heap[t].environment)
<1>1. /\ Turn("enter") /\ t \in DOMAIN heap /\ heap[t].kind = "thunk" /\ heap[t].state = "unevaluated"
      /\ Push(frame, next) /\ UNCHANGED <<globals, pendingInput, output>>
      /\ IF Len(stack) < request.stackFrames
         THEN heap' = [heap EXCEPT ![t].state = "evaluating"] /\ thunkEvaluations' = thunkEvaluations + 1
         ELSE UNCHANGED <<heap, thunkEvaluations>>
  BY DEF EnterUnevaluated, Entering
<1>2. /\ IsASequence(heap) /\ IsASequence(stack) /\ Len(heap) \in Nat /\ Len(stack) \in Nat
      /\ t \in 1 .. Len(heap) /\ request.stackFrames \in Nat /\ Len(stack) <= request.stackFrames
  BY <1>1, TurnFacts, SequenceDomain DEF HeapOK, StackOK, RequestOK
<1>3. frame.kind = "update" /\ frame.thunk = t
  OBVIOUS
<1> HIDE DEF frame, t
<1>4. Pushed(stack, <<frame>>) /\ (Goto(next) \/ Fail("StackOverflow"))
  BY <1>1 DEF Push, PushOnto, Pushed
<1>5. IsASequence(<<frame>>) /\ Len(<<frame>>) = 1 /\ \A i \in 1 .. Len(<<frame>>) : <<frame>>[i] = frame
  BY OneElement
<1> DEFINE frames == <<frame>>
<1> HIDE DEF frames
<1>6. PICK fitting \in 0 .. Len(frames) :
          /\ Len(frames) <= request.stackFrames - Len(stack) => fitting = Len(frames)
          /\ ~(Len(frames) <= request.stackFrames - Len(stack)) => fitting = request.stackFrames - Len(stack)
          /\ IsASequence(stack') /\ Len(stack') = Len(stack) + fitting
          /\ peakStack' \in Nat /\ Len(stack') <= peakStack' /\ peakStack' <= request.stackFrames
          /\ \A i \in 1 .. Len(stack) : stack'[i] = stack[i]
          /\ \A i \in Len(stack) + 1 .. Len(stack') : stack'[i] = frames[i - Len(stack)]
  <2>1. Pushed(stack, frames) /\ IsASequence(frames) /\ Len(frames) = 1
    BY <1>4, <1>5 DEF frames
  <2>2. Len(stack) <= Len(stack)
    BY <1>2, AtMostItself
  <2> QED
    BY <1>1, <1>2, <2>1, <2>2, TurnFacts, PushedIs
<1>7. ControlStep
  BY <1>1, <1>4, TurnFacts, Modes, FailIsControlStep, GotoIsControlStep
<1>8. ListsOK' /\ request' = request /\ host' = host /\ host.at = "gpu"
  BY <1>1, TurnFacts, ListsAreKept DEF Turn, Running
<1>9. CASE ~(Len(stack) < request.stackFrames)
  <2>1. heap' = heap /\ thunkEvaluations' = thunkEvaluations
    BY <1>1, <1>9
  <2>2. fitting = 0
    BY <1>2, <1>5, <1>6, <1>9 DEF frames
  <2>3. Len(stack') = Len(stack) /\ \A i \in 1 .. Len(stack) : stack'[i] = stack[i]
    BY <1>2, <1>6, <2>2
  <2>4. StackStep
    BY <1>6, <2>3 DEF StackStep, SameUpdates, IsUpdate
  <2>5. HeapStep
    BY <1>1, <2>1, TurnFacts, UnchangedHeapStep
  <2> QED
    BY <1>1, <1>7, <1>8, <2>1, <2>4, <2>5, TurnStep
<1>10. CASE Len(stack) < request.stackFrames
  <2>1. heap' = [heap EXCEPT ![t] = [heap[t] EXCEPT !.state = "evaluating"]] /\ thunkEvaluations' = thunkEvaluations + 1
    BY <1>1, <1>10
  <2>2. Len(stack') = Len(stack) + 1
    BY <1>2, <1>5, <1>6, <1>10 DEF frames
  <2>3. stack'[Len(stack) + 1] = frame
    <3>1. Len(stack) + 1 \in Len(stack) + 1 .. Len(stack') /\ (Len(stack) + 1) - Len(stack) = 1 /\ 1 \in 1 .. 1
      BY <1>2, <2>2, LastPosition
    <3>2. frames[1] = frame
      BY <1>5, <3>1 DEF frames
    <3> QED
      BY <1>6, <3>1, <3>2
  <2>4. /\ IsASequence(heap') /\ Len(heap') = Len(heap)
        /\ \A i \in 1 .. Len(heap) : i # t => heap'[i] = heap[i]
        /\ HasState(heap'[t]) /\ heap'[t].kind = "thunk" /\ heap'[t].state = "evaluating"
    BY <1>1, <1>2, <2>1, TurnFacts, MarkedThunk
  <2>5. StatesOK'
    BY <1>1, <2>4, TurnFacts DEF StatesOK
  <2>6. UpdatesOK'
    BY <1>1, <1>2, <1>3, <1>6, <2>2, <2>3, <2>4, TurnFacts, UpdatesAfterEntering
  <2>7. thunkEvaluations \in Nat /\ thunkEvaluations <= steps /\ steps \in Nat
    BY <1>1, TurnFacts DEF ProgressOK
  <2>8. EvaluationsOK'
    BY <1>1, <1>2, <2>1, <2>4, <2>7, TurnFacts, EnteredThunkIsCounted
  <2>9. ProgressOK'
    <3>1. thunkEvaluations' \in Nat /\ thunkEvaluations' <= steps + 1
      BY <2>1, <2>7
    <3> QED
      BY <1>1, <3>1, ProgressOfATurn
  <2>10. RequestOK' /\ HeapOK' /\ StackOK'
    <3>1. RequestOK'
      BY <1>1, <1>8, TurnFacts DEF RequestOK, Code, WellFormed, WellFormedInput
    <3>2. HeapOK'
      BY <1>1, <1>8, <2>4, TurnFacts DEF HeapOK
    <3>3. StackOK'
      BY <1>6, <1>8 DEF StackOK
    <3> QED
      BY <3>1, <3>2, <3>3
  <2>11. ControlOK'
    BY <1>7 DEF ControlOK, ControlStep
  <2> QED
    BY <1>8, <2>5, <2>6, <2>8, <2>9, <2>10, <2>11 DEF IInv
<1> QED
  BY <1>9, <1>10

LEMMA EnterEvaluatingStep ==
    ASSUME IInv, EnterEvaluating
    PROVE  IInv'
<1>1. Turn("enter") /\ heap' = heap /\ KeepStack /\ Keep /\ Fail("Blackhole")
  BY DEF EnterEvaluating, Entering
<1> QED
  BY <1>1, SimpleStep

LEMMA EnterEvaluatedStep ==
    ASSUME IInv, EnterEvaluated
    PROVE  IInv'
<1>1. /\ Turn("enter") /\ heap' = heap /\ KeepStack /\ Keep
      /\ Goto(Return(heap[control.thunk].value.tag, heap[control.thunk].value.payload))
  BY DEF EnterEvaluated, Entering
<1> QED
  BY <1>1, Modes, SimpleStep
(* The state of a part of the input.                                       *)
LEMMA AnsweredGrows ==
    ASSUME HeapOK, StatesOK, NEW t \in 1 .. Len(heap), heap[t].kind = "thunk", heap[t].state = "input",
           NEW value, NEW written,
           written = [heap EXCEPT ![t].state = "evaluated", ![t].value = value]
    PROVE  Grows(heap, written) /\ Len(written) = Len(heap)
<1>1. Len(heap) \in Nat /\ DOMAIN heap = 1 .. Len(heap)
  BY SequenceDomain DEF HeapOK
<1>2. written = [i \in 1 .. Len(heap) |-> written[i]]
  BY <1>1, SequenceDomain DEF HeapOK, IsASequence
<1>3. IsASequence(written) /\ Len(written) = Len(heap)
  BY <1>1, <1>2, FunctionIsASequence
<1>4. ASSUME NEW i \in 1 .. Len(heap) PROVE SameWork(heap[i], written[i])
  <2>1. HasState(heap[i])
    BY DEF StatesOK
  <2>2. CASE i # t
    BY <1>1, <2>1, <2>2 DEF SameWork
  <2>3. CASE i = t
    <3>1. written[t] = [[heap[t] EXCEPT !.state = "evaluated"] EXCEPT !.value = value]
      BY <1>1
    <3>2. HasState(written[t]) /\ written[t].kind = "thunk" /\ written[t].state = "evaluated"
      BY <2>1, <2>3, <3>1 DEF HasState
    <3> QED
      BY <2>3, <3>2 DEF SameWork, StateOf
  <2> QED
    BY <2>2, <2>3
<1> QED
  BY <1>1, <1>3, <1>4 DEF Grows

LEMMA EmptyIsFresh == AllFresh(<<>>)
<1>1. <<>> \in Seq({}) /\ Len(<<>>) = 0
  OBVIOUS
<1>2. \A i \in 1 .. Len(<<>>) : FALSE
  BY <1>1
<1> QED
  BY <1>1, <1>2 DEF AllFresh, IsASequence

LEMMA EnterInputStep ==
    ASSUME IInv, EnterInput
    PROVE  IInv'
<1> DEFINE t == control.thunk
           given == request.input[heap[t].node]
           PartOf(i) == IF i % 2 = 1 THEN InputThunk(given.first + i \div 2)
                        ELSE Field(IF i = 2 THEN 0 ELSE Slot(i - 2), Slot(i - 1))
           count == 2 * given.count + 1
           slots == [i \in 1 .. count |->
                        IF i <= 2 * given.count THEN PartOf(i)
                        ELSE Constructed(given.payload, IF given.count = 0 THEN 0 ELSE Slot(i - 1), given.count)]
           value == IF given.tag = "constructor" THEN Value("constructor", Slot(Len(slots)))
                    ELSE Value(given.tag, given.payload)
           written == [heap EXCEPT ![t].state = "evaluated", ![t].value = value]
           made == IF given.tag = "constructor" THEN slots ELSE <<>>
           next == Return(value.tag, value.payload)
<1>1. /\ Turn("enter") /\ t \in DOMAIN heap /\ heap[t].kind = "thunk" /\ heap[t].state = "input"
      /\ heap[t].node \in DOMAIN request.input
      /\ KeepStack /\ Keep
      /\ AllocateInto(made, Goto(next), written)
  BY DEF EnterInput, Entering
<1>2. t \in 1 .. Len(heap)
  BY <1>1, TurnFacts, SequenceDomain DEF HeapOK
<1>3. given.count \in Nat
  BY <1>1, TurnFacts DEF RequestOK, WellFormedInput
<1>4. AllFresh(slots)
  <2>1. count \in Nat
    BY <1>3
  <2>2. \A i : Fresh(PartOf(i))
    BY NewSlotsAreFresh
  <2>3. \A i \in 1 .. count : Fresh(slots[i])
    BY <2>2, NewSlotsAreFresh
  <2>4. slots = [i \in 1 .. count |-> slots[i]]
    OBVIOUS
  <2> HIDE DEF slots, count
  <2>5. IsASequence(slots) /\ Len(slots) = count
    BY <2>1, <2>4, FunctionIsASequence
  <2> QED
    BY <2>3, <2>5 DEF AllFresh
<1>5. AllFresh(made)
  BY <1>4, EmptyIsFresh
<1>6. Grows(heap, written) /\ Len(written) = Len(heap)
  <2> HIDE DEF value, t
  <2> QED
    BY <1>1, <1>2, TurnFacts, AnsweredGrows
<1> HIDE DEF made, written, value, t
<1>7. Allocated(made, written) /\ (Goto(next) \/ Fail("OutOfHeap"))
  BY <1>1 DEF AllocateInto, Allocated
<1>8. HeapStep
  BY <1>1, <1>5, <1>6, <1>7, TurnFacts, AllocationStep DEF AllFresh
<1>9. StackStep /\ ControlStep
  <2>1. StackStep
    BY <1>1, TurnFacts, UnchangedStackStep DEF KeepStack
  <2>2. ControlStep
    BY <1>1, <1>7, TurnFacts, Modes, GotoIsControlStep, FailIsControlStep
  <2> QED
    BY <2>1, <2>2
<1> QED
  BY <1>1, <1>8, <1>9, KeepingStep

LEMMA EnterStep ==
    ASSUME IInv, Enter
    PROVE  IInv'
  BY EnterUnevaluatedStep, EnterEvaluatingStep, EnterEvaluatedStep, EnterInputStep DEF Enter

-----------------------------------------------------------------------------
(* MODE_RETURN.                                                            *)
LEMMA ApplyToThunkStep ==
    ASSUME IInv, NEW mode, Turn(mode), NEW value, NEW slots, AllFresh(slots), NEW thunk,
           ApplyToThunk(value, slots, thunk)
    PROVE  HeapStep /\ ControlStep
<1> DEFINE callee == heap[value.payload]
           next == Len(slots) + 1
           applied == callee.applied + 1
           done == applied = Code.arities[callee.constructor]
           made == IF done THEN Constructed(callee.constructor, Slot(next), applied)
                   ELSE Partial(callee.constructor, Slot(next), applied)
           given == <<Field(callee.fields, thunk), made>>
           answer == Return(IF done THEN "constructor" ELSE "partial", Slot(next + 1))
           body == Eval(Code.nodes[callee.node].body, Slot(next))
           entered == <<Environment(callee.environment, thunk)>>
           extended == <<Environment(callee.environment, thunk), Closure(callee.node, Slot(next), applied)>>
           closure == Return("closure", Slot(next + 1))
<1>1. \/ Allocate(slots \o given, answer)
      \/ AllocateInto(slots, Fail("TypeError"), heap)
      \/ Allocate(slots \o entered, body)
      \/ Allocate(slots \o extended, closure)
  BY DEF ApplyToThunk
<1>2. AllFresh(slots \o given) /\ AllFresh(slots \o entered) /\ AllFresh(slots \o extended)
  <2>1. Fresh(made)
    BY NewSlotsAreFresh
  <2>2. AllFresh(given) /\ AllFresh(entered) /\ AllFresh(extended)
    <3> HIDE DEF made
    <3> QED
      BY <2>1, NewSlotsAreFresh, OneFresh, TwoFresh
  <2> HIDE DEF given, entered, extended
  <2> QED
    BY <2>2, MoreFresh
<1>3. /\ "mode" \in DOMAIN answer /\ answer.mode # "initialize global"
      /\ "mode" \in DOMAIN body /\ body.mode # "initialize global"
      /\ "mode" \in DOMAIN closure /\ closure.mode # "initialize global"
  BY Modes
<1> HIDE DEF given, answer, body, entered, extended, closure
<1>4. CASE Allocate(slots \o given, answer)
  BY <1>2, <1>3, <1>4, AllocateStep DEF AllFresh
<1>5. CASE Allocate(slots \o entered, body)
  BY <1>2, <1>3, <1>5, AllocateStep DEF AllFresh
<1>6. CASE Allocate(slots \o extended, closure)
  BY <1>2, <1>3, <1>6, AllocateStep DEF AllFresh
<1>7. CASE AllocateInto(slots, Fail("TypeError"), heap)
  <2>1. Allocated(slots, heap) /\ (Fail("TypeError") \/ Fail("OutOfHeap"))
    BY <1>7 DEF AllocateInto, Allocated
  <2>2. HeapStep
    BY <2>1, TurnFacts, HeapStays, AllocationStep DEF AllFresh
  <2> QED
    BY <2>1, <2>2, FailIsControlStep
<1> QED
  BY <1>1, <1>4, <1>5, <1>6, <1>7
LEMMA ReturnToInputStep ==
    ASSUME IInv, ReturnToInput
    PROVE  IInv'
<1>1. Turn("return") /\ KeepStack /\ UNCHANGED <<globals, output, thunkEvaluations>>
  BY DEF ReturnToInput
<1>2. HeapStep /\ ControlStep
  <2>1. CASE Callable(control.value)
    <3>1. ApplyToThunk(control.value, <<InputThunk(pendingInput)>>, Slot(1))
      BY <2>1 DEF ReturnToInput
    <3>2. AllFresh(<<InputThunk(pendingInput)>>)
      BY NewSlotsAreFresh, OneFresh
    <3> QED
      BY <1>1, <3>1, <3>2, ApplyToThunkStep
  <2>2. CASE ~Callable(control.value)
    <3>1. Fail("TypeError") /\ heap' = heap
      BY <2>2 DEF ReturnToInput
    <3> QED
      BY <1>1, <3>1, TurnFacts, UnchangedHeapStep, FailIsControlStep
  <2> QED
    BY <2>1, <2>2
<1>3. StackStep
  BY <1>1, TurnFacts, UnchangedStackStep DEF KeepStack
<1>4. ListsOK'
  BY <1>1, TurnFacts, ListsAreKept
<1> QED
  BY <1>1, <1>2, <1>3, <1>4, TurnStep

LEMMA CompleteIsControlStep ==
    ASSUME NEW value, Complete(value), stack = <<>>, stack' = stack
    PROVE  ControlStep
  BY DEF Complete, ControlStep

LEMMA ReturnResultStep ==
    ASSUME IInv, ReturnResult
    PROVE  IInv'
<1> DEFINE reify == [mode |-> "reify", value |-> control.value]
<1>1. Turn("return") /\ stack = <<>> /\ KeepStack /\ heap' = heap /\ Keep
  BY DEF ReturnResult
<1>2. Goto(reify) \/ \E value : Complete(value)
  BY DEF ReturnResult
<1>3. "mode" \in DOMAIN reify /\ reify.mode # "initialize global"
  OBVIOUS
<1> HIDE DEF reify
<1>4. ControlStep
  BY <1>1, <1>2, <1>3, TurnFacts, GotoIsControlStep, CompleteIsControlStep DEF KeepStack
<1>5. HeapStep /\ StackStep
  BY <1>1, TurnFacts, UnchangedHeapStep, UnchangedStackStep DEF KeepStack
<1> QED
  BY <1>1, <1>4, <1>5, KeepingStep

(* The frame on top is the only one that updates its thunk.                *)
LEMMA UpdatesAfterReturning ==
    ASSUME UpdatesOK, Len(heap) \in Nat, Len(stack) \in Nat \ {0},
           stack[Len(stack)].kind = "update", NEW t, stack[Len(stack)].thunk = t,
           Len(heap') = Len(heap), \A i \in 1 .. Len(heap) : i # t => heap'[i] = heap[i],
           StateOf(heap'[t]) = "evaluated",
           Len(stack') = Len(stack) - 1, \A i \in 1 .. Len(stack) - 1 : stack'[i] = stack[i]
    PROVE  UpdatesOK'
<1> DEFINE top == Len(stack)
<1>1. /\ \A i \in 1 .. Len(stack') : i \in 1 .. Len(stack) /\ i # top /\ stack'[i] = stack[i]
      /\ \A i \in 1 .. Len(stack) : i \in 1 .. Len(stack') \/ i = top
      /\ top \in 1 .. Len(stack) /\ stack[top].kind = "update" /\ stack[top].thunk = t
  OBVIOUS
<1> HIDE DEF top
<1>2. ASSUME NEW i \in 1 .. Len(stack'), stack'[i].kind = "update"
      PROVE  stack'[i].thunk \in 1 .. Len(heap') /\ StateOf(heap'[stack'[i].thunk]) = "evaluating"
  <2>1. stack[i].kind = "update" /\ i \in 1 .. Len(stack) /\ i # top /\ stack'[i] = stack[i]
    BY <1>1, <1>2
  <2>2. stack[i].thunk # t
    BY <1>1, <2>1 DEF UpdatesOK
  <2> QED
    BY <2>1, <2>2 DEF UpdatesOK
<1>3. ASSUME NEW i \in 1 .. Len(stack'), NEW j \in 1 .. Len(stack'),
             stack'[i].kind = "update", stack'[j].kind = "update", stack'[i].thunk = stack'[j].thunk
      PROVE  i = j
  <2>1. /\ i \in 1 .. Len(stack) /\ stack'[i] = stack[i]
        /\ j \in 1 .. Len(stack) /\ stack'[j] = stack[j]
    BY <1>1
  <2> QED
    BY <1>3, <2>1 DEF UpdatesOK
<1>4. ASSUME NEW s \in 1 .. Len(heap'), StateOf(heap'[s]) = "evaluating"
      PROVE  \E i \in 1 .. Len(stack') : stack'[i].kind = "update" /\ stack'[i].thunk = s
  <2>1. s # t
    BY <1>4
  <2>2. s \in 1 .. Len(heap) /\ StateOf(heap[s]) = "evaluating"
    BY <1>4, <2>1
  <2>3. PICK i \in 1 .. Len(stack) : stack[i].kind = "update" /\ stack[i].thunk = s
    BY <2>2 DEF UpdatesOK
  <2> QED
    BY <1>1, <2>1, <2>3
<1> QED
  BY <1>2, <1>3, <1>4 DEF UpdatesOK

LEMMA UpdatedThunkIsCounted ==
    ASSUME IsASequence(heap), EvaluationsOK, NEW t \in 1 .. Len(heap),
           heap[t].kind = "thunk", heap[t].state = "evaluating",
           Len(heap') = Len(heap), IsASequence(heap'),
           \A i \in 1 .. Len(heap) : i # t => heap'[i] = heap[i],
           heap'[t].kind = "thunk", heap'[t].state = "evaluated",
           thunkEvaluations' = thunkEvaluations
    PROVE  EvaluationsOK'
<1>1. DOMAIN heap = 1 .. Len(heap) /\ DOMAIN heap' = 1 .. Len(heap)
  BY SequenceDomain
<1>2. Counted' = Counted
  BY <1>1 DEF Counted, Thunks
<1> QED
  BY <1>2 DEF EvaluationsOK, Counted

LEMMA ReturnUpdateStep ==
    ASSUME IInv, ReturnUpdate
    PROVE  IInv'
<1> DEFINE t == Top.thunk
<1>1. /\ Turn("return") /\ stack # <<>> /\ Top.kind = "update" /\ Pop /\ Keep
      /\ IF heap[t].state = "evaluating"
         THEN heap' = [heap EXCEPT ![t].state = "evaluated", ![t].value = control.value] /\ Goto(control)
         ELSE Fail("BadModule") /\ UNCHANGED heap
  BY DEF ReturnUpdate, Returning
<1>2. /\ IsASequence(heap) /\ IsASequence(stack) /\ Len(heap) \in Nat
      /\ Len(stack) \in Nat \ {0} /\ IsASequence(Popped) /\ Len(Popped) = Len(stack) - 1
      /\ \A i \in 1 .. Len(stack) - 1 : Popped[i] = stack[i]
  BY <1>1, TurnFacts, SequenceDomain, PoppedKeeps DEF HeapOK, StackOK
<1>3. stack[Len(stack)].kind = "update" /\ stack[Len(stack)].thunk = t
  BY <1>1 DEF Top
<1> HIDE DEF t
<1>4. t \in 1 .. Len(heap) /\ heap[t].kind = "thunk" /\ heap[t].state = "evaluating"
  <2>1. Len(stack) \in 1 .. Len(stack)
    BY <1>2
  <2>2. t \in 1 .. Len(heap) /\ StateOf(heap[t]) = "evaluating"
    BY <1>1, <1>3, <2>1, TurnFacts DEF UpdatesOK
  <2> QED
    BY <2>2 DEF StateOf
<1>5. heap' = [heap EXCEPT ![t].state = "evaluated", ![t].value = control.value] /\ Goto(control)
  BY <1>1, <1>4
<1>6. /\ IsASequence(heap') /\ Len(heap') = Len(heap)
      /\ \A i \in 1 .. Len(heap) : i # t => heap'[i] = heap[i]
      /\ HasState(heap'[t]) /\ heap'[t].kind = "thunk" /\ heap'[t].state = "evaluated"
  <2>1. DOMAIN heap = 1 .. Len(heap)
    BY <1>2, SequenceDomain
  <2>2. heap' = [i \in 1 .. Len(heap) |-> heap'[i]]
    BY <1>2, <1>5, <2>1, SequenceDomain DEF IsASequence
  <2>3. IsASequence(heap') /\ Len(heap') = Len(heap)
    BY <1>2, <2>2, FunctionIsASequence
  <2>4. /\ heap'[t] = [[heap[t] EXCEPT !.state = "evaluated"] EXCEPT !.value = control.value]
        /\ \A i \in 1 .. Len(heap) : i # t => heap'[i] = heap[i]
    BY <1>4, <1>5, <2>1
  <2>5. HasState(heap[t])
    BY <1>1, <1>4, TurnFacts DEF StatesOK
  <2>6. HasState(heap'[t]) /\ heap'[t].kind = "thunk" /\ heap'[t].state = "evaluated"
    BY <1>4, <2>4, <2>5 DEF HasState
  <2> QED
    BY <2>3, <2>4, <2>6
<1>7. StatesOK'
  BY <1>1, <1>6, TurnFacts DEF StatesOK
<1>8. stack' = Popped /\ peakStack' = peakStack
  BY <1>1 DEF Pop
<1>9. UpdatesOK'
  <2>1. StateOf(heap'[t]) = "evaluated"
    BY <1>6 DEF StateOf
  <2>2. Len(stack') = Len(stack) - 1 /\ \A i \in 1 .. Len(stack) - 1 : stack'[i] = stack[i]
    BY <1>2, <1>8
  <2> QED
    BY <1>1, <1>2, <1>3, <1>6, <2>1, <2>2, TurnFacts, UpdatesAfterReturning
<1>10. EvaluationsOK'
  BY <1>1, <1>2, <1>4, <1>6, TurnFacts, UpdatedThunkIsCounted DEF Keep
<1>11. ProgressOK'
  <2>1. thunkEvaluations' = thunkEvaluations /\ thunkEvaluations \in Nat /\ thunkEvaluations <= steps /\ steps \in Nat
    BY <1>1, TurnFacts DEF ProgressOK, Keep
  <2>2. thunkEvaluations' \in Nat /\ thunkEvaluations' <= steps + 1
    BY <2>1
  <2> QED
    BY <1>1, <2>2, ProgressOfATurn
<1>12. request' = request /\ host' = host /\ host.at = "gpu"
  BY <1>1 DEF Turn, Running
<1>13. RequestOK' /\ HeapOK' /\ StackOK' /\ ListsOK'
  <2>1. RequestOK'
    BY <1>1, <1>12, TurnFacts DEF RequestOK, Code, WellFormed, WellFormedInput
  <2>2. HeapOK'
    BY <1>1, <1>6, <1>12, TurnFacts DEF HeapOK
  <2>3. StackOK'
    BY <1>1, <1>2, <1>8, <1>12, TurnFacts DEF StackOK
  <2>4. ListsOK'
    BY <1>1, <1>12, TurnFacts, ListsAreKept DEF Keep
  <2> QED
    BY <2>1, <2>2, <2>3, <2>4
<1>14. ControlOK'
  <2>1. control' = control /\ status' = status
    BY <1>5 DEF Goto
  <2>2. status = "pending" /\ control.mode = "return" /\ "mode" \in DOMAIN control
    BY <1>1, TurnFacts
  <2> QED
    BY <2>1, <2>2 DEF ControlOK
<1> QED
  BY <1>7, <1>9, <1>10, <1>11, <1>12, <1>13, <1>14 DEF IInv
(* The returns that take a frame from the stack.                           *)
LEMMA PoppingStep ==
    ASSUME IInv, NEW kind, Returning(kind), kind # "update", Pop, HeapStep, ControlStep, Keep
    PROVE  IInv'
<1>1. Turn("return") /\ stack # <<>> /\ Top.kind # "update"
  BY DEF Returning
<1>2. StackStep
  BY <1>1, TurnFacts, PopStep
<1> QED
  BY <1>1, <1>2, KeepingStep

LEMMA PlainReturnStep ==
    ASSUME IInv, NEW kind, Returning(kind), kind # "update", Pop, heap' = heap, Keep,
           \/ \E fault : fault \notin {"pending", "complete"} /\ Fail(fault)
           \/ \E next : "mode" \in DOMAIN next /\ next.mode # "initialize global" /\ Goto(next)
    PROVE  IInv'
<1>1. Turn("return")
  BY DEF Returning
<1>2. HeapStep
  BY <1>1, TurnFacts, UnchangedHeapStep
<1>3. ControlStep
  BY <1>1, TurnFacts, FailIsControlStep, GotoIsControlStep
<1> QED
  BY <1>2, <1>3, PoppingStep

LEMMA ReplacingReturnStep ==
    ASSUME IInv, NEW kind, Returning(kind), kind # "update", heap' = heap, Keep,
           NEW frame, frame.kind # "update",
           NEW next, "mode" \in DOMAIN next, next.mode # "initialize global",
           PushOnto(Popped, <<frame>>, next)
    PROVE  IInv'
<1>1. Turn("return") /\ stack # <<>> /\ Top.kind # "update"
  BY DEF Returning
<1>2. HeapStep
  BY <1>1, TurnFacts, UnchangedHeapStep
<1>3. StackStep /\ ControlStep
  BY <1>1, ReplaceTopStep
<1> QED
  BY <1>1, <1>2, <1>3, KeepingStep

LEMMA ReturnStrictLetStep ==
    ASSUME IInv, ReturnStrictLet
    PROVE  IInv'
<1> DEFINE slots == <<Evaluated(control.value), Environment(Top.environment, Slot(1))>>
<1>1. Returning("strict let") /\ Turn("return") /\ Pop /\ Keep /\ Allocate(slots, Eval(Top.node, Slot(2)))
  BY DEF ReturnStrictLet, Returning
<1>2. AllFresh(slots)
  BY NewSlotsAreFresh, TwoFresh
<1> HIDE DEF slots
<1>3. HeapStep /\ ControlStep
  BY <1>1, <1>2, Modes, AllocateStep DEF AllFresh
<1> QED
  BY <1>1, <1>3, PoppingStep

LEMMA ReturnStrictCalleeStep ==
    ASSUME IInv, ReturnStrictCallee
    PROVE  IInv'
<1> DEFINE frame == [kind |-> "strict argument", value |-> control.value]
<1>1. Returning("strict callee") /\ heap' = heap /\ Keep
  BY DEF ReturnStrictCallee
<1>2. PushOnto(Popped, <<frame>>, Eval(Top.node, Top.environment)) \/ (Fail("TypeError") /\ Pop)
  BY DEF ReturnStrictCallee
<1>3. frame.kind # "update"
  OBVIOUS
<1> HIDE DEF frame
<1>4. CASE PushOnto(Popped, <<frame>>, Eval(Top.node, Top.environment))
  BY <1>1, <1>3, <1>4, Modes, ReplacingReturnStep
<1>5. CASE Fail("TypeError") /\ Pop
  BY <1>1, <1>5, PlainReturnStep
<1> QED
  BY <1>2, <1>4, <1>5

LEMMA ReturnStrictArgumentStep ==
    ASSUME IInv, ReturnStrictArgument
    PROVE  IInv'
<1> DEFINE slots == <<Evaluated(control.value)>>
<1>1. Returning("strict argument") /\ Turn("return") /\ Pop /\ Keep /\ ApplyToThunk(Top.value, slots, Slot(1))
  BY DEF ReturnStrictArgument, Returning
<1>2. AllFresh(slots)
  BY NewSlotsAreFresh, OneFresh
<1> HIDE DEF slots
<1>3. HeapStep /\ ControlStep
  BY <1>1, <1>2, ApplyToThunkStep
<1> QED
  BY <1>1, <1>3, PoppingStep

LEMMA ReturnApplyStep ==
    ASSUME IInv, ReturnApply
    PROVE  IInv'
<1> DEFINE slots == <<Thunk(Top.node, Top.environment)>>
<1>1. Returning("apply") /\ Turn("return") /\ Pop /\ Keep
  BY DEF ReturnApply, Returning
<1>2. ApplyToThunk(control.value, slots, Slot(1)) \/ (Fail("TypeError") /\ heap' = heap)
  BY DEF ReturnApply
<1>3. AllFresh(slots)
  BY NewSlotsAreFresh, OneFresh
<1> HIDE DEF slots
<1>4. CASE ApplyToThunk(control.value, slots, Slot(1))
  <2>1. HeapStep /\ ControlStep
    BY <1>1, <1>3, <1>4, ApplyToThunkStep
  <2> QED
    BY <1>1, <2>1, PoppingStep
<1>5. CASE Fail("TypeError") /\ heap' = heap
  BY <1>1, <1>5, PlainReturnStep
<1> QED
  BY <1>2, <1>4, <1>5

LEMMA ReturnApplyZeroStep ==
    ASSUME IInv, ReturnApplyZero
    PROVE  IInv'
<1> DEFINE callee == heap[control.value.payload]
<1>1. Returning("apply zero") /\ Pop /\ heap' = heap /\ Keep
  BY DEF ReturnApplyZero
<1>2. Fail("TypeError") \/ Goto(Eval(Code.nodes[callee.node].body, callee.environment))
  BY DEF ReturnApplyZero
<1> QED
  BY <1>1, <1>2, Modes, PlainReturnStep

LEMMA ReturnCaseStep ==
    ASSUME IInv, ReturnCase
    PROVE  IInv'
<1> DEFINE scrutinee == heap[control.value.payload]
           next == [mode |-> "case arm", arm |-> Top.first, end |-> Top.first + Top.count,
                    constructor |-> scrutinee.constructor, field |-> scrutinee.fields,
                    remaining |-> scrutinee.applied, environment |-> Top.environment]
<1>1. Returning("case") /\ Pop /\ heap' = heap /\ Keep
  BY DEF ReturnCase
<1>2. Fail("TypeError") \/ Fail("NonExhaustiveCase") \/ Goto(next)
  BY DEF ReturnCase
<1>3. "mode" \in DOMAIN next /\ next.mode # "initialize global"
  OBVIOUS
<1> HIDE DEF next
<1> QED
  BY <1>1, <1>2, <1>3, PlainReturnStep

LEMMA ReturnIfStep ==
    ASSUME IInv, ReturnIf
    PROVE  IInv'
<1> DEFINE chosen == IF control.value.payload THEN Top.consequent ELSE Top.alternate
<1>1. Returning("if") /\ Pop /\ heap' = heap /\ Keep
  BY DEF ReturnIf
<1>2. Fail("TypeError") \/ Goto(Eval(chosen, Top.environment))
  BY DEF ReturnIf
<1> HIDE DEF chosen
<1> QED
  BY <1>1, <1>2, Modes, PlainReturnStep

LEMMA ReturnUnaryStep ==
    ASSUME IInv, ReturnUnary
    PROVE  IInv'
<1>1. Returning("unary") /\ Pop /\ heap' = heap /\ Keep
  BY DEF ReturnUnary
<1>2. Fail("TypeError") \/ Goto(Return("integer", Wrapped(-control.value.payload)))
  BY DEF ReturnUnary
<1> QED
  BY <1>1, <1>2, Modes, PlainReturnStep

LEMMA ReturnBinaryLeftStep ==
    ASSUME IInv, ReturnBinaryLeft
    PROVE  IInv'
<1> DEFINE frame == [kind |-> "binary right", op |-> Top.op, left |-> control.value.payload]
<1>1. Returning("binary left") /\ heap' = heap /\ Keep
  BY DEF ReturnBinaryLeft
<1>2. PushOnto(Popped, <<frame>>, Eval(Top.node, Top.environment)) \/ (Fail("TypeError") /\ Pop)
  BY DEF ReturnBinaryLeft
<1>3. frame.kind # "update"
  OBVIOUS
<1> HIDE DEF frame
<1>4. CASE PushOnto(Popped, <<frame>>, Eval(Top.node, Top.environment))
  BY <1>1, <1>3, <1>4, Modes, ReplacingReturnStep
<1>5. CASE Fail("TypeError") /\ Pop
  BY <1>1, <1>5, PlainReturnStep
<1> QED
  BY <1>2, <1>4, <1>5

LEMMA ReturnBinaryRightStep ==
    ASSUME IInv, ReturnBinaryRight
    PROVE  IInv'
<1> DEFINE right == control.value.payload
<1>1. Returning("binary right") /\ Pop /\ heap' = heap /\ Keep
  BY DEF ReturnBinaryRight
<1>2. \/ Fail("TypeError") \/ Fail("DivideByZero")
      \/ Goto(Return("integer", Wrapped(Top.left + right)))
      \/ Goto(Return("boolean", Top.left < right))
      \/ Goto(Return("integer", Quotient(Top.left, right)))
  BY DEF ReturnBinaryRight
<1> QED
  BY <1>1, <1>2, Modes, PlainReturnStep

LEMMA ReturnConvertStep ==
    ASSUME IInv, ReturnConvert
    PROVE  IInv'
<1> DEFINE slots == <<Wide(control.value.payload)>>
<1>1. Returning("convert") /\ Turn("return") /\ Pop /\ Keep
  BY DEF ReturnConvert, Returning
<1>2. Allocate(slots, Return("wide", Slot(1))) \/ (Fail("TypeError") /\ heap' = heap)
  BY DEF ReturnConvert
<1>3. AllFresh(slots)
  BY NewSlotsAreFresh, OneFresh
<1> HIDE DEF slots
<1>4. CASE Allocate(slots, Return("wide", Slot(1)))
  <2>1. HeapStep /\ ControlStep
    BY <1>1, <1>3, <1>4, Modes, AllocateStep DEF AllFresh
  <2> QED
    BY <1>1, <2>1, PoppingStep
<1>5. CASE Fail("TypeError") /\ heap' = heap
  BY <1>1, <1>5, PlainReturnStep
<1> QED
  BY <1>2, <1>4, <1>5

LEMMA ReturnReifiedValueStep ==
    ASSUME IInv, ReturnReifiedValue
    PROVE  IInv'
<1> DEFINE next == [mode |-> "reify", value |-> control.value]
<1>1. Returning("reify value") /\ Pop /\ heap' = heap /\ Keep /\ Goto(next)
  BY DEF ReturnReifiedValue
<1>2. "mode" \in DOMAIN next /\ next.mode # "initialize global"
  OBVIOUS
<1> HIDE DEF next
<1> QED
  BY <1>1, <1>2, PlainReturnStep

LEMMA ReturnFromExpressionStep ==
    ASSUME IInv, ReturnFromExpression
    PROVE  IInv'
  BY ReturnToInputStep, ReturnResultStep, ReturnUpdateStep, ReturnStrictLetStep, ReturnStrictCalleeStep,
     ReturnStrictArgumentStep, ReturnApplyStep, ReturnApplyZeroStep, ReturnCaseStep, ReturnIfStep,
     ReturnUnaryStep, ReturnBinaryLeftStep, ReturnBinaryRightStep, ReturnConvertStep, ReturnReifiedValueStep
  DEF ReturnFromExpression
-----------------------------------------------------------------------------
(* Case arms and the reification of a result.                              *)
LEMMA MatchCaseArmStep ==
    ASSUME IInv, MatchCaseArm
    PROVE  IInv'
<1>1. Turn("case arm") /\ heap' = heap /\ KeepStack /\ Keep
  BY DEF MatchCaseArm
<1>2. "mode" \in DOMAIN control /\ control.mode = "case arm"
  BY <1>1, TurnFacts
<1>3. \/ \E fault \in {"NonExhaustiveCase", "BadModule"} : Fail(fault)
      \/ \E arm : Goto([control EXCEPT !.arm = arm])
      \/ \E node, field, remaining, environment :
             Goto([mode |-> "case bind", node |-> node, field |-> field, remaining |-> remaining,
                   environment |-> environment])
  BY DEF MatchCaseArm
<1>4. ASSUME NEW arm
      PROVE  LET next == [control EXCEPT !.arm = arm] IN "mode" \in DOMAIN next /\ next.mode # "initialize global"
  BY <1>2
<1>5. ASSUME NEW node, NEW field, NEW remaining, NEW environment
      PROVE  LET next == [mode |-> "case bind", node |-> node, field |-> field, remaining |-> remaining,
                          environment |-> environment]
             IN  "mode" \in DOMAIN next /\ next.mode # "initialize global"
  OBVIOUS
<1>6. \/ \E fault : fault \notin {"pending", "complete"} /\ Fail(fault)
      \/ \E next : "mode" \in DOMAIN next /\ next.mode # "initialize global" /\ Goto(next)
  BY <1>3, <1>4, <1>5
<1> QED
  BY <1>1, <1>6, SimpleStep

LEMMA BindCaseFieldStep ==
    ASSUME IInv, BindCaseField
    PROVE  IInv'
<1> DEFINE slots == <<Environment(control.environment, heap[control.field].thunk)>>
           next == [control EXCEPT !.environment = Slot(1), !.field = heap[control.field].previous,
                                   !.remaining = @ - 1]
<1>1. Turn("case bind") /\ KeepStack /\ Keep
  BY DEF BindCaseField
<1>2. \/ (Fail("BadModule") \/ Goto(Eval(control.node, control.environment))) /\ heap' = heap
      \/ Allocate(slots, next)
  BY DEF BindCaseField
<1>3. "mode" \in DOMAIN next /\ next.mode # "initialize global"
  <2>1. "mode" \in DOMAIN control /\ control.mode = "case bind"
    BY <1>1, TurnFacts
  <2> QED
    BY <2>1
<1>4. AllFresh(slots)
  BY NewSlotsAreFresh, OneFresh
<1> HIDE DEF slots, next
<1>5. CASE Allocate(slots, next)
  BY <1>1, <1>3, <1>4, <1>5, AllocatingStep
<1>6. CASE (Fail("BadModule") \/ Goto(Eval(control.node, control.environment))) /\ heap' = heap
  BY <1>1, <1>6, Modes, SimpleStep
<1> QED
  BY <1>2, <1>5, <1>6

LEMMA OneMoreResult ==
    ASSUME NEW q, IsASequence(q), NEW e
    PROVE  IsASequence(Append(q, e)) /\ Len(Append(q, e)) = Len(q) + 1
<1>1. PICK S : q \in Seq(S)
  BY DEF IsASequence
<1>2. q \in Seq(S \cup {e})
  BY <1>1, SeqMonotonic
<1>3. Append(q, e) \in Seq(S \cup {e}) /\ Len(Append(q, e)) = Len(q) + 1
  BY <1>2
<1> QED
  BY <1>3 DEF IsASequence

LEMMA OneMoreFits == \A m, n \in Nat : m < n => m + 1 <= n
  OBVIOUS

LEMMA ReifyValueStep ==
    ASSUME IInv, ReifyValue
    PROVE  IInv'
<1> DEFINE value == control.value
           slot == heap[value.payload]
           room == Len(output) < request.resultNodes
           frame == [kind |-> "reify end", slot |-> value.payload]
           next == [mode |-> "reify prepare", field |-> slot.fields, remaining |-> slot.applied]
           marking == [heap EXCEPT ![value.payload] = [heap[value.payload] EXCEPT !.marked = TRUE]]
           Listed == output' = output \/ (room /\ \E node : output' = Append(output, node))
<1>1. Turn("reify") /\ globals' = globals /\ thunkEvaluations' = thunkEvaluations
  BY DEF ReifyValue
<1>2. Listed
  BY DEF ReifyValue
<1>3. \/ heap' = heap /\ KeepStack /\ (Goto(Reify) \/ \E fault \in {"ResultTooLarge", "CyclicResult"} : Fail(fault))
      \/ heap' = marking /\ Push(frame, next)
  BY DEF ReifyValue
<1>4. ListsOK'
  <2>1. ListsOK /\ request' = request /\ request.resultNodes \in Nat /\ Len(output) \in Nat
    BY <1>1, TurnFacts, SequenceDomain DEF ListsOK, RequestOK
  <2>2. CASE output' = output
    BY <1>1, <2>1, <2>2, ListsAreKept
  <2>3. CASE room /\ \E node : output' = Append(output, node)
    <3>1. IsASequence(output') /\ Len(output') = Len(output) + 1
      BY <2>1, <2>3, OneMoreResult DEF ListsOK
    <3>2. Len(output') <= request.resultNodes
      BY <2>1, <2>3, <3>1, OneMoreFits
    <3> QED
      BY <1>1, <2>1, <3>1, <3>2 DEF ListsOK, Code
  <2> QED
    BY <1>2, <2>2, <2>3
<1>5. CASE heap' = heap /\ KeepStack /\ (Goto(Reify) \/ \E fault \in {"ResultTooLarge", "CyclicResult"} : Fail(fault))
  <2>1. HeapStep /\ StackStep
    BY <1>1, <1>5, TurnFacts, UnchangedHeapStep, UnchangedStackStep DEF KeepStack
  <2>2. ControlStep
    BY <1>1, <1>5, TurnFacts, Modes, GotoIsControlStep, FailIsControlStep
  <2> QED
    BY <1>1, <1>4, <2>1, <2>2, TurnStep
<1>6. CASE heap' = marking /\ Push(frame, next)
  <2>1. HeapStep
    BY <1>1, <1>6, TurnFacts, MarkStep
  <2>2. frame.kind # "update" /\ "mode" \in DOMAIN next /\ next.mode # "initialize global"
    OBVIOUS
  <2> HIDE DEF frame, next
  <2>3. StackStep /\ ControlStep
    BY <1>1, <1>6, <2>2, PushOneStep
  <2> QED
    BY <1>1, <1>4, <2>1, <2>3, TurnStep
<1> QED
  BY <1>3, <1>5, <1>6

LEMMA PrepareReifiedFieldsStep ==
    ASSUME IInv, PrepareReifiedFields
    PROVE  IInv'
<1> DEFINE frame == [kind |-> "reify field", thunk |-> heap[control.field].thunk]
           next == [control EXCEPT !.field = heap[control.field].previous, !.remaining = @ - 1]
<1>1. Turn("reify prepare") /\ heap' = heap /\ Keep
  BY DEF PrepareReifiedFields
<1>2. (Goto(Reify) /\ KeepStack) \/ Push(frame, next)
  BY DEF PrepareReifiedFields
<1>3. frame.kind # "update"
  OBVIOUS
<1>4. "mode" \in DOMAIN next /\ next.mode # "initialize global"
  <2>1. "mode" \in DOMAIN control /\ control.mode = "reify prepare"
    BY <1>1, TurnFacts
  <2> QED
    BY <2>1
<1> HIDE DEF frame, next
<1>5. CASE Push(frame, next)
  BY <1>1, <1>3, <1>4, <1>5, PushingStep
<1>6. CASE Goto(Reify) /\ KeepStack
  BY <1>1, <1>6, Modes, SimpleStep
<1> QED
  BY <1>2, <1>5, <1>6
(* A frame that is none of the reification is a fault, after which nothing *)
(* is said of the stack any more.                                          *)
LEMMA FailingPopStep ==
    ASSUME IInv, NEW mode, Turn(mode), stack # <<>>, Pop, heap' = heap, Fail("BadModule"), Keep
    PROVE  IInv'
<1>1. host' = host /\ request' = request /\ host.at = "gpu" /\ IInv
  BY DEF Turn, Running
<1>2. ProgressOK'
  <2>1. thunkEvaluations \in Nat /\ steps \in Nat /\ thunkEvaluations <= steps
    BY TurnFacts DEF ProgressOK
  <2>2. thunkEvaluations' \in Nat /\ thunkEvaluations' <= steps + 1
    BY <2>1 DEF Keep
  <2> QED
    BY <2>2, ProgressOfATurn
<1>3. IsASequence(stack') /\ Len(stack') <= peakStack /\ peakStack' = peakStack
  BY TurnFacts, PoppedKeeps DEF Pop, StackOK
<1>4. RequestOK' /\ HeapOK' /\ StackOK' /\ ListsOK'
  <2>1. RequestOK'
    BY <1>1, TurnFacts DEF RequestOK, Code, WellFormed, WellFormedInput
  <2>2. HeapOK' /\ StackOK'
    BY <1>1, <1>3, TurnFacts DEF HeapOK, StackOK
  <2>3. ListsOK'
    BY <1>1, TurnFacts, ListsAreKept DEF Keep
  <2> QED
    BY <2>1, <2>2, <2>3
<1>5. status' = "BadModule"
  BY DEF Fail
<1>6. ControlOK' /\ ~Sound'
  BY <1>5 DEF ControlOK, Sound
<1>7. StatesOK' /\ EvaluationsOK'
  BY TurnFacts DEF StatesOK, EvaluationsOK, Thunks, Keep
<1> QED
  BY <1>1, <1>2, <1>4, <1>6, <1>7 DEF IInv

LEMMA ContinueReificationStep ==
    ASSUME IInv, ContinueReification
    PROVE  IInv'
<1> DEFINE frame == [kind |-> "reify value"]
           marking == [heap EXCEPT ![Top.slot] = [heap[Top.slot] EXCEPT !.marked = FALSE]]
<1>1. Turn("reify continue") /\ Keep
  BY DEF ContinueReification
<1>2. \/ stack = <<>> /\ Complete(NoValue) /\ KeepStack /\ heap' = heap
      \/ stack # <<>> /\ Top.kind = "reify field" /\ PushOnto(Popped, <<frame>>, EnterThunk(Top.thunk)) /\ heap' = heap
      \/ stack # <<>> /\ Top.kind = "reify end" /\ heap' = marking /\ Goto(Reify) /\ Pop
      \/ stack # <<>> /\ Fail("BadModule") /\ Pop /\ heap' = heap
  BY DEF ContinueReification
<1>3. frame.kind # "update"
  OBVIOUS
<1> HIDE DEF frame
<1>4. CASE stack = <<>> /\ Complete(NoValue) /\ KeepStack /\ heap' = heap
  <2>1. HeapStep /\ StackStep
    BY <1>1, <1>4, TurnFacts, UnchangedHeapStep, UnchangedStackStep DEF KeepStack
  <2>2. ControlStep
    BY <1>4, CompleteIsControlStep DEF KeepStack
  <2> QED
    BY <1>1, <2>1, <2>2, KeepingStep
<1>5. CASE stack # <<>> /\ Top.kind = "reify field" /\ PushOnto(Popped, <<frame>>, EnterThunk(Top.thunk)) /\ heap' = heap
  <2>1. HeapStep
    BY <1>1, <1>5, TurnFacts, UnchangedHeapStep
  <2>2. Top.kind # "update"
    BY <1>5
  <2>3. StackStep /\ ControlStep
    BY <1>1, <1>3, <1>5, <2>2, Modes, ReplaceTopStep
  <2> QED
    BY <1>1, <2>1, <2>3, KeepingStep
<1>6. CASE stack # <<>> /\ Top.kind = "reify end" /\ heap' = marking /\ Goto(Reify) /\ Pop
  <2>1. HeapStep
    BY <1>1, <1>6, TurnFacts, MarkStep
  <2>2. StackStep
    <3>1. Top.kind # "update"
      BY <1>6
    <3> QED
      BY <1>1, <1>6, <3>1, TurnFacts, PopStep
  <2>3. ControlStep
    BY <1>1, <1>6, TurnFacts, Modes, GotoIsControlStep
  <2> QED
    BY <1>1, <2>1, <2>2, <2>3, KeepingStep
<1>7. CASE stack # <<>> /\ Fail("BadModule") /\ Pop /\ heap' = heap
  BY <1>1, <1>7, FailingPopStep
<1> QED
  BY <1>2, <1>4, <1>5, <1>6, <1>7

-----------------------------------------------------------------------------
(* The first transitions: a global for each definition.                    *)
LEMMA RoomForOne == \A k, m, n \in Nat : k = 1 => (k <= n - m <=> m < n)
  OBVIOUS

LEMMA NotYetLast == \A k, m, n \in Nat : k = m + 1 /\ m < n /\ m + 1 # n => k < n
  OBVIOUS

LEMMA InitializeGlobalStep ==
    ASSUME IInv, InitializeGlobal
    PROVE  IInv'
<1> DEFINE slots == <<Thunk(Code.definitions[control.definition], 0)>>
           last == control.definition = Len(Code.definitions)
           entry == IF Code.entry = control.definition THEN Slot(1) ELSE globals[Code.entry]
           next == IF last THEN EnterThunk(entry) ELSE [control EXCEPT !.definition = @ + 1]
<1>1. /\ Turn("initialize global") /\ Allocate(slots, next) /\ KeepStack
      /\ globals' = IF Len(heap) < request.heapSlots THEN Append(globals, Slot(1)) ELSE globals
      /\ output' = output /\ thunkEvaluations' = thunkEvaluations
  BY DEF InitializeGlobal
<1>2. /\ control = [mode |-> "initialize global", definition |-> Len(globals) + 1]
      /\ Len(globals) < Len(Code.definitions) /\ status = "pending"
      /\ Len(globals) \in Nat /\ Len(Code.definitions) \in Nat
      /\ Len(heap) \in Nat /\ request.heapSlots \in Nat /\ Len(heap) <= request.heapSlots
  BY <1>1, TurnFacts, SequenceDomain DEF ControlOK, ListsOK, HeapOK, RequestOK, WellFormed
<1>3. AllFresh(slots) /\ Len(slots) = 1
  BY NewSlotsAreFresh, OneFresh, OneElement
<1> HIDE DEF slots, next
<1>4. Allocated(slots, heap) /\ (IF Len(heap) < request.heapSlots THEN Goto(next) ELSE Fail("OutOfHeap"))
  <2>1. Len(slots) <= request.heapSlots - Len(heap) <=> Len(heap) < request.heapSlots
    BY <1>2, <1>3, RoomForOne
  <2> QED
    BY <1>1, <2>1 DEF Allocate, AllocateInto, Allocated
<1>5. HeapStep
  BY <1>1, <1>2, <1>3, <1>4, TurnFacts, HeapStays, AllocationStep DEF AllFresh
<1>6. StackStep
  BY <1>1, TurnFacts, UnchangedStackStep DEF KeepStack
<1>7. ListsOK' /\ (Len(heap) < request.heapSlots => Len(globals') = Len(globals) + 1)
  <2>1. request' = request /\ ListsOK
    BY <1>1, TurnFacts
  <2>2. CASE Len(heap) < request.heapSlots
    <3>1. IsASequence(globals') /\ Len(globals') = Len(globals) + 1
      BY <1>1, <2>1, <2>2, OneMoreResult DEF ListsOK
    <3>2. Len(globals') <= Len(Code.definitions)
      BY <1>2, <3>1, OneMoreFits
    <3> QED
      BY <1>1, <2>1, <3>1, <3>2 DEF ListsOK, Code
  <2>3. CASE ~(Len(heap) < request.heapSlots)
    BY <1>1, <2>1, <2>3, ListsAreKept
  <2> QED
    BY <2>2, <2>3
<1>8. ControlOK'
  <2>1. CASE ~(Len(heap) < request.heapSlots)
    <3>1. status' = "OutOfHeap"
      BY <1>4, <2>1 DEF Fail
    <3> QED
      BY <3>1 DEF ControlOK
  <2>2. CASE Len(heap) < request.heapSlots /\ last
    <3>1. next = EnterThunk(entry)
      BY <2>2 DEF next
    <3> HIDE DEF entry
    <3>2. Goto(EnterThunk(entry))
      BY <1>4, <2>2, <3>1
    <3>3. ControlStep
      BY <1>2, <3>2, Modes, GotoIsControlStep
    <3> QED
      BY <3>3 DEF ControlOK, ControlStep
  <2>3. CASE Len(heap) < request.heapSlots /\ ~last
    <3>1. control' = next /\ status' = "pending"
      BY <1>2, <1>4, <2>3 DEF Goto
    <3>2. next = [mode |-> "initialize global", definition |-> Len(globals) + 1 + 1]
      BY <1>2, <2>3 DEF next
    <3>3. control' = [mode |-> "initialize global", definition |-> Len(globals') + 1]
      BY <1>7, <2>3, <3>1, <3>2
    <3>4. Len(globals) + 1 # Len(Code.definitions)
      BY <1>2, <2>3
    <3>5. Len(globals') < Len(Code.definitions)
      BY <1>2, <1>7, <2>3, <3>4, NotYetLast, SequenceDomain DEF ListsOK
    <3>6. Code' = Code
      BY <1>1, TurnFacts DEF Code
    <3> QED
      BY <3>1, <3>3, <3>5, <3>6 DEF ControlOK
  <2> QED
    BY <2>1, <2>2, <2>3
<1>9. host' = host /\ request' = request /\ host.at = "gpu"
  BY <1>1 DEF Turn, Running
<1>10. ProgressOK'
  <2>1. thunkEvaluations \in Nat /\ steps \in Nat /\ thunkEvaluations <= steps
    BY <1>1, TurnFacts DEF ProgressOK
  <2>2. thunkEvaluations' = thunkEvaluations
    BY <1>1
  <2>3. thunkEvaluations' \in Nat /\ thunkEvaluations' <= steps + 1
    BY <2>1, <2>2
  <2> QED
    BY <1>1, <2>3, ProgressOfATurn
<1>11. StatesOK' /\ UpdatesOK' /\ EvaluationsOK'
  <2>1. thunkEvaluations \in Nat
    BY <1>1, TurnFacts DEF ProgressOK
  <2> QED
    BY <1>1, <1>5, <1>6, <2>1, TurnFacts, SharingIsKept DEF HeapStep, StackStep, HeapOK, StackOK
<1>12. RequestOK' /\ HeapOK' /\ StackOK'
  <2>1. RequestOK'
    BY <1>1, <1>9, TurnFacts DEF RequestOK, Code, WellFormed, WellFormedInput
  <2>2. HeapOK'
    BY <1>5, <1>9 DEF HeapOK, HeapStep, Grows
  <2>3. StackOK'
    BY <1>6, <1>9 DEF StackOK, StackStep
  <2> QED
    BY <2>1, <2>2, <2>3
<1> QED
  BY <1>7, <1>8, <1>9, <1>10, <1>11, <1>12 DEF IInv

LEMMA ExhaustFuelStep ==
    ASSUME IInv, ExhaustFuel
    PROVE  IInv'
<1>1. /\ host.at = "gpu" /\ status = "pending" /\ ~(steps < request.maximumSteps) /\ status' = "OutOfFuel"
      /\ control' = control
      /\ UNCHANGED <<request, heap, stack, globals, pendingInput, output, steps, peakStack, thunkEvaluations, host>>
  BY DEF ExhaustFuel, Running, FuelLeft, Fail
<1>2. RequestOK /\ HeapOK /\ StackOK /\ ListsOK /\ ProgressOK /\ StatesOK /\ EvaluationsOK
  BY <1>1 DEF IInv
<1>3. RequestOK' /\ HeapOK' /\ StackOK' /\ ListsOK' /\ StatesOK' /\ EvaluationsOK'
  BY <1>1, <1>2
  DEF RequestOK, Code, WellFormed, WellFormedInput, HeapOK, StackOK, ListsOK, StatesOK, EvaluationsOK, Thunks
<1>4. ProgressOK'
  <2>1. host.previousSteps < steps
    BY <1>1, <1>2 DEF ProgressOK, RequestOK
  <2> QED
    BY <1>1, <1>2, <2>1 DEF ProgressOK
<1>5. ControlOK' /\ ~Sound'
  BY <1>1 DEF ControlOK, Sound
<1> QED
  BY <1>1, <1>3, <1>4, <1>5 DEF IInv

LEMMA MachineStep ==
    ASSUME IInv, Machine
    PROVE  IInv'
  BY InitializeGlobalStep, EvaluateNodeStep, EnterStep, ReturnFromExpressionStep, MatchCaseArmStep,
     BindCaseFieldStep, ReifyValueStep, PrepareReifiedFieldsStep, ContinueReificationStep, ExhaustFuelStep
  DEF Machine
-----------------------------------------------------------------------------
(* The host.                                                               *)
LEMMA EvaluateStep ==
    ASSUME NEW Modules, \A m \in Modules : WellFormed(m),
           NEW Inputs, \A input \in Inputs : WellFormedInput(input),
           NEW r \in EvaluationRequests(Modules, Inputs),
           IInv, Evaluate(r)
    PROVE  IInv'
<1>1. request' = [r EXCEPT !.caseDispatch = CaseDispatchIndex(r.module)]
  BY DEF Evaluate
<1>2. /\ request'.module = r.module /\ request'.input = r.input
      /\ request'.maximumSteps \in Nat \ {0} /\ request'.maximumStepsPerDispatch \in Nat \ {0}
      /\ request'.heapSlots \in Nat /\ request'.stackFrames \in Nat /\ request'.resultNodes \in Nat
      /\ r.module \in Modules /\ r.input \in Inputs
  BY <1>1 DEF EvaluationRequests
<1>3. RequestOK' /\ Len(Code'.definitions) \in Nat \ {0}
  BY <1>2 DEF RequestOK, Code, WellFormed, WellFormedInput
<1>4. IsASequence(<<>>) /\ Len(<<>>) = 0
  BY EmptyIsFresh DEF AllFresh
<1>5. HeapOK' /\ StackOK'
  <2>1. heap' = <<>> /\ stack' = <<>> /\ peakStack' = 0
    BY DEF Evaluate
  <2>2. IsASequence(heap') /\ Len(heap') = 0 /\ IsASequence(stack') /\ Len(stack') = 0
    BY <1>4, <2>1
  <2> QED
    BY <1>2, <2>1, <2>2 DEF HeapOK, StackOK
<1>6. IsASequence(globals') /\ Len(globals') = 0 /\ IsASequence(output') /\ Len(output') = 0
  <2>1. globals' = <<>> /\ output' = <<>>
    BY DEF Evaluate
  <2> QED
    BY <1>4, <2>1
<1>7. ListsOK'
  BY <1>2, <1>3, <1>6 DEF ListsOK
<1>8. ControlOK'
  <2>1. status' = "pending" /\ control' = [mode |-> "initialize global", definition |-> 1]
    BY DEF Evaluate
  <2>2. Len(globals') + 1 = 1
    BY <1>6
  <2>3. Len(globals') < Len(Code'.definitions)
    BY <1>3, <1>6
  <2>4. control' = [mode |-> "initialize global", definition |-> Len(globals') + 1]
    BY <2>1, <2>2
  <2>5. "mode" \in DOMAIN control'
    BY <2>1
  <2> QED
    BY <2>1, <2>3, <2>4, <2>5 DEF ControlOK
<1>9. ProgressOK'
  <2>1. /\ steps' = 0 /\ thunkEvaluations' = 0 /\ status' = "pending"
        /\ host'.at = "ready" /\ host'.previousSteps = 0
    BY DEF Evaluate
  <2> QED
    BY <1>2, <2>1 DEF ProgressOK
<1>10. StatesOK' /\ UpdatesOK'
  <2>1. heap' = <<>> /\ stack' = <<>>
    BY DEF Evaluate
  <2>2. 1 .. Len(heap') = {} /\ 1 .. Len(stack') = {}
    BY <1>4, <2>1
  <2> QED
    BY <2>2 DEF StatesOK, UpdatesOK
<1>11. EvaluationsOK'
  <2>1. heap' = <<>> /\ thunkEvaluations' = 0
    BY DEF Evaluate
  <2>2. DOMAIN heap' = {}
    BY <1>4, <2>1, SequenceDomain
  <2>3. Counted' = {}
    BY <2>2 DEF Counted, Thunks
  <2>4. Cardinality(Counted') = 0
    BY <2>3, FS_EmptySet
  <2>5. thunkEvaluations' <= Cardinality(Counted')
    BY <2>1, <2>4
  <2> QED
    BY <2>5 DEF EvaluationsOK, Counted
<1>12. host' = [at |-> "ready", dispatchStart |-> 0, previousSteps |-> 0]
  BY DEF Evaluate
<1>13. /\ host' \in Hosts
       /\ host'.at # "idle"
  BY <1>12 DEF Hosts
<1> QED
  BY <1>3, <1>5, <1>7, <1>8, <1>9, <1>10, <1>11, <1>13 DEF IInv

LEMMA UnchangedMachine ==
    ASSUME IInv, host.at # "idle", UNCHANGED <<request, status, machine>>
    PROVE  /\ RequestOK' /\ HeapOK' /\ StackOK' /\ ListsOK' /\ ControlOK' /\ StatesOK' /\ EvaluationsOK'
           /\ Sound' => UpdatesOK'
<1>1. /\ request' = request /\ status' = status /\ control' = control /\ heap' = heap /\ stack' = stack
      /\ globals' = globals /\ output' = output /\ peakStack' = peakStack
      /\ thunkEvaluations' = thunkEvaluations
  BY DEF machine
<1>2. RequestOK /\ HeapOK /\ StackOK /\ ListsOK /\ ControlOK /\ StatesOK /\ EvaluationsOK /\ (Sound => UpdatesOK)
  BY DEF IInv
<1>3. RequestOK'
  BY <1>1, <1>2 DEF RequestOK, Code
<1>4. HeapOK' /\ StatesOK'
  BY <1>1, <1>2 DEF HeapOK, StatesOK
<1>5. StackOK' /\ ControlOK'
  <2>1. StackOK'
    BY <1>1, <1>2 DEF StackOK
  <2>2. ControlOK'
    BY <1>1, <1>2 DEF ControlOK, Code
  <2> QED
    BY <2>1, <2>2
<1>6. ListsOK'
  BY <1>1, <1>2 DEF ListsOK, Code
<1>7. EvaluationsOK'
  <2>1. Thunks({"evaluating", "evaluated"})' = Thunks({"evaluating", "evaluated"})
    BY <1>1 DEF Thunks
  <2> QED
    BY <1>1, <1>2, <2>1 DEF EvaluationsOK
<1>8. Sound' => UpdatesOK'
  BY <1>1, <1>2 DEF Sound, UpdatesOK
<1> QED
  BY <1>3, <1>4, <1>5, <1>6, <1>7, <1>8

HostOK == ProgressOK /\ host.at # "idle" /\ host \in Hosts

LEMMA HostStep ==
    ASSUME IInv, Host
    PROVE  IInv'
<1>1. host.at # "idle" /\ UNCHANGED <<request, status, machine>>
  BY DEF Host, Dispatch, EndDispatch, ReadSnapshot
<1>2. RequestOK /\ HeapOK /\ StackOK /\ ListsOK /\ ControlOK /\ ProgressOK
  BY <1>1 DEF IInv
<1>3. host \in Hosts
  BY DEF IInv
<1>4. /\ steps \in Nat /\ host.previousSteps \in Nat /\ host.dispatchStart \in Nat
      /\ request.maximumSteps \in Nat \ {0} /\ request.maximumStepsPerDispatch \in Nat \ {0}
      /\ steps' = steps /\ request' = request /\ status' = status /\ thunkEvaluations' = thunkEvaluations
  BY <1>1, <1>2, <1>3 DEF ProgressOK, RequestOK, machine, Hosts
<1>5. ASSUME Dispatch PROVE HostOK'
  <2>1. host' = [host EXCEPT !.at = "gpu", !.dispatchStart = steps] /\ host.at = "ready"
    BY <1>5 DEF Dispatch
  <2>2. host'.at = "gpu" /\ host'.dispatchStart = steps /\ host'.previousSteps = host.previousSteps
    BY <1>3, <2>1 DEF Hosts
  <2> QED
    BY <1>2, <1>3, <1>4, <2>1, <2>2 DEF ProgressOK, HostOK, Hosts
<1>6. ASSUME EndDispatch PROVE HostOK'
  <2>1. /\ host' = [host EXCEPT !.at = "readback"] /\ host.at = "gpu"
        /\ \/ status # "pending"
           \/ steps < request.maximumSteps /\ ~(steps - host.dispatchStart < request.maximumStepsPerDispatch)
    BY <1>6 DEF EndDispatch, FuelLeft, DispatchLeft
  <2>2. host'.at = "readback" /\ host'.previousSteps = host.previousSteps
    BY <1>3, <2>1 DEF Hosts
  <2>3. steps > host.previousSteps /\ (status = "pending" => steps < request.maximumSteps)
    BY <1>2, <1>4, <2>1 DEF ProgressOK
  <2> QED
    BY <1>2, <1>3, <1>4, <2>1, <2>2, <2>3 DEF ProgressOK, HostOK, Hosts
<1>7. ASSUME ReadSnapshot PROVE HostOK'
  <2>1. host.at = "readback"
    BY <1>7 DEF ReadSnapshot
  <2>2. Len(stack) \in Nat /\ Len(heap) \in Nat /\ Len(globals) \in Nat /\ Len(output) \in Nat
    BY <1>2, SequenceDomain DEF HeapOK, StackOK, ListsOK
  <2>3. CountersAreConsistent
    BY <1>2 DEF CountersAreConsistent, HeapOK, StackOK, ListsOK, ProgressOK
  <2>4. steps - host.previousSteps \in 1 .. request.maximumStepsPerDispatch
    BY <1>2, <1>4, <2>1 DEF ProgressOK
  <2>5. ProgressIsValid
    BY <1>2, <2>1, <2>4 DEF ProgressIsValid, ProgressOK, ControlOK
  <2>6. host' = IF status = "pending" THEN [host EXCEPT !.at = "ready", !.previousSteps = steps]
                ELSE [host EXCEPT !.at = "done"]
    BY <1>7, <2>3, <2>5 DEF ReadSnapshot
  <2>7. CASE status = "pending"
    <3>1. host'.at = "ready" /\ host'.previousSteps = steps /\ host'.dispatchStart = host.dispatchStart
      BY <1>3, <2>6, <2>7 DEF Hosts
    <3>2. steps < request.maximumSteps /\ steps <= steps + request.maximumStepsPerDispatch
      BY <1>2, <1>4, <2>1, <2>7 DEF ProgressOK
    <3>3. host' \in Hosts
      BY <1>3, <1>4, <2>6, <2>7 DEF Hosts
    <3>4. ProgressOK'
      BY <1>2, <1>4, <2>7, <3>1, <3>2 DEF ProgressOK
    <3> QED
      BY <3>1, <3>3, <3>4 DEF HostOK
  <2>8. CASE status # "pending"
    <3>1. host'.at = "done" /\ host'.previousSteps = host.previousSteps
      BY <1>3, <2>6, <2>8 DEF Hosts
    <3> QED
      BY <1>2, <1>3, <1>4, <2>6, <2>8, <3>1 DEF ProgressOK, HostOK, Hosts
  <2> QED
    BY <2>7, <2>8
<1>8. HostOK'
  BY <1>5, <1>6, <1>7 DEF Host
<1> QED
  BY <1>1, <1>8, UnchangedMachine DEF IInv, HostOK
LEMMA StutteringStep ==
    ASSUME IInv, UNCHANGED vars
    PROVE  IInv'
<1>1. UNCHANGED <<request, status, machine>>
  BY DEF vars, machine
<1>2. host' = host /\ status' = status /\ steps' = steps /\ request' = request /\ thunkEvaluations' = thunkEvaluations
  BY DEF vars
<1>3. host' \in Hosts /\ (host'.at = "idle" => status' = "uninitialized")
  BY <1>2 DEF IInv
<1>4. CASE host.at = "idle"
  <2>1. host'.at = "idle"
    BY <1>2, <1>4
  <2> QED
    BY <1>3, <2>1 DEF IInv
<1>5. CASE host.at # "idle"
  <2>1. ProgressOK
    BY <1>5 DEF IInv
  <2>2. ProgressOK'
    BY <1>2, <2>1 DEF ProgressOK
  <2> QED
    BY <1>1, <1>3, <1>5, <2>2, UnchangedMachine DEF IInv
<1> QED
  BY <1>4, <1>5

-----------------------------------------------------------------------------
(* The theorems.                                                           *)
LEMMA InductiveInvariant ==
    ASSUME NEW Modules, \A m \in Modules : WellFormed(m),
           NEW Inputs, \A input \in Inputs : WellFormedInput(input)
    PROVE  Evaluations(EvaluationRequests(Modules, Inputs)) => []IInv
<1> DEFINE requests == EvaluationRequests(Modules, Inputs)
<1>1. Init => IInv
  BY DEF Init, IInv, Hosts
<1>2. IInv /\ [Next(requests)]_vars => IInv'
  <2> SUFFICES ASSUME IInv, [Next(requests)]_vars PROVE IInv'
    OBVIOUS
  <2>1. CASE \E r \in requests : Evaluate(r)
    BY <2>1, EvaluateStep
  <2>2. CASE Machine
    BY <2>2, MachineStep
  <2>3. CASE Host
    BY <2>3, HostStep
  <2>4. CASE UNCHANGED vars
    BY <2>4, StutteringStep
  <2> QED
    BY <2>1, <2>2, <2>3, <2>4 DEF Next
<1> HIDE DEF requests
<1>3. Init /\ [][Next(requests)]_vars => []IInv
  BY <1>1, <1>2, PTL
<1> QED
  BY <1>3 DEF Evaluations, requests

(* The host loop of evaluator.ts throws an evaluation away when the        *)
(* counters of a snapshot do not fit together or a dispatch made no        *)
(* progress.  It never does: whatever the module, the input and the        *)
(* limits, and wherever the fuel, the heap, the stack or the results end.  *)
THEOREM HostAcceptsEverySnapshot ==
    ASSUME NEW Modules, \A m \in Modules : WellFormed(m),
           NEW Inputs, \A input \in Inputs : WellFormedInput(input)
    PROVE  Evaluations(EvaluationRequests(Modules, Inputs)) => []SnapshotsAreAccepted
<1> DEFINE requests == EvaluationRequests(Modules, Inputs)
<1>1. IInv => SnapshotsAreAccepted
  BY DEF IInv, Hosts, SnapshotsAreAccepted
<1>2. Evaluations(requests) => []IInv
  BY InductiveInvariant
<1> HIDE DEF requests
<1>3. Evaluations(requests) => []SnapshotsAreAccepted
  BY <1>1, <1>2, PTL
<1> QED
  BY <1>3 DEF requests

LEMMA SharingImpliesWorkIsShared ==
    ASSUME IInv
    PROVE  WorkIsShared
<1> SUFFICES ASSUME Sound
             PROVE  /\ \A t \in DOMAIN heap :
                           Cardinality(UpdateFrames(t)) = IF t \in Thunks({"evaluating"}) THEN 1 ELSE 0
                    /\ thunkEvaluations <= Cardinality(Thunks({"evaluating", "evaluated"}))
  BY DEF WorkIsShared
<1>1. HeapOK /\ StackOK /\ UpdatesOK /\ EvaluationsOK
  BY DEF IInv, Sound
<1>2. DOMAIN heap = 1 .. Len(heap) /\ DOMAIN stack = 1 .. Len(stack)
  BY <1>1, SequenceDomain DEF HeapOK, StackOK
<1>3. ASSUME NEW t \in 1 .. Len(heap)
      PROVE  Cardinality(UpdateFrames(t)) = IF t \in Thunks({"evaluating"}) THEN 1 ELSE 0
  <2>1. t \in Thunks({"evaluating"}) <=> StateOf(heap[t]) = "evaluating"
    BY <1>2 DEF Thunks, StateOf
  <2>2. CASE StateOf(heap[t]) = "evaluating"
    <3>1. PICK i \in 1 .. Len(stack) : stack[i].kind = "update" /\ stack[i].thunk = t
      BY <1>1, <2>2 DEF UpdatesOK
    <3>2. UpdateFrames(t) = {i}
      BY <1>1, <1>2, <3>1 DEF UpdateFrames, UpdatesOK
    <3> QED
      BY <2>1, <2>2, <3>2, FS_Singleton
  <2>3. CASE StateOf(heap[t]) # "evaluating"
    <3>1. UpdateFrames(t) = {}
      BY <1>1, <1>2, <2>3 DEF UpdateFrames, UpdatesOK
    <3> QED
      BY <2>1, <2>3, <3>1, FS_EmptySet
  <2> QED
    BY <2>2, <2>3
<1> QED
  BY <1>1, <1>2, <1>3 DEF EvaluationsOK

(* Call by need: a thunk that is being evaluated has exactly one frame     *)
(* that will update it, no other thunk has one, and a thunk is entered at  *)
(* most once before it has its value, through faults of any kind, nested   *)
(* forcing and an input that is decoded on demand.                         *)
THEOREM WorkIsNeverDoneTwice ==
    ASSUME NEW Modules, \A m \in Modules : WellFormed(m),
           NEW Inputs, \A input \in Inputs : WellFormedInput(input)
    PROVE  Evaluations(EvaluationRequests(Modules, Inputs)) => []WorkIsShared
<1> DEFINE requests == EvaluationRequests(Modules, Inputs)
<1>1. IInv => WorkIsShared
  BY SharingImpliesWorkIsShared
<1>2. Evaluations(requests) => []IInv
  BY InductiveInvariant
<1> HIDE DEF requests
<1>3. Evaluations(requests) => []WorkIsShared
  BY <1>1, <1>2, PTL
<1> QED
  BY <1>3 DEF requests
=============================================================================
