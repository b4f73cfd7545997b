------------------------ MODULE CompilationAdmission ------------------------
(***************************************************************************)
(* The admission queue in front of the GPU semantic compiler               *)
(* (src/src/functional/compilation_admission.ts).  Every compileBatch call *)
(* of a GpuCompiler passes through it.  A request is started at once when  *)
(* nobody waits and the device has room, and queues first-in first-out     *)
(* otherwise.  Room is counted twice: at most MaximumBatchSize requests in *)
(* flight, and at most MaximumConcurrentWeight estimated transient bytes,  *)
(* except that one request may always run alone.                           *)
(*                                                                         *)
(* The program is single threaded: every action below is one synchronous   *)
(* run of the JavaScript stack.  The operators named Mutant... are         *)
(* plausible mistakes in the definition that follows them; no              *)
(* specification uses them.                                                *)
(***************************************************************************)
EXTENDS Integers, Sequences, FiniteSets

CONSTANTS
    Requests,                  \* one member per call of admit()
    Signals,                   \* abort signals; several requests may share one
    NoSignal,                  \* the request was made without a signal
    Estimates,                 \* values of estimatedTransientByteLength
    MaximumConcurrentWeight,   \* constructor argument: bytes of one device
    MaximumBatchSize           \* MAXIMUM_GPU_DISPATCH_BATCH_SIZE (64)

ASSUME AdmissionAssumption ==
    /\ IsFiniteSet(Requests)
    /\ NoSignal \notin Signals
    /\ Estimates \subseteq Nat
    /\ MaximumConcurrentWeight \in Nat
    /\ MaximumBatchSize \in Nat \ {0}

VARIABLES
    state,         \* where each request's promise stands
    weight,        \* admissionWeight of each admitted request
    signal,        \* the request's abort signal
    listening,     \* requests whose abort listener is still registered
    aborted,       \* the signals already aborted
    queue,         \* the pending list, first to last
    activeCount,   \* #activeCompilationCount
    activeWeight   \* #activeCompilationWeight

vars == <<state, weight, signal, listening, aborted, queue, activeCount, activeWeight>>

RequestStates == {"idle", "queued", "active", "resolved", "failed", "cancelled"}

-----------------------------------------------------------------------------
(* Weights.                                                                *)

MinimumAdmissionWeight ==
    LET share == MaximumConcurrentWeight \div MaximumBatchSize
    IN  IF share > 1 THEN share ELSE 1

AdmissionWeight(estimate) ==
    IF estimate > MinimumAdmissionWeight THEN estimate ELSE MinimumAdmissionWeight

(* The bytes a set of requests reserves, as a set of (request, byte)       *)
(* pairs: its cardinality is the sum of the weights.                       *)
ReservedBytes(S) == UNION {{r} \X (1 .. weight[r]) : r \in S}

WeightOf(S) == Cardinality(ReservedBytes(S))

Active == {r \in Requests : state[r] = "active"}

IsAborted(s) == s \in aborted

Live(S) == {r \in S : ~IsAborted(signal[r])}

-----------------------------------------------------------------------------
(* The queue.                                                              *)

MutantCanStartForgetsOwnWeight(count, bytes, admissionWeight) ==
    count < MaximumBatchSize /\ (count = 0 \/ bytes <= MaximumConcurrentWeight)

CanStartCompilation(count, bytes, admissionWeight) ==
    /\ count < MaximumBatchSize
    /\ \/ count = 0
       \/ bytes + admissionWeight <= MaximumConcurrentWeight

Prefix(q, k) == {q[i] : i \in 1 .. k}

Without(q, i) == SubSeq(q, 1, i - 1) \o SubSeq(q, i + 1, Len(q))

(* May the i-th waiter start, when everybody before it has left the queue? *)
(* An aborted waiter leaves it without taking room.                        *)
StartableAt(q, i, count, bytes) ==
    LET ahead == Live(Prefix(q, i - 1))
    IN  CanStartCompilation(count + Cardinality(ahead), bytes + WeightOf(ahead), weight[q[i]])

(* The loop of #startQueuedCompilations: the longest prefix of q whose     *)
(* members may start one after the other leaves the queue.  It runs as the *)
(* last statement of a handler that has just given up room or removed a    *)
(* waiter; q, count, bytes, states and heard are what that handler left.   *)
StartQueuedCompilations(q, count, bytes, states, heard) ==
    \E k \in 0 .. Len(q) :
        /\ \A i \in 1 .. k : StartableAt(q, i, count, bytes)
        /\ k < Len(q) => ~StartableAt(q, k + 1, count, bytes)
        /\ LET gone    == Prefix(q, k)
               started == Live(gone)
           IN  /\ queue' = SubSeq(q, k + 1, Len(q))
               /\ activeCount' = count + Cardinality(started)
               /\ activeWeight' = bytes + WeightOf(started)
               /\ listening' = heard \ gone
               /\ state' = [r \in Requests |-> IF r \in started THEN "active"
                                               ELSE IF r \in gone THEN "cancelled"
                                               ELSE states[r]]

-----------------------------------------------------------------------------
Init ==
    /\ state = [r \in Requests |-> "idle"]
    /\ weight = [r \in Requests |-> 0]
    /\ signal = [r \in Requests |-> NoSignal]
    /\ listening = {}
    /\ aborted = {}
    /\ queue = <<>>
    /\ activeCount = 0
    /\ activeWeight = 0

(* admit() finding an empty queue and room: the request starts within the  *)
(* call, or is rejected there if its signal is already aborted.            *)
AdmitNow(r, estimate, s) ==
    LET w == AdmissionWeight(estimate) IN
    /\ state[r] = "idle"
    /\ queue = <<>>
    /\ CanStartCompilation(activeCount, activeWeight, w)
    /\ weight' = [weight EXCEPT ![r] = w]
    /\ signal' = [signal EXCEPT ![r] = s]
    /\ IF IsAborted(s)
       THEN /\ state' = [state EXCEPT ![r] = "cancelled"]
            /\ UNCHANGED <<activeCount, activeWeight>>
       ELSE /\ state' = [state EXCEPT ![r] = "active"]
            /\ activeCount' = activeCount + 1
            /\ activeWeight' = activeWeight + w
    /\ UNCHANGED <<listening, aborted, queue>>

(* admit() otherwise: the request queues, even when its signal is already  *)
(* aborted.  A listener added to an aborted signal never fires.            *)
AdmitLater(r, estimate, s) ==
    LET w == AdmissionWeight(estimate) IN
    /\ state[r] = "idle"
    /\ queue # <<>> \/ ~CanStartCompilation(activeCount, activeWeight, w)
    /\ weight' = [weight EXCEPT ![r] = w]
    /\ signal' = [signal EXCEPT ![r] = s]
    /\ state' = [state EXCEPT ![r] = "queued"]
    /\ queue' = Append(queue, r)
    /\ listening' = IF s = NoSignal \/ IsAborted(s) THEN listening ELSE listening \cup {r}
    /\ UNCHANGED <<aborted, activeCount, activeWeight>>

(* The caller aborts a signal; its listeners run after this.               *)
Abort(s) ==
    /\ s \notin aborted
    /\ aborted' = aborted \cup {s}
    /\ UNCHANGED <<state, weight, signal, listening, queue, activeCount, activeWeight>>

(* The abort listener of a queued request: leave the list, reject, and let *)
(* whoever it was blocking start.                                          *)
CancelWhileQueued(r) ==
    /\ r \in listening
    /\ IsAborted(signal[r])
    /\ IF state[r] = "queued"
       THEN \E i \in 1 .. Len(queue) :
                /\ queue[i] = r
                /\ StartQueuedCompilations(Without(queue, i), activeCount, activeWeight,
                                           [state EXCEPT ![r] = "cancelled"],
                                           listening \ {r})
       ELSE /\ listening' = listening \ {r}
            /\ UNCHANGED <<state, queue, activeCount, activeWeight>>
    /\ UNCHANGED <<weight, signal, aborted>>

(* The continuation of #settleCompilation: the compilation resolved or     *)
(* threw; its room is given back and the queue moves.                      *)
SettleCompilation(r, outcome) ==
    /\ state[r] = "active"
    /\ StartQueuedCompilations(queue, activeCount - 1, activeWeight - weight[r],
                               [state EXCEPT ![r] = outcome], listening)
    /\ UNCHANGED <<weight, signal, aborted>>

Next ==
    \/ \E r \in Requests, e \in Estimates, s \in Signals \cup {NoSignal} :
          AdmitNow(r, e, s) \/ AdmitLater(r, e, s)
    \/ \E s \in Signals : Abort(s)
    \/ \E r \in Requests : CancelWhileQueued(r)
    \/ \E r \in Requests, outcome \in {"resolved", "failed"} : SettleCompilation(r, outcome)

Spec == Init /\ [][Next]_vars

-----------------------------------------------------------------------------
(* Every variable has the type its declaration announces.                  *)
TypeOK ==
    /\ state \in [Requests -> RequestStates]
    /\ weight \in [Requests -> Nat]
    /\ signal \in [Requests -> Signals \cup {NoSignal}]
    /\ listening \subseteq Requests
    /\ aborted \subseteq Signals
    /\ queue \in Seq(Requests)
    /\ activeCount \in Nat
    /\ activeWeight \in Nat

(* The pending list holds exactly the queued requests, each once, and an   *)
(* abort listener is registered only for one of them: #startCompilation    *)
(* and cancelWhileQueued both unhook before they go on.                    *)
QueueHoldsTheWaiting ==
    /\ \A i, j \in 1 .. Len(queue) : queue[i] = queue[j] => i = j
    /\ \A r \in Requests : state[r] = "queued" <=> \E i \in 1 .. Len(queue) : queue[i] = r
    /\ \A r \in listening : state[r] = "queued"

(* The two counters equal what is in flight, whatever sequence of starts,  *)
(* failures and cancellations came before: room is neither leaked by a     *)
(* rejected compilation nor given back twice (#settleCompilation).         *)
CountersMatchInFlight ==
    /\ activeCount = Cardinality(Active)
    /\ activeWeight = WeightOf(Active)

(* The budget: never more than MaximumBatchSize compilations, and two or   *)
(* more in flight fit into the weight together (#canStartCompilation).     *)
WithinBudget ==
    /\ activeCount <= MaximumBatchSize
    /\ activeCount <= 1 \/ activeWeight <= MaximumConcurrentWeight

(* Nobody waits for nothing: after every handler the first waiter is one   *)
(* that cannot start.  In particular a cancelled head unblocks the waiters *)
(* behind it, and an idle device has an empty queue.                       *)
HeadCannotStart ==
    queue # <<>> => ~CanStartCompilation(activeCount, activeWeight, weight[Head(queue)])

(* First in, first out: no step starts a request while one that was        *)
(* admitted before it still waits, not even a light one past a heavy one.  *)
NoOvertaking ==
    [][\A r \in Requests :
          state[r] # "active" /\ state'[r] = "active" =>
              /\ \A i \in 1 .. Len(queue) :
                    (\A j \in 1 .. i : queue[j] # r) => state'[queue[i]] # "queued"]_vars

(* A request whose signal is aborted never starts (#startCompilation looks *)
(* at the signal again when the request leaves the queue).                 *)
NoStartAfterAbort ==
    [][\A r \in Requests :
          state[r] = "queued" /\ IsAborted(signal[r]) => state'[r] # "active"]_vars

(* No request starves: FIFO order keeps light requests from overtaking a   *)
(* heavy one for ever.                                                     *)
EveryWaiterLeaves ==
    \A r \in Requests : state[r] = "queued" ~> state[r] \in {"resolved", "failed", "cancelled"}
=============================================================================
