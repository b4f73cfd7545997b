--------------------------- MODULE ParallelCompiler ---------------------------
(***************************************************************************)
(* ParallelFunctionalCompilerService and its workers                       *)
(* (src/src/functional/parallel_compiler_service.ts and _worker.ts): a     *)
(* batch of independent modules is cut into one part per worker, each part *)
(* is posted to its worker, and the answers are put together in the order  *)
(* of the batch.                                                           *)
(*                                                                         *)
(* A request to a worker is a promise that the NEXT message of that worker *)
(* resolves: onmessage and onerror are overwritten by each request and     *)
(* messages carry no identity.  What keeps the batches apart is #active.   *)
(* Each action is the code between two awaits of the host, or one turn of  *)
(* a worker.                                                               *)
(***************************************************************************)
EXTENDS Integers, Sequences, FiniteSets, Selections

CONSTANTS
    Batches,      \* calls of compileBatch, compileBatchToWasm and emitWasmBatch
    Mode,         \* "core", "wasm" or "emit" (compiled modules to Wasm) of each
    Scenarios,    \* what the application and the workers may do, see below
    MINIMUM_PARALLEL_MODULES,
    WorkerCount

Nobody == "nobody"

ASSUME ParallelAssumption ==
    /\ Nobody \notin Batches
    /\ Mode \in [Batches -> {"core", "wasm", "emit"}]
    /\ WorkerCount \in Nat \ {0} /\ MINIMUM_PARALLEL_MODULES \in Nat \ {0}
    /\ \A s \in Scenarios :
          /\ s.calls \subseteq Batches /\ s.terminates \in BOOLEAN
          /\ s.weights \subseteq Seq(Nat)
          /\ \A x \in s.destroyed : Mode[x[1]] = "emit"

Workers == 1 .. WorkerCount
Emits == {c \in Batches : Mode[c] = "emit"}

VARIABLES
    scenario,   \* the one of Scenarios that this is a run of
    active,     \* #active
    terminated, \* #terminated
    stage,      \* where each call stands
    weights,    \* the weights of the modules of its batch
    cut,        \* the parts of the batch: indices of modules
    part,       \* the promise of each part
    answer,     \* what a part was answered
    results,    \* what the call resolves to
    inbox,      \* requests posted to each worker
    busy,       \* the request each worker is at
    outbox,     \* messages of each worker that the host has not received
    handler,    \* the call whose promise onmessage and onerror of a worker settle
    closed      \* workers that do not run any more

batchOf == <<stage, weights, cut, results>>
workerVars == <<inbox, busy, outbox, handler, closed>>
poolVars == <<scenario, active, terminated, batchOf, part, answer, workerVars>>

(* The calls that are made, the batches they may give (the weights of      *)
(* their modules), the compiled modules <<call, i>> whose Core can no      *)
(* longer be read, the modules at which a worker throws, and whether the   *)
(* service may be terminated.                                              *)
Weights == scenario.weights
Destroyed == scenario.destroyed
Breaking == scenario.breaking
Faults == Destroyed \cup Breaking

NoRequest == [of |-> Nobody, part |-> <<>>]

PoolInit ==
    /\ scenario \in Scenarios
    /\ active = FALSE /\ terminated = FALSE
    /\ stage = [c \in Batches |-> "idle"]
    /\ weights = [c \in Batches |-> <<>>]
    /\ cut = [c \in Batches |-> <<>>]
    /\ results = [c \in Batches |-> <<>>]
    /\ part = [c \in Batches |-> [w \in Workers |-> "none"]]
    /\ answer = [c \in Batches |-> [w \in Workers |-> NoRequest]]
    /\ inbox = [w \in Workers |-> <<>>]
    /\ busy = [w \in Workers |-> NoRequest]
    /\ outbox = [w \in Workers |-> <<>>]
    /\ handler = [w \in Workers |-> Nobody]
    /\ closed = {}

-----------------------------------------------------------------------------
(* Cutting a batch: heaviest modules first, each to the lightest part.     *)
Heaviest(left, weight) ==
    CHOOSE i \in left : \A j \in left : weight[i] > weight[j] \/ (weight[i] = weight[j] /\ i <= j)

(* The first part that is not heavier than another one.                    *)
Lightest(load) ==
    CHOOSE p \in DOMAIN load : \A q \in DOMAIN load : load[p] < load[q] \/ (load[p] = load[q] /\ p <= q)

(* One module more is put into a part.                                     *)
PutHeaviest(c, weight) ==
    LET i == Heaviest(c.left, weight)
        p == Lightest(c.load)
    IN  [left |-> c.left \ {i},
         parts |-> [c.parts EXCEPT ![p] = Append(@, i)],
         load |-> [c.load EXCEPT ![p] = @ + weight[i]]]

sizeBalancedBatches(weight, count) ==
    LET parts == 1 .. (IF count < Len(weight) THEN count ELSE Len(weight))
        put[n \in 0 .. Len(weight)] ==
            IF n = 0 THEN [left |-> 1 .. Len(weight), parts |-> [p \in parts |-> <<>>], load |-> [p \in parts |-> 0]]
            ELSE PutHeaviest(put[n - 1], weight)
    IN  put[Len(weight)].parts

-----------------------------------------------------------------------------
(* Posting a request: the worker's handlers are those of c from now on.  A *)
(* message to a worker that does not run any more goes nowhere.            *)
Post(requests, c, ws) ==
    /\ handler' = [w \in Workers |-> IF w \in ws THEN c ELSE handler[w]]
    /\ inbox' = [w \in Workers |-> IF w \in ws \ closed THEN Append(inbox[w], [of |-> c, part |-> requests[w]])
                                   ELSE inbox[w]]

(* A call that finds the service terminated, or a batch under way.  Only   *)
(* batches of some size go to the workers and meet the second test.        *)
Refuse(c) ==
    /\ stage[c] = "idle" /\ c \in scenario.calls /\ (terminated \/ active)
    /\ stage' = [stage EXCEPT ![c] = "rejected"]
    /\ UNCHANGED <<scenario, active, terminated, weights, cut, results, part, answer, workerVars>>

(* A batch below the threshold is compiled on the host, under way or not.  *)
CompileHere(c) ==
    /\ stage[c] = "idle" /\ c \in scenario.calls /\ ~terminated
    /\ \E batch \in Weights :
          /\ Len(batch) < MINIMUM_PARALLEL_MODULES
          /\ weights' = [weights EXCEPT ![c] = batch]
          /\ stage' = [stage EXCEPT ![c] = IF \E i \in 1 .. Len(batch) : <<c, i>> \in Faults
                                           THEN "rejected" ELSE "resolved"]
          /\ results' = [results EXCEPT ![c] = [i \in 1 .. Len(batch) |-> <<c, i>>]]
    /\ UNCHANGED <<scenario, active, terminated, cut, part, answer, workerVars>>

MutantNotActive == TRUE

NotActive == ~active

(* A batch for the workers: parts of source modules are posted at once,    *)
(* parts of compiled modules when their Core has been read.                *)
StartBatch(c) ==
    /\ stage[c] = "idle" /\ c \in scenario.calls /\ ~terminated /\ NotActive
    /\ active' = TRUE
    /\ stage' = [stage EXCEPT ![c] = "running"]
    /\ \E batch \in Weights :
          LET parts == sizeBalancedBatches(batch, WorkerCount)
              used == 1 .. Len(parts)
          IN  /\ Len(batch) >= MINIMUM_PARALLEL_MODULES
              /\ weights' = [weights EXCEPT ![c] = batch]
              /\ cut' = [cut EXCEPT ![c] = parts]
              /\ part' = [part EXCEPT ![c] = [w \in Workers |-> IF w \notin used THEN "none"
                                                                ELSE IF c \in Emits THEN "reading" ELSE "pending"]]
              /\ Post(parts, c, IF c \in Emits THEN {} ELSE used)
    /\ UNCHANGED <<scenario, terminated, results, answer, busy, outbox, closed>>

Has(set, c, indices) == \E i \in 1 .. Len(indices) : <<c, indices[i]>> \in set

Settled(c, w, place) == part' = [part EXCEPT ![c] = [@ EXCEPT ![w] = place]]

MutantCoreIsRead(c, w) ==
    /\ part[c][w] = "reading" /\ ~Has(Destroyed, c, cut[c][w])
    /\ Settled(c, w, "pending")
    /\ Post(cut[c], c, {})
    /\ UNCHANGED <<scenario, active, terminated, batchOf, answer, busy, outbox, closed>>

(* The Core of every module of a part has been read, and it is posted: by  *)
(* then the call may have been rejected for another part.                  *)
CoreIsRead(c, w) ==
    /\ part[c][w] = "reading" /\ ~Has(Destroyed, c, cut[c][w])
    /\ Settled(c, w, "pending")
    /\ Post(cut[c], c, {w})
    /\ UNCHANGED <<scenario, active, terminated, batchOf, answer, busy, outbox, closed>>

CoreIsGone(c, w) ==
    /\ part[c][w] = "reading" /\ Has(Destroyed, c, cut[c][w])
    /\ Settled(c, w, "rejected")
    /\ UNCHANGED <<scenario, active, terminated, batchOf, answer, workerVars>>

-----------------------------------------------------------------------------
(* The worker.                                                             *)
Receive(w) ==
    /\ w \notin closed /\ busy[w] = NoRequest /\ inbox[w] # <<>>
    /\ busy' = [busy EXCEPT ![w] = Head(inbox[w])]
    /\ inbox' = [inbox EXCEPT ![w] = Tail(@)]
    /\ UNCHANGED <<scenario, active, terminated, batchOf, part, answer, outbox, handler, closed>>

Answer(w) ==
    /\ w \notin closed /\ busy[w] # NoRequest /\ ~Has(Breaking, busy[w].of, busy[w].part)
    /\ outbox' = [outbox EXCEPT ![w] = Append(@, busy[w])]
    /\ busy' = [busy EXCEPT ![w] = NoRequest]
    /\ UNCHANGED <<scenario, active, terminated, batchOf, part, answer, inbox, handler, closed>>

(* The handler of the worker throws: nothing is posted.  A host that       *)
(* reports it, by an error event, has closed the worker.                   *)
Break(w) ==
    /\ w \notin closed /\ busy[w] # NoRequest /\ Has(Breaking, busy[w].of, busy[w].part)
    /\ outbox' = [outbox EXCEPT ![w] = Append(@, NoRequest)]
    /\ busy' = [busy EXCEPT ![w] = NoRequest]
    /\ inbox' = [inbox EXCEPT ![w] = <<>>]
    /\ closed' = closed \cup {w}
    /\ UNCHANGED <<scenario, active, terminated, batchOf, part, answer, handler>>

(* The host receives the next message of a worker: it settles the promise  *)
(* of whoever asked last, if that is not settled yet.                      *)
Deliver(w) ==
    /\ outbox[w] # <<>>
    /\ LET c == handler[w]
           message == Head(outbox[w])
       IN  IF part[c][w] # "pending" THEN UNCHANGED <<part, answer>>
           ELSE /\ Settled(c, w, IF message = NoRequest THEN "rejected" ELSE "resolved")
                /\ answer' = [answer EXCEPT ![c] = [@ EXCEPT ![w] = message]]
    /\ outbox' = [outbox EXCEPT ![w] = Tail(@)]
    /\ UNCHANGED <<scenario, active, terminated, batchOf, inbox, busy, handler, closed>>

-----------------------------------------------------------------------------
(* Promise.all over the parts.                                             *)
AllResolved(c) == \A w \in 1 .. Len(cut[c]) : part[c][w] = "resolved"

(* The answers at the index each was requested for, the last one wins.     *)
Given(c, i) == {w \in 1 .. Len(cut[c]) : i \in Members(answer[c][w].part)}

Ordered(c) ==
    [i \in 1 .. Len(weights[c]) |->
        IF Given(c, i) = {} THEN <<Nobody, i>>
        ELSE <<answer[c][CHOOSE w \in Given(c, i) : \A v \in Given(c, i) : v <= w].of, i>>]

(* What a worker answers in each mode: compiled Core or Wasm bytes.        *)
Form(c) == IF Mode[c] = "core" THEN "core" ELSE "wasm"

(* The service throws when an answer is missing or of the other form.      *)
Usable(c, result) == result[1] # Nobody /\ Form(result[1]) = Form(c)

FinishBatch(c) ==
    /\ stage[c] = "running" /\ AllResolved(c)
    /\ active' = FALSE
    /\ results' = [results EXCEPT ![c] = Ordered(c)]
    /\ stage' = [stage EXCEPT ![c] = IF \A i \in 1 .. Len(weights[c]) : Usable(c, Ordered(c)[i])
                                     THEN "resolved" ELSE "rejected"]
    /\ UNCHANGED <<scenario, terminated, weights, cut, part, answer, workerVars>>

FailBatch(c) ==
    /\ stage[c] = "running" /\ \E w \in Workers : part[c][w] = "rejected"
    /\ active' = FALSE
    /\ stage' = [stage EXCEPT ![c] = "rejected"]
    /\ UNCHANGED <<scenario, terminated, weights, cut, results, part, answer, workerVars>>

Terminate ==
    /\ scenario.terminates /\ ~terminated
    /\ terminated' = TRUE
    /\ closed' = Workers
    /\ inbox' = [w \in Workers |-> <<>>]
    /\ busy' = [w \in Workers |-> NoRequest]
    /\ outbox' = [w \in Workers |-> <<>>]
    /\ UNCHANGED <<scenario, active, batchOf, part, answer, handler>>

PoolNext ==
    \/ \E c \in Batches : Refuse(c) \/ CompileHere(c) \/ StartBatch(c) \/ FinishBatch(c) \/ FailBatch(c)
    \/ \E c \in Batches, w \in Workers : CoreIsRead(c, w) \/ CoreIsGone(c, w)
    \/ \E w \in Workers : Receive(w) \/ Answer(w) \/ Break(w) \/ Deliver(w)
    \/ Terminate

PoolSpec == PoolInit /\ [][PoolNext]_poolVars

(* Reading Core and a turn of a worker come to an end, messages arrive.    *)
FairPoolSpec ==
    /\ PoolSpec
    /\ \A c \in Batches : WF_poolVars(FinishBatch(c) \/ FailBatch(c))
    /\ \A c \in Batches, w \in Workers : WF_poolVars(CoreIsRead(c, w) \/ CoreIsGone(c, w))
    /\ \A w \in Workers : WF_poolVars(Receive(w)) /\ WF_poolVars(Answer(w) \/ Break(w)) /\ WF_poolVars(Deliver(w))

-----------------------------------------------------------------------------
(* What the code keeps of calls and workers.                               *)
PoolTypeOK ==
    /\ scenario \in Scenarios
    /\ active \in BOOLEAN /\ terminated \in BOOLEAN /\ closed \subseteq Workers
    /\ stage \in [Batches -> {"idle", "running", "resolved", "rejected"}]
    /\ weights \in [Batches -> Seq(Nat)]
    /\ part \in [Batches -> [Workers -> {"none", "reading", "pending", "resolved", "rejected"}]]
    /\ handler \in [Workers -> Batches \cup {Nobody}]
    /\ active <=> \E c \in Batches : stage[c] = "running"

(* "parallel functional compiler preserves Core order and contents"        *)
(* (functional_parallel_compiler_test.ts:25): each result of a call is     *)
(* that of its own module at that place, and no module that could not be   *)
(* read or compiled is answered as if it had been.                         *)
ResultsAreOwn ==
    \A c \in Batches : stage[c] = "resolved" =>
        /\ results[c] = [i \in 1 .. Len(weights[c]) |-> <<c, i>>]
        /\ \A i \in 1 .. Len(weights[c]) : <<c, i>> \notin Faults

(* Every batch that starts is answered, or the service was terminated.     *)
EveryBatchSettles ==
    \A c \in Batches :
        stage[c] = "running" ~> stage[c] \in {"resolved", "rejected"} \/ terminated
=============================================================================
