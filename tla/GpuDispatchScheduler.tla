------------------------ MODULE GpuDispatchScheduler ------------------------
(***************************************************************************)
(* The dispatch scheduler shared by all compilations on one GPU device     *)
(* (src/src/semantic/gpu_dispatch_scheduler.ts).  Requests made close      *)
(* together are collected for two microtasks, encoded into one command     *)
(* buffer of at most MaximumBatchSize lanes, submitted under a validation  *)
(* error scope, and settled when the scope answers.                        *)
(*                                                                         *)
(* Each action is one synchronous run of the JavaScript stack: a call of   *)
(* schedule(), one microtask, or the continuation of an await in #submit.  *)
(* The device (error scopes, command encoder, queue) is external: it may   *)
(* throw from any call and answer a scope in any of the ways WebGPU allows.*)
(***************************************************************************)
EXTENDS Integers, Sequences, FiniteSets, Selections

CONSTANTS
    Requests,          \* one member per call of schedule()
    Signals,           \* abort signals; lanes of one compilation share one
    NoSignal,
    MaximumBatchSize   \* MAXIMUM_GPU_DISPATCH_BATCH_SIZE (64)

ASSUME SchedulerAssumption ==
    /\ IsFiniteSet(Requests)
    /\ NoSignal \notin Signals
    /\ MaximumBatchSize \in Nat \ {0}

VARIABLES
    outcome,          \* the promise of each request, and why it was rejected
    signal,           \* the request's abort signal
    aborted,          \* the signals already aborted
    pending,          \* #pendingDispatches, with the part already flushed
    firstPending,     \* #firstPendingDispatch, counted from 0
    flushScheduled,   \* #flushScheduled
    microtasks,       \* flush microtasks in the queue, by stage
    inFlight,         \* calls of #submit that await their error scope
    executed          \* lanes whose commands reached the device queue, in order

vars == <<outcome, signal, aborted, pending, firstPending, flushScheduled,
          microtasks, inFlight, executed>>

Outcomes == {"idle", "waiting", "resolved", "aborted", "invalid", "failed"}

IsAborted(s) == s \in aborted

(* The promises of the lanes in S settle; a promise settles only once.     *)
Settled(promises, S, how) ==
    [r \in Requests |-> IF r \in S /\ promises[r] = "waiting" THEN how ELSE promises[r]]

-----------------------------------------------------------------------------
Init ==
    /\ outcome = [r \in Requests |-> "idle"]
    /\ signal = [r \in Requests |-> NoSignal]
    /\ aborted = {}
    /\ pending = <<>>
    /\ firstPending = 0
    /\ flushScheduled = FALSE
    /\ microtasks = [outer |-> 0, inner |-> 0]
    /\ inFlight = {}
    /\ executed = <<>>

(* #scheduleFlush, given the number of microtasks the caller left queued.  *)
ScheduleFlush(scheduled, tasks) ==
    /\ flushScheduled' = TRUE
    /\ microtasks' = IF scheduled THEN tasks ELSE [tasks EXCEPT !.outer = @ + 1]

Schedule(r, s) ==
    /\ outcome[r] = "idle"
    /\ outcome' = [outcome EXCEPT ![r] = "waiting"]
    /\ signal' = [signal EXCEPT ![r] = s]
    /\ pending' = Append(pending, r)
    /\ ScheduleFlush(flushScheduled, microtasks)
    /\ UNCHANGED <<aborted, firstPending, inFlight, executed>>

Abort(s) ==
    /\ s \notin aborted
    /\ aborted' = aborted \cup {s}
    /\ UNCHANGED <<outcome, signal, pending, firstPending, flushScheduled,
                   microtasks, inFlight, executed>>

(* The outer microtask queues the inner one.                               *)
OuterMicrotask ==
    /\ microtasks.outer > 0
    /\ microtasks' = [outer |-> microtasks.outer - 1, inner |-> microtasks.inner + 1]
    /\ UNCHANGED <<outcome, signal, aborted, pending, firstPending, flushScheduled,
                   inFlight, executed>>

(* The next batch: the unflushed requests, at most MaximumBatchSize.       *)
NextBatch ==
    LET end == firstPending + MaximumBatchSize
    IN  SubSeq(pending, firstPending + 1, IF end < Len(pending) THEN end ELSE Len(pending))

(* #flush up to its loop: take the batch off the list, and schedule        *)
(* another flush when some requests are left.                              *)
TakeBatch(tasks) ==
    LET end == firstPending + Len(NextBatch)
    IN  IF end = Len(pending)
        THEN /\ pending' = <<>>
             /\ firstPending' = 0
             /\ flushScheduled' = FALSE
             /\ microtasks' = tasks
        ELSE /\ pending' = pending
             /\ firstPending' = end
             /\ ScheduleFlush(FALSE, tasks)

(* The lanes that are encoded: those whose signal is not aborted by now.   *)
ActiveLanes(batch) == Selected(batch, {r \in Requests : ~IsAborted(signal[r])})

(* The synchronous part of #submit.  "push": opening the error scope threw,*)
(* and everybody is rejected at once.  "encode": the encoder, a lane's     *)
(* encode callback, finish or submit threw before the queue took anything. *)
(* "pop": closing the scope threw although the commands were submitted.    *)
Submit(lanes, fault, promises) ==
    IF fault = "push"
    THEN /\ outcome' = Settled(promises, Members(lanes), "failed")
         /\ UNCHANGED <<inFlight, executed>>
    ELSE /\ outcome' = promises
         /\ inFlight' = inFlight \cup {[lanes |-> lanes, thrown |-> fault # "none"]}
         /\ executed' = IF fault = "encode" THEN executed ELSE executed \o lanes

(* The inner microtask: #flush.                                            *)
Flush(fault) ==
    LET batch    == NextBatch
        lanes    == ActiveLanes(batch)
        rejected == Settled(outcome, Members(batch) \ Members(lanes), "aborted")
    IN  /\ microtasks.inner > 0
        /\ TakeBatch([microtasks EXCEPT !.inner = @ - 1])
        /\ IF lanes = <<>>
           THEN fault = "none" /\ outcome' = rejected /\ UNCHANGED <<inFlight, executed>>
           ELSE Submit(lanes, fault, rejected)
        /\ UNCHANGED <<signal, aborted>>

MutantSettleSuccessIgnoresAbort(lanes) == Settled(outcome, Members(lanes), "resolved")

(* The last loop of #submit: a lane aborted while the device worked is     *)
(* rejected with its own reason, its siblings resolve.                     *)
SettleSuccess(lanes) ==
    LET stopped == {r \in Members(lanes) : IsAborted(signal[r])}
    IN  Settled(Settled(outcome, stopped, "aborted"), Members(lanes), "resolved")

MutantScopeAnswersIgnoresThrow(b, answer) ==
    /\ b \in inFlight
    /\ inFlight' = inFlight \ {b}
    /\ outcome' = IF answer = "clean" THEN SettleSuccess(b.lanes)
                  ELSE Settled(outcome, Members(b.lanes), "failed")
    /\ UNCHANGED <<signal, aborted, pending, firstPending, flushScheduled, microtasks, executed>>

MutantScopeAnswersDropsRejection(b, answer) ==
    /\ b \in inFlight
    /\ inFlight' = inFlight \ {b}
    /\ outcome' = CASE answer = "rejected" -> outcome
                    [] answer = "invalid"  -> Settled(outcome, Members(b.lanes), "invalid")
                    [] answer = "clean"    -> IF b.thrown
                                              THEN Settled(outcome, Members(b.lanes), "failed")
                                              ELSE SettleSuccess(b.lanes)
    /\ UNCHANGED <<signal, aborted, pending, firstPending, flushScheduled, microtasks, executed>>

(* The continuation of #submit: the error scope is clean, holds a          *)
(* validation error, or popErrorScope's promise was rejected (lost device).*)
ScopeAnswers(b, answer) ==
    /\ b \in inFlight
    /\ inFlight' = inFlight \ {b}
    /\ outcome' = CASE answer = "rejected" -> Settled(outcome, Members(b.lanes), "failed")
                    [] answer = "invalid"  -> Settled(outcome, Members(b.lanes), "invalid")
                    [] answer = "clean"    -> IF b.thrown
                                              THEN Settled(outcome, Members(b.lanes), "failed")
                                              ELSE SettleSuccess(b.lanes)
    /\ UNCHANGED <<signal, aborted, pending, firstPending, flushScheduled, microtasks, executed>>

Next ==
    \/ \E r \in Requests, s \in Signals \cup {NoSignal} : Schedule(r, s)
    \/ \E s \in Signals : Abort(s)
    \/ OuterMicrotask
    \/ \E fault \in {"none", "push", "encode", "pop"} : Flush(fault)
    \/ \E b \in inFlight, answer \in {"clean", "invalid", "rejected"} : ScopeAnswers(b, answer)

Spec == Init /\ [][Next]_vars

(* JavaScript runs every queued microtask, and the device answers every    *)
(* popped scope (a lost device answers by rejecting).                      *)
Fairness ==
    /\ WF_vars(OuterMicrotask)
    /\ WF_vars(\E fault \in {"none", "push", "encode", "pop"} : Flush(fault))
    /\ WF_vars(\E b \in inFlight, answer \in {"clean", "invalid", "rejected"} : ScopeAnswers(b, answer))

FairSpec == Spec /\ Fairness

-----------------------------------------------------------------------------
(* Every variable has the type its declaration announces.                  *)
TypeOK ==
    /\ outcome \in [Requests -> Outcomes]
    /\ signal \in [Requests -> Signals \cup {NoSignal}]
    /\ aborted \subseteq Signals
    /\ pending \in Seq(Requests)
    /\ firstPending \in Nat
    /\ flushScheduled \in BOOLEAN
    /\ microtasks \in [outer : Nat, inner : Nat]
    /\ inFlight \subseteq [lanes : Seq(Requests), thrown : BOOLEAN]
    /\ executed \in Seq(Requests)

(* Success is never reported for commands the device queue did not take,   *)
(* and no lane's commands reach the queue twice.                           *)
ResolvedWasExecuted ==
    /\ \A r \in Requests : outcome[r] = "resolved" => r \in Members(executed)
    /\ \A i, j \in 1 .. Len(executed) : executed[i] = executed[j] => i = j

(* An abort stops its own lanes, at whatever time it comes, and no other.  *)
(* A lane that was aborted before the flush never reaches the device, one  *)
(* that was aborted while the device worked does not resolve, and its      *)
(* siblings are not rejected for it: they resolve when any of them does.   *)
AbortStopsItsLanes ==
    [][/\ \A r \in Members(executed') \ Members(executed) : ~IsAborted(signal[r])
       /\ \A r \in Requests : outcome'[r] # outcome[r] =>
            /\ outcome'[r] = "resolved" => ~IsAborted(signal[r])
            /\ outcome'[r] = "aborted" => IsAborted(signal[r])
       /\ \A b \in inFlight \ inFlight' : \A r, sibling \in Members(b.lanes) :
            (/\ outcome[r] = "waiting" /\ outcome'[r] = "resolved"
             /\ outcome[sibling] = "waiting" /\ ~IsAborted(signal[sibling])) =>
                outcome'[sibling] = "resolved"]_vars

(* Every request settles.                                                  *)
EveryRequestSettles == \A r \in Requests : outcome[r] = "waiting" ~> outcome[r] # "waiting"
=============================================================================
