--------------------- MODULE GpuDispatchScheduler_proofs ---------------------
(***************************************************************************)
(* Proofs about GpuDispatchScheduler: for any requests, any signals and    *)
(* any size of a batch, success is only reported for commands the device   *)
(* took, no lane is executed twice, and an abort stops its own lanes only. *)
(***************************************************************************)
EXTENDS GpuDispatchScheduler

(* The conjunction that is inductive.  A lane is executed once because it  *)
(* is in the list once, the flushed part of the list is never taken again, *)
(* and what was not flushed was not executed; a lane resolves only from a  *)
(* batch without a fault, which executed all of its lanes.                 *)
IInv ==
    /\ TypeOK
    /\ firstPending <= Len(pending)
    /\ Injective(pending)
    /\ Injective(executed)
    /\ \A i \in firstPending + 1 .. Len(pending) : pending[i] \notin Members(executed)
    /\ \A r \in Requests : outcome[r] = "idle" => r \notin Members(pending) /\ r \notin Members(executed)
    /\ \A b \in inFlight : ~b.thrown => Members(b.lanes) \subseteq Members(executed)
    /\ \A r \in Requests : outcome[r] = "resolved" => r \in Members(executed)

-----------------------------------------------------------------------------
(* The batch that a flush takes is the next part of the list.              *)
LEMMA NextBatchProperties ==
    ASSUME IInv
    PROVE  /\ NextBatch \in Seq(Requests)
           /\ Len(NextBatch) <= MaximumBatchSize
           /\ firstPending + Len(NextBatch) <= Len(pending)
           /\ \A i \in 1 .. Len(NextBatch) :
                 /\ firstPending + i \in firstPending + 1 .. firstPending + Len(NextBatch)
                 /\ firstPending + i \in 1 .. Len(pending)
                 /\ NextBatch[i] = pending[firstPending + i]
<1> DEFINE end == firstPending + MaximumBatchSize
<1> DEFINE last == IF end < Len(pending) THEN end ELSE Len(pending)
<1>1. /\ pending \in Seq(Requests) /\ Len(pending) \in Nat
      /\ firstPending \in Nat /\ firstPending <= Len(pending) /\ MaximumBatchSize \in Nat \ {0}
  BY SchedulerAssumption DEF IInv, TypeOK, SchedulerAssumption
<1>2. /\ last \in Nat /\ last <= Len(pending) /\ last <= firstPending + MaximumBatchSize
      /\ firstPending <= last
  BY <1>1
<1>3. NextBatch = SubSeq(pending, firstPending + 1, last)
  BY DEF NextBatch
<1> HIDE DEF last
<1>4. \A i \in firstPending + 1 .. last : pending[i] \in Requests
  BY <1>1, <1>2, ElementOfSeq
<1>5. /\ NextBatch \in Seq(Requests)
      /\ Len(NextBatch) = last - firstPending
      /\ \A i \in 1 .. last - firstPending : NextBatch[i] = pending[firstPending + i]
  BY <1>1, <1>2, <1>3, <1>4, SubSeqProperties
<1> QED
  BY <1>1, <1>2, <1>5

(* What is encoded: lanes of the batch that are not aborted, each once and *)
(* none of them executed before.                                           *)
LEMMA LanesProperties ==
    ASSUME IInv
    PROVE  LET lanes == ActiveLanes(NextBatch) IN
           /\ lanes \in Seq(Requests)
           /\ Injective(lanes)
           /\ Len(lanes) <= MaximumBatchSize
           /\ Members(lanes) \subseteq Members(NextBatch)
           /\ Members(lanes) \cap Members(executed) = {}
           /\ \A r \in Members(lanes) : ~IsAborted(signal[r])
           /\ \A i \in firstPending + Len(NextBatch) + 1 .. Len(pending) : pending[i] \notin Members(lanes)
<1> DEFINE batch == NextBatch
<1> DEFINE lanes == ActiveLanes(batch)
<1> DEFINE T == {r \in Requests : ~IsAborted(signal[r])}
<1>1. /\ batch \in Seq(Requests)
      /\ Len(batch) \in Nat /\ Len(batch) <= MaximumBatchSize
      /\ firstPending + Len(batch) <= Len(pending)
      /\ \A i \in 1 .. Len(batch) :
            /\ firstPending + i \in firstPending + 1 .. firstPending + Len(batch)
            /\ firstPending + i \in 1 .. Len(pending)
            /\ batch[i] = pending[firstPending + i]
  BY NextBatchProperties
<1>2. /\ firstPending \in Nat /\ Len(pending) \in Nat /\ MaximumBatchSize \in Nat
      /\ Injective(pending)
      /\ \A i \in firstPending + 1 .. Len(pending) : pending[i] \notin Members(executed)
  BY SchedulerAssumption DEF IInv, TypeOK, SchedulerAssumption
<1> HIDE DEF batch
<1>3. Injective(batch)
  <2> SUFFICES ASSUME NEW i \in 1 .. Len(batch), NEW j \in 1 .. Len(batch), batch[i] = batch[j]
               PROVE  i = j
    BY DEF Injective
  <2>1. firstPending + i = firstPending + j
    BY <1>1, <1>2 DEF Injective
  <2> QED
    BY <1>2, <2>1
<1>4. lanes = Selected(batch, T)
  BY DEF ActiveLanes
<1>5. /\ lanes \in Seq(Requests) /\ Len(lanes) \in Nat
      /\ Len(lanes) <= Len(batch)
      /\ Members(lanes) = Members(batch) \cap T
      /\ Injective(lanes)
  BY <1>1, <1>3, <1>4, SelectedProperties, InjectiveSelected
<1>6. \A r \in Members(batch) : \E i \in 1 .. Len(batch) : r = pending[firstPending + i]
  BY <1>1 DEF Members
<1>7. Members(batch) \cap Members(executed) = {}
  <2>1. \A i \in 1 .. Len(batch) : firstPending + i \in firstPending + 1 .. Len(pending)
    BY <1>1, <1>2
  <2> QED
    BY <1>2, <1>6, <2>1
<1>8. ASSUME NEW k \in firstPending + Len(batch) + 1 .. Len(pending)
      PROVE  pending[k] \notin Members(batch)
  <2> SUFFICES ASSUME NEW i \in 1 .. Len(batch), pending[k] = pending[firstPending + i]
               PROVE  FALSE
    BY <1>6
  <2>1. k \in 1 .. Len(pending) /\ firstPending + i \in 1 .. Len(pending) /\ k # firstPending + i
    BY <1>1, <1>2
  <2> QED
    BY <1>2, <2>1 DEF Injective
<1>9. Len(lanes) <= MaximumBatchSize
  BY <1>1, <1>2, <1>5
<1> HIDE DEF lanes
<1>10. \A r \in Members(lanes) : ~IsAborted(signal[r])
  BY <1>5
<1>11. \A i \in firstPending + Len(batch) + 1 .. Len(pending) : pending[i] \notin Members(lanes)
  BY <1>5, <1>8
<1> QED
  BY <1>5, <1>7, <1>9, <1>10, <1>11 DEF lanes, batch

-----------------------------------------------------------------------------
(* Nothing is executed and nobody resolves when nothing was called.        *)
LEMMA InitInv == Init => IInv
<1> SUFFICES ASSUME Init PROVE IInv
  OBVIOUS
<1>1. TypeOK
  <2>1. /\ outcome \in [Requests -> Outcomes] /\ signal \in [Requests -> Signals \cup {NoSignal}]
        /\ aborted \subseteq Signals
    BY DEF Init, Outcomes
  <2>2. /\ firstPending \in Nat /\ microtasks \in [outer : Nat, inner : Nat]
        /\ pending \in Seq(Requests) /\ executed \in Seq(Requests)
    BY DEF Init
  <2>3. flushScheduled \in BOOLEAN /\ inFlight \subseteq [lanes : Seq(Requests), thrown : BOOLEAN]
    BY DEF Init
  <2> QED
    BY <2>1, <2>2, <2>3 DEF TypeOK
<1>2. pending = <<>> /\ firstPending = 0 /\ executed = <<>> /\ inFlight = {}
  BY DEF Init
<1>3. Members(<<>>) = {} /\ Injective(<<>>) /\ Len(<<>>) = 0
  BY DEF Members, Injective
<1>4. \A r \in Requests : outcome[r] = "idle"
  BY DEF Init
<1> QED
  BY <1>1, <1>2, <1>3, <1>4 DEF IInv

(* A call of schedule() appends a request that is nowhere yet.             *)
LEMMA ScheduleInv ==
    ASSUME IInv, NEW r \in Requests, NEW s \in Signals \cup {NoSignal}, Schedule(r, s)
    PROVE  IInv'
<1>1. /\ pending \in Seq(Requests) /\ Len(pending) \in Nat /\ firstPending \in Nat
      /\ firstPending <= Len(pending)
      /\ pending' = Append(pending, r) /\ firstPending' = firstPending /\ executed' = executed
      /\ inFlight' = inFlight
      /\ outcome' = [outcome EXCEPT ![r] = "waiting"] /\ outcome \in [Requests -> Outcomes]
      /\ r \notin Members(pending) /\ r \notin Members(executed)
  BY DEF IInv, TypeOK, Schedule
<1>2. /\ pending' \in Seq(Requests) /\ Len(pending') = Len(pending) + 1
      /\ \A i \in 1 .. Len(pending) : pending'[i] = pending[i]
      /\ pending'[Len(pending) + 1] = r
      /\ Members(pending') = Members(pending) \cup {r}
  BY <1>1, AppendProperties, MembersOfAppend
<1>3. TypeOK'
  <2>1. /\ outcome' \in [Requests -> Outcomes] /\ signal' \in [Requests -> Signals \cup {NoSignal}]
    BY <1>1 DEF Schedule, IInv, TypeOK, Outcomes
  <2>2. microtasks' \in [outer : Nat, inner : Nat]
    BY SMTT(40) DEF Schedule, ScheduleFlush, IInv, TypeOK
  <2>3. flushScheduled' = TRUE /\ aborted' = aborted
    BY DEF Schedule, ScheduleFlush
  <2> QED
    BY <1>1, <1>2, <2>1, <2>2, <2>3 DEF IInv, TypeOK
<1>4. Injective(pending')
  <2> SUFFICES ASSUME NEW i \in 1 .. Len(pending) + 1, NEW j \in 1 .. Len(pending) + 1,
                      pending'[i] = pending'[j]
               PROVE  i = j
    BY <1>2 DEF Injective
  <2>1. \A k \in 1 .. Len(pending) + 1 : k \in 1 .. Len(pending) \/ k = Len(pending) + 1
    BY <1>1
  <2>2. \A k \in 1 .. Len(pending) : pending[k] # r
    BY <1>1 DEF Members
  <2>3. CASE i \in 1 .. Len(pending) /\ j \in 1 .. Len(pending)
    BY <1>2, <2>3 DEF IInv, Injective
  <2> QED
    BY <1>2, <2>1, <2>2, <2>3
<1>5. \A i \in firstPending + 1 .. Len(pending) + 1 : pending'[i] \notin Members(executed)
  <2>1. \A i \in firstPending + 1 .. Len(pending) + 1 :
           (i \in firstPending + 1 .. Len(pending) /\ i \in 1 .. Len(pending)) \/ i = Len(pending) + 1
    BY <1>1
  <2> QED
    BY <1>1, <1>2, <2>1 DEF IInv
<1>6. \A x \in Requests : outcome'[x] = IF x = r THEN "waiting" ELSE outcome[x]
  BY <1>1
<1>7. /\ \A x \in Requests : outcome'[x] = "idle" => x \notin Members(pending') /\ x \notin Members(executed)
      /\ \A x \in Requests : outcome'[x] = "resolved" => x \in Members(executed)
  BY <1>2, <1>6 DEF IInv
<1>8. firstPending <= Len(pending) + 1
  BY <1>1
<1> QED
  BY <1>1, <1>2, <1>3, <1>4, <1>5, <1>7, <1>8 DEF IInv

(* Settling promises neither unsettles one nor makes one idle.             *)
LEMMA SettledProperties ==
    ASSUME NEW promises \in [Requests -> Outcomes], NEW S, NEW how \in Outcomes
    PROVE  /\ Settled(promises, S, how) \in [Requests -> Outcomes]
           /\ \A r \in Requests :
                 \/ Settled(promises, S, how)[r] = promises[r]
                 \/ r \in S /\ promises[r] = "waiting" /\ Settled(promises, S, how)[r] = how
BY DEF Settled

(* #flush up to its loop: the batch is taken off the list.                 *)
LEMMA TakeBatchInv ==
    ASSUME IInv, NEW tasks \in [outer : Nat, inner : Nat], TakeBatch(tasks)
    PROVE  /\ pending' \in Seq(Requests) /\ firstPending' \in Nat
           /\ firstPending' <= Len(pending')
           /\ flushScheduled' \in BOOLEAN
           /\ microtasks' \in [outer : Nat, inner : Nat]
           /\ Injective(pending')
           /\ Members(pending') \subseteq Members(pending)
           /\ \A i \in firstPending' + 1 .. Len(pending') :
                 /\ i \in firstPending + Len(NextBatch) + 1 .. Len(pending)
                 /\ i \in firstPending + 1 .. Len(pending)
                 /\ pending'[i] = pending[i]
<1> DEFINE end == firstPending + Len(NextBatch)
<1>1. /\ pending \in Seq(Requests) /\ Len(pending) \in Nat /\ firstPending \in Nat
      /\ Injective(pending)
  BY DEF IInv, TypeOK
<1>2. /\ Len(NextBatch) \in Nat /\ end \in Nat /\ firstPending <= end /\ end <= Len(pending)
  BY <1>1, NextBatchProperties
<1>3. CASE end = Len(pending)
  <2>1. pending' = <<>> /\ firstPending' = 0 /\ flushScheduled' = FALSE /\ microtasks' = tasks
    BY <1>3 DEF TakeBatch
  <2>2. Members(<<>>) = {} /\ Injective(<<>>) /\ Len(<<>>) = 0 /\ <<>> \in Seq(Requests)
    BY DEF Members, Injective
  <2>3. /\ pending' \in Seq(Requests) /\ firstPending' \in Nat /\ firstPending' <= Len(pending')
        /\ Injective(pending') /\ Members(pending') \subseteq Members(pending)
        /\ firstPending' + 1 .. Len(pending') = {}
    BY <2>1, <2>2
  <2>4. microtasks' \in [outer : Nat, inner : Nat] /\ flushScheduled' \in BOOLEAN
    BY <2>1
  <2> QED
    BY <2>3, <2>4
<1>4. CASE end # Len(pending)
  <2>1. pending' = pending /\ firstPending' = end
    BY <1>4 DEF TakeBatch
  <2>2. flushScheduled' = TRUE /\ microtasks' = [tasks EXCEPT !.outer = @ + 1]
    BY <1>4 DEF TakeBatch, ScheduleFlush
  <2>3. microtasks' \in [outer : Nat, inner : Nat]
    BY <2>2
  <2>4. \A i \in end + 1 .. Len(pending) : i \in firstPending + 1 .. Len(pending)
    BY <1>1, <1>2
  <2> HIDE DEF end
  <2>5. \A i \in firstPending' + 1 .. Len(pending') :
           i \in end + 1 .. Len(pending) /\ i \in firstPending + 1 .. Len(pending) /\ pending'[i] = pending[i]
    BY <2>1, <2>4
  <2>6. flushScheduled' \in BOOLEAN
    BY <2>2
  <2>7. /\ pending' \in Seq(Requests) /\ firstPending' \in Nat /\ firstPending' <= Len(pending')
        /\ Injective(pending') /\ Members(pending') \subseteq Members(pending)
    BY <1>1, <1>2, <2>1
  <2>8. \A i \in firstPending' + 1 .. Len(pending') :
           /\ i \in firstPending + Len(NextBatch) + 1 .. Len(pending)
           /\ i \in firstPending + 1 .. Len(pending)
           /\ pending'[i] = pending[i]
    BY <2>5 DEF end
  <2> QED
    BY <2>3, <2>6, <2>7, <2>8
<1> QED
  BY <1>3, <1>4

(* The inner microtask: the batch leaves the list, its aborted lanes are   *)
(* rejected, the others executed at most once, whatever the device throws. *)
LEMMA FlushInv ==
    ASSUME IInv, NEW fault \in {"none", "push", "encode", "pop"}, Flush(fault)
    PROVE  IInv'
<1> DEFINE batch == NextBatch
<1> DEFINE lanes == ActiveLanes(batch)
<1> DEFINE rejected == Settled(outcome, Members(batch) \ Members(lanes), "aborted")
<1>1. /\ microtasks \in [outer : Nat, inner : Nat] /\ microtasks.inner > 0
      /\ TakeBatch([microtasks EXCEPT !.inner = @ - 1])
      /\ UNCHANGED <<signal, aborted>>
      /\ IF lanes = <<>>
         THEN outcome' = rejected /\ UNCHANGED <<inFlight, executed>>
         ELSE Submit(lanes, fault, rejected)
  BY DEF Flush, IInv, TypeOK
<1>2. [microtasks EXCEPT !.inner = @ - 1] \in [outer : Nat, inner : Nat]
  BY <1>1
<1>3. /\ pending' \in Seq(Requests) /\ firstPending' \in Nat
      /\ firstPending' <= Len(pending')
      /\ flushScheduled' \in BOOLEAN
      /\ microtasks' \in [outer : Nat, inner : Nat]
      /\ Injective(pending')
      /\ Members(pending') \subseteq Members(pending)
      /\ \A i \in firstPending' + 1 .. Len(pending') :
            /\ i \in firstPending + Len(batch) + 1 .. Len(pending)
            /\ i \in firstPending + 1 .. Len(pending)
            /\ pending'[i] = pending[i]
  BY <1>1, <1>2, TakeBatchInv
<1>4. /\ batch \in Seq(Requests) /\ lanes \in Seq(Requests)
      /\ Injective(lanes)
      /\ Members(lanes) \subseteq Members(batch)
      /\ Members(lanes) \cap Members(executed) = {}
      /\ \A i \in firstPending + Len(batch) + 1 .. Len(pending) : pending[i] \notin Members(lanes)
  BY NextBatchProperties, LanesProperties
<1>5. /\ rejected \in [Requests -> Outcomes]
      /\ \A r \in Requests : rejected[r] = outcome[r] \/ (outcome[r] = "waiting" /\ rejected[r] = "aborted")
  <2>1. outcome \in [Requests -> Outcomes] /\ "aborted" \in Outcomes
    BY DEF IInv, TypeOK, Outcomes
  <2> QED
    BY <2>1, SettledProperties
<1> HIDE DEF lanes, batch, rejected
<1>6. /\ executed \in Seq(Requests) /\ outcome \in [Requests -> Outcomes]
      /\ inFlight \subseteq [lanes : Seq(Requests), thrown : BOOLEAN]
      /\ executed \o lanes \in Seq(Requests)
      /\ Members(executed \o lanes) = Members(executed) \cup Members(lanes)
      /\ Injective(executed \o lanes) /\ Injective(executed)
  BY <1>4, ConcatProperties, MembersOfConcat, InjectiveConcat DEF IInv, TypeOK
<1>7. /\ executed' = executed \/ executed' = executed \o lanes
      /\ \/ inFlight' = inFlight
         \/ /\ inFlight' = inFlight \cup {[lanes |-> lanes, thrown |-> fault # "none"]}
            /\ fault = "none" => executed' = executed \o lanes
  BY <1>1 DEF Submit
<1>8. /\ outcome' \in [Requests -> Outcomes]
      /\ \A r \in Requests : outcome'[r] = outcome[r]
                             \/ (outcome[r] = "waiting" /\ outcome'[r] \in {"aborted", "failed"})
  <2>1. CASE outcome' = rejected
    BY <1>5, <2>1
  <2>2. CASE outcome' = Settled(rejected, Members(lanes), "failed")
    <3>1. "failed" \in Outcomes
      BY DEF Outcomes
    <3> QED
      BY <1>5, <2>2, <3>1, SettledProperties
  <2> QED
    BY <1>1, <2>1, <2>2 DEF Submit
<1>9. /\ executed' \in Seq(Requests) /\ Injective(executed')
      /\ Members(executed) \subseteq Members(executed')
      /\ Members(executed') \subseteq Members(executed) \cup Members(lanes)
  BY <1>6, <1>7
<1>10. inFlight' \subseteq [lanes : Seq(Requests), thrown : BOOLEAN]
  <2>1. (fault # "none") \in BOOLEAN
    OBVIOUS
  <2>2. \A t \in BOOLEAN : [lanes |-> lanes, thrown |-> t] \in [lanes : Seq(Requests), thrown : BOOLEAN]
    BY <1>4
  <2>3. [lanes |-> lanes, thrown |-> fault # "none"] \in [lanes : Seq(Requests), thrown : BOOLEAN]
    BY <2>1, <2>2
  <2> HIDE DEF lanes
  <2> QED
    BY <1>6, <1>7, <2>3
<1>11. ASSUME NEW b \in inFlight', ~b.thrown PROVE Members(b.lanes) \subseteq Members(executed')
  <2>1. CASE b \in inFlight
    BY <1>9, <1>11, <2>1 DEF IInv
  <2>2. CASE b \notin inFlight
    <3>1. b = [lanes |-> lanes, thrown |-> fault # "none"]
      BY <1>7, <2>2
    <3>2. fault = "none" /\ b.lanes = lanes
      BY <1>11, <3>1
    <3>3. executed' = executed \o lanes
      BY <1>7, <2>2, <3>2
    <3> QED
      BY <1>6, <3>2, <3>3
  <2> QED
    BY <2>1, <2>2
<1>12. TypeOK'
  BY <1>1, <1>3, <1>8, <1>9, <1>10 DEF IInv, TypeOK
<1>13. \A i \in firstPending' + 1 .. Len(pending') : pending'[i] \notin Members(executed')
  <2> SUFFICES ASSUME NEW i \in firstPending' + 1 .. Len(pending')
               PROVE  pending[i] \notin Members(executed) /\ pending[i] \notin Members(lanes)
    BY <1>3, <1>9
  <2> QED
    BY <1>3, <1>4 DEF IInv
<1>14. ASSUME NEW r \in Requests, outcome'[r] = "idle"
       PROVE  r \notin Members(pending') /\ r \notin Members(executed')
  <2>1. outcome[r] = "idle"
    BY <1>8, <1>14
  <2>2. r \notin Members(pending) /\ r \notin Members(executed)
    BY <2>1 DEF IInv
  <2>3. r \notin Members(lanes)
    <3>1. Members(batch) \subseteq Members(pending)
      BY NextBatchProperties DEF Members, batch
    <3> QED
      BY <1>4, <2>2, <3>1
  <2> QED
    BY <1>3, <1>9, <2>2, <2>3
<1>15. \A r \in Requests : outcome'[r] = "resolved" => r \in Members(executed')
  BY <1>8, <1>9 DEF IInv
<1> QED
  BY <1>3, <1>9, <1>11, <1>12, <1>13, <1>14, <1>15 DEF IInv

(* The scope answers: lanes resolve only if the queue took their commands. *)
LEMMA ScopeAnswersInv ==
    ASSUME IInv, NEW b \in inFlight, NEW answer \in {"clean", "invalid", "rejected"},
           ScopeAnswers(b, answer)
    PROVE  IInv'
<1>1. /\ outcome \in [Requests -> Outcomes]
      /\ {"aborted", "resolved", "failed", "invalid"} \subseteq Outcomes
      /\ b.thrown \in BOOLEAN
  BY DEF IInv, TypeOK, Outcomes
<1>2. /\ outcome' \in [Requests -> Outcomes]
      /\ \A r \in Requests :
            \/ outcome'[r] = outcome[r]
            \/ outcome[r] = "waiting" /\ outcome'[r] \in {"aborted", "failed", "invalid"}
            \/ ~b.thrown /\ r \in Members(b.lanes) /\ outcome'[r] = "resolved"
  <2>1. CASE outcome' = Settled(outcome, Members(b.lanes), "failed")
    BY <1>1, <2>1, SettledProperties
  <2>2. CASE outcome' = Settled(outcome, Members(b.lanes), "invalid")
    BY <1>1, <2>2, SettledProperties
  <2>3. CASE ~b.thrown /\ outcome' = SettleSuccess(b.lanes)
    <3> DEFINE first == Settled(outcome, {r \in Members(b.lanes) : IsAborted(signal[r])}, "aborted")
    <3>1. /\ first \in [Requests -> Outcomes]
          /\ \A r \in Requests : first[r] = outcome[r] \/ (outcome[r] = "waiting" /\ first[r] = "aborted")
      BY <1>1, SettledProperties
    <3>2. outcome' = Settled(first, Members(b.lanes), "resolved")
      BY <2>3 DEF SettleSuccess
    <3> HIDE DEF first
    <3>3. /\ outcome' \in [Requests -> Outcomes]
          /\ \A r \in Requests :
               \/ outcome'[r] = first[r]
               \/ r \in Members(b.lanes) /\ outcome'[r] = "resolved"
      BY <1>1, <3>1, <3>2, SettledProperties
    <3> QED
      BY <2>3, <3>1, <3>3
  <2> QED
    BY <2>1, <2>2, <2>3 DEF ScopeAnswers
<1>3. /\ inFlight' \subseteq inFlight
      /\ UNCHANGED <<signal, aborted, pending, firstPending, flushScheduled, microtasks, executed>>
  BY DEF ScopeAnswers
<1>4. ~b.thrown => Members(b.lanes) \subseteq Members(executed)
  BY DEF IInv
<1>5. TypeOK'
  BY <1>2, <1>3 DEF IInv, TypeOK
<1>6. /\ \A r \in Requests : outcome'[r] = "idle" => outcome[r] = "idle"
      /\ \A r \in Requests : outcome'[r] = "resolved" => r \in Members(executed)
  BY <1>2, <1>4 DEF IInv
<1> QED
  BY <1>3, <1>5, <1>6 DEF IInv

(* Every step keeps the invariant.                                         *)
LEMMA NextInv == IInv /\ [Next]_vars => IInv'
<1> SUFFICES ASSUME IInv, [Next]_vars PROVE IInv'
  OBVIOUS
<1>1. ASSUME NEW s \in Signals, Abort(s) PROVE IInv'
  BY <1>1 DEF Abort, IInv, TypeOK
<1>2. CASE OuterMicrotask
  <2>1. microtasks' \in [outer : Nat, inner : Nat]
    BY <1>2 DEF OuterMicrotask, IInv, TypeOK
  <2> QED
    BY <1>2, <2>1 DEF OuterMicrotask, IInv, TypeOK
<1>3. CASE UNCHANGED vars
  BY <1>3 DEF vars, IInv, TypeOK
<1> QED
  BY <1>1, <1>2, <1>3, ScheduleInv, FlushInv, ScopeAnswersInv DEF Next

-----------------------------------------------------------------------------
(* Every variable has its type along every behaviour.                      *)
THEOREM SchedulerInvariant == Spec => []IInv
<1> QED
  BY InitInv, NextInv, PTL DEF Spec

(* Success is never reported for commands the queue did not take, and no   *)
(* lane's commands reach it twice, whatever the device throws or answers.  *)
THEOREM SuccessIsReal == Spec => []ResolvedWasExecuted
<1>1. IInv => ResolvedWasExecuted
  BY DEF IInv, ResolvedWasExecuted, Injective
<1> QED
  BY <1>1, SchedulerInvariant, PTL

(* An abort stops its own lanes and no other, whenever it comes: in the    *)
(* list, between the flush and the answer of the device, or with siblings. *)
THEOREM AbortedLanesStay == Spec => AbortStopsItsLanes
<1> DEFINE Execution == \A r \in Members(executed') \ Members(executed) : ~IsAborted(signal[r])
<1> DEFINE Settlement ==
             \A r \in Requests : outcome'[r] # outcome[r] =>
               /\ outcome'[r] = "resolved" => ~IsAborted(signal[r])
               /\ outcome'[r] = "aborted" => IsAborted(signal[r])
<1> DEFINE Siblings ==
             \A b \in inFlight \ inFlight' : \A r, sibling \in Members(b.lanes) :
               (/\ outcome[r] = "waiting" /\ outcome'[r] = "resolved"
                /\ outcome[sibling] = "waiting" /\ ~IsAborted(signal[sibling])) =>
                   outcome'[sibling] = "resolved"
<1> DEFINE A == Execution /\ Settlement /\ Siblings
<1>1. ASSUME IInv, NEW fault \in {"none", "push", "encode", "pop"}, Flush(fault) PROVE A
  <2> DEFINE lanes == ActiveLanes(NextBatch)
  <2> DEFINE stopped == Members(NextBatch) \ Members(lanes)
  <2> DEFINE rejected == Settled(outcome, stopped, "aborted")
  <2>1. /\ lanes \in Seq(Requests) /\ \A r \in Members(lanes) : ~IsAborted(signal[r])
        /\ executed \in Seq(Requests) /\ outcome \in [Requests -> Outcomes]
    BY <1>1, LanesProperties DEF IInv, TypeOK
  <2>2. /\ executed' = executed \/ executed' = executed \o lanes
        /\ outcome' = rejected \/ outcome' = Settled(rejected, Members(lanes), "failed")
        /\ inFlight \subseteq inFlight'
    BY <1>1 DEF Flush, Submit
  <2>3. \A r \in stopped : IsAborted(signal[r])
    <3>1. NextBatch \in Seq(Requests)
      BY <1>1, NextBatchProperties
    <3>2. Members(lanes) = Members(NextBatch) \cap {r \in Requests : ~IsAborted(signal[r])}
      BY <3>1, SelectedProperties DEF ActiveLanes
    <3>3. Members(NextBatch) \subseteq Requests
      BY <3>1, ElementOfSeq DEF Members
    <3> QED
      BY <3>2, <3>3
  <2> HIDE DEF lanes, stopped
  <2>4. Members(executed \o lanes) = Members(executed) \cup Members(lanes)
    BY <2>1, MembersOfConcat
  <2>5. Execution
    BY <2>1, <2>2, <2>4
  <2>6. /\ rejected \in [Requests -> Outcomes]
        /\ \A r \in Requests : rejected[r] = outcome[r] \/ (r \in stopped /\ rejected[r] = "aborted")
    BY <2>1, SettledProperties DEF Outcomes
  <2> HIDE DEF rejected
  <2>7. \A r \in Requests : outcome'[r] = rejected[r] \/ outcome'[r] = "failed"
    BY <2>2, <2>6, SettledProperties DEF Outcomes
  <2>8. Settlement
    BY <2>3, <2>6, <2>7
  <2>9. Siblings
    BY <2>2
  <2> QED
    BY <2>5, <2>8, <2>9
<1>2. ASSUME IInv, NEW b \in inFlight, NEW answer \in {"clean", "invalid", "rejected"}, ScopeAnswers(b, answer)
      PROVE  A
  <2>1. /\ outcome \in [Requests -> Outcomes] /\ executed' = executed
        /\ inFlight' = inFlight \ {b} /\ Members(b.lanes) \subseteq Requests
    BY <1>2 DEF ScopeAnswers, IInv, TypeOK, Members
  <2>2. CASE outcome' = SettleSuccess(b.lanes)
    <3>1. \A r \in Requests :
            outcome'[r] = IF r \in Members(b.lanes) /\ outcome[r] = "waiting"
                          THEN IF IsAborted(signal[r]) THEN "aborted" ELSE "resolved"
                          ELSE outcome[r]
      BY <2>1, <2>2 DEF SettleSuccess, Settled
    <3> QED
      BY <2>1, <3>1
  <2>3. ASSUME NEW how \in {"failed", "invalid"}, outcome' = Settled(outcome, Members(b.lanes), how) PROVE A
    <3>1. \A r \in Requests : outcome'[r] = outcome[r] \/ outcome'[r] = how
      BY <2>1, <2>3, SettledProperties DEF Outcomes
    <3> QED
      BY <2>1, <3>1
  <2> QED
    BY <1>2, <2>2, <2>3 DEF ScopeAnswers
<1>3. ASSUME NEW r \in Requests, NEW s \in Signals \cup {NoSignal}, IInv, Schedule(r, s) PROVE A
  <2>1. executed' = executed /\ inFlight' = inFlight
        /\ \A x \in Requests : outcome'[x] = outcome[x] \/ outcome'[x] = "waiting"
    BY <1>3 DEF Schedule, IInv, TypeOK
  <2> QED
    BY <2>1
<1>4. ASSUME UNCHANGED <<outcome, executed, inFlight>> PROVE A
  BY <1>4
<1> HIDE DEF A
<1>5. IInv /\ [Next]_vars => [A]_vars
  BY <1>1, <1>2, <1>3, <1>4 DEF Next, Abort, OuterMicrotask, vars
<1> QED
  BY <1>5, SchedulerInvariant, PTL DEF Spec, AbortStopsItsLanes, A
=============================================================================
