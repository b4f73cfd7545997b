--------------------------- MODULE GpuBatchCompile ---------------------------
(***************************************************************************)
(* GpuCompiler.compileBatch (src/src/functional/compiler.ts): the modules  *)
(* of a batch are checked against the limits, the fully annotated ones are *)
(* checked by certificate and restored, the others are admitted and sent   *)
(* to the semantic compiler, and every answer is put at the index of its   *)
(* module.  What is followed is who owns the device buffers: the caller of *)
(* a batch that returns, nobody after one that throws.                     *)
(*                                                                         *)
(* Each action is the code between two awaits.  The semantic compiler, the *)
(* certificate checker and the admission queue are other components: here  *)
(* they answer, reject because the signal is aborted, or fail.             *)
(***************************************************************************)
EXTENDS Integers, Sequences, FiniteSets, Selections

CONSTANTS
    Batches,    \* calls of compileBatch
    Size,       \* modules in each batch
    Output      \* Output[b]: "gpu", or "host" for compileBatchForLinking

ASSUME BatchAssumption ==
    /\ Size \in Nat \ {0}
    /\ Output \in [Batches -> {"gpu", "host"}]

VARIABLES
    stage,      \* where each batch stands
    candidates, \* checkingCandidates: the modules with a certificate
    accepted,   \* accepted: the modules for the semantic compiler
    results,    \* results: the answer of each module
    compiled,   \* compiled: what the semantic compiler answered, in its order
    next,       \* acceptedIndex: the answer to publish next
    aborted,    \* the batches whose signal is aborted
    live        \* <<b, i>>: the buffers of module i of batch b exist on the device

lists == <<candidates, accepted, compiled, next>>
batchVars == <<stage, lists, results, aborted, live>>

Indices == 1 .. Size

(* An answer: diagnostics, or a compiled module, and of which module.      *)
Unanswered == [kind |-> "pending", of |-> 0]
Refused(i) == [kind |-> "diagnostics", of |-> i]
Built(i) == [kind |-> "module", of |-> i]

BatchInit ==
    /\ stage = [b \in Batches |-> "idle"]
    /\ candidates = [b \in Batches |-> <<>>]
    /\ accepted = [b \in Batches |-> <<>>]
    /\ results = [b \in Batches |-> [i \in Indices |-> Unanswered]]
    /\ compiled = [b \in Batches |-> <<>>]
    /\ next = [b \in Batches |-> 1]
    /\ aborted = {}
    /\ live = {}

Ended == {"returned", "rejected"}

Goes(b, place) == stage' = [stage EXCEPT ![b] = place]

(* A set of modules in the order of the batch.                             *)
InOrder(set) == Selected([i \in 1 .. Size |-> i], set)

(* The loop over the modules: those beyond a limit, or whose surface does  *)
(* not resolve, are answered at once; those with a certificate are checked.*)
(* It is not reached by an aborted batch, and a malformed module (options  *)
(* that are not valid, too) throws out of it.                              *)
CheckEnvelopes(b) ==
    /\ stage[b] = "idle"
    /\ \/ Goes(b, "rejected") /\ UNCHANGED <<lists, results>>
       \/ /\ b \notin aborted
          /\ \E refused \in SUBSET Indices : \E certified \in SUBSET (Indices \ refused) :
               /\ results' = [results EXCEPT ![b] =
                                [i \in Indices |-> IF i \in refused THEN Refused(i) ELSE Unanswered]]
               /\ candidates' = [candidates EXCEPT ![b] = InOrder(certified)]
               /\ accepted' = [accepted EXCEPT ![b] = InOrder(Indices \ (refused \cup certified))]
               /\ Goes(b, IF certified # {} THEN "checking"
                          ELSE IF refused = Indices THEN "returned" ELSE "admitting")
          /\ UNCHANGED <<compiled, next>>
    /\ UNCHANGED <<aborted, live>>

(* The certificate checker answers or rejects.  The candidates it does not *)
(* confirm are appended to the accepted modules, in the order of the loop. *)
ChecksReturn(b, confirmed) ==
    /\ stage[b] = "checking"
    /\ confirmed \subseteq Members(candidates[b])
    /\ Goes(b, "restoring")
    /\ candidates' = [candidates EXCEPT ![b] = Selected(@, confirmed)]
    /\ accepted' = [accepted EXCEPT ![b] = @ \o Selected(candidates[b], Indices \ confirmed)]
    /\ UNCHANGED <<results, compiled, next, aborted, live>>

(* A confirmed module is restored from its certificate: as device buffers, *)
(* or in host memory when the batch is for linking.                        *)
RestoreOne(b) ==
    /\ stage[b] = "restoring"
    /\ candidates[b] # <<>>
    /\ LET i == Head(candidates[b]) IN
         /\ live' = IF Output[b] = "gpu" THEN live \cup {<<b, i>>} ELSE live
         /\ results' = [results EXCEPT ![b][i] = Built(i)]
    /\ candidates' = [candidates EXCEPT ![b] = Tail(@)]
    /\ UNCHANGED <<stage, accepted, compiled, next, aborted>>

(* The answer of every module is there when none is left to be compiled.   *)
Restored(b) ==
    /\ stage[b] = "restoring"
    /\ candidates[b] = <<>>
    /\ Goes(b, IF accepted[b] = <<>> THEN "returned" ELSE "admitting")
    /\ UNCHANGED <<lists, results, aborted, live>>

(* The admission queue starts the batch; its first statement looks at the  *)
(* signal.                                                                 *)
Admitted(b) ==
    /\ stage[b] = "admitting"
    /\ Goes(b, IF b \in aborted THEN "rejected" ELSE "dispatched")
    /\ UNCHANGED <<lists, results, aborted, live>>

(* The semantic compiler answers each accepted module with diagnostics or  *)
(* with a module whose buffers now exist.                                  *)
SemanticCompilerReturns(b, good) ==
    /\ stage[b] = "dispatched"
    /\ good \subseteq Members(accepted[b])
    /\ Goes(b, "compiled")
    /\ compiled' = [compiled EXCEPT ![b] =
                      [k \in 1 .. Len(accepted[b]) |->
                          IF accepted[b][k] \in good THEN Built(accepted[b][k]) ELSE Refused(accepted[b][k])]]
    /\ live' = live \cup {<<b, i>> : i \in good}
    /\ UNCHANGED <<candidates, accepted, next, results, aborted>>

CompiledBuffers(b) ==
    {<<b, compiled[b][k].of>> : k \in {j \in 1 .. Len(compiled[b]) : compiled[b][j].kind = "module"}}

MutantResumeForgets(b) ==
    /\ stage[b] = "compiled"
    /\ Goes(b, IF b \in aborted THEN "rejected" ELSE "publishing")
    /\ UNCHANGED <<lists, results, aborted, live>>

(* compileBatch resumes: an aborted batch destroys what it was given.      *)
ResumeBatch(b) ==
    /\ stage[b] = "compiled"
    /\ \/ b \in aborted /\ Goes(b, "rejected") /\ live' = live \ CompiledBuffers(b)
       \/ b \notin aborted /\ Goes(b, "publishing") /\ UNCHANGED live
    /\ UNCHANGED <<lists, results, aborted>>

MutantPublishInOrder(b) ==
    /\ stage[b] = "publishing"
    /\ next[b] <= Len(accepted[b])
    /\ results' = [results EXCEPT ![b][next[b]] = compiled[b][next[b]]]
    /\ next' = [next EXCEPT ![b] = @ + 1]
    /\ UNCHANGED <<stage, candidates, accepted, compiled, aborted, live>>

MutantPublishStalls(b) ==
    /\ stage[b] = "publishing"
    /\ next[b] <= Len(accepted[b])
    /\ compiled[b][next[b]].kind = "module"
    /\ results' = [results EXCEPT ![b][accepted[b][next[b]]] = compiled[b][next[b]]]
    /\ next' = [next EXCEPT ![b] = @ + 1]
    /\ UNCHANGED <<stage, candidates, accepted, compiled, aborted, live>>

(* One answer of the semantic compiler is published at the index of its    *)
(* module in the batch.                                                    *)
PublishOne(b) ==
    /\ stage[b] = "publishing"
    /\ next[b] <= Len(accepted[b])
    /\ results' = [results EXCEPT ![b][accepted[b][next[b]]] = compiled[b][next[b]]]
    /\ next' = [next EXCEPT ![b] = @ + 1]
    /\ UNCHANGED <<stage, candidates, accepted, compiled, aborted, live>>

Published(b) ==
    /\ stage[b] = "publishing"
    /\ next[b] > Len(accepted[b])
    /\ Goes(b, "returned")
    /\ UNCHANGED <<lists, results, aborted, live>>

(* What fails on the way: the checker, the restoration of one module (whose*)
(* own buffers are destroyed), the semantic compiler (which releases its   *)
(* own), all without a word to the modules already restored; and the       *)
(* publication of one module, which destroys all that were compiled.       *)
Fail(b) ==
    /\ \/ stage[b] \in {"checking", "dispatched"}
       \/ stage[b] = "restoring" /\ candidates[b] # <<>> /\ Output[b] = "gpu"
       \/ stage[b] = "publishing" /\ next[b] <= Len(accepted[b])
    /\ live' = IF stage[b] = "publishing" THEN live \ CompiledBuffers(b) ELSE live
    /\ Goes(b, "rejected")
    /\ UNCHANGED <<lists, results, aborted>>

(* The signal is aborted: a batch that waits for admission is rejected by  *)
(* the queue, every other one at its next look.  The checker looks after   *)
(* it has mapped its answer, if it gets there.                             *)
Abort(b) ==
    /\ b \notin aborted
    /\ stage[b] \notin Ended
    /\ aborted' = aborted \cup {b}
    /\ stage' = IF stage[b] = "admitting" THEN [stage EXCEPT ![b] = "rejected"] ELSE stage
    /\ UNCHANGED <<lists, results, live>>

(* The caller destroys the modules it was given.                           *)
CallerDestroys(b) ==
    /\ stage[b] = "returned"
    /\ \E i \in Indices : <<b, i>> \in live
    /\ live' = {x \in live : x[1] # b \/ results[b][x[2]].kind # "module"}
    /\ UNCHANGED <<stage, lists, results, aborted>>

(* What compileBatch does after its first await.                           *)
Continues(b) ==
    \/ \E set \in SUBSET Indices : ChecksReturn(b, set) \/ SemanticCompilerReturns(b, set)
    \/ RestoreOne(b) \/ Restored(b) \/ Admitted(b)
    \/ ResumeBatch(b) \/ PublishOne(b) \/ Published(b)

BatchNext ==
    \E b \in Batches : CheckEnvelopes(b) \/ Continues(b) \/ Fail(b) \/ Abort(b) \/ CallerDestroys(b)

BatchSpec == BatchInit /\ [][BatchNext]_batchVars

(* What a batch waits for answers, and JavaScript resumes it.              *)
FairBatchSpec == BatchSpec /\ \A b \in Batches : WF_batchVars(Continues(b))

-----------------------------------------------------------------------------
(* Every module is in at most one of the lists of its batch.               *)
BatchTypeOK ==
    /\ aborted \subseteq Batches
    /\ live \subseteq Batches \X Indices
    /\ \A b \in Batches :
         /\ Members(candidates[b]) \cup Members(accepted[b]) \subseteq Indices
         /\ stage[b] = "checking" => Members(candidates[b]) \cap Members(accepted[b]) = {}

(* A batch that returns has an answer for each of its modules, at the      *)
(* index of that module, however it got there: refused, restored, sent to  *)
(* the semantic compiler at once or after a failed certificate.  And the   *)
(* caller can destroy all it left on the device: a buffer whose module has *)
(* no successful answer would belong to nobody.                            *)
AnswersInPlace ==
    \A b \in Batches : stage[b] = "returned" =>
        \A i \in Indices :
            /\ results[b][i].kind # "pending" /\ results[b][i].of = i
            /\ <<b, i>> \in live => results[b][i].kind = "module"

(* What the semantic compiler built for a batch that is then rejected,     *)
(* because of the signal or of a failed publication, is destroyed.         *)
RejectedCompilationsAreDestroyed ==
    \A b \in Batches : stage[b] = "rejected" => live \cap CompiledBuffers(b) = {}

(* compileBatch settles.                                                   *)
EveryBatchSettles == \A b \in Batches : stage[b] # "idle" ~> stage[b] \in Ended
=============================================================================
