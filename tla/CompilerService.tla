--------------------------- MODULE CompilerService ---------------------------
(***************************************************************************)
(* FunctionalCompilerService (src/src/functional/compiler_service.ts): the *)
(* backend option of a call sends its compilation through the CPU caches   *)
(* or to the resident GPU compiler; destroy() ends both.  What the  *)
(* resident compiler does with a batch is GpuBatchCompile: the batch of a  *)
(* call has the name of the call.                                          *)
(***************************************************************************)
EXTENDS CompilerCaches, ResidentGpu, GpuBatchCompile

CONSTANT Backends   \* sets of backends that the calls of a service may name,
                    \* "auto" being decided by the modules of a call

ASSUME ServiceAssumption ==
    /\ Batches = Calls /\ \A c \in Calls : Output[c] = "gpu"
    /\ Backends \subseteq SUBSET {"cpu", "gpu"}

VARIABLE backends   \* those of this service

deviceVars == <<gpuVars, batchVars>>
vars == <<cacheVars, gpuVars, batchVars, backends>>

Init == backends \in Backends /\ CacheInit /\ GpuInit /\ BatchInit

(* compileBatch on the CPU; the jobs of a destroyed service go on.         *)
CpuStep ==
    /\ "cpu" \in backends
    /\ \/ ~destroyed /\ \E m \in Modules : CompileCpuModule(m)
       \/ \E i \in 1 .. Len(jobs) : Settle(i) \/ Publish(i)
    /\ UNCHANGED <<gpuVars, batchVars, backends>>

-----------------------------------------------------------------------------
(* The GPU compiler of the service.                                        *)

(* The awaits of the compiler end.  The last one calls its compileBatch,   *)
(* which runs up to its own first await.                                   *)
CompilerArrives(c) ==
    /\ Resume(c)
    /\ IF call[c] = "has compiler" THEN CheckEnvelopes(c) ELSE UNCHANGED batchVars

(* The batch goes on.  Nothing is created on a destroyed device: whatever  *)
(* waits for it fails.                                                     *)
BatchGoesOn(c) ==
    /\ call[c] = "compiling"
    /\ Continues(c) \/ Fail(c)
    /\ device = "destroyed" => live' \subseteq live
    /\ UNCHANGED gpuVars

BatchEnds(c) ==
    /\ stage[c] \in Ended
    /\ CompilationEnds(c, IF stage[c] = "returned" THEN "resolved" ELSE "rejected")
    /\ UNCHANGED batchVars

(* The caller aborts its signal, or destroys the modules it was given.     *)
CallerActs(c) ==
    /\ \/ call[c] \in {"awaits compiler", "has compiler", "compiling"} /\ Abort(c)
       \/ call[c] = "resolved" /\ CallerDestroys(c)
    /\ UNCHANGED gpuVars

(* With its device all buffers of the service go.                          *)
DestroyEnds(d) ==
    /\ DestroyResumes(d)
    /\ live' = IF device' = "destroyed" THEN {} ELSE live
    /\ UNCHANGED <<stage, lists, results, aborted>>

GpuCompilation(c) ==
    \/ CompileBatch(c) /\ "gpu" \in backends /\ UNCHANGED batchVars
    \/ CompilerArrives(c) \/ BatchGoesOn(c) \/ BatchEnds(c) \/ CallerActs(c)

(* compileBatch on the GPU, and destroy() on any service.                  *)
GpuStep ==
    /\ \/ \E c \in Calls : GpuCompilation(c)
       \/ \E granted \in BOOLEAN : (DeviceAnswers(granted) \/ CompilerBuilt(granted)) /\ UNCHANGED batchVars
       \/ \E d \in Destroys : (Destroy(d) /\ UNCHANGED batchVars) \/ DestroyEnds(d)
    /\ UNCHANGED <<cacheVars, backends>>

Next == CpuStep \/ GpuStep

Spec == Init /\ [][Next]_vars

(* What a batch waits for answers or, on a destroyed device, rejects.      *)
FairSpec ==
    /\ Spec /\ CacheFairness /\ GpuFairness
    /\ \A c \in Calls : WF_deviceVars(BatchGoesOn(c)) /\ WF_deviceVars(BatchEnds(c))

-----------------------------------------------------------------------------
(* The device is there for every caller, and no buffer without it: what    *)
(* destroy() leaves behind is not added to by the compilations it overtook.*)
DeviceIsThere == CompilerIsThere /\ (live # {} => device = "live")
=============================================================================
