----------------------------- MODULE ResidentGpu -----------------------------
(***************************************************************************)
(* The GPU side of FunctionalCompilerService                               *)
(* (src/src/functional/compiler_service.ts): one resident GpuCompiler,     *)
(* made on first use, shared by all callers, and given up by destroy().    *)
(* The promise of the compiler is awaited twice on the way to a compilation*)
(* (in #gpuCompiler and in compileBatch) and once in destroy(), so each    *)
(* await is a step of its own.                                             *)
(***************************************************************************)
EXTENDS Integers, FiniteSets

CONSTANTS
    Calls,       \* calls of compileBatch that choose the GPU
    Destroys     \* calls of destroy()

VARIABLES
    ownsDevice,   \* no device was supplied to the constructor
    destroyed,    \* #destroyed
    held,         \* #residentGpuCompiler is defined
    creation,     \* the promise of the resident compiler
    device,       \* the device the service uses
    requested,    \* how many devices the service asked the platform for
    call,         \* where each compileBatch call stands
    teardown      \* where each destroy() call stands

gpuVars == <<ownsDevice, destroyed, held, creation, device, requested, call, teardown>>

GpuInit ==
    /\ ownsDevice \in BOOLEAN
    /\ destroyed = FALSE
    /\ held = FALSE
    /\ creation = "none"
    /\ device = IF ownsDevice THEN "none" ELSE "live"
    /\ requested = 0
    /\ call = [c \in Calls |-> "idle"]
    /\ teardown = [d \in Destroys |-> "idle"]

(* #createGpuCompiler up to its first await.                               *)
CreateGpuCompiler ==
    IF ownsDevice
    THEN creation' = "requesting" /\ requested' = requested + 1
    ELSE creation' = "building" /\ requested' = requested

(* compileBatch up to the await in #gpuCompiler.                           *)
CompileBatch(c) ==
    /\ call[c] = "idle"
    /\ IF destroyed
       THEN /\ call' = [call EXCEPT ![c] = "rejected"]
            /\ UNCHANGED <<held, creation, requested>>
       ELSE /\ call' = [call EXCEPT ![c] = "awaits compiler"]
            /\ held' = TRUE
            /\ IF held THEN UNCHANGED <<creation, requested>> ELSE CreateGpuCompiler
    /\ UNCHANGED <<ownsDevice, destroyed, device, teardown>>

(* requestWebGpuDevice answers.                                            *)
DeviceAnswers(granted) ==
    /\ creation = "requesting"
    /\ IF granted
       THEN creation' = "building" /\ device' = "live"
       ELSE creation' = "failed" /\ device' = device
    /\ UNCHANGED <<ownsDevice, destroyed, held, requested, call, teardown>>

(* GpuCompiler.create settles; its failure releases an owned device.       *)
CompilerBuilt(ok) ==
    /\ creation = "building"
    /\ creation' = IF ok THEN "ready" ELSE "failed"
    /\ device' = IF ~ok /\ ownsDevice THEN "destroyed" ELSE device
    /\ UNCHANGED <<ownsDevice, destroyed, held, requested, call, teardown>>

(* The await in #gpuCompiler ends, then the one in compileBatch, which     *)
(* starts the compilation.                                                 *)
Resume(c) ==
    /\ creation \in {"ready", "failed"}
    /\ \/ /\ call[c] = "awaits compiler"
          /\ call' = [call EXCEPT ![c] = IF creation = "ready" THEN "has compiler" ELSE "rejected"]
       \/ /\ call[c] = "has compiler"
          /\ call' = [call EXCEPT ![c] = "compiling"]
    /\ UNCHANGED <<ownsDevice, destroyed, held, creation, device, requested, teardown>>

(* The compilation ends.  It may resolve after the device was destroyed,   *)
(* when the device had answered before.                                    *)
CompilationEnds(c, outcome) ==
    /\ call[c] = "compiling"
    /\ call' = [call EXCEPT ![c] = outcome]
    /\ UNCHANGED <<ownsDevice, destroyed, held, creation, device, requested, teardown>>

MutantDestroyIgnoresPending(d) ==
    /\ teardown[d] = "idle"
    /\ destroyed' = TRUE
    /\ held' = FALSE
    /\ IF ~destroyed /\ held /\ creation = "ready"
       THEN teardown' = [teardown EXCEPT ![d] = "awaits compiler"]
       ELSE teardown' = [teardown EXCEPT ![d] = "resolved"]
    /\ UNCHANGED <<ownsDevice, creation, device, requested, call>>

(* destroy() up to its await.                                              *)
Destroy(d) ==
    /\ teardown[d] = "idle"
    /\ destroyed' = TRUE
    /\ IF ~destroyed /\ held
       THEN held' = FALSE /\ teardown' = [teardown EXCEPT ![d] = "awaits compiler"]
       ELSE held' = held /\ teardown' = [teardown EXCEPT ![d] = "resolved"]
    /\ UNCHANGED <<ownsDevice, creation, device, requested, call>>

MutantDestroyResumesWhenReady(d) ==
    /\ teardown[d] = "awaits compiler" /\ creation = "ready"
    /\ teardown' = [teardown EXCEPT ![d] = "resolved"]
    /\ device' = IF ownsDevice THEN "destroyed" ELSE device
    /\ UNCHANGED <<ownsDevice, destroyed, held, creation, requested, call>>

MutantDestroyResumesOnAnyDevice(d) ==
    /\ teardown[d] = "awaits compiler" /\ creation \in {"ready", "failed"}
    /\ teardown' = [teardown EXCEPT ![d] = IF creation = "ready" THEN "resolved" ELSE "rejected"]
    /\ device' = IF creation = "ready" THEN "destroyed" ELSE device
    /\ UNCHANGED <<ownsDevice, destroyed, held, creation, requested, call>>

(* The await in destroy() ends.  A failed creation rejects destroy() too.  *)
DestroyResumes(d) ==
    /\ teardown[d] = "awaits compiler"
    /\ creation \in {"ready", "failed"}
    /\ teardown' = [teardown EXCEPT ![d] = IF creation = "ready" THEN "resolved" ELSE "rejected"]
    /\ device' = IF creation = "ready" /\ ownsDevice THEN "destroyed" ELSE device
    /\ UNCHANGED <<ownsDevice, destroyed, held, creation, requested, call>>

GpuNext ==
    \/ \E c \in Calls : CompileBatch(c) \/ Resume(c)
    \/ \E c \in Calls, outcome \in {"resolved", "rejected"} : CompilationEnds(c, outcome)
    \/ \E granted \in BOOLEAN : DeviceAnswers(granted)
    \/ \E ok \in BOOLEAN : CompilerBuilt(ok)
    \/ \E d \in Destroys : Destroy(d) \/ DestroyResumes(d)

(* The platform answers a device request and a pipeline build, and awaits  *)
(* of a settled promise end.  That a compilation ends is up to GpuCompiler.*)
GpuFairness ==
    /\ WF_gpuVars(\E granted \in BOOLEAN : DeviceAnswers(granted))
    /\ WF_gpuVars(\E ok \in BOOLEAN : CompilerBuilt(ok))
    /\ \A c \in Calls : WF_gpuVars(Resume(c))
    /\ \A d \in Destroys : WF_gpuVars(DestroyResumes(d))

-----------------------------------------------------------------------------
(* Every variable has the type its declaration announces.                  *)
GpuTypeOK ==
    /\ ownsDevice \in BOOLEAN
    /\ destroyed \in BOOLEAN
    /\ held \in BOOLEAN
    /\ creation \in {"none", "requesting", "building", "ready", "failed"}
    /\ device \in {"none", "live", "destroyed"}
    /\ requested \in 0 .. 1
    /\ call \in [Calls -> {"idle", "awaits compiler", "has compiler", "compiling", "resolved", "rejected"}]
    /\ teardown \in [Destroys -> {"idle", "awaits compiler", "resolved", "rejected"}]

(* "The application owns a supplied GPUDevice" (ARCHITECTURE.md): neither  *)
(* a failed creation nor destroy() releases it.  The device of a working   *)
(* service is there for every caller: only destroy() or a failed creation  *)
(* takes an owned one away.                                                *)
CompilerIsThere ==
    /\ ~ownsDevice => device = "live"
    /\ creation = "ready" /\ ~destroyed => device = "live"
    /\ \A c \in Calls : call[c] = "resolved" => creation = "ready"

(* "a compiler service owns a device it requested": after destroy() the    *)
(* device is released, even when creation was still under way or failed.   *)
OwnedDeviceIsReleased ==
    ownsDevice => (destroyed ~> (device # "live" /\ creation \notin {"requesting", "building"}))

(* Nobody waits for ever, neither a compilation nor a destroy() that came  *)
(* while the compiler was being made.                                      *)
EveryCallReturns ==
    /\ \A c \in Calls : call[c] # "idle" ~> call[c] \in {"resolved", "rejected"}
    /\ \A d \in Destroys : teardown[d] # "idle" ~> teardown[d] \in {"resolved", "rejected"}
=============================================================================
