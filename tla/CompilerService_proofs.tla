------------------------ MODULE CompilerService_proofs ------------------------
(***************************************************************************)
(* Proofs about CompilerService: a working service has a device, its       *)
(* caches are transparent, and its batches answer each module at its place *)
(* and leave no buffer without an owner, for any number of callers, any    *)
(* modules and batches, and any size of the semantic cache.                *)
(***************************************************************************)
EXTENDS CompilerService, SequenceTheorems, TLAPS

-----------------------------------------------------------------------------
(* The GPU side.                                                           *)

(* What the types of the other variables need not say: one device is asked *)
(* for, when the compiler is first made.                                   *)
AskedOnce ==
    /\ requested \in 0 .. 1
    /\ creation = "none" => requested = 0

(* The conjunction that is inductive.  A second creation is what could     *)
(* take a ready compiler away: there is none, because a service that holds *)
(* no compiler and is not destroyed never made one.  And nobody takes the  *)
(* device while the compiler is being built: destroy() waits for the       *)
(* creation to settle.                                                     *)
Resident ==
    /\ ownsDevice \in BOOLEAN
    /\ destroyed \in BOOLEAN
    /\ held \in BOOLEAN
    /\ creation \in {"none", "requesting", "building", "ready", "failed"}
    /\ device \in {"none", "live", "destroyed"}
    /\ call \in [Calls -> {"idle", "awaits compiler", "has compiler", "compiling", "resolved", "rejected"}]
    /\ teardown \in [Destroys -> {"idle", "awaits compiler", "resolved", "rejected"}]
    /\ CompilerIsThere
    /\ creation = "ready" => device # "none"
    /\ ~destroyed => (held <=> creation # "none")
    /\ creation = "requesting" => ownsDevice
    /\ creation = "building" => device = "live"
    /\ \A c \in Calls : call[c] \in {"has compiler", "compiling"} => creation = "ready"
    /\ \A d \in Destroys : teardown[d] # "idle" => destroyed

GpuInv == Resident /\ AskedOnce

(* A new service: a device is there when the application supplied one.     *)
LEMMA GpuInitInv == GpuInit => GpuInv
<1>1. GpuInit => AskedOnce
  BY DEF GpuInit, AskedOnce
<1>2. GpuInit => Resident
  BY DEF GpuInit, Resident, CompilerIsThere
<1> QED
  BY <1>1, <1>2 DEF GpuInv

(* A step that makes the compiler for the first time asks at most once.    *)
LEMMA FirstRequest ==
    ASSUME AskedOnce,
           \/ UNCHANGED <<creation, requested>>
           \/ /\ creation = "none" /\ creation' # "none"
              /\ requested' = requested + 1 \/ requested' = requested
    PROVE  AskedOnce'
BY DEF AskedOnce

(* Every step of the resident compiler keeps the invariant.                *)
LEMMA GpuNextInv == GpuInv /\ [GpuNext]_gpuVars => GpuInv'
<1> SUFFICES ASSUME Resident, AskedOnce, [GpuNext]_gpuVars PROVE Resident' /\ AskedOnce'
  BY DEF GpuInv
<1> USE DEF Resident, CompilerIsThere
<1>1. ASSUME NEW c \in Calls, CompileBatch(c) PROVE Resident' /\ AskedOnce'
  <2>1. Resident'
    BY <1>1 DEF CompileBatch, CreateGpuCompiler
  <2>2. \/ UNCHANGED <<creation, requested>>
        \/ /\ creation = "none" /\ creation' # "none"
           /\ requested' = requested + 1 \/ requested' = requested
    BY <1>1 DEF CompileBatch, CreateGpuCompiler
  <2>3. AskedOnce'
    BY <2>2, FirstRequest
  <2> QED
    BY <2>1, <2>3
<1>2. ASSUME NEW c \in Calls, Resume(c) PROVE Resident' /\ AskedOnce'
  BY <1>2 DEF Resume, AskedOnce
<1>3. ASSUME NEW c \in Calls, NEW outcome \in {"resolved", "rejected"}, CompilationEnds(c, outcome)
      PROVE  Resident' /\ AskedOnce'
  BY <1>3 DEF CompilationEnds, AskedOnce
<1>4. ASSUME NEW granted \in BOOLEAN, DeviceAnswers(granted) PROVE Resident' /\ AskedOnce'
  BY <1>4 DEF DeviceAnswers, AskedOnce
<1>5. ASSUME NEW ok \in BOOLEAN, CompilerBuilt(ok) PROVE Resident' /\ AskedOnce'
  BY <1>5 DEF CompilerBuilt, AskedOnce
<1>6. ASSUME NEW d \in Destroys, Destroy(d) PROVE Resident' /\ AskedOnce'
  BY <1>6 DEF Destroy, AskedOnce
<1>7. ASSUME NEW d \in Destroys, DestroyResumes(d) PROVE Resident' /\ AskedOnce'
  BY <1>7 DEF DestroyResumes, AskedOnce
<1>8. CASE UNCHANGED gpuVars
  BY <1>8 DEF gpuVars, AskedOnce
<1> QED
  BY <1>1, <1>2, <1>3, <1>4, <1>5, <1>6, <1>7, <1>8 DEF GpuNext

-----------------------------------------------------------------------------
(* The caches.                                                             *)

Results == {Pending, Rejected} \cup {Compiled(m) : m \in Modules}

Plans == [kind : {"none", "semantics", "literal-update"}, from : Results, job : Nat]

Jobs == [module : Modules, plan : Plans, result : Results, published : BOOLEAN]

Entries == [key : {Fingerprint(m) : m \in Modules}, result : Results]

(* An entry holds what a module of that fingerprint compiles to.           *)
EntryIsSound(entry) ==
    \E m \in Modules : /\ Shape[m] \notin IllTyped
                       /\ entry.key = Fingerprint(m)
                       /\ entry.result = Compiled(m)

(* What a job was promised when it was made: a finished result with its    *)
(* own shape and literals, or a chain on an older job for its reference.   *)
PlanIsSound(all, i) ==
    LET plan == all[i].plan
        m    == all[i].module
    IN  CASE plan.kind = "none" -> TRUE
          [] plan.kind = "semantics" -> EntryIsSound([key |-> Fingerprint(m), result |-> plan.from])
          [] plan.kind = "literal-update" ->
               /\ Reference[m] # NoModule
               /\ plan.job \in 1 .. i - 1
               /\ all[plan.job].module = Reference[m]

ResultIsSound(job) == job.result \in {Pending, Rejected, Compiled(job.module)}

(* The conjunction that is inductive: transparency of the finished jobs    *)
(* rests on that of the entries and on what the promises chain on.         *)
CacheInv ==
    /\ jobs \in Seq(Jobs)
    /\ cpuCompilations \in [Modules -> 0 .. Len(jobs)]
    /\ bySemantics \in Seq(Entries)
    /\ \A m \in Modules : cpuCompilations[m] # 0 => jobs[cpuCompilations[m]].module = m
    /\ \A i \in 1 .. Len(jobs) : PlanIsSound(jobs, i) /\ ResultIsSound(jobs[i])
    /\ \A i \in 1 .. Len(bySemantics) : EntryIsSound(bySemantics[i])

(* Rebinding a result to other positions gives what a module with the same *)
(* fingerprint compiles to.                                                *)
LEMMA RebindIsCompiled ==
    ASSUME NEW m \in Modules, NEW from, EntryIsSound([key |-> Fingerprint(m), result |-> from])
    PROVE  RebindCompiledModuleSource(from, m) = Compiled(m)
<1>1. PICK n \in Modules : /\ Shape[n] \notin IllTyped
                           /\ Fingerprint(m) = Fingerprint(n)
                           /\ from = Compiled(n)
  BY DEF EntryIsSound
<1>2. Shape[m] = Shape[n] /\ Literals[m] = Literals[n]
  BY <1>1 DEF Fingerprint
<1> QED
  BY <1>1, <1>2 DEF RebindCompiledModuleSource, Compiled

(* Replacing the changed literals in the result of the reference gives     *)
(* what the module itself compiles to.                                     *)
LEMMA UpdateIsCompiled ==
    ASSUME NEW m \in Modules, Reference[m] # NoModule, Shape[m] \notin IllTyped
    PROVE  ApplyCompiledLiteralUpdate(Compiled(Reference[m]), m) = Compiled(m)
<1> DEFINE r == Reference[m]
<1>1. /\ r \in Modules
      /\ Shape[m] = Shape[r] /\ Positions[m] = Positions[r]
      /\ Literals[m] \in [LiteralNodes -> Nat] /\ Literals[r] \in [LiteralNodes -> Nat]
  BY CacheAssumption DEF CacheAssumption
<1>2. [n \in LiteralNodes |-> IF n \in ChangedNodes(m) THEN Literals[m][n] ELSE Literals[r][n]] = Literals[m]
  BY <1>1 DEF ChangedNodes
<1> QED
  BY <1>1, <1>2 DEF ApplyCompiledLiteralUpdate, Compiled

(* The four kinds of result are told apart by their status.                *)
LEMMA ResultsDiffer ==
    ASSUME NEW m \in Modules
    PROVE  /\ Pending.status = "pending" /\ Rejected.status = "rejected"
           /\ Compiled(m).status = IF Shape[m] \in IllTyped THEN "ill-typed" ELSE "ok"
           /\ Compiled(m) # Pending /\ Compiled(m) # Rejected /\ Pending # Rejected
BY DEF Pending, Rejected, Compiled

(* Empty caches.                                                           *)
LEMMA CacheInitInv == CacheInit => CacheInv
BY DEF CacheInit, CacheInv

(* What an invariant entry found by its key is.                            *)
LEMMA CachedIsSound ==
    ASSUME CacheInv, NEW m \in Modules, Fingerprint(m) \in Keys
    PROVE  /\ Cached(Fingerprint(m)).result \in Results
           /\ EntryIsSound([key |-> Fingerprint(m), result |-> Cached(Fingerprint(m)).result])
<1> DEFINE S == {bySemantics[i] : i \in 1 .. Len(bySemantics)}
<1> DEFINE e == Cached(Fingerprint(m))
<1>1. \E entry \in S : entry.key = Fingerprint(m)
  BY DEF Keys
<1>2. e \in S /\ e.key = Fingerprint(m)
  BY <1>1 DEF Cached
<1>3. PICK i \in 1 .. Len(bySemantics) : e = bySemantics[i]
  BY <1>2
<1>4. e \in Entries /\ EntryIsSound(e)
  BY <1>3 DEF CacheInv
<1>5. e.result \in Results /\ e = [key |-> Fingerprint(m), result |-> e.result]
  BY <1>2, <1>4 DEF Entries
<1> QED
  BY <1>4, <1>5

(* Whatever shortcut a new job takes, its plan is sound.                   *)
LEMMA CompileInv ==
    ASSUME CacheInv, NEW m \in Modules, CompileCpuModule(m)
    PROVE  CacheInv'
<1> DEFINE new == [module |-> m, plan |-> Plan(m), result |-> Pending, published |-> FALSE]
<1> DEFINE n == Len(jobs)
<1>1. /\ jobs \in Seq(Jobs) /\ n \in Nat
      /\ jobs' = Append(jobs, new)
      /\ cpuCompilations' = [cpuCompilations EXCEPT ![m] = n + 1]
      /\ bySemantics' = bySemantics
  BY DEF CacheInv, CompileCpuModule
<1>2. Plan(m) \in Plans
  <2>1. Pending \in Results
    BY DEF Results
  <2>2. cpuCompilations[Reference[m]] \in Nat \/ Reference[m] = NoModule
    BY CacheAssumption DEF CacheInv, CacheAssumption
  <2> QED
    BY <2>1, <2>2, CachedIsSound DEF Plan, Plans
<1>3. new \in Jobs
  BY <1>2 DEF Jobs, Results
<1>4. /\ jobs' \in Seq(Jobs) /\ Len(jobs') = n + 1
      /\ jobs'[n + 1] = new
      /\ \A i \in 1 .. n : jobs'[i] = jobs[i]
  BY <1>1, <1>3, AppendProperties
<1>5. cpuCompilations' \in [Modules -> 0 .. Len(jobs')]
  BY <1>1, <1>4 DEF CacheInv
<1>6. ASSUME NEW k \in Modules, cpuCompilations'[k] # 0
      PROVE  jobs'[cpuCompilations'[k]].module = k
  <2>1. CASE k = m
    BY <1>1, <1>4, <2>1 DEF CacheInv
  <2>2. CASE k # m
    BY <1>1, <1>4, <1>6, <2>2 DEF CacheInv
  <2> QED
    BY <2>1, <2>2
<1>7. PlanIsSound(jobs', n + 1)
  <2> DEFINE plan == jobs'[n + 1].plan
  <2>0. plan = Plan(m) /\ jobs'[n + 1].module = m
    BY <1>4
  <2>1. CASE Fingerprint(m) \in Keys
    <3>1. plan = [kind |-> "semantics", from |-> Cached(Fingerprint(m)).result, job |-> 0]
      BY <2>0, <2>1 DEF Plan
    <3> QED
      BY <2>0, <2>1, <3>1, CachedIsSound DEF PlanIsSound, EntryIsSound
  <2>2. CASE /\ Fingerprint(m) \notin Keys
             /\ Reference[m] # NoModule /\ cpuCompilations[Reference[m]] # 0
    <3>1. plan = [kind |-> "literal-update", from |-> Pending, job |-> cpuCompilations[Reference[m]]]
      BY <2>0, <2>2 DEF Plan
    <3>2. /\ Reference[m] \in Modules
          /\ cpuCompilations[Reference[m]] \in 1 .. n
          /\ jobs[cpuCompilations[Reference[m]]].module = Reference[m]
      BY <2>2, CacheAssumption DEF CacheInv, CacheAssumption
    <3>3. jobs'[plan.job].module = Reference[m]
      BY <1>4, <3>1, <3>2
    <3>4. plan.kind = "literal-update" /\ plan.job \in 1 .. (n + 1) - 1
      BY <1>1, <3>1, <3>2
    <3> QED
      BY <2>0, <2>2, <3>3, <3>4 DEF PlanIsSound
  <2>3. CASE /\ Fingerprint(m) \notin Keys
             /\ ~(Reference[m] # NoModule /\ cpuCompilations[Reference[m]] # 0)
    <3>1. plan = [kind |-> "none", from |-> Pending, job |-> 0]
      BY <2>0, <2>3 DEF Plan
    <3> QED
      BY <3>1 DEF PlanIsSound
  <2> QED
    BY <2>1, <2>2, <2>3
<1>8. ASSUME NEW i \in 1 .. n PROVE PlanIsSound(jobs', i) /\ ResultIsSound(jobs'[i])
  <2>1. PlanIsSound(jobs, i) /\ ResultIsSound(jobs[i])
    BY DEF CacheInv
  <2>2. jobs'[i] = jobs[i]
    BY <1>4
  <2>3. \A j \in 1 .. i - 1 : jobs'[j] = jobs[j]
    BY <1>1, <1>4
  <2> QED
    BY <2>1, <2>2, <2>3 DEF PlanIsSound, ResultIsSound, EntryIsSound
<1>9. ResultIsSound(jobs'[n + 1])
  <2>1. jobs'[n + 1].result = Pending
    BY <1>4
  <2> QED
    BY <2>1 DEF ResultIsSound
<1>10. \A i \in 1 .. Len(jobs') : PlanIsSound(jobs', i) /\ ResultIsSound(jobs'[i])
  <2>1. \A i \in 1 .. Len(jobs') : i \in 1 .. n \/ i = n + 1
    BY <1>1, <1>4
  <2> QED
    BY <2>1, <1>7, <1>8, <1>9
<1>11. \A i \in 1 .. Len(bySemantics') : EntryIsSound(bySemantics'[i])
  BY <1>1 DEF CacheInv
<1> QED
  BY <1>1, <1>4, <1>5, <1>6, <1>10, <1>11 DEF CacheInv, EntryIsSound

(* A job settles with what its module compiles to, or rejects.             *)
LEMMA AnswerIsSound ==
    ASSUME CacheInv, NEW i \in 1 .. Len(jobs), NEW answer \in Answers(i)
    PROVE  answer \in {Rejected, Compiled(jobs[i].module)}
<1> DEFINE m == jobs[i].module
<1> DEFINE plan == jobs[i].plan
<1>1. /\ jobs[i] \in Jobs /\ m \in Modules /\ plan \in Plans
      /\ PlanIsSound(jobs, i)
  <2>1. jobs \in Seq(Jobs) /\ PlanIsSound(jobs, i)
    BY DEF CacheInv
  <2>2. jobs[i] \in Jobs
    BY <2>1, ElementOfSeq
  <2> QED
    BY <2>1, <2>2 DEF Jobs
<1>2. CASE plan.kind = "none"
  BY <1>2 DEF Answers
<1>3. CASE plan.kind = "semantics"
  <2>1. answer = RebindCompiledModuleSource(plan.from, m)
    BY <1>3 DEF Answers
  <2>2. EntryIsSound([key |-> Fingerprint(m), result |-> plan.from])
    BY <1>1, <1>3 DEF PlanIsSound
  <2> QED
    BY <1>1, <2>1, <2>2, RebindIsCompiled
<1>4. CASE plan.kind = "literal-update"
  <2> DEFINE r == Reference[m]
  <2> DEFINE source == jobs[plan.job].result
  <2>1. r # NoModule /\ plan.job \in 1 .. i - 1 /\ jobs[plan.job].module = r
    BY <1>1, <1>4 DEF PlanIsSound
  <2>2. plan.job \in 1 .. Len(jobs)
    BY <2>1
  <2>3. source \in {Pending, Rejected, Compiled(r)}
    BY <2>1, <2>2 DEF CacheInv, ResultIsSound
  <2>4. r \in Modules /\ Shape[m] = Shape[r]
    BY <1>1, <2>1, CacheAssumption DEF CacheAssumption
  <2>5. \/ source.status = "ok" /\ answer = ApplyCompiledLiteralUpdate(source, m)
        \/ source.status \notin {"ok", "pending"} /\ answer = source
    BY <1>4 DEF Answers
  <2>6. CASE source.status = "ok"
    <3>1. source = Compiled(r) /\ Shape[r] \notin IllTyped
      BY <2>3, <2>4, <2>6, ResultsDiffer
    <3> QED
      BY <1>1, <2>1, <2>4, <2>5, <2>6, <3>1, UpdateIsCompiled
  <2>7. CASE source.status # "ok"
    <3>1. answer = source /\ source # Pending
      BY <2>5, <2>7, SMTT(40) DEF Pending
    <3>2. CASE source = Rejected
      BY <3>1, <3>2
    <3>3. CASE source = Compiled(r)
      <4>1. Shape[r] \in IllTyped
        BY <2>4, <2>7, <3>3, ResultsDiffer
      <4>2. Compiled(r) = Compiled(m)
        BY <2>4, <4>1 DEF Compiled
      <4> QED
        BY <3>1, <3>3, <4>2
    <3> QED
      BY <2>3, <3>1, <3>2, <3>3
  <2> QED
    BY <2>6, <2>7
<1> QED
  BY <1>1, <1>2, <1>3, <1>4 DEF Plans

(* A job changes its result or its published mark and nothing else: what   *)
(* was promised to the jobs stays true.                                    *)
LEMMA JobUpdate ==
    ASSUME CacheInv, NEW i \in 1 .. Len(jobs),
           NEW job \in Jobs,
           job.module = jobs[i].module, job.plan = jobs[i].plan,
           job.result \in {Pending, Rejected, Compiled(job.module)},
           jobs' = [jobs EXCEPT ![i] = job]
    PROVE  /\ jobs' \in Seq(Jobs) /\ Len(jobs') = Len(jobs)
           /\ \A k \in 1 .. Len(jobs) : jobs'[k].module = jobs[k].module
           /\ \A k \in 1 .. Len(jobs') : PlanIsSound(jobs', k) /\ ResultIsSound(jobs'[k])
<1>1. jobs' \in Seq(Jobs) /\ Len(jobs') = Len(jobs) /\ Len(jobs) \in Nat
  BY ExceptSeq DEF CacheInv
<1>2. \A k \in 1 .. Len(jobs) : jobs'[k] = IF k = i THEN job ELSE jobs[k]
  BY ExceptSeq DEF CacheInv
<1>3. \A k \in 1 .. Len(jobs) : jobs'[k].module = jobs[k].module /\ jobs'[k].plan = jobs[k].plan
  BY <1>2
<1>4. ASSUME NEW k \in 1 .. Len(jobs) PROVE PlanIsSound(jobs', k)
  <2>1. PlanIsSound(jobs, k)
    BY DEF CacheInv
  <2>2. jobs'[k].plan = jobs[k].plan /\ jobs'[k].module = jobs[k].module
    BY <1>3
  <2>3. \A j \in 1 .. k - 1 : jobs'[j].module = jobs[j].module
    BY <1>1, <1>3
  <2> QED
    BY <2>1, <2>2, <2>3 DEF PlanIsSound, EntryIsSound
<1>5. ASSUME NEW k \in 1 .. Len(jobs) PROVE ResultIsSound(jobs'[k])
  BY <1>2 DEF CacheInv, ResultIsSound
<1> QED
  BY <1>1, <1>3, <1>4, <1>5

(* The promise of a job settles.                                           *)
LEMMA SettleInv ==
    ASSUME CacheInv, NEW i \in 1 .. Len(jobs), Settle(i)
    PROVE  CacheInv'
<1>1. PICK answer \in Answers(i) : jobs' = [jobs EXCEPT ![i].result = answer]
  BY DEF Settle
<1>2. UNCHANGED <<cpuCompilations, bySemantics>>
  BY DEF Settle
<1> DEFINE job == [jobs[i] EXCEPT !.result = answer]
<1>3. jobs[i] \in Jobs
  BY ElementOfSeq DEF CacheInv
<1>4. answer \in {Rejected, Compiled(jobs[i].module)}
  BY <1>1, AnswerIsSound
<1>5. answer \in Results
  BY <1>3, <1>4 DEF Jobs, Results
<1>6. job \in Jobs /\ job.module = jobs[i].module /\ job.plan = jobs[i].plan /\ job.result = answer
  BY <1>3, <1>5 DEF Jobs
<1>7. jobs' = [jobs EXCEPT ![i] = job]
  BY <1>1
<1>8. job.result \in {Pending, Rejected, Compiled(job.module)}
  BY <1>4, <1>6
<1> HIDE DEF job
<1>9. /\ jobs' \in Seq(Jobs) /\ Len(jobs') = Len(jobs)
      /\ \A k \in 1 .. Len(jobs) : jobs'[k].module = jobs[k].module
      /\ \A k \in 1 .. Len(jobs') : PlanIsSound(jobs', k) /\ ResultIsSound(jobs'[k])
  BY <1>6, <1>7, <1>8, JobUpdate
<1>10. /\ cpuCompilations' \in [Modules -> 0 .. Len(jobs')]
       /\ \A m \in Modules : cpuCompilations'[m] # 0 => jobs'[cpuCompilations'[m]].module = m
  <2>1. /\ cpuCompilations \in [Modules -> 0 .. Len(jobs)] /\ Len(jobs) \in Nat
        /\ \A m \in Modules : cpuCompilations[m] # 0 => jobs[cpuCompilations[m]].module = m
    BY DEF CacheInv
  <2> QED
    BY <1>2, <1>9, <2>1
<1>11. /\ bySemantics' \in Seq(Entries)
       /\ \A k \in 1 .. Len(bySemantics') : EntryIsSound(bySemantics'[k])
  BY <1>2 DEF CacheInv
<1> QED
  BY <1>9, <1>10, <1>11 DEF CacheInv

(* The trimmed cache holds no entry that was not there.                    *)
LEMMA TrimmedKeeps ==
    ASSUME NEW entries \in Seq(Entries)
    PROVE  /\ Trimmed(entries) \in Seq(Entries)
           /\ \A k \in 1 .. Len(Trimmed(entries)) :
                 \E j \in 1 .. Len(entries) : Trimmed(entries)[k] = entries[j]
<1>1. Len(entries) \in Nat /\ MaxSemantic \in Nat \ {0}
  BY CacheAssumption DEF CacheAssumption
<1>2. CASE Len(entries) > MaxSemantic
  <2> DEFINE m == Len(entries) - MaxSemantic + 1
  <2>1. m \in 1 .. Len(entries) + 1
    BY <1>1, <1>2
  <2>2. Trimmed(entries) = SubSeq(entries, m, Len(entries))
    BY <1>2 DEF Trimmed
  <2>3. \A j \in m .. Len(entries) : j \in 1 .. Len(entries) /\ entries[j] \in Entries
    BY <2>1, <1>1, ElementOfSeq
  <2> HIDE DEF m
  <2>4. /\ SubSeq(entries, m, Len(entries)) \in Seq(Entries)
        /\ Len(SubSeq(entries, m, Len(entries))) = Len(entries) - m + 1
        /\ \A k \in 1 .. Len(entries) - m + 1 : SubSeq(entries, m, Len(entries))[k] = entries[m + k - 1]
    BY <1>1, <2>1, <2>3, SubSeqProperties
  <2>5. \A k \in 1 .. Len(entries) - m + 1 : m + k - 1 \in 1 .. Len(entries)
    BY <1>1, <2>1
  <2> QED
    BY <2>2, <2>4, <2>5
<1>3. CASE ~(Len(entries) > MaxSemantic)
  BY <1>3 DEF Trimmed
<1> QED
  BY <1>2, <1>3

(* Setting a key gives a cache of the old entries and the new one.         *)
LEMMA WithEntryKeeps ==
    ASSUME CacheInv, NEW key, NEW result, [key |-> key, result |-> result] \in Entries
    PROVE  /\ WithEntry(key, result) \in Seq(Entries)
           /\ \A k \in 1 .. Len(WithEntry(key, result)) :
                 \/ WithEntry(key, result)[k] = [key |-> key, result |-> result]
                 \/ \E j \in 1 .. Len(bySemantics) : WithEntry(key, result)[k] = bySemantics[j]
<1> DEFINE new == [key |-> key, result |-> result]
<1>1. bySemantics \in Seq(Entries) /\ Len(bySemantics) \in Nat
  BY DEF CacheInv
<1>2. CASE key \in Keys
  <2> DEFINE s == [i \in 1 .. Len(bySemantics) |-> IF bySemantics[i].key = key THEN new ELSE bySemantics[i]]
  <2>1. WithEntry(key, result) = s
    BY <1>2 DEF WithEntry
  <2>2. \A i \in 1 .. Len(bySemantics) : s[i] \in Entries
    BY <1>1, ElementOfSeq
  <2>3. s \in Seq(Entries) /\ Len(s) = Len(bySemantics)
    BY <1>1, <2>2, IsASeq
  <2> QED
    BY <2>1, <2>3
<1>3. CASE key \notin Keys
  <2>1. WithEntry(key, result) = Append(bySemantics, new)
    BY <1>3 DEF WithEntry
  <2> HIDE DEF new
  <2>2. /\ Append(bySemantics, new) \in Seq(Entries)
        /\ Len(Append(bySemantics, new)) = Len(bySemantics) + 1
        /\ \A i \in 1 .. Len(bySemantics) : Append(bySemantics, new)[i] = bySemantics[i]
        /\ Append(bySemantics, new)[Len(bySemantics) + 1] = new
    BY <1>1, AppendProperties DEF new
  <2>3. \A k \in 1 .. Len(bySemantics) + 1 : k \in 1 .. Len(bySemantics) \/ k = Len(bySemantics) + 1
    BY <1>1
  <2> QED
    BY <2>1, <2>2, <2>3 DEF new
<1> QED
  BY <1>2, <1>3

(* The callbacks of a job enter what its module compiles to.               *)
LEMMA PublishInv ==
    ASSUME CacheInv, NEW i \in 1 .. Len(jobs), Publish(i)
    PROVE  CacheInv'
<1> DEFINE m == jobs[i].module
<1> DEFINE new == [key |-> Fingerprint(m), result |-> jobs[i].result]
<1> DEFINE job == [jobs[i] EXCEPT !.published = TRUE]
<1>1. jobs[i] \in Jobs /\ ResultIsSound(jobs[i]) /\ m \in Modules
  <2>1. jobs[i] \in Jobs
    BY ElementOfSeq DEF CacheInv
  <2> QED
    BY <2>1 DEF CacheInv, Jobs
<1>2. job \in Jobs /\ job.module = m /\ job.plan = jobs[i].plan /\ job.result = jobs[i].result
  BY <1>1 DEF Jobs
<1>3. jobs' = [jobs EXCEPT ![i] = job]
  BY DEF Publish
<1>4. job.result \in {Pending, Rejected, Compiled(job.module)}
  BY <1>1, <1>2 DEF ResultIsSound
<1>5. /\ jobs' \in Seq(Jobs) /\ Len(jobs') = Len(jobs)
      /\ \A k \in 1 .. Len(jobs) : jobs'[k].module = jobs[k].module
      /\ \A k \in 1 .. Len(jobs') : PlanIsSound(jobs', k) /\ ResultIsSound(jobs'[k])
  <2> HIDE DEF job
  <2> QED
    BY <1>2, <1>3, <1>4, JobUpdate
<1>6. /\ cpuCompilations' \in [Modules -> 0 .. Len(jobs')]
      /\ \A k \in Modules : cpuCompilations'[k] # 0 => jobs'[cpuCompilations'[k]].module = k
  <2>1. \/ cpuCompilations' = cpuCompilations
        \/ cpuCompilations' = [cpuCompilations EXCEPT ![m] = 0]
    BY DEF Publish
  <2>2. /\ cpuCompilations \in [Modules -> 0 .. Len(jobs)] /\ Len(jobs) \in Nat
        /\ \A k \in Modules : cpuCompilations[k] # 0 => jobs[cpuCompilations[k]].module = k
    BY DEF CacheInv
  <2>3. cpuCompilations' \in [Modules -> 0 .. Len(jobs)]
    BY <2>1, <2>2
  <2>4. \A k \in Modules : cpuCompilations'[k] \in {0, cpuCompilations[k]}
    BY <2>1, <2>2
  <2> QED
    BY <1>5, <2>2, <2>3, <2>4
<1>7. CASE jobs[i].result.status = "ok" /\ jobs[i].plan.kind # "semantics"
  <2> DEFINE s == WithEntry(Fingerprint(m), jobs[i].result)
  <2>1. bySemantics' = Trimmed(s)
    BY <1>7 DEF Publish
  <2>2. jobs[i].result = Compiled(m) /\ Shape[m] \notin IllTyped
    BY <1>1, <1>7, ResultsDiffer DEF ResultIsSound
  <2>3. new \in Entries /\ EntryIsSound(new)
    BY <1>1, <2>2 DEF Entries, EntryIsSound, Jobs
  <2>4. /\ s \in Seq(Entries)
        /\ \A k \in 1 .. Len(s) : s[k] = new \/ \E j \in 1 .. Len(bySemantics) : s[k] = bySemantics[j]
    BY <2>3, WithEntryKeeps
  <2>5. \A k \in 1 .. Len(s) : EntryIsSound(s[k])
    BY <2>3, <2>4 DEF CacheInv
  <2> HIDE DEF s
  <2>6. /\ Trimmed(s) \in Seq(Entries)
        /\ \A k \in 1 .. Len(Trimmed(s)) : EntryIsSound(Trimmed(s)[k])
    BY <2>4, <2>5, TrimmedKeeps
  <2>7. /\ bySemantics' \in Seq(Entries)
        /\ \A k \in 1 .. Len(bySemantics') : EntryIsSound(bySemantics'[k])
    BY <2>1, <2>6
  <2> QED
    BY <1>5, <1>6, <2>7 DEF CacheInv
<1>8. CASE ~(jobs[i].result.status = "ok" /\ jobs[i].plan.kind # "semantics")
  <2>1. bySemantics' = bySemantics
    BY <1>8 DEF Publish
  <2> QED
    BY <1>5, <1>6, <2>1 DEF CacheInv
<1> QED
  BY <1>7, <1>8

-----------------------------------------------------------------------------
(* The batches on the device.                                              *)

Places == Ended \cup {"idle", "checking", "restoring", "admitting", "dispatched", "compiled", "publishing"}

AnswerSet == {Unanswered} \cup {Refused(i) : i \in Indices} \cup {Built(i) : i \in Indices}

BatchTypes ==
    /\ stage \in [Batches -> Places]
    /\ candidates \in [Batches -> Seq(Indices)]
    /\ accepted \in [Batches -> Seq(Indices)]
    /\ results \in [Batches -> [Indices -> AnswerSet]]
    /\ compiled \in [Batches -> Seq(AnswerSet)]
    /\ next \in [Batches -> Nat \ {0}]
    /\ aborted \subseteq Batches
    /\ live \subseteq Batches \X Indices

(* The modules whose answer is still to come.                              *)
Waiting(b) == Members(candidates[b]) \cup {accepted[b][k] : k \in next[b] .. Len(accepted[b])}

(* No module is in the lists of a batch twice.                             *)
ListsOK(b) ==
    /\ Injective(candidates[b]) /\ Injective(accepted[b])
    /\ Members(candidates[b]) \cap Members(accepted[b]) = {}
    /\ stage[b] \notin {"checking", "restoring", "rejected"} => candidates[b] = <<>>
    /\ stage[b] \notin {"publishing", "returned", "rejected"} => next[b] = 1
    /\ stage[b] = "returned" => Waiting(b) = {}

(* What the semantic compiler answered is about the accepted modules, in   *)
(* their order.                                                            *)
CompiledOK(b) ==
    /\ stage[b] \in {"compiled", "publishing"} =>
         /\ Len(compiled[b]) = Len(accepted[b])
         /\ \A k \in 1 .. Len(accepted[b]) : compiled[b][k] \in {Built(accepted[b][k]), Refused(accepted[b][k])}
    /\ stage[b] \notin {"compiled", "publishing", "returned", "rejected"} => compiled[b] = <<>>

(* Exactly the modules that wait have no answer.                           *)
ResultsOK(b) ==
    /\ \A i \in Indices : results[b][i] \in {Unanswered, Refused(i), Built(i)}
    /\ stage[b] = "idle" => \A i \in Indices : results[b][i] = Unanswered
    /\ stage[b] \notin {"idle", "rejected"} =>
         \A i \in Indices : results[b][i] = Unanswered <=> i \in Waiting(b)

(* A buffer belongs to a published module, or to one that is about to be.  *)
OwnedOK(b) ==
    /\ stage[b] # "rejected" => \A i \in Indices : <<b, i>> \in live =>
         \/ results[b][i] = Built(i)
         \/ /\ stage[b] \in {"compiled", "publishing"}
            /\ \E k \in next[b] .. Len(accepted[b]) : accepted[b][k] = i /\ compiled[b][k] = Built(i)
    /\ stage[b] = "rejected" => live \cap CompiledBuffers(b) = {}

BatchOK(b) == ListsOK(b) /\ CompiledOK(b) /\ ResultsOK(b) /\ OwnedOK(b)

BatchInv == BatchTypes /\ \A b \in Batches : BatchOK(b)

(* A step of one batch leaves the others alone, but for buffers that go.   *)
Untouched(b) ==
    /\ stage'[b] = stage[b] /\ candidates'[b] = candidates[b] /\ accepted'[b] = accepted[b]
    /\ results'[b] = results[b] /\ compiled'[b] = compiled[b] /\ next'[b] = next[b]
    /\ \A i : <<b, i>> \in live' => <<b, i>> \in live

(* The four kinds of answer are told apart.                                *)
LEMMA AnswersDiffer ==
    ASSUME NEW i \in Indices, NEW j \in Indices
    PROVE  /\ Unanswered # Refused(i) /\ Unanswered # Built(i) /\ Refused(i) # Built(j)
           /\ Built(i).kind = "module" /\ Refused(i).kind = "diagnostics" /\ Unanswered.kind = "pending"
           /\ Built(i).of = i /\ Refused(i).of = i
           /\ Built(i) \in AnswerSet /\ Refused(i) \in AnswerSet /\ Unanswered \in AnswerSet
BY DEF Unanswered, Refused, Built, AnswerSet

(* An untouched batch keeps its part of the invariant.                     *)
LEMMA UntouchedKeeps ==
    ASSUME NEW b \in Batches, BatchOK(b), Untouched(b)
    PROVE  BatchOK(b)'
<1>1. ListsOK(b)'
  BY DEF BatchOK, ListsOK, Untouched, Waiting
<1>2. CompiledOK(b)'
  BY DEF BatchOK, CompiledOK, Untouched
<1>3. ResultsOK(b)'
  BY DEF BatchOK, ResultsOK, Untouched, Waiting
<1>4. OwnedOK(b)'
  <2>1. CompiledBuffers(b)' = CompiledBuffers(b)
    BY DEF CompiledBuffers, Untouched
  <2>2. CASE stage[b] # "rejected"
    BY <2>2 DEF BatchOK, OwnedOK, Untouched
  <2>3. CASE stage[b] = "rejected"
    <3>1. live \cap CompiledBuffers(b) = {}
      BY <2>3 DEF BatchOK, OwnedOK
    <3>2. \A x \in CompiledBuffers(b) : x \in live' => x \in live
      BY DEF CompiledBuffers, Untouched
    <3> QED
      BY <2>1, <2>3, <3>1, <3>2 DEF OwnedOK, Untouched
  <2> QED
    BY <2>2, <2>3
<1> QED
  BY <1>1, <1>2, <1>3, <1>4 DEF BatchOK

(* Every module once, in the order of the batch.                           *)
LEMMA InOrderFacts ==
    ASSUME NEW set \in SUBSET Indices
    PROVE  /\ InOrder(set) \in Seq(Indices)
           /\ Members(InOrder(set)) = set
           /\ Injective(InOrder(set))
<1> DEFINE all == [i \in 1 .. Size |-> i]
<1>1. Size \in Nat
  BY BatchAssumption DEF BatchAssumption
<1>2. all \in Seq(Indices) /\ Len(all) = Size
  BY <1>1 DEF Indices
<1>3. Members(all) = Indices /\ Injective(all)
  BY <1>2 DEF Members, Injective, Indices
<1>4. InOrder(set) = Selected(all, set)
  BY DEF InOrder
<1> HIDE DEF all
<1>5. Selected(all, set) \in Seq(Indices) /\ Members(Selected(all, set)) = Members(all) \cap set
  BY <1>2, SelectedProperties
<1>6. Injective(Selected(all, set))
  BY <1>2, <1>3, InjectiveSelected
<1> QED
  BY <1>3, <1>4, <1>5, <1>6

(* New batches.                                                            *)
LEMMA BatchInitInv == BatchInit => BatchInv
<1> SUFFICES ASSUME BatchInit PROVE BatchInv
  OBVIOUS
<1>1. BatchTypes
  BY DEF BatchInit, BatchTypes, Places, AnswerSet
<1>2. ASSUME NEW b \in Batches PROVE BatchOK(b)
  <2>1. candidates[b] = <<>> /\ accepted[b] = <<>> /\ compiled[b] = <<>> /\ next[b] = 1 /\ stage[b] = "idle"
        /\ \A i \in Indices : results[b][i] = Unanswered
    BY DEF BatchInit
  <2>2. ListsOK(b)
    BY <2>1, MembersOfEmpty DEF ListsOK
  <2>3. CompiledOK(b) /\ ResultsOK(b)
    BY <2>1 DEF CompiledOK, ResultsOK
  <2>4. OwnedOK(b)
    BY <2>1 DEF OwnedOK, BatchInit
  <2> QED
    BY <2>2, <2>3, <2>4 DEF BatchOK
<1> QED
  BY <1>1, <1>2 DEF BatchInv

(* A batch that throws keeps its lists, and no buffer that was compiled.   *)
LEMMA RejectInv ==
    ASSUME BatchInv, NEW b \in Batches, Goes(b, "rejected"), UNCHANGED <<lists, results>>,
           aborted' \subseteq Batches, live' \subseteq live, live' \cap CompiledBuffers(b) = {}
    PROVE  BatchInv'
<1>0. BatchTypes /\ BatchOK(b) /\ stage' = [stage EXCEPT ![b] = "rejected"]
  BY DEF BatchInv, Goes
<1>1. BatchTypes'
  BY <1>0 DEF BatchTypes, lists, Places, Ended
<1>2. stage'[b] = "rejected"
  BY <1>0 DEF BatchTypes
<1>3. ListsOK(b)'
  BY <1>0, <1>2 DEF BatchOK, ListsOK, lists
<1>4. CompiledOK(b)' /\ ResultsOK(b)'
  BY <1>0, <1>2 DEF BatchOK, CompiledOK, ResultsOK, lists
<1>5. OwnedOK(b)'
  <2>1. CompiledBuffers(b)' = CompiledBuffers(b)
    BY DEF CompiledBuffers, lists
  <2> QED
    BY <1>2, <2>1 DEF OwnedOK
<1>6. ASSUME NEW c \in Batches \ {b} PROVE BatchOK(c)'
  <2>1. Untouched(c)
    BY <1>0 DEF Untouched, BatchTypes, lists
  <2> QED
    BY <2>1, UntouchedKeeps DEF BatchInv
<1> QED
  BY <1>1, <1>3, <1>4, <1>5, <1>6 DEF BatchInv, BatchOK

(* Before the semantic compiler answers nothing is compiled.               *)
LEMMA NothingCompiled ==
    ASSUME BatchInv, NEW b \in Batches,
           stage[b] \notin {"compiled", "publishing", "returned", "rejected"}
    PROVE  CompiledBuffers(b) = {}
<1>1. compiled[b] = <<>>
  BY DEF BatchInv, BatchOK, CompiledOK
<1> QED
  BY <1>1 DEF CompiledBuffers

(* The loop over the modules sorts them, and leaves no one out.            *)
LEMMA CheckEnvelopesInv ==
    ASSUME BatchInv, NEW b \in Batches, CheckEnvelopes(b)
    PROVE  BatchInv'
<1>0. BatchTypes /\ BatchOK(b) /\ stage[b] = "idle"
  BY DEF BatchInv, CheckEnvelopes
<1>a. /\ ListsOK(b) /\ CompiledOK(b) /\ ResultsOK(b) /\ OwnedOK(b)
      /\ candidates[b] = <<>> /\ next[b] = 1 /\ compiled[b] = <<>>
      /\ \A i \in Indices : results[b][i] = Unanswered
  BY <1>0 DEF BatchOK, ListsOK, CompiledOK, ResultsOK
<1>b. \A i \in Indices : <<b, i>> \notin live
  BY <1>0, <1>a, AnswersDiffer DEF OwnedOK
<1>c. aborted' = aborted /\ live' = live
  BY DEF CheckEnvelopes
<1>1. CASE Goes(b, "rejected") /\ UNCHANGED <<lists, results>>
  <2>1. stage' = [stage EXCEPT ![b] = "rejected"] /\ UNCHANGED <<lists, results>>
    BY <1>1 DEF Goes
  <2>2. CompiledBuffers(b) = {} /\ aborted \subseteq Batches
    BY <1>0, NothingCompiled DEF BatchTypes
  <2> QED
    BY <1>c, <2>1, <2>2, RejectInv DEF Goes
<1>2. CASE ~(Goes(b, "rejected") /\ UNCHANGED <<lists, results>>)
  <2>1. PICK refused \in SUBSET Indices, certified \in SUBSET Indices :
          /\ certified \cap refused = {}
          /\ results' = [results EXCEPT ![b] =
                           [i \in Indices |-> IF i \in refused THEN Refused(i) ELSE Unanswered]]
          /\ candidates' = [candidates EXCEPT ![b] = InOrder(certified)]
          /\ accepted' = [accepted EXCEPT ![b] = InOrder(Indices \ (refused \cup certified))]
          /\ stage' = [stage EXCEPT ![b] = IF certified # {} THEN "checking"
                          ELSE IF refused = Indices THEN "returned" ELSE "admitting"]
          /\ UNCHANGED <<compiled, next>>
    BY <1>2 DEF CheckEnvelopes, Goes
  <2> DEFINE rest == Indices \ (refused \cup certified)
  <2>2. /\ InOrder(certified) \in Seq(Indices) /\ Members(InOrder(certified)) = certified
        /\ Injective(InOrder(certified))
    BY InOrderFacts
  <2>3. /\ InOrder(rest) \in Seq(Indices) /\ Members(InOrder(rest)) = rest /\ Injective(InOrder(rest))
    BY InOrderFacts
  <2>4. [i \in Indices |-> IF i \in refused THEN Refused(i) ELSE Unanswered] \in [Indices -> AnswerSet]
    BY DEF AnswerSet
  <2>5. BatchTypes'
    BY <1>0, <1>c, <2>1, <2>2, <2>3, <2>4 DEF BatchTypes, Places, Ended
  <2>6. /\ candidates'[b] = InOrder(certified) /\ accepted'[b] = InOrder(rest)
        /\ compiled'[b] = <<>> /\ next'[b] = 1
        /\ stage'[b] = IF certified # {} THEN "checking"
                       ELSE IF refused = Indices THEN "returned" ELSE "admitting"
        /\ \A i \in Indices : results'[b][i] = IF i \in refused THEN Refused(i) ELSE Unanswered
    BY <1>0, <1>a, <2>1 DEF BatchTypes
  <2>7. Waiting(b)' = certified \cup rest
    <3>1. Waiting(b)' = Members(candidates'[b]) \cup {accepted'[b][k] : k \in next'[b] .. Len(accepted'[b])}
      BY DEF Waiting
    <3>2. {accepted'[b][k] : k \in next'[b] .. Len(accepted'[b])} = Members(InOrder(rest))
      BY <2>6 DEF Members
    <3> QED
      BY <2>2, <2>3, <2>6, <3>1, <3>2
  <2>8. certified = {} => InOrder(certified) = <<>>
    <3>1. ASSUME InOrder(certified) # <<>> PROVE certified # {}
      <4>1. Len(InOrder(certified)) \in Nat \ {0}
        BY <2>2, <3>1, EmptySeq
      <4>2. InOrder(certified)[1] \in Members(InOrder(certified))
        BY <4>1 DEF Members
      <4> QED
        BY <2>2, <4>2
    <3> QED
      BY <3>1
  <2>9. ListsOK(b)'
    <3>1. Injective(candidates'[b]) /\ Injective(accepted'[b]) /\ Members(candidates'[b]) \cap Members(accepted'[b]) = {}
      BY <2>2, <2>3, <2>6
    <3>2. stage'[b] \notin {"checking", "restoring", "rejected"} => candidates'[b] = <<>>
      BY <2>6, <2>8
    <3>3. stage'[b] = "returned" => Waiting(b)' = {}
      BY <2>6, <2>7
    <3> QED
      BY <2>6, <3>1, <3>2, <3>3 DEF ListsOK
  <2>10. CompiledOK(b)'
    BY <2>6 DEF CompiledOK
  <2>11. ResultsOK(b)'
    <3>1. ASSUME NEW i \in Indices
          PROVE  /\ results'[b][i] \in {Unanswered, Refused(i), Built(i)}
                 /\ results'[b][i] = Unanswered <=> i \in Waiting(b)'
      <4>1. i \in Waiting(b)' <=> i \notin refused
        BY <2>1, <2>7
      <4> QED
        BY <2>6, <4>1, AnswersDiffer
    <3>2. stage'[b] # "idle"
      BY <2>6
    <3> QED
      BY <3>1, <3>2 DEF ResultsOK
  <2>12. OwnedOK(b)'
    BY <1>b, <1>c, <2>6 DEF OwnedOK
  <2>13. ASSUME NEW c \in Batches \ {b} PROVE BatchOK(c)'
    <3>1. Untouched(c)
      BY <1>0, <1>c, <2>1 DEF Untouched, BatchTypes
    <3> QED
      BY <3>1, UntouchedKeeps DEF BatchInv
  <2> QED
    BY <2>5, <2>9, <2>10, <2>11, <2>12, <2>13 DEF BatchInv, BatchOK
<1> QED
  BY <1>1, <1>2

(* The confirmed candidates are to be restored, the others to be compiled. *)
LEMMA ChecksReturnInv ==
    ASSUME BatchInv, NEW b \in Batches, NEW confirmed \in SUBSET Indices, ChecksReturn(b, confirmed)
    PROVE  BatchInv'
<1> DEFINE kept == Selected(candidates[b], confirmed)
<1> DEFINE others == Selected(candidates[b], Indices \ confirmed)
<1>0. /\ BatchTypes /\ BatchOK(b) /\ stage[b] = "checking"
      /\ candidates[b] \in Seq(Indices) /\ accepted[b] \in Seq(Indices)
      /\ stage' = [stage EXCEPT ![b] = "restoring"]
      /\ candidates' = [candidates EXCEPT ![b] = kept]
      /\ accepted' = [accepted EXCEPT ![b] = accepted[b] \o others]
      /\ UNCHANGED <<results, compiled, next, aborted, live>>
  BY DEF BatchInv, BatchTypes, ChecksReturn, Goes
<1>1. /\ Injective(candidates[b]) /\ Injective(accepted[b]) /\ next[b] = 1
      /\ Members(candidates[b]) \cap Members(accepted[b]) = {}
      /\ compiled[b] = <<>>
  BY <1>0 DEF BatchOK, ListsOK, CompiledOK
<1>2. /\ kept \in Seq(Indices) /\ Injective(kept)
      /\ Members(kept) = Members(candidates[b]) \cap confirmed
  BY <1>0, <1>1, SelectedProperties, InjectiveSelected
<1>3. /\ others \in Seq(Indices) /\ Injective(others)
      /\ Members(others) = Members(candidates[b]) \cap (Indices \ confirmed)
  BY <1>0, <1>1, SelectedProperties, InjectiveSelected
<1> HIDE DEF kept, others
<1>4. /\ accepted[b] \o others \in Seq(Indices)
      /\ Members(accepted[b] \o others) = Members(accepted[b]) \cup Members(others)
      /\ Injective(accepted[b] \o others)
  <2>1. accepted[b] \o others \in Seq(Indices)
    BY <1>0, <1>3, ConcatProperties
  <2>2. Members(accepted[b]) \cap Members(others) = {}
    BY <1>1, <1>3
  <2> QED
    BY <1>0, <1>1, <1>3, <2>1, <2>2, MembersOfConcat, InjectiveConcat
<1>5. BatchTypes'
  BY <1>0, <1>2, <1>4 DEF BatchTypes, Places, Ended
<1>6. /\ stage'[b] = "restoring" /\ candidates'[b] = kept /\ accepted'[b] = accepted[b] \o others
      /\ results'[b] = results[b] /\ compiled'[b] = <<>> /\ next'[b] = 1
  BY <1>0, <1>1 DEF BatchTypes
<1>7. Waiting(b)' = Waiting(b)
  <2>1. Waiting(b) = Members(candidates[b]) \cup Members(accepted[b])
    BY <1>1 DEF Waiting, Members
  <2>2. Waiting(b)' = Members(kept) \cup Members(accepted[b] \o others)
    BY <1>6 DEF Waiting, Members
  <2>3. Members(candidates[b]) \subseteq Indices
    BY <1>0, MembersInSet
  <2> QED
    BY <1>2, <1>3, <1>4, <2>1, <2>2, <2>3
<1>8. ListsOK(b)'
  <2>1. Members(kept) \cap Members(accepted[b] \o others) = {}
    BY <1>1, <1>2, <1>3, <1>4
  <2> QED
    BY <1>2, <1>4, <1>6, <2>1 DEF ListsOK
<1>9. CompiledOK(b)'
  BY <1>6 DEF CompiledOK
<1>10. ResultsOK(b)'
  BY <1>0, <1>6, <1>7 DEF BatchOK, ResultsOK
<1>11. OwnedOK(b)'
  BY <1>0, <1>6 DEF BatchOK, OwnedOK
<1>12. ASSUME NEW c \in Batches \ {b} PROVE BatchOK(c)'
  <2>1. Untouched(c)
    BY <1>0 DEF Untouched, BatchTypes
  <2> QED
    BY <2>1, UntouchedKeeps DEF BatchInv
<1> QED
  BY <1>5, <1>8, <1>9, <1>10, <1>11, <1>12 DEF BatchInv, BatchOK

(* A restored module has its answer, and with it its buffers.              *)
LEMMA RestoreOneInv ==
    ASSUME BatchInv, NEW b \in Batches, RestoreOne(b)
    PROVE  BatchInv'
<1> DEFINE i == Head(candidates[b])
<1> DEFINE left == Tail(candidates[b])
<1>0. /\ BatchTypes /\ BatchOK(b) /\ stage[b] = "restoring"
      /\ candidates[b] \in Seq(Indices) /\ accepted[b] \in Seq(Indices) /\ candidates[b] # <<>>
      /\ live' = IF Output[b] = "gpu" THEN live \cup {<<b, i>>} ELSE live
      /\ results' = [results EXCEPT ![b][i] = Built(i)]
      /\ candidates' = [candidates EXCEPT ![b] = left]
      /\ UNCHANGED <<stage, accepted, compiled, next, aborted>>
  BY DEF BatchInv, BatchTypes, RestoreOne
<1>1. /\ Injective(candidates[b]) /\ Injective(accepted[b]) /\ next[b] = 1
      /\ Members(candidates[b]) \cap Members(accepted[b]) = {}
      /\ compiled[b] = <<>>
  BY <1>0 DEF BatchOK, ListsOK, CompiledOK
<1>2. i \in Indices /\ left \in Seq(Indices) /\ Members(candidates[b]) = {i} \cup Members(left)
  BY <1>0, MembersOfTail
<1>3. i \notin Members(left) /\ Injective(left)
  <2>1. /\ Len(candidates[b]) \in Nat \ {0} /\ i = candidates[b][1]
        /\ Len(left) = Len(candidates[b]) - 1
        /\ \A k \in 1 .. Len(candidates[b]) - 1 : left[k] = candidates[b][k + 1]
    BY <1>0, EmptySeq, HeadTailProperties
  <2> HIDE DEF i, left
  <2>2. ASSUME NEW k \in 1 .. Len(left) PROVE left[k] # i
    <3>1. k + 1 \in 1 .. Len(candidates[b]) /\ 1 \in 1 .. Len(candidates[b]) /\ k + 1 # 1
      BY <2>1
    <3> QED
      BY <1>1, <2>1, <3>1 DEF Injective
  <2>3. ASSUME NEW j \in 1 .. Len(left), NEW k \in 1 .. Len(left), left[j] = left[k] PROVE j = k
    <3>1. j + 1 \in 1 .. Len(candidates[b]) /\ k + 1 \in 1 .. Len(candidates[b])
      BY <2>1
    <3>2. candidates[b][j + 1] = candidates[b][k + 1]
      BY <2>1, <2>3
    <3>3. j + 1 = k + 1
      BY <1>1, <3>1, <3>2 DEF Injective
    <3> QED
      BY <2>1, <3>3
  <2> QED
    BY <2>2, <2>3 DEF Members, Injective
<1> HIDE DEF i, left
<1>4. /\ stage'[b] = "restoring" /\ candidates'[b] = left /\ accepted'[b] = accepted[b]
      /\ compiled'[b] = <<>> /\ next'[b] = 1
      /\ \A j \in Indices : results'[b][j] = IF j = i THEN Built(i) ELSE results[b][j]
  BY <1>0, <1>1, <1>2 DEF BatchTypes
<1>5. BatchTypes'
  <2>1. Built(i) \in AnswerSet
    BY <1>2, AnswersDiffer
  <2>2. results' \in [Batches -> [Indices -> AnswerSet]]
    BY <1>0, <1>2, <2>1 DEF BatchTypes
  <2>3. live' \subseteq Batches \X Indices
    BY <1>0, <1>2 DEF BatchTypes
  <2> QED
    BY <1>0, <1>2, <2>2, <2>3 DEF BatchTypes
<1>6. Waiting(b) = Members(candidates[b]) \cup Members(accepted[b])
  BY <1>1 DEF Waiting, Members
<1>7. Waiting(b)' = Waiting(b) \ {i}
  <2>1. Waiting(b)' = Members(left) \cup Members(accepted[b])
    BY <1>4 DEF Waiting, Members
  <2> QED
    BY <1>1, <1>2, <1>3, <1>6, <2>1
<1>8. ListsOK(b)'
  BY <1>1, <1>2, <1>3, <1>4 DEF ListsOK
<1>9. CompiledOK(b)'
  BY <1>4 DEF CompiledOK
<1>10. ResultsOK(b)'
  <2>1. ASSUME NEW j \in Indices
        PROVE  /\ results'[b][j] \in {Unanswered, Refused(j), Built(j)}
               /\ results'[b][j] = Unanswered <=> j \in Waiting(b)'
    <3>1. /\ results[b][j] \in {Unanswered, Refused(j), Built(j)}
          /\ results[b][j] = Unanswered <=> j \in Waiting(b)
      BY <1>0 DEF BatchOK, ResultsOK
    <3> QED
      BY <1>2, <1>4, <1>7, <3>1, AnswersDiffer
  <2> QED
    BY <1>4, <2>1 DEF ResultsOK
<1>11. OwnedOK(b)'
  <2>1. ASSUME NEW j \in Indices, <<b, j>> \in live' PROVE results'[b][j] = Built(j)
    <3>1. CASE j = i
      BY <1>4, <3>1
    <3>2. CASE j # i
      <4>1. <<b, j>> \in live
        BY <1>0, <2>1, <3>2
      <4>2. results[b][j] = Built(j)
        BY <1>0, <4>1 DEF BatchOK, OwnedOK
      <4> QED
        BY <1>4, <3>2, <4>2
    <3> QED
      BY <3>1, <3>2
  <2> QED
    BY <1>4, <2>1 DEF OwnedOK
<1>12. ASSUME NEW c \in Batches \ {b} PROVE BatchOK(c)'
  <2>1. \A j : <<c, j>> \in live' => <<c, j>> \in live
    BY <1>0
  <2>2. Untouched(c)
    BY <1>0, <2>1 DEF Untouched, BatchTypes
  <2> QED
    BY <2>2, UntouchedKeeps DEF BatchInv
<1> QED
  BY <1>5, <1>8, <1>9, <1>10, <1>11, <1>12 DEF BatchInv, BatchOK

(* A batch goes from one stage to the next without another change.         *)
LEMMA MoveInv ==
    ASSUME BatchInv, NEW b \in Batches, NEW place \in {"admitting", "dispatched", "publishing", "returned"},
           Goes(b, place), UNCHANGED <<lists, results, aborted, live>>,
           stage[b] \notin {"idle", "rejected"}, candidates[b] = <<>>,
           place = "returned" => Waiting(b) = {},
           place = "publishing" <=> stage[b] = "compiled",
           place \in {"admitting", "dispatched"} => stage[b] \in {"restoring", "admitting"}
    PROVE  BatchInv'
<1>0. BatchTypes /\ BatchOK(b) /\ stage' = [stage EXCEPT ![b] = place]
  BY DEF BatchInv, Goes
<1>1. BatchTypes'
  BY <1>0 DEF BatchTypes, lists, Places, Ended
<1>2. stage'[b] = place
  BY <1>0 DEF BatchTypes
<1>3. Waiting(b)' = Waiting(b)
  BY DEF Waiting, lists
<1>4. ListsOK(b)'
  BY <1>0, <1>2, <1>3 DEF BatchOK, ListsOK, lists
<1>5. CompiledOK(b)'
  BY <1>0, <1>2 DEF BatchOK, CompiledOK, lists
<1>6. ResultsOK(b)'
  BY <1>0, <1>2, <1>3 DEF BatchOK, ResultsOK
<1>7. OwnedOK(b)'
  <2>1. CASE place = "returned"
    <3>1. \A k \in next[b] .. Len(accepted[b]) : FALSE
      BY <2>1 DEF Waiting
    <3> QED
      BY <1>0, <1>2, <2>1, <3>1 DEF BatchOK, OwnedOK
  <2>2. CASE place = "publishing"
    BY <1>0, <1>2, <2>2 DEF BatchOK, OwnedOK, lists
  <2>3. CASE place \in {"admitting", "dispatched"}
    BY <1>0, <1>2, <2>3 DEF BatchOK, OwnedOK
  <2> QED
    BY <2>1, <2>2, <2>3
<1>8. ASSUME NEW c \in Batches \ {b} PROVE BatchOK(c)'
  <2>1. Untouched(c)
    BY <1>0 DEF Untouched, BatchTypes, lists
  <2> QED
    BY <2>1, UntouchedKeeps DEF BatchInv
<1> QED
  BY <1>1, <1>4, <1>5, <1>6, <1>7, <1>8 DEF BatchInv, BatchOK

(* The end of restoring, admission, and the end of publishing.             *)
LEMMA MovesInv ==
    ASSUME BatchInv, NEW b \in Batches, Restored(b) \/ Admitted(b) \/ Published(b)
    PROVE  BatchInv'
<1>0. BatchTypes /\ ListsOK(b) /\ accepted[b] \in Seq(Indices)
  BY DEF BatchInv, BatchOK, BatchTypes
<1>1. CASE Restored(b)
  <2>1. /\ stage[b] = "restoring" /\ candidates[b] = <<>>
        /\ UNCHANGED <<lists, results, aborted, live>>
        /\ Goes(b, IF accepted[b] = <<>> THEN "returned" ELSE "admitting")
    BY <1>1 DEF Restored
  <2>2. accepted[b] = <<>> => Waiting(b) = {}
    BY <1>0, <2>1 DEF ListsOK, Waiting, Members
  <2>3. CASE accepted[b] = <<>>
    BY <2>1, <2>2, <2>3, MoveInv
  <2>4. CASE accepted[b] # <<>>
    BY <2>1, <2>4, MoveInv
  <2> QED
    BY <2>3, <2>4
<1>2. CASE Admitted(b)
  <2>1. /\ stage[b] = "admitting" /\ candidates[b] = <<>>
        /\ UNCHANGED <<lists, results, aborted, live>>
        /\ Goes(b, IF b \in aborted THEN "rejected" ELSE "dispatched")
    BY <1>0, <1>2 DEF Admitted, ListsOK
  <2>2. CASE b \notin aborted
    BY <2>1, <2>2, MoveInv
  <2>3. CASE b \in aborted
    <3>1. CompiledBuffers(b) = {} /\ aborted \subseteq Batches
      BY <1>0, <2>1, NothingCompiled DEF BatchTypes
    <3> QED
      BY <2>1, <2>3, <3>1, RejectInv
  <2> QED
    BY <2>2, <2>3
<1>3. CASE Published(b)
  <2>1. /\ stage[b] = "publishing" /\ candidates[b] = <<>> /\ next[b] > Len(accepted[b])
        /\ UNCHANGED <<lists, results, aborted, live>>
        /\ Goes(b, "returned")
    BY <1>0, <1>3 DEF Published, ListsOK
  <2>2. Len(accepted[b]) \in Nat /\ next[b] \in Nat
    BY <1>0 DEF BatchTypes
  <2>3. next[b] .. Len(accepted[b]) = {}
    BY <2>1, <2>2
  <2>4. Waiting(b) = {}
    BY <2>1, <2>3 DEF Waiting, Members
  <2> QED
    BY <2>1, <2>4, MoveInv
<1> QED
  BY <1>1, <1>2, <1>3

(* The answers of the semantic compiler are those of the accepted modules. *)
LEMMA SemanticCompilerReturnsInv ==
    ASSUME BatchInv, NEW b \in Batches, NEW good \in SUBSET Indices, SemanticCompilerReturns(b, good)
    PROVE  BatchInv'
<1> DEFINE answers == [k \in 1 .. Len(accepted[b]) |->
                          IF accepted[b][k] \in good THEN Built(accepted[b][k]) ELSE Refused(accepted[b][k])]
<1>0. /\ BatchTypes /\ BatchOK(b) /\ stage[b] = "dispatched"
      /\ accepted[b] \in Seq(Indices) /\ Len(accepted[b]) \in Nat
      /\ good \subseteq Members(accepted[b])
      /\ stage' = [stage EXCEPT ![b] = "compiled"]
      /\ compiled' = [compiled EXCEPT ![b] = answers]
      /\ live' = live \cup {<<b, i>> : i \in good}
      /\ UNCHANGED <<candidates, accepted, next, results, aborted>>
  BY DEF BatchInv, BatchTypes, SemanticCompilerReturns, Goes
<1>1. \A k \in 1 .. Len(accepted[b]) : accepted[b][k] \in Indices
  BY <1>0, ElementOfSeq
<1>2. answers \in Seq(AnswerSet) /\ Len(answers) = Len(accepted[b])
      /\ \A k \in 1 .. Len(accepted[b]) :
            answers[k] = IF accepted[b][k] \in good THEN Built(accepted[b][k]) ELSE Refused(accepted[b][k])
  <2>1. \A k \in 1 .. Len(accepted[b]) : answers[k] \in AnswerSet
    BY <1>1, AnswersDiffer
  <2>2. answers \in Seq(AnswerSet)
    <3>1. answers \in [1 .. Len(accepted[b]) -> AnswerSet]
      BY <2>1
    <3> HIDE DEF answers
    <3> QED
      BY <1>0, <3>1, SeqDef
  <2>3. DOMAIN answers = 1 .. Len(answers) /\ DOMAIN answers = 1 .. Len(accepted[b])
    BY <2>2
  <2>4. Len(answers) = Len(accepted[b])
    <3> HIDE DEF answers
    <3> QED
      BY <1>0, <2>2, <2>3
  <2> QED
    BY <2>2, <2>4
<1> HIDE DEF answers
<1>3. BatchTypes'
  BY <1>0, <1>2 DEF BatchTypes, Places, Ended
<1>4. stage'[b] = "compiled" /\ compiled'[b] = answers /\ next[b] = 1
  BY <1>0 DEF BatchTypes, BatchOK, ListsOK
<1>5. Waiting(b)' = Waiting(b)
  BY <1>0 DEF Waiting
<1>6. ListsOK(b)'
  BY <1>0, <1>4, <1>5 DEF BatchOK, ListsOK
<1>7. CompiledOK(b)'
  BY <1>0, <1>2, <1>4 DEF CompiledOK
<1>8. ResultsOK(b)'
  BY <1>0, <1>4, <1>5 DEF BatchOK, ResultsOK
<1>9. OwnedOK(b)'
  <2>1. ASSUME NEW i \in Indices, <<b, i>> \in live', results'[b][i] # Built(i)
        PROVE  \E k \in next'[b] .. Len(accepted'[b]) : accepted'[b][k] = i /\ compiled'[b][k] = Built(i)
    <3>1. results[b][i] # Built(i)
      BY <1>0, <2>1
    <3>2. <<b, i>> \notin live
      BY <1>0, <3>1 DEF BatchOK, OwnedOK
    <3>3. i \in good
      BY <1>0, <2>1, <3>2
    <3>4. PICK k \in 1 .. Len(accepted[b]) : accepted[b][k] = i
      BY <1>0, <3>3 DEF Members
    <3> QED
      BY <1>0, <1>2, <1>4, <3>3, <3>4
  <2> QED
    BY <1>4, <2>1 DEF OwnedOK
<1>10. ASSUME NEW c \in Batches \ {b} PROVE BatchOK(c)'
  <2>1. \A j : <<c, j>> \in live' => <<c, j>> \in live
    BY <1>0
  <2>2. Untouched(c)
    BY <1>0, <2>1 DEF Untouched, BatchTypes
  <2> QED
    BY <2>2, UntouchedKeeps DEF BatchInv
<1> QED
  BY <1>3, <1>6, <1>7, <1>8, <1>9, <1>10 DEF BatchInv, BatchOK

(* compileBatch resumes, or throws what it was given away.                 *)
LEMMA ResumeBatchInv ==
    ASSUME BatchInv, NEW b \in Batches, ResumeBatch(b)
    PROVE  BatchInv'
<1>0. BatchTypes /\ ListsOK(b) /\ stage[b] = "compiled" /\ UNCHANGED <<lists, results, aborted>>
  BY DEF BatchInv, BatchOK, ResumeBatch
<1>1. CASE b \in aborted
  <2>1. Goes(b, "rejected") /\ live' = live \ CompiledBuffers(b) /\ aborted \subseteq Batches
    BY <1>0, <1>1 DEF ResumeBatch, BatchTypes
  <2> QED
    BY <1>0, <2>1, RejectInv
<1>2. CASE b \notin aborted
  <2>1. Goes(b, "publishing") /\ live' = live /\ candidates[b] = <<>>
    BY <1>0, <1>2 DEF ResumeBatch, ListsOK
  <2> QED
    BY <1>0, <2>1, MoveInv
<1> QED
  BY <1>1, <1>2

(* An answer is published at the index of its module, which has none yet.  *)
LEMMA PublishOneInv ==
    ASSUME BatchInv, NEW b \in Batches, PublishOne(b)
    PROVE  BatchInv'
<1> DEFINE n == next[b]
<1> DEFINE i == accepted[b][n]
<1> DEFINE answer == compiled[b][n]
<1>0. /\ BatchTypes /\ BatchOK(b) /\ stage[b] = "publishing"
      /\ accepted[b] \in Seq(Indices) /\ Len(accepted[b]) \in Nat
      /\ n \in 1 .. Len(accepted[b])
      /\ results' = [results EXCEPT ![b][i] = answer]
      /\ next' = [next EXCEPT ![b] = n + 1]
      /\ UNCHANGED <<stage, candidates, accepted, compiled, aborted, live>>
  BY DEF BatchInv, BatchTypes, PublishOne
<1>1. /\ i \in Indices /\ answer \in {Built(i), Refused(i)} /\ answer \in AnswerSet
      /\ candidates[b] = <<>> /\ Injective(accepted[b])
  <2>1. i \in Indices
    BY <1>0, ElementOfSeq
  <2>2. answer \in {Built(i), Refused(i)}
    BY <1>0 DEF BatchOK, CompiledOK
  <2> QED
    BY <1>0, <2>1, <2>2, AnswersDiffer DEF BatchOK, ListsOK
<1>2. Waiting(b) = Waiting(b)' \cup {i} /\ i \notin Waiting(b)'
  <2>1. Waiting(b) = {accepted[b][k] : k \in n .. Len(accepted[b])}
    BY <1>1 DEF Waiting, Members
  <2>2. Waiting(b)' = {accepted[b][k] : k \in n + 1 .. Len(accepted[b])}
    BY <1>0, <1>1 DEF Waiting, Members, BatchTypes
  <2>3. n .. Len(accepted[b]) = {n} \cup (n + 1 .. Len(accepted[b]))
    BY <1>0
  <2>4. \A k \in n + 1 .. Len(accepted[b]) : k \in 1 .. Len(accepted[b]) /\ k # n
    BY <1>0
  <2>5. \A k \in n + 1 .. Len(accepted[b]) : accepted[b][k] # i
    BY <1>0, <1>1, <2>4 DEF Injective
  <2> QED
    BY <2>1, <2>2, <2>3, <2>5
<1>3. \A j \in Indices : results'[b][j] = IF j = i THEN answer ELSE results[b][j]
  BY <1>0 DEF BatchTypes
<1>4. next'[b] = n + 1 /\ stage'[b] = "publishing"
  BY <1>0 DEF BatchTypes
<1> HIDE DEF answer
<1>5. BatchTypes'
  <2>1. results' \in [Batches -> [Indices -> AnswerSet]]
    BY <1>0, <1>1 DEF BatchTypes
  <2>2. next' \in [Batches -> Nat \ {0}]
    BY <1>0 DEF BatchTypes
  <2> QED
    BY <1>0, <2>1, <2>2 DEF BatchTypes
<1>6. ListsOK(b)'
  BY <1>0, <1>4 DEF BatchOK, ListsOK
<1>7. CompiledOK(b)'
  BY <1>0, <1>4 DEF BatchOK, CompiledOK
<1>8. ResultsOK(b)'
  <2>1. ASSUME NEW j \in Indices
        PROVE  /\ results'[b][j] \in {Unanswered, Refused(j), Built(j)}
               /\ results'[b][j] = Unanswered <=> j \in Waiting(b)'
    <3>1. /\ results[b][j] \in {Unanswered, Refused(j), Built(j)}
          /\ results[b][j] = Unanswered <=> j \in Waiting(b)
      BY <1>0 DEF BatchOK, ResultsOK
    <3>2. CASE j = i
      BY <1>1, <1>2, <1>3, <3>2, AnswersDiffer
    <3>3. CASE j # i
      BY <1>2, <1>3, <3>1, <3>3
    <3> QED
      BY <3>2, <3>3
  <2> QED
    BY <1>4, <2>1 DEF ResultsOK
<1>9. OwnedOK(b)'
  <2>1. ASSUME NEW j \in Indices, <<b, j>> \in live', results'[b][j] # Built(j)
        PROVE  \E k \in next'[b] .. Len(accepted'[b]) : accepted'[b][k] = j /\ compiled'[b][k] = Built(j)
    <3>1. <<b, j>> \in live
      BY <1>0, <2>1
    <3>2. results[b][j] # Built(j)
      <4>1. CASE j # i
        BY <1>3, <2>1, <4>1
      <4>2. CASE j = i
        <5>1. results[b][i] = Unanswered
          BY <1>0, <1>1, <1>2 DEF BatchOK, ResultsOK
        <5> QED
          BY <1>1, <4>2, <5>1, AnswersDiffer
      <4> QED
        BY <4>1, <4>2
    <3>3. PICK k \in n .. Len(accepted[b]) : accepted[b][k] = j /\ compiled[b][k] = Built(j)
      BY <1>0, <3>1, <3>2 DEF BatchOK, OwnedOK
    <3>4. k # n
      <4>1. SUFFICES ASSUME k = n PROVE FALSE
        OBVIOUS
      <4>2. j = i /\ answer = Built(j)
        BY <3>3, <4>1 DEF answer
      <4> QED
        BY <1>3, <2>1, <4>2
    <3>5. k \in n + 1 .. Len(accepted[b])
      BY <1>0, <3>3, <3>4
    <3> QED
      BY <1>0, <1>4, <3>3, <3>5
  <2> QED
    BY <1>4, <2>1 DEF OwnedOK
<1>10. ASSUME NEW c \in Batches \ {b} PROVE BatchOK(c)'
  <2>1. Untouched(c)
    BY <1>0 DEF Untouched, BatchTypes
  <2> QED
    BY <2>1, UntouchedKeeps DEF BatchInv
<1> QED
  BY <1>5, <1>6, <1>7, <1>8, <1>9, <1>10 DEF BatchInv, BatchOK

(* Something fails: what was compiled and not yet handed out is destroyed. *)
LEMMA FailInv ==
    ASSUME BatchInv, NEW b \in Batches, Fail(b)
    PROVE  BatchInv'
<1>1. /\ Goes(b, "rejected") /\ UNCHANGED <<lists, results, aborted>> /\ aborted \subseteq Batches
      /\ live' = IF stage[b] = "publishing" THEN live \ CompiledBuffers(b) ELSE live
      /\ stage[b] \in {"checking", "dispatched", "restoring", "publishing"}
  BY DEF Fail, BatchInv, BatchTypes
<1>2. live' \subseteq live /\ live' \cap CompiledBuffers(b) = {}
  BY <1>1, NothingCompiled
<1> QED
  BY <1>1, <1>2, RejectInv

(* An abort rejects whoever waits for another component.                   *)
LEMMA AbortInv ==
    ASSUME BatchInv, NEW b \in Batches, Abort(b)
    PROVE  BatchInv'
<1>1. /\ aborted' = aborted \cup {b} /\ aborted' \subseteq Batches
      /\ UNCHANGED <<lists, results, live>>
      /\ BatchTypes
  BY DEF Abort, BatchInv, BatchTypes
<1>2. CASE stage[b] = "admitting"
  <2>1. Goes(b, "rejected") /\ CompiledBuffers(b) = {}
    BY <1>2, NothingCompiled DEF Abort, Goes
  <2> QED
    BY <1>1, <2>1, RejectInv
<1>3. CASE stage[b] # "admitting"
  <2>1. stage' = stage
    BY <1>3 DEF Abort
  <2>2. BatchTypes'
    BY <1>1, <2>1 DEF BatchTypes, lists
  <2>3. \A c \in Batches : Untouched(c)
    BY <1>1, <2>1 DEF Untouched, lists
  <2> QED
    BY <2>2, <2>3, UntouchedKeeps DEF BatchInv
<1> QED
  BY <1>2, <1>3

(* Buffers go, and nothing else happens.                                   *)
LEMMA BuffersGo ==
    ASSUME BatchInv, live' \subseteq live, UNCHANGED <<stage, lists, results, aborted>>
    PROVE  BatchInv'
<1>1. BatchTypes'
  BY DEF BatchInv, BatchTypes, lists
<1>2. \A c \in Batches : Untouched(c)
  BY DEF Untouched, lists
<1> QED
  BY <1>1, <1>2, UntouchedKeeps DEF BatchInv

(* Every step of every batch keeps the invariant.                          *)
LEMMA BatchNextInv == BatchInv /\ [BatchNext]_batchVars => BatchInv'
<1> SUFFICES ASSUME BatchInv, [BatchNext]_batchVars PROVE BatchInv'
  OBVIOUS
<1>1. ASSUME NEW b \in Batches, NEW set \in SUBSET Indices,
             ChecksReturn(b, set) \/ SemanticCompilerReturns(b, set)
      PROVE  BatchInv'
  BY <1>1, ChecksReturnInv, SemanticCompilerReturnsInv
<1>2. ASSUME NEW b \in Batches, Continues(b) PROVE BatchInv'
  BY <1>1, <1>2, RestoreOneInv, MovesInv, ResumeBatchInv, PublishOneInv DEF Continues
<1>3. ASSUME NEW b \in Batches, CallerDestroys(b) PROVE BatchInv'
  <2>1. live' \subseteq live /\ UNCHANGED <<stage, lists, results, aborted>>
    BY <1>3 DEF CallerDestroys
  <2> QED
    BY <2>1, BuffersGo
<1>4. CASE UNCHANGED batchVars
  BY <1>4, BuffersGo DEF batchVars
<1> QED
  BY <1>2, <1>3, <1>4, CheckEnvelopesInv, FailInv, AbortInv DEF BatchNext

(* What the invariant says of a batch that returned, and of one that threw.*)
LEMMA BatchInvImplies == BatchInv => AnswersInPlace /\ RejectedCompilationsAreDestroyed
<1> SUFFICES ASSUME BatchInv PROVE AnswersInPlace /\ RejectedCompilationsAreDestroyed
  OBVIOUS
<1>1. ASSUME NEW b \in Batches, stage[b] = "returned", NEW i \in Indices
      PROVE  /\ results[b][i].kind # "pending" /\ results[b][i].of = i
             /\ <<b, i>> \in live => results[b][i].kind = "module"
  <2>1. BatchOK(b)
    BY DEF BatchInv
  <2>2. results[b][i] \in {Refused(i), Built(i)}
    BY <1>1, <2>1 DEF BatchOK, ResultsOK, ListsOK
  <2>3. <<b, i>> \in live => results[b][i] = Built(i)
    BY <1>1, <2>1 DEF BatchOK, OwnedOK
  <2> QED
    BY <2>2, <2>3, AnswersDiffer
<1>2. AnswersInPlace
  BY <1>1 DEF AnswersInPlace
<1>3. RejectedCompilationsAreDestroyed
  BY DEF BatchInv, BatchOK, OwnedOK, RejectedCompilationsAreDestroyed
<1> QED
  BY <1>2, <1>3
-----------------------------------------------------------------------------
(* The service.                                                            *)

(* Buffers are made by batches, which run on a compiler that was built: so *)
(* no creation that fails, and takes the device away, can meet one.        *)
BuffersOnDevice == live # {} => creation = "ready" /\ device = "live"

ServiceInv == GpuInv /\ CacheInv /\ BatchInv /\ BuffersOnDevice

(* What a step of the service is for its compiler and for its batches.     *)
LEMMA GpuStepIsOfBoth ==
    ASSUME GpuStep
    PROVE  /\ [GpuNext]_gpuVars
           /\ \/ [BatchNext]_batchVars
              \/ live' \subseteq live /\ UNCHANGED <<stage, lists, results, aborted>>
<1>0. \A c \in Calls : c \in Batches
  BY ServiceAssumption DEF ServiceAssumption
<1>1. ASSUME NEW c \in Calls, GpuCompilation(c) PROVE [GpuNext]_gpuVars /\ [BatchNext]_batchVars
  <2>1. CASE CompileBatch(c) /\ UNCHANGED batchVars
    BY <2>1 DEF GpuNext
  <2>2. CASE CompilerArrives(c)
    BY <1>0, <2>2 DEF CompilerArrives, GpuNext, BatchNext
  <2>3. CASE BatchGoesOn(c)
    BY <1>0, <2>3 DEF BatchGoesOn, BatchNext
  <2>4. CASE BatchEnds(c)
    BY <2>4 DEF BatchEnds, GpuNext
  <2>5. CASE CallerActs(c)
    BY <1>0, <2>5 DEF CallerActs, BatchNext
  <2> QED
    BY <1>1, <2>1, <2>2, <2>3, <2>4, <2>5 DEF GpuCompilation
<1>2. ASSUME NEW d \in Destroys, DestroyEnds(d)
      PROVE  [GpuNext]_gpuVars /\ live' \subseteq live /\ UNCHANGED <<stage, lists, results, aborted>>
  BY <1>2 DEF DestroyEnds, GpuNext
<1>3. ASSUME NEW granted \in BOOLEAN, DeviceAnswers(granted) \/ CompilerBuilt(granted), UNCHANGED batchVars
      PROVE  [GpuNext]_gpuVars /\ [BatchNext]_batchVars
  BY <1>3 DEF GpuNext
<1>4. ASSUME NEW d \in Destroys, Destroy(d), UNCHANGED batchVars
      PROVE  [GpuNext]_gpuVars /\ [BatchNext]_batchVars
  BY <1>4 DEF GpuNext
<1> QED
  BY <1>1, <1>2, <1>3, <1>4 DEF GpuStep

(* A compiler that was built stays, and destroy() or nobody takes a device.*)
LEMMA DeviceStays ==
    ASSUME GpuInv, [GpuNext]_gpuVars, creation = "ready", device = "live"
    PROVE  creation' = "ready" /\ (device' = "live" \/ \E d \in Destroys : DestroyResumes(d))
<1> USE DEF GpuInv, Resident, CompilerIsThere
<1>1. ASSUME NEW c \in Calls, CompileBatch(c) PROVE UNCHANGED <<creation, device>>
  BY <1>1 DEF CompileBatch
<1>2. ASSUME NEW c \in Calls, Resume(c) PROVE UNCHANGED <<creation, device>>
  BY <1>2 DEF Resume
<1>3. ASSUME NEW c \in Calls, NEW outcome, CompilationEnds(c, outcome) PROVE UNCHANGED <<creation, device>>
  BY <1>3 DEF CompilationEnds
<1>4. ASSUME NEW d \in Destroys, Destroy(d) PROVE UNCHANGED <<creation, device>>
  BY <1>4 DEF Destroy
<1>5. ASSUME NEW d \in Destroys, DestroyResumes(d) PROVE creation' = creation
  BY <1>5 DEF DestroyResumes
<1>6. ASSUME NEW granted \in BOOLEAN, DeviceAnswers(granted) \/ CompilerBuilt(granted) PROVE FALSE
  BY <1>6 DEF DeviceAnswers, CompilerBuilt
<1>7. CASE UNCHANGED gpuVars
  BY <1>7 DEF gpuVars
<1> QED
  BY <1>1, <1>2, <1>3, <1>4, <1>5, <1>6, <1>7 DEF GpuNext

(* Buffers are made on a device that is there, and go with it.             *)
LEMMA BuffersOnDeviceInv ==
    ASSUME GpuInv, BuffersOnDevice, GpuStep
    PROVE  BuffersOnDevice'
<1>0. [GpuNext]_gpuVars
  BY GpuStepIsOfBoth
<1>1. ASSUME live' \subseteq live, \A d \in Destroys : ~DestroyResumes(d)
      PROVE  BuffersOnDevice'
  BY <1>0, <1>1, DeviceStays DEF BuffersOnDevice
<1>2. ASSUME NEW d \in Destroys, DestroyEnds(d)
      PROVE  BuffersOnDevice'
  <2>1. CASE device' = "destroyed"
    BY <1>2, <2>1 DEF DestroyEnds, BuffersOnDevice
  <2>2. CASE device' # "destroyed"
    BY <1>2, <2>2 DEF DestroyEnds, DestroyResumes, BuffersOnDevice
  <2> QED
    BY <2>1, <2>2
<1>3. ASSUME NEW c \in Calls, BatchGoesOn(c)
      PROVE  BuffersOnDevice'
  <2>1. UNCHANGED <<creation, device>> /\ call[c] = "compiling" /\ (device = "destroyed" => live' \subseteq live)
    BY <1>3 DEF BatchGoesOn, gpuVars
  <2>2. creation = "ready" /\ device \in {"live", "destroyed"}
    BY <2>1 DEF GpuInv, Resident
  <2> QED
    BY <2>1, <2>2 DEF BuffersOnDevice
<1>4. ASSUME NEW c \in Calls, CallerActs(c)
      PROVE  BuffersOnDevice'
  BY <1>4 DEF CallerActs, Abort, CallerDestroys, BuffersOnDevice, gpuVars
<1>5. ASSUME NEW c \in Calls, CompilerArrives(c)
      PROVE  BuffersOnDevice'
  <2>1. live' = live
    BY <1>5 DEF CompilerArrives, CheckEnvelopes, batchVars
  <2> QED
    BY <1>5, <2>1 DEF CompilerArrives, Resume, BuffersOnDevice
<1>6. ASSUME NEW c \in Calls, (CompileBatch(c) /\ UNCHANGED batchVars) \/ BatchEnds(c)
      PROVE  BuffersOnDevice'
  <2>1. live' = live
    BY <1>6 DEF BatchEnds, batchVars
  <2>2. creation = "ready" => UNCHANGED <<creation, device>>
    BY <1>6 DEF CompileBatch, BatchEnds, CompilationEnds, GpuInv, Resident
  <2> QED
    BY <2>1, <2>2 DEF BuffersOnDevice
<1>7. ASSUME NEW granted \in BOOLEAN, DeviceAnswers(granted) \/ CompilerBuilt(granted), UNCHANGED batchVars
      PROVE  BuffersOnDevice'
  BY <1>7 DEF DeviceAnswers, CompilerBuilt, BuffersOnDevice, batchVars
<1>8. ASSUME NEW d \in Destroys, Destroy(d), UNCHANGED batchVars
      PROVE  BuffersOnDevice'
  BY <1>8 DEF Destroy, BuffersOnDevice, batchVars
<1> QED
  BY <1>2, <1>3, <1>4, <1>5, <1>6, <1>7, <1>8 DEF GpuStep, GpuCompilation

(* The invariants hold along every behaviour of the service.               *)
THEOREM ServiceInvariant == Spec => []ServiceInv
<1>1. Init => ServiceInv
  <2>1. BatchInit => BuffersOnDevice
    BY DEF BatchInit, BuffersOnDevice
  <2> QED
    BY <2>1, GpuInitInv, CacheInitInv, BatchInitInv DEF Init, ServiceInv
<1>2. ServiceInv /\ [Next]_vars => ServiceInv'
  <2> SUFFICES ASSUME GpuInv, CacheInv, BatchInv, BuffersOnDevice, [Next]_vars
               PROVE  GpuInv' /\ CacheInv' /\ BatchInv' /\ BuffersOnDevice'
    BY DEF ServiceInv
  <2>1. CASE GpuStep
    <3>1. GpuInv'
      BY <2>1, GpuStepIsOfBoth, GpuNextInv
    <3>2. BatchInv'
      BY <2>1, GpuStepIsOfBoth, BatchNextInv, BuffersGo
    <3>3. BuffersOnDevice'
      BY <2>1, BuffersOnDeviceInv
    <3>4. UNCHANGED cacheVars
      BY <2>1 DEF GpuStep
    <3>5. CacheInv'
      BY <3>4 DEF CacheInv, cacheVars, PlanIsSound, ResultIsSound
    <3> QED
      BY <3>1, <3>2, <3>3, <3>5
  <2>2. CASE UNCHANGED <<gpuVars, batchVars>>
    <3>1. GpuInv'
      BY <2>2, GpuNextInv
    <3>2. BatchInv'
      BY <2>2, BatchNextInv
    <3>3. BuffersOnDevice'
      BY <2>2 DEF BuffersOnDevice, gpuVars, batchVars
    <3>4. CASE CpuStep
      BY <3>1, <3>2, <3>3, <3>4, CompileInv, SettleInv, PublishInv DEF CpuStep
    <3>5. CASE UNCHANGED vars
      <4>1. CacheInv'
        BY <3>5 DEF vars, CacheInv, cacheVars, PlanIsSound, ResultIsSound
      <4> QED
        BY <3>1, <3>2, <3>3, <4>1
    <3>6. CASE GpuStep
      BY <2>1, <3>6
    <3> QED
      BY <3>4, <3>5, <3>6 DEF Next
  <2>3. CpuStep \/ UNCHANGED vars => UNCHANGED <<gpuVars, batchVars>>
    BY DEF CpuStep, vars
  <2> QED
    BY <2>1, <2>2, <2>3 DEF Next
<1> QED
  BY <1>1, <1>2, PTL DEF Spec

(* The device of a working service is there for every caller, a supplied   *)
(* one always, and no buffer is there without it, whatever destroy(), the  *)
(* creations and the compilations do to each other.                        *)
THEOREM DeviceIsAlwaysThere == Spec => []DeviceIsThere
<1>1. ServiceInv => DeviceIsThere
  BY DEF ServiceInv, GpuInv, Resident, BuffersOnDevice, DeviceIsThere
<1> QED
  BY <1>1, ServiceInvariant, PTL

(* A batch of the service that returns has the answer of every module at   *)
(* its index, and no buffer that its caller could not destroy.             *)
THEOREM AnswersAreInPlace == Spec => []AnswersInPlace
<1>1. ServiceInv => AnswersInPlace
  BY BatchInvImplies DEF ServiceInv
<1> QED
  BY <1>1, ServiceInvariant, PTL

(* What was compiled for a batch that throws is destroyed, at whatever     *)
(* point the signal was aborted, a step failed or destroy() came.          *)
THEOREM RejectedBatchesRelease == Spec => []RejectedCompilationsAreDestroyed
<1>1. ServiceInv => RejectedCompilationsAreDestroyed
  BY BatchInvImplies DEF ServiceInv
<1> QED
  BY <1>1, ServiceInvariant, PTL

(* The same of any batches, for the device or for linking, without the     *)
(* service around them.                                                    *)
THEOREM BatchesKeepTheirPromises == BatchSpec => [](AnswersInPlace /\ RejectedCompilationsAreDestroyed)
<1>1. BatchInv => AnswersInPlace /\ RejectedCompilationsAreDestroyed
  BY BatchInvImplies
<1> QED
  BY <1>1, BatchInitInv, BatchNextInv, PTL DEF BatchSpec

(* Whatever shortcut the caches took, and however many updates were        *)
(* chained, a promise resolves with what a fresh compilation would give.   *)
THEOREM CachesAreAlwaysTransparent == Spec => []CachesAreTransparent
<1>1. ServiceInv => CachesAreTransparent
  <2> SUFFICES ASSUME CacheInv, NEW i \in 1 .. Len(jobs),
                      jobs[i].result.status \in {"ok", "ill-typed"}
               PROVE  jobs[i].result = Compiled(jobs[i].module)
    BY DEF ServiceInv, CachesAreTransparent
  <2>1. jobs[i].result \in {Pending, Rejected, Compiled(jobs[i].module)}
    BY DEF CacheInv, ResultIsSound
  <2> QED
    BY <2>1 DEF Pending, Rejected
<1> QED
  BY <1>1, ServiceInvariant, PTL
=============================================================================
