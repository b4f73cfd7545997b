---------------------------- MODULE CompilerCaches ----------------------------
(***************************************************************************)
(* The CPU caches of FunctionalCompilerService                             *)
(* (src/src/functional/compiler_service.ts).  A compilation is looked up   *)
(* by module object, then by semantic fingerprint (which leaves source     *)
(* positions out), then as a literal update of a module compiled earlier;  *)
(* only then is the module compiled.  All three shortcuts must give the    *)
(* caller what a fresh compilation of its module would have given.         *)
(*                                                                         *)
(* A promise is a job; jobs are numbered in the order they are made.  A    *)
(* job settles in one step and its then/catch callbacks run in a later     *)
(* microtask, with any other activity in between.                          *)
(***************************************************************************)
EXTENDS Integers, Sequences, FiniteSets

CONSTANTS
    Modules,        \* encoded module objects
    NoModule,
    LiteralNodes,   \* node indices that carry a literal payload
    Shape,          \* Shape[m]: everything of m but its literals and positions
    Literals,       \* Literals[m]: the payload of every literal node
    Positions,      \* Positions[m]: the source positions of m
    Reference,      \* Reference[m]: what m was registered as an update of
    IllTyped,       \* the shapes that do not type check
    MaxSemantic,    \* 64 entries of #cpuCompilationsBySemantics
    MaxJobs         \* bound on the promises made, for TLC

(* tryRegisterLiteralModuleUpdate registers an update only of a module     *)
(* that is equal in every word but the payloads of literal nodes.          *)
ASSUME CacheAssumption ==
    /\ NoModule \notin Modules
    /\ Literals \in [Modules -> [LiteralNodes -> Nat]]
    /\ DOMAIN Shape = Modules /\ DOMAIN Positions = Modules
    /\ Reference \in [Modules -> Modules \cup {NoModule}]
    /\ \A m \in Modules : Reference[m] # NoModule =>
          /\ Shape[m] = Shape[Reference[m]]
          /\ Positions[m] = Positions[Reference[m]]
          /\ Literals[m] # Literals[Reference[m]]
    /\ MaxSemantic \in Nat \ {0}

VARIABLES
    jobs,               \* every promise made: what it computes and its result
    cpuCompilations,    \* #cpuCompilations: the job of each module, 0 for none
    bySemantics         \* #cpuCompilationsBySemantics, oldest entry first

cacheVars == <<jobs, cpuCompilations, bySemantics>>

(* semanticModuleFingerprint: everything but the source positions.         *)
Fingerprint(m) == <<Shape[m], Literals[m]>>

(* What a fresh compilation of m resolves with.                            *)
Compiled(m) ==
    IF Shape[m] \in IllTyped
    THEN [status |-> "ill-typed", shape |-> Shape[m]]
    ELSE [status |-> "ok", shape |-> Shape[m], literals |-> Literals[m], positions |-> Positions[m]]

Pending == [status |-> "pending"]
Rejected == [status |-> "rejected"]

MutantRebindKeepsPositions(result, m) == result

(* rebindCompiledModuleSource: the same Core at the positions of m.        *)
RebindCompiledModuleSource(result, m) == [result EXCEPT !.positions = Positions[m]]

ChangedNodes(m) == {n \in LiteralNodes : Literals[m][n] # Literals[Reference[m]][n]}

(* applyCompiledLiteralUpdate: the payloads of the changed nodes replaced. *)
ApplyCompiledLiteralUpdate(result, m) ==
    [result EXCEPT !.literals =
        [n \in LiteralNodes |-> IF n \in ChangedNodes(m) THEN Literals[m][n] ELSE @[n]]]

-----------------------------------------------------------------------------
Keys == {bySemantics[i].key : i \in 1 .. Len(bySemantics)}

Cached(key) == CHOOSE entry \in {bySemantics[i] : i \in 1 .. Len(bySemantics)} : entry.key = key

(* Map.set keeps the place of a key that is already there.                 *)
WithEntry(key, result) ==
    IF key \in Keys
    THEN [i \in 1 .. Len(bySemantics) |->
            IF bySemantics[i].key = key THEN [key |-> key, result |-> result] ELSE bySemantics[i]]
    ELSE Append(bySemantics, [key |-> key, result |-> result])

(* The while loop that drops the oldest entries.                           *)
Trimmed(entries) ==
    IF Len(entries) > MaxSemantic
    THEN SubSeq(entries, Len(entries) - MaxSemantic + 1, Len(entries))
    ELSE entries

CacheInit ==
    /\ jobs = <<>>
    /\ cpuCompilations = [m \in Modules |-> 0]
    /\ bySemantics = <<>>

(* Which shortcut #compileCpuModule takes for a module it has no promise   *)
(* for: a semantic hit is a finished result, a literal update chains on    *)
(* the promise of the reference, which may be pending or even rejected.    *)
Plan(m) ==
    IF Fingerprint(m) \in Keys
    THEN [kind |-> "semantics", from |-> Cached(Fingerprint(m)).result, job |-> 0]
    ELSE IF Reference[m] # NoModule /\ cpuCompilations[Reference[m]] # 0
    THEN [kind |-> "literal-update", from |-> Pending, job |-> cpuCompilations[Reference[m]]]
    ELSE [kind |-> "none", from |-> Pending, job |-> 0]

(* compileModule on a module whose promise is not cached.                  *)
CompileCpuModule(m) ==
    /\ cpuCompilations[m] = 0
    /\ Len(jobs) < MaxJobs
    /\ jobs' = Append(jobs, [module |-> m, plan |-> Plan(m), result |-> Pending, published |-> FALSE])
    /\ cpuCompilations' = [cpuCompilations EXCEPT ![m] = Len(jobs) + 1]
    /\ UNCHANGED bySemantics

(* What the promise of job i may settle with, once it can.  A compilation  *)
(* may also reject (an exception inside the compiler); a chained job fails *)
(* the way the job it chains on failed.                                    *)
Answers(i) ==
    LET job    == jobs[i]
        source == IF job.plan.kind = "literal-update" THEN jobs[job.plan.job].result ELSE job.plan.from
    IN  CASE job.plan.kind = "none" -> {Compiled(job.module), Rejected}
          [] job.plan.kind = "semantics" -> {RebindCompiledModuleSource(source, job.module)}
          [] job.plan.kind = "literal-update" ->
                CASE source.status = "pending" -> {}
                  [] source.status = "ok" -> {ApplyCompiledLiteralUpdate(source, job.module)}
                  [] OTHER -> {source}

Settle(i) ==
    /\ jobs[i].result = Pending
    /\ \E answer \in Answers(i) : jobs' = [jobs EXCEPT ![i].result = answer]
    /\ UNCHANGED <<cpuCompilations, bySemantics>>

MutantPublishForgetsRejection(i) ==
    LET job == jobs[i] IN
    /\ job.result # Pending /\ ~job.published
    /\ jobs' = [jobs EXCEPT ![i].published = TRUE]
    /\ UNCHANGED cpuCompilations
    /\ IF job.result.status = "ok" /\ job.plan.kind # "semantics"
       THEN bySemantics' = Trimmed(WithEntry(Fingerprint(job.module), job.result))
       ELSE UNCHANGED bySemantics

(* The callbacks of a settled job: a success that did not come from the    *)
(* semantic cache enters it; a rejected promise leaves the module cache.   *)
Publish(i) ==
    LET job == jobs[i] IN
    /\ job.result # Pending
    /\ ~job.published
    /\ jobs' = [jobs EXCEPT ![i].published = TRUE]
    /\ cpuCompilations' = IF job.result = Rejected /\ cpuCompilations[job.module] = i
                          THEN [cpuCompilations EXCEPT ![job.module] = 0]
                          ELSE cpuCompilations
    /\ IF job.result.status = "ok" /\ job.plan.kind # "semantics"
       THEN bySemantics' = Trimmed(WithEntry(Fingerprint(job.module), job.result))
       ELSE UNCHANGED bySemantics

(* Host compilation always ends, and JavaScript runs queued callbacks.     *)
CacheFairness == \A i \in 1 .. MaxJobs :
    /\ WF_cacheVars(i <= Len(jobs) /\ Settle(i))
    /\ WF_cacheVars(i <= Len(jobs) /\ Publish(i))

-----------------------------------------------------------------------------
Statuses == {"pending", "ok", "ill-typed", "rejected"}

(* Every variable has the type its declaration announces; in particular a  *)
(* chained job chains on one made before it.                               *)
CachesTypeOK ==
    /\ Len(jobs) <= MaxJobs
    /\ \A i \in 1 .. Len(jobs) :
          /\ jobs[i].module \in Modules
          /\ jobs[i].result.status \in Statuses
          /\ jobs[i].plan.kind \in {"none", "semantics", "literal-update"}
          /\ jobs[i].plan.kind = "literal-update" => jobs[i].plan.job \in 1 .. i - 1
          /\ jobs[i].plan.kind = "semantics" => jobs[i].plan.from.status = "ok"
    /\ cpuCompilations \in [Modules -> 0 .. Len(jobs)]
    /\ \A i \in 1 .. Len(bySemantics) : bySemantics[i].result.status = "ok"

(* Transparency: whatever shortcut was taken, and however many were        *)
(* chained, a promise that resolves gives what compiling that very module  *)
(* afresh gives - its literals, its positions, its type errors.            *)
CachesAreTransparent ==
    \A i \in 1 .. Len(jobs) :
        jobs[i].result.status \in {"ok", "ill-typed"} => jobs[i].result = Compiled(jobs[i].module)

(* Failure is not sticky: a module whose compilation rejected can be       *)
(* compiled again, also when the failure came from a chain of updates.     *)
RejectionIsForgotten ==
    \A m \in Modules :
        (cpuCompilations[m] # 0 /\ jobs[cpuCompilations[m]].result = Rejected)
            ~> cpuCompilations[m] = 0

(* A chain of literal updates never waits for ever.                        *)
EveryJobSettles ==
    \A i \in 1 .. MaxJobs : i <= Len(jobs) ~> (i <= Len(jobs) /\ jobs[i].result # Pending)
=============================================================================
