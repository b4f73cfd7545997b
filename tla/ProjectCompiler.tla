--------------------------- MODULE ProjectCompiler ---------------------------
(***************************************************************************)
(* FunctionalProjectCompiler (src/src/functional/project_compiler.ts): the *)
(* modules of one project are compiled in dependency waves, each against   *)
(* the interfaces of its imports, through a cache of compiled units, and   *)
(* linked.  When some module declares its whole interface, the compiler    *)
(* first infers the undeclared modules in waves and then compiles all the  *)
(* declared ones in one batch.                                             *)
(*                                                                         *)
(* Several compile() calls and clear() may interleave: each action is the  *)
(* code between two awaits.  The batch compiler behind it is external.     *)
(***************************************************************************)
EXTENDS Integers, Sequences, FiniteSets, Selections

CONSTANTS
    Calls,        \* calls of compile()
    Units,        \* module names in the order of the schedule: by wave, a wave by name
    Imports,      \* Imports[u]: moduleDependencies, acyclic
    Projects,     \* p.version[c][u]: the source of u that call c brings;
                  \* p.declared: the modules whose exports all declare type and effects
    Types,        \* Types[u][v]: the type declarations in version v of u
    Interfaces,   \* what a module may export: types and effects of values, types
    Declares,     \* Declares[u][v]: the interface that version v of u declares
    Exports(_),   \* the interface that is inferred for a unit, see Built
    Fault(_, _),  \* what is wrong with a unit of a project, see below
    MaxCached,    \* MAXIMUM_CACHED_PROJECT_UNITS (128)
    None

Names == {Units[i] : i \in 1 .. Len(Units)}

(* dependencyClosure: every module that is imported, directly or not.  It  *)
(* is the least set with the direct imports that imports nothing else.     *)
Closures ==
    [u \in Names |->
       {d \in Names : \A S \in SUBSET Names :
                        Imports[u] \subseteq S /\ (\A x \in S : Imports[x] \subseteq S) => d \in S}]
Closure(u) == Closures[u]

(* All that a unit may be built to, whatever its imports export.           *)
Encodings(u) ==
    [unit : {u}, version : {p.version[c][u] : p \in Projects, c \in Calls},
     imports : [Imports[u] -> Interfaces],
     types : {[d \in Closure(u) |-> Types[d][p.version[c][d]]] : p \in Projects, c \in Calls}]

(* Imports are acyclic: dependencySchedule refuses a project with a cycle  *)
(* before anything is compiled.  None is the interface a Map does not have *)
(* yet, and never one that a module exports.                               *)
ASSUME ProjectAssumption ==
    /\ Units \in Seq(Names)
    /\ Imports \in [Names -> SUBSET Names]
    /\ \E rank \in [Names -> 1 .. Len(Units)] :
         \A u \in Names : \A d \in Imports[u] : rank[d] < rank[u]
    /\ \A p \in Projects : p.declared \subseteq Names
    /\ None \notin Interfaces /\ \A u \in Names : None \notin Encodings(u)
    /\ \A p \in Projects, c \in Calls, u \in Names : Declares[u][p.version[c][u]] \in Interfaces
    /\ \A u \in Names : \A core \in Encodings(u) : Exports(core) \in Interfaces
    /\ MaxCached \in Nat \ {0}

VARIABLES
    project,  \* the one of Projects that is compiled
    call,     \* each call: where it stands and its local maps
    cache,    \* #cache: keys and units, least recently used first
    owned     \* <<c, u>>: a module the batch compiler handed out, not destroyed

vars == <<project, call, cache, owned>>

Declared == project.declared
Version(c, u) == project.version[c][u]

(* buildProjectUnit: a unit is encoded from its source, the interfaces of  *)
(* its direct imports and the type declarations of its whole closure.      *)
(* The linker is given the interface artifact of every module of the       *)
(* closure, but their values have no bodies, so that linkModules reaches   *)
(* and keeps those of the direct imports only.                             *)
Built(c, u) ==
    [unit |-> u, version |-> Version(c, u),
     imports |-> [d \in Imports[u] |-> call[c].interfaces[d]],
     types |-> [d \in Closure(u) |-> Types[d][Version(c, d)]]]

(* A unit may be refused with a TypeError while it is prepared (effects of *)
(* an import other than declared, conflicting declared types), be rejected *)
(* by inference, be answered with diagnostics by the batch compiler, or    *)
(* have other effects than its exports declare.                            *)
Refused(core) == Fault(project, core) = "refused"
Untypable(core) == Fault(project, core) = "untypable"
BrokenCore(core) == Fault(project, core) = "broken"
WrongEffects(core) == Fault(project, core) = "wrong effects"

(* compiledInterface: the schemes are those declared, if all are, and else *)
(* those that inference found in the encoded unit; declared effects are    *)
(* compared with the inferred ones, and a difference is a fault.           *)
InterfaceOf(core) ==
    IF core.unit \in Declared THEN Declares[core.unit][core.version] ELSE Exports(core)

MutantReadyWhenDeclared(c) ==
    {u \in Names : call[c].interfaces[u] = None /\ Imports[u] \subseteq Declared}

(* The waves run over the modules that have no interface yet but whose     *)
(* direct imports have one.                                                *)
Ready(c) == {u \in Names : call[c].interfaces[u] = None
                           /\ \A d \in Imports[u] : call[c].interfaces[d] # None}

MutantFingerprintOfArtifact(c, u) ==
    [body |-> <<u, Version(c, u)>>, imports |-> [d \in Imports[u] |-> call[c].interfaces[d]]]

(* projectUnitFingerprint: of the encoded unit, and of the interfaces of   *)
(* the direct imports.                                                     *)
Fingerprint(c, u) ==
    [body |-> Built(c, u), imports |-> [d \in Imports[u] |-> call[c].interfaces[d]]]

Keys == {cache[i].key : i \in 1 .. Len(cache)}

EntryOf(key) == cache[CHOOSE i \in 1 .. Len(cache) : cache[i].key = key]

Without(entries, key) == Selected(entries, {entry \in Members(entries) : entry.key # key})

(* cache.delete followed by cache.set: the key becomes the most recent.    *)
Touched(key, core) == Append(Without(cache, key), [key |-> key, core |-> core])

(* #remember: a known key keeps its place; the oldest entries make room.   *)
Remember(entries, key, core) ==
    LET added == IF key \in {entries[i].key : i \in 1 .. Len(entries)}
                 THEN [i \in 1 .. Len(entries) |->
                         IF entries[i].key = key THEN [key |-> key, core |-> core] ELSE entries[i]]
                 ELSE Append(entries, [key |-> key, core |-> core])
        extra == Len(added) - MaxCached
    IN  IF extra > 0 THEN SubSeq(added, extra + 1, Len(added)) ELSE added

Idle ==
    [at |-> "idle", wave |-> <<>>, work |-> <<>>, failed |-> FALSE,
     interfaces |-> [u \in Names |-> None], linked |-> [u \in Names |-> None]]

Init ==
    /\ project \in Projects
    /\ call = [c \in Calls |-> Idle]
    /\ cache = <<>>
    /\ owned = {}

(* The call moves to another place of the code, with a loop to run there.  *)
Goto(c, at, work) == call' = [call EXCEPT ![c].at = at, ![c].work = work]

-----------------------------------------------------------------------------
(* compile() up to the first wave.                                         *)
Start(c) ==
    /\ call[c].at = "idle"
    /\ call' = [call EXCEPT
                  ![c].at = IF Declared = {} THEN "wave" ELSE "inferred wave",
                  ![c].interfaces = [u \in Names |-> IF u \in Declared THEN Declares[u][Version(c, u)]
                                                     ELSE None]]
    /\ UNCHANGED <<project, cache, owned>>

(* How the preparation of one module ends.  All that is imported must have *)
(* an interface, not only what is imported directly.                       *)
Outcome(c, u) ==
    IF Refused(Built(c, u)) THEN "thrown"
    ELSE IF \E d \in Closure(u) : call[c].interfaces[d] = None THEN "unscheduled"
    ELSE IF Untypable(Built(c, u)) THEN "failed"
    ELSE "prepared"

(* A loop over modules to prepare ends early.  An exception leaves it at   *)
(* once.  So does a type error on the declared path; the other path goes   *)
(* on to report those of the whole wave.                                   *)
Stops(c, batch, end) ==
    \E i \in 1 .. Len(batch) :
      /\ end = Outcome(c, batch[i]) /\ end # "prepared"
      /\ \A j \in 1 .. Len(batch) :
           Outcome(c, batch[j]) # "prepared" /\ j # i =>
             IF Declared = {} THEN Outcome(c, batch[j]) = "failed" \/ (end # "failed" /\ i < j)
                              ELSE i < j

(* One wave is prepared, and those modules that the cache misses are       *)
(* compiled.  The declared path serves its hits before the batch, the      *)
(* other path looks every module up after it.                              *)
PrepareWave(c) ==
    LET wave   == Selected(Units, Ready(c))
        misses == Selected(wave, {u \in Names : Fingerprint(c, u) \notin Keys})
        hits   == Selected(wave, {u \in Names : Fingerprint(c, u) \in Keys})
    IN  /\ call[c].at \in {"wave", "inferred wave"}
        /\ wave # <<>>
        /\ \/ \E end \in {"thrown", "unscheduled", "failed"} : Stops(c, wave, end) /\ Goto(c, end, <<>>)
           \/ /\ \A u \in Members(wave) : Outcome(c, u) = "prepared"
              /\ call' = [call EXCEPT
                  ![c].wave = IF call[c].at = "wave" THEN wave ELSE misses,
                  ![c].at = IF call[c].at = "inferred wave" THEN "inferred hits"
                            ELSE IF misses = <<>> THEN "lookup" ELSE "compiling",
                  ![c].work = IF call[c].at = "inferred wave" THEN hits
                              ELSE IF misses = <<>> THEN wave ELSE misses]
        /\ UNCHANGED <<project, cache, owned>>

(* No module is ready: all waves are done, or the scheduler cannot go on.  *)
(* The plain path links; the declared path prepares the declared modules,  *)
(* all in one batch.                                                       *)
AllInferred(c) ==
    LET batch  == Selected(Units, Declared)
        misses == Selected(batch, {u \in Names : Fingerprint(c, u) \notin Keys})
        hits   == Selected(batch, {u \in Names : Fingerprint(c, u) \in Keys})
    IN  /\ call[c].at \in {"wave", "inferred wave"}
        /\ Ready(c) = {}
        /\ IF \E u \in Names : call[c].interfaces[u] = None THEN Goto(c, "unscheduled", <<>>)
           ELSE IF call[c].at = "wave" THEN Goto(c, "linking", <<>>)
           ELSE \/ \E end \in {"thrown", "failed"} : Stops(c, batch, end) /\ Goto(c, end, <<>>)
                \/ /\ \A u \in Declared : Outcome(c, u) = "prepared"
                   /\ call' = [call EXCEPT ![c].at = "declared hits", ![c].wave = misses, ![c].work = hits]
        /\ UNCHANGED <<project, cache, owned>>

(* The plain path looks at the abort signal before every wave.             *)
Cancel(c) ==
    /\ call[c].at = "wave"
    /\ Ready(c) # {}
    /\ Goto(c, "thrown", <<>>)
    /\ UNCHANGED <<project, cache, owned>>

(* A rebound copy of a cached unit enters the interfaces and the units of  *)
(* the call, unless its declared effects are wrong.                        *)
Accept(c, u, core, rest) ==
    IF WrongEffects(core)
    THEN Goto(c, "thrown", <<>>)
    ELSE call' = [call EXCEPT ![c].interfaces[u] = InterfaceOf(core),
                              ![c].linked[u] = core,
                              ![c].work = rest]

(* The loop over the hits of #compilePreparedUnits.  It reads the cache    *)
(* again after every await; a unit that is gone by then stores undefined   *)
(* under its key and throws a TypeError.                                   *)
ServeHit(c) ==
    /\ call[c].at \in {"inferred hits", "declared hits"}
    /\ call[c].work # <<>>
    /\ LET u    == Head(call[c].work)
           key  == Fingerprint(c, u)
           core == IF key \in Keys THEN EntryOf(key).core ELSE None
       IN  /\ cache' = Touched(key, core)
           /\ IF core = None THEN Goto(c, "thrown", <<>>)
                             ELSE Accept(c, u, core, Tail(call[c].work))
    /\ UNCHANGED <<project, owned>>

(* After the hits, the misses are handed to the batch compiler.            *)
HitsServed(c) ==
    /\ call[c].at \in {"inferred hits", "declared hits"}
    /\ call[c].work = <<>>
    /\ Goto(c, IF call[c].at = "inferred hits" THEN "inferred compiling" ELSE "declared compiling",
            call[c].wave)
    /\ UNCHANGED <<project, cache, owned>>

Compiling == {"compiling", "inferred compiling", "declared compiling"}

(* compileBatch settles: it throws (cancelled, device lost), or answers    *)
(* each module with a compiled module, which the call now owns, or with    *)
(* diagnostics.                                                            *)
BatchReturns(c, ok) ==
    /\ call[c].at \in Compiling
    /\ IF ~ok THEN /\ call[c].work # <<>>
                   /\ Goto(c, "thrown", <<>>)
                   /\ UNCHANGED owned
       ELSE /\ owned' = owned \cup {<<c, u>> : u \in {x \in Members(call[c].work) :
                                                         ~BrokenCore(Built(c, x))}}
            /\ call' = [call EXCEPT ![c].at = CASE @ = "compiling" -> "remember"
                                                [] @ = "inferred compiling" -> "inferred remember"
                                                [] @ = "declared compiling" -> "declared remember"]
    /\ UNCHANGED <<project, cache>>

MutantRememberOneLeaksFailed(c, readable) ==
    /\ call[c].at \in {"remember", "inferred remember", "declared remember"}
    /\ call[c].work # <<>>
    /\ UNCHANGED project
    /\ LET u == Head(call[c].work) IN
       IF BrokenCore(Built(c, u))
       THEN Goto(c, "failed", <<>>) /\ UNCHANGED <<cache, owned>>
       ELSE /\ owned' = owned \ {<<c, u>>}
            /\ cache' = Remember(cache, Fingerprint(c, u), Built(c, u))
            /\ call' = [call EXCEPT ![c].work = Tail(@)]

(* The loop over the compilations of a batch: each module is copied into   *)
(* host memory (which reads it back from the device), destroyed, and the   *)
(* copy cached.  The declared path accepts it right away.                  *)
RememberOne(c, readable) ==
    /\ call[c].at \in {"remember", "inferred remember", "declared remember"}
    /\ call[c].work # <<>>
    /\ UNCHANGED project
    /\ LET u    == Head(call[c].work)
           core == Built(c, u)
       IN  IF BrokenCore(Built(c, u))
           THEN /\ readable
                /\ call' = [call EXCEPT ![c].work = Tail(@), ![c].failed = TRUE]
                /\ UNCHANGED <<cache, owned>>
           ELSE /\ owned' = owned \ {<<c, u>>}
                /\ IF ~readable
                   THEN Goto(c, "thrown", <<>>) /\ UNCHANGED cache
                   ELSE /\ cache' = Remember(cache, Fingerprint(c, u), core)
                        /\ IF call[c].at = "remember"
                           THEN call' = [call EXCEPT ![c].work = Tail(@)]
                           ELSE Accept(c, u, core, Tail(call[c].work))

(* The end of that loop.                                                   *)
Remembered(c) ==
    /\ call[c].at \in {"remember", "inferred remember", "declared remember"}
    /\ call[c].work = <<>>
    /\ IF call[c].failed THEN Goto(c, "failed", <<>>)
       ELSE CASE call[c].at = "remember"          -> Goto(c, "lookup", call[c].wave)
              [] call[c].at = "inferred remember" -> Goto(c, "inferred wave", <<>>)
              [] call[c].at = "declared remember" -> Goto(c, "linking", <<>>)
    /\ UNCHANGED <<project, cache, owned>>

(* The plain path looks every module of the wave up again, and throws      *)
(* "omitted cached module" when the cache has none.                        *)
LookUp(c) ==
    /\ call[c].at = "lookup"
    /\ IF call[c].work = <<>>
       THEN Goto(c, "wave", <<>>) /\ UNCHANGED cache
       ELSE LET u   == Head(call[c].work)
                key == Fingerprint(c, u)
            IN  IF key \notin Keys \/ (key \in Keys /\ EntryOf(key).core = None)
                THEN Goto(c, "omitted", <<>>) /\ UNCHANGED cache
                ELSE /\ cache' = Touched(key, EntryOf(key).core)
                     /\ Accept(c, u, EntryOf(key).core, Tail(call[c].work))
    /\ UNCHANGED <<project, owned>>

(* linkProject: the units are linked, or linking throws.                   *)
Link(c, ok) ==
    /\ call[c].at = "linking"
    /\ Goto(c, IF ok THEN "linked" ELSE "thrown", <<>>)
    /\ UNCHANGED <<project, cache, owned>>

(* clear(): it throws before it clears anything if an entry is undefined.  *)
Clear ==
    /\ cache # <<>>
    /\ \A i \in 1 .. Len(cache) : cache[i].core # None
    /\ cache' = <<>>
    /\ UNCHANGED <<project, call, owned>>

Step(c) ==
    \/ Cancel(c) \/ PrepareWave(c) \/ AllInferred(c) \/ ServeHit(c) \/ HitsServed(c)
    \/ \E ok \in BOOLEAN : BatchReturns(c, ok) \/ RememberOne(c, ok) \/ Link(c, ok)
    \/ Remembered(c) \/ LookUp(c)

Next ==
    \/ \E c \in Calls : Start(c) \/ Step(c)
    \/ Clear

Spec == Init /\ [][Next]_vars

(* A call that was started goes on whenever it can: the batch compiler     *)
(* answers and JavaScript resumes settled awaits.                          *)
FairSpec == Spec /\ \A c \in Calls : WF_vars(Step(c))

-----------------------------------------------------------------------------
Ended == {"linked", "failed", "thrown", "omitted", "unscheduled"}

Places ==
    {"idle", "wave", "inferred wave", "inferred hits", "declared hits", "remember",
     "inferred remember", "declared remember", "lookup", "linking"} \cup Compiling \cup Ended

(* Every variable has the type its declaration announces.                  *)
TypeOK ==
    /\ \A c \in Calls : call[c].at \in Places /\ Members(call[c].work) \subseteq Names
    /\ owned \subseteq Calls \X Names /\ project \in Projects

(* A linked program is made of the call's own sources, each compiled       *)
(* against what the very modules it is linked with export and against the  *)
(* types they declare.  A cached unit is never stale: neither when another *)
(* call with other sources filled the cache, nor when only something that  *)
(* is imported indirectly was edited.                                      *)
LinkedIsUpToDate ==
    \A c \in Calls : call[c].at = "linked" =>
        \A u \in Names :
            call[c].linked[u] =
                [unit |-> u, version |-> Version(c, u),
                 imports |-> [d \in Imports[u] |-> InterfaceOf(call[c].linked[d])],
                 types |-> [d \in Closure(u) |-> Types[d][Version(c, d)]]]

(* A call that returns, with a program or with diagnostics, has destroyed  *)
(* every module the batch compiler gave it.                                *)
ReturnReleases ==
    \A c \in Calls : call[c].at \in {"linked", "failed"} => \A u \in Names : <<c, u>> \notin owned

(* An undeclared module imports a declared one that depends on undeclared  *)
(* modules: it is ready before their interfaces are inferred.              *)
Outrun ==
    \E m \in Names \ Declared : \E d \in Imports[m] \cap Declared : ~(Closure(d) \subseteq Declared)

(* Every call ends.  It ends for want of a schedule ("cannot infer declared*)
(* project dependencies", "could not advance an acyclic import graph", "has*)
(* no interface for dependency") in no other project than one in which an  *)
(* undeclared module outruns what it imports through a declared one.       *)
EveryCompileEnds ==
    \A c \in Calls : call[c].at # "idle" ~>
        call[c].at \in Ended /\ (call[c].at = "unscheduled" => Outrun)
=============================================================================
