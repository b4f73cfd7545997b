------------------------ MODULE ProjectCompiler_proofs ------------------------
(***************************************************************************)
(* Proofs about ProjectCompiler: for any acyclic project, any sources, any *)
(* number of calls and any size of the cache, what is linked is up to date *)
(* and a call that returns has given every compiled module back.  Then     *)
(* those about ParallelCompiler, the service that compiles a wave on       *)
(* workers: for any batches and any number of workers, the results of a    *)
(* batch are those of its own modules, in their order.                     *)
(***************************************************************************)
EXTENDS ProjectCompiler, ParallelCompiler, FiniteSetTheorems

(* A unit as it is built from the interfaces that a call has.              *)
BuiltFrom(c, r, u) ==
    [unit |-> u, version |-> Version(c, u),
     imports |-> [d \in Imports[u] |-> r.interfaces[d]],
     types |-> [d \in Closure(u) |-> Types[d][Version(c, d)]]]

MaybeInterface == {None} \cup Interfaces

Cores == UNION {Encodings(u) : u \in Names}

(* The key that belongs to a compiled unit.                                *)
KeyOf(core) == [body |-> core, imports |-> core.imports]

(* Entries of the cache: a unit under its own key, or the undefined unit   *)
(* that an interrupted hit loop leaves there.                              *)
SoundEntries ==
    {[key |-> KeyOf(core), core |-> core] : core \in Cores}
    \cup {[key |-> KeyOf(core), core |-> None] : core \in Cores}

CallRecords ==
    [at : Places, wave : Seq(Names), work : Seq(Names), failed : BOOLEAN,
     interfaces : [Names -> MaybeInterface], linked : [Names -> {None} \cup Cores]]

DeclaredPath == {"declared hits", "declared compiling", "declared remember"}
PlainPath == {"wave", "compiling", "remember", "lookup"}

Remembering == {"remember", "inferred remember", "declared remember"}

(* A unit is only worked on when all it depends on has an interface.       *)
Buildable(r, u) == \A d \in Closure(u) : r.interfaces[d] # None

(* An interface is the declared one, or that of the unit that is linked.   *)
Interfacing(c, r) ==
    /\ r.at # "idle" => \A u \in Declared : r.interfaces[u] = Declares[u][Version(c, u)]
    /\ \A u \in Names \ Declared :
         r.at # "idle" /\ r.interfaces[u] # None =>
           r.linked[u] # None /\ r.interfaces[u] = InterfaceOf(r.linked[u])

(* A unit is linked as it would be built from the interfaces of the call,  *)
(* at any later time: they stay what they are.                             *)
Linking(c, r) ==
    \A u \in Names : r.linked[u] # None => Buildable(r, u) /\ r.linked[u] = BuiltFrom(c, r, u)

(* On the declared path every declared unit is linked, or still on one of  *)
(* the two lists; "linking" is reached when they are empty.                *)
Progress(c, r) ==
    /\ r.at = "idle" => r = Idle
    /\ r.at \in PlainPath => Declared = {}
    /\ r.at \in DeclaredPath => \A u \in Names : r.interfaces[u] # None
    /\ r.at = "declared hits" =>
         \A u \in Declared : r.linked[u] # None \/ u \in Members(r.work) \/ u \in Members(r.wave)
    /\ r.at \in {"declared compiling", "declared remember"} =>
         \A u \in Declared : r.linked[u] # None \/ u \in Members(r.work) \/ r.failed
    /\ r.at \in {"linking", "linked"} => \A u \in Names : r.linked[u] # None
    /\ r.at = "unscheduled" => Outrun

CallInv(c, r) ==
    /\ Interfacing(c, r)
    /\ \A u \in Members(r.work) \cup Members(r.wave) : Buildable(r, u)
    /\ Linking(c, r)
    /\ Progress(c, r)

(* A module the batch compiler handed out is still on the list of the loop *)
(* that copies and destroys it, unless an exception left that loop.        *)
Held(c, r, u) ==
    \/ r.at \in Remembering /\ u \in Members(r.work) /\ ~BrokenCore(BuiltFrom(c, r, u))
    \/ r.at = "thrown"

OwnedInv ==
    /\ owned \subseteq Calls \X Names
    /\ \A c \in Calls, u \in Names : <<c, u>> \in owned => Held(c, call[c], u)

(* The conjunction that is inductive.                                      *)
IInv ==
    /\ project \in Projects
    /\ call \in [Calls -> CallRecords]
    /\ cache \in Seq(SoundEntries)
    /\ \A c \in Calls : CallInv(c, call[c])
    /\ OwnedInv

-----------------------------------------------------------------------------
(* The closure of the imports.                                             *)

(* It has the direct imports, and imports nothing outside of it.           *)
LEMMA ClosureIsClosed ==
    ASSUME NEW u \in Names
    PROVE  /\ Closure(u) \subseteq Names /\ Imports[u] \subseteq Closure(u)
           /\ \A x \in Closure(u) : Imports[x] \subseteq Closure(u)
<1>1. Imports[u] \subseteq Names /\ \A x \in Names : Imports[x] \subseteq Names
  BY ProjectAssumption DEF ProjectAssumption
<1>2. Closure(u) = {d \in Names : \A S \in SUBSET Names :
                      Imports[u] \subseteq S /\ (\A x \in S : Imports[x] \subseteq S) => d \in S}
  BY DEF Closure, Closures
<1> QED
  BY <1>1, <1>2

(* It is the least such set.                                               *)
LEMMA ClosureIsLeast ==
    ASSUME NEW u \in Names, NEW S \in SUBSET Names,
           Imports[u] \subseteq S, \A x \in S : Imports[x] \subseteq S
    PROVE  Closure(u) \subseteq S
BY DEF Closure, Closures

(* What is imported is imported directly or through a direct import.       *)
LEMMA ClosureByImports ==
    ASSUME NEW u \in Names, NEW d \in Closure(u), d \notin Imports[u]
    PROVE  \E i \in Imports[u] : d \in Closure(i)
<1> DEFINE S == Imports[u] \cup UNION {Closure(i) : i \in Imports[u]}
<1>1. Imports[u] \subseteq Names
  BY ProjectAssumption DEF ProjectAssumption
<1>2. S \in SUBSET Names
  BY <1>1, ClosureIsClosed
<1>3. ASSUME NEW x \in S PROVE Imports[x] \subseteq S
  <2>1. CASE x \in Imports[u]
    BY <1>1, <2>1, ClosureIsClosed
  <2>2. CASE x \notin Imports[u]
    <3>1. PICK i \in Imports[u] : x \in Closure(i)
      BY <1>3, <2>2
    <3>2. Imports[x] \subseteq Closure(i)
      BY <1>1, <3>1, ClosureIsClosed
    <3> QED
      BY <3>2
  <2> QED
    BY <2>1, <2>2
<1>4. d \in S
  <2> HIDE DEF S
  <2>1. Imports[u] \subseteq S
    BY DEF S
  <2> QED
    BY <1>2, <1>3, <2>1, ClosureIsLeast
<1> QED
  BY <1>4

-----------------------------------------------------------------------------
(* Units and interfaces.                                                   *)

(* A unit is built with the sources and interfaces that its key names.     *)
LEMMA BuiltProperties ==
    ASSUME IInv, NEW c \in Calls, NEW u \in Names, Buildable(call[c], u)
    PROVE  /\ Built(c, u) \in Encodings(u) /\ Built(c, u) \in Cores /\ Built(c, u) # None
           /\ KeyOf(Built(c, u)) = Fingerprint(c, u)
           /\ Built(c, u) = BuiltFrom(c, call[c], u)
<1>1. call[c].interfaces \in [Names -> MaybeInterface]
  BY DEF IInv, CallRecords
<1>2. [d \in Imports[u] |-> call[c].interfaces[d]] \in [Imports[u] -> Interfaces]
  BY <1>1, ClosureIsClosed DEF Buildable, MaybeInterface
<1>3. /\ Version(c, u) \in {p.version[k][u] : p \in Projects, k \in Calls}
      /\ [d \in Closure(u) |-> Types[d][Version(c, d)]]
           \in {[d \in Closure(u) |-> Types[d][p.version[k][d]]] : p \in Projects, k \in Calls}
  BY DEF Version, IInv
<1>4. Built(c, u) \in Encodings(u)
  BY <1>2, <1>3 DEF Built, Encodings
<1>5. Built(c, u) \in Cores /\ Built(c, u) # None
  BY <1>4, ProjectAssumption DEF Cores, ProjectAssumption
<1>6. KeyOf(Built(c, u)) = Fingerprint(c, u)
  BY DEF Built, KeyOf, Fingerprint
<1> QED
  BY <1>4, <1>5, <1>6 DEF Built, BuiltFrom

(* The interface of a unit that is built; a declared one is the declared.  *)
LEMMA InterfaceOfBuilt ==
    ASSUME IInv, NEW c \in Calls, NEW u \in Names, Buildable(call[c], u)
    PROVE  /\ InterfaceOf(Built(c, u)) \in Interfaces /\ InterfaceOf(Built(c, u)) # None
           /\ u \in Declared => InterfaceOf(Built(c, u)) = Declares[u][Version(c, u)]
<1>1. Built(c, u) \in Encodings(u) /\ Built(c, u).unit = u /\ Built(c, u).version = Version(c, u)
  BY BuiltProperties DEF Built
<1>2. Declares[u][Version(c, u)] \in Interfaces
  BY ProjectAssumption DEF IInv, Version, ProjectAssumption
<1>3. Exports(Built(c, u)) \in Interfaces
  BY <1>1, ProjectAssumption DEF ProjectAssumption
<1>4. None \notin Interfaces
  BY ProjectAssumption DEF ProjectAssumption
<1> QED
  BY <1>1, <1>2, <1>3, <1>4 DEF InterfaceOf

(* A unit that the cache has under the key of u is the one u would be      *)
(* built to.                                                               *)
LEMMA HitIsBuilt ==
    ASSUME IInv, NEW c \in Calls, NEW u \in Names, Buildable(call[c], u),
           Fingerprint(c, u) \in Keys, EntryOf(Fingerprint(c, u)).core # None
    PROVE  EntryOf(Fingerprint(c, u)).core = Built(c, u)
<1> DEFINE key == Fingerprint(c, u)
<1> DEFINE entry == EntryOf(key)
<1>1. PICK i \in 1 .. Len(cache) : entry = cache[i] /\ cache[i].key = key
  BY DEF Keys, EntryOf
<1>2. entry \in SoundEntries /\ entry.key = key
  BY <1>1, ElementOfSeq DEF IInv
<1>3. entry.core \in Cores /\ KeyOf(entry.core) = key
  BY <1>2 DEF SoundEntries
<1>4. KeyOf(Built(c, u)) = key
  BY BuiltProperties
<1> QED
  BY <1>3, <1>4 DEF KeyOf

(* The entry made of a key and what the cache holds, or does not hold.     *)
LEMMA EntryIsSound ==
    ASSUME IInv, NEW c \in Calls, NEW u \in Names, Buildable(call[c], u),
           NEW core, core \in {None, Built(c, u)}
    PROVE  [key |-> Fingerprint(c, u), core |-> core] \in SoundEntries
BY BuiltProperties DEF SoundEntries

-----------------------------------------------------------------------------
(* The cache.                                                              *)

(* Touching a key keeps the cache sound.                                   *)
LEMMA TouchedIsSound ==
    ASSUME cache \in Seq(SoundEntries), NEW key, NEW core, [key |-> key, core |-> core] \in SoundEntries
    PROVE  Touched(key, core) \in Seq(SoundEntries)
<1>1. Without(cache, key) \in Seq(SoundEntries)
  BY SelectedProperties DEF Without
<1> QED
  BY <1>1, AppendProperties DEF Touched

(* Remembering a unit keeps the cache sound.                               *)
LEMMA RememberIsSound ==
    ASSUME cache \in Seq(SoundEntries), NEW key, NEW core, [key |-> key, core |-> core] \in SoundEntries
    PROVE  Remember(cache, key, core) \in Seq(SoundEntries)
<1> DEFINE new == [key |-> key, core |-> core]
<1> DEFINE added == IF key \in {cache[i].key : i \in 1 .. Len(cache)}
                    THEN [i \in 1 .. Len(cache) |-> IF cache[i].key = key THEN new ELSE cache[i]]
                    ELSE Append(cache, new)
<1> DEFINE extra == Len(added) - MaxCached
<1>1. Remember(cache, key, core) = IF extra > 0 THEN SubSeq(added, extra + 1, Len(added)) ELSE added
  BY DEF Remember
<1>2. added \in Seq(SoundEntries)
  <2>1. \A i \in 1 .. Len(cache) : (IF cache[i].key = key THEN new ELSE cache[i]) \in SoundEntries
    BY ElementOfSeq
  <2>2. [i \in 1 .. Len(cache) |-> IF cache[i].key = key THEN new ELSE cache[i]] \in Seq(SoundEntries)
    BY <2>1, IsASeq
  <2>3. Append(cache, new) \in Seq(SoundEntries)
    BY AppendProperties
  <2> QED
    BY <2>2, <2>3
<1> HIDE DEF added
<1>3. Len(added) \in Nat /\ extra \in Int
  BY <1>2, ProjectAssumption DEF ProjectAssumption
<1>4. CASE extra > 0
  <2>1. extra + 1 \in 1 .. Len(added) + 1
    BY <1>3, <1>4, ProjectAssumption DEF ProjectAssumption
  <2>2. \A i \in extra + 1 .. Len(added) : added[i] \in SoundEntries
    BY <1>2, <1>3, <2>1, ElementOfSeq
  <2>3. SubSeq(added, extra + 1, Len(added)) \in Seq(SoundEntries)
    BY <1>3, <2>2, SubSeqProperties
  <2> QED
    BY <1>1, <1>4, <2>3
<1>5. CASE ~(extra > 0)
  BY <1>1, <1>2, <1>5
<1> QED
  BY <1>4, <1>5

-----------------------------------------------------------------------------
(* When no module is ready, every module has its interface: imports are    *)
(* acyclic, so the lowest module without one would be ready.               *)
LEMMA NothingLeft ==
    ASSUME NEW c \in Calls, Ready(c) = {}
    PROVE  \A u \in Names : call[c].interfaces[u] # None
<1>1. PICK rank \in [Names -> 1 .. Len(Units)] : \A u \in Names : \A d \in Imports[u] : rank[d] < rank[u]
  BY ProjectAssumption DEF ProjectAssumption
<1> DEFINE Left == {u \in Names : call[c].interfaces[u] = None}
<1> DEFINE Ranks == {rank[u] : u \in Left}
<1> SUFFICES ASSUME Left # {} PROVE FALSE
  OBVIOUS
<1>2. Ranks \subseteq Nat /\ Ranks # {}
  <2>1. \A u \in Names : rank[u] \in 1 .. Len(Units) /\ rank[u] \in Nat
    BY <1>1
  <2> QED
    BY <2>1
<1>3. PICK m \in Ranks : \A k \in Ranks : m <= k
  BY <1>2, LeastNatural
<1>4. PICK u \in Left : rank[u] = m
  BY <1>3
<1>5. PICK d \in Imports[u] : call[c].interfaces[d] = None
  BY <1>4 DEF Ready
<1>6. d \in Left /\ rank[d] < rank[u]
  BY <1>1, <1>4, <1>5, ProjectAssumption DEF ProjectAssumption
<1>7. rank[u] <= rank[d] /\ rank[u] \in Nat /\ rank[d] \in Nat
  BY <1>2, <1>3, <1>4, <1>6
<1> QED
  BY <1>6, <1>7

-----------------------------------------------------------------------------
(* Steps of one call.                                                      *)

(* What is said of a call depends on its record and the project only.      *)
LEMMA SameProject ==
    ASSUME project' = project, NEW c \in Calls, CallInv(c, call'[c])
    PROVE  CallInv(c, call[c])'
<1>1. Declared' = Declared /\ Outrun' = Outrun
  BY DEF Declared, Outrun
<1>2. Interfacing(c, call[c])'
  BY DEF CallInv, Interfacing, InterfaceOf, Declared, Version
<1>3. Linking(c, call[c])'
  BY DEF CallInv, Linking, Buildable, BuiltFrom, Version
<1>4. Progress(c, call[c])'
  BY <1>1 DEF CallInv, Progress
<1>5. (\A u \in Members(call[c].work) \cup Members(call[c].wave) : Buildable(call[c], u))'
  BY DEF CallInv, Buildable
<1> QED
  BY <1>2, <1>3, <1>4, <1>5 DEF CallInv

(* One call goes on and the others stay where they are.                    *)
LEMMA CallStep ==
    ASSUME IInv, NEW c \in Calls, NEW r \in CallRecords,
           call' = [call EXCEPT ![c] = r], project' = project,
           cache' \in Seq(SoundEntries), CallInv(c, r), OwnedInv'
    PROVE  IInv'
<1>1. call' \in [Calls -> CallRecords] /\ \A k \in Calls : call'[k] = IF k = c THEN r ELSE call[k]
  BY DEF IInv
<1>2. ASSUME NEW k \in Calls PROVE CallInv(k, call'[k])
  BY <1>1 DEF IInv
<1>3. \A k \in Calls : CallInv(k, call[k])'
  BY <1>2, SameProject
<1> QED
  BY <1>1, <1>3 DEF IInv

(* Who holds what, when the project stays what it is.                      *)
LEMMA OwnedFrom ==
    ASSUME project' = project, owned' \subseteq Calls \X Names,
           \A k \in Calls, u \in Names : <<k, u>> \in owned' => Held(k, call'[k], u)
    PROVE  OwnedInv'
BY DEF OwnedInv, Held, BuiltFrom, BrokenCore, Version

(* A call that holds no module of the batch compiler goes on.              *)
LEMMA OwnedElsewhere ==
    ASSUME IInv, NEW c \in Calls, NEW r \in CallRecords,
           call' = [call EXCEPT ![c] = r], project' = project, owned' = owned,
           \A u \in Names : <<c, u>> \notin owned
    PROVE  OwnedInv'
<1>1. \A k \in Calls : call'[k] = IF k = c THEN r ELSE call[k]
  BY DEF IInv
<1>2. ASSUME NEW k \in Calls, NEW u \in Names, <<k, u>> \in owned' PROVE Held(k, call'[k], u)
  <2>1. k # c /\ Held(k, call[k], u)
    BY <1>2 DEF IInv, OwnedInv
  <2> QED
    BY <1>1, <2>1
<1> QED
  BY <1>2, OwnedFrom DEF IInv, OwnedInv

(* Who is not in the loop that destroys them holds none.                   *)
LEMMA HoldsNone ==
    ASSUME IInv, NEW c \in Calls, call[c].at # "thrown",
           call[c].at \notin Remembering \/ call[c].work = <<>>
    PROVE  \A u \in Names : <<c, u>> \notin owned
BY MembersOfEmpty DEF IInv, OwnedInv, Held

(* The maps of a call stay, wherever it goes.                              *)
LEMMA MapsStay ==
    ASSUME NEW c \in Calls, NEW r, NEW old, old.at # "idle",
           r.interfaces = old.interfaces, r.linked = old.linked, CallInv(c, old)
    PROVE  /\ Interfacing(c, r) /\ Linking(c, r)
           /\ \A u \in Names : Buildable(old, u) => Buildable(r, u)
BY DEF CallInv, Interfacing, Linking, Buildable, BuiltFrom

(* What Goto makes of a call; only the progress is left to be shown.       *)
Moves(c, r, at, work) ==
    /\ call' = [call EXCEPT ![c] = r]
    /\ r = [call[c] EXCEPT !.at = at, !.work = work]
    /\ Progress(c, r) => CallInv(c, r)

(* A call moves on with the members of its lists in place.                 *)
LEMMA GotoStep ==
    ASSUME IInv, NEW c \in Calls, NEW at \in Places, NEW work \in Seq(Names),
           Goto(c, at, work), at # "idle", call[c].at # "idle",
           \A u \in Members(work) : Buildable(call[c], u)
    PROVE  \E r \in CallRecords : Moves(c, r, at, work)
<1> DEFINE r == [call[c] EXCEPT !.at = at, !.work = work]
<1>1. call[c] \in CallRecords /\ CallInv(c, call[c])
  BY DEF IInv
<1>2. r \in CallRecords
  BY <1>1 DEF CallRecords
<1>3. call' = [call EXCEPT ![c] = r]
  BY DEF Goto, IInv, CallRecords
<1>4. /\ r.at = at /\ r.work = work /\ r.wave = call[c].wave /\ r.failed = call[c].failed
      /\ r.interfaces = call[c].interfaces /\ r.linked = call[c].linked
  BY <1>1 DEF CallRecords
<1> HIDE DEF r
<1>5. Progress(c, r) => CallInv(c, r)
  <2>1. Interfacing(c, r) /\ Linking(c, r)
    BY <1>1, <1>4, MapsStay
  <2> QED
    BY <1>1, <1>4, <2>1 DEF CallInv, Buildable
<1> QED
  BY <1>2, <1>3, <1>5 DEF r, Moves

(* The ends other than a program: only the want of a schedule is explained.*)
LEMMA GivesUp ==
    ASSUME IInv, NEW c \in Calls, NEW at \in {"failed", "thrown", "omitted", "unscheduled"},
           Goto(c, at, <<>>), call[c].at # "idle", at = "unscheduled" => Outrun
    PROVE  \E r \in CallRecords :
             call' = [call EXCEPT ![c] = r] /\ r.at = at /\ r.work = <<>> /\ CallInv(c, r)
<1>1. at \in Places /\ at # "idle"
  BY DEF Places, Ended
<1>2. PICK none \in Seq(Names) : none = <<>> /\ \A u \in Members(none) : Buildable(call[c], u)
  BY MembersOfEmpty, EmptySeq
<1>3. PICK r \in CallRecords : Moves(c, r, at, none)
  <2>1. Goto(c, at, none)
    BY <1>2
  <2> QED
    BY <1>1, <1>2, <2>1, GotoStep
<1>4. call[c] \in CallRecords
  BY DEF IInv
<1>5. r.at = at /\ r.work = <<>>
  BY <1>2, <1>3, <1>4 DEF CallRecords, Moves
<1>6. Progress(c, r)
  BY <1>5 DEF Progress, PlainPath, DeclaredPath
<1>7. CallInv(c, r)
  BY <1>3, <1>6 DEF Moves
<1> QED
  BY <1>3, <1>5, <1>7 DEF Moves

Accepting == {"inferred hits", "declared hits", "inferred remember", "declared remember", "lookup"}

(* A call may learn interfaces, and keeps those that it has.               *)
Extends(r, old) == \A x \in Names : old.interfaces[x] # None => r.interfaces[x] = old.interfaces[x]

(* A unit that can be built stays what it is when interfaces are learnt.   *)
LEMMA BuiltStays ==
    ASSUME NEW c \in Calls, NEW r \in CallRecords, NEW old \in CallRecords, Extends(r, old),
           NEW u \in Names, Buildable(old, u)
    PROVE  Buildable(r, u) /\ BuiltFrom(c, r, u) = BuiltFrom(c, old, u)
<1>1. \A d \in Closure(u) : r.interfaces[d] = old.interfaces[d] /\ r.interfaces[d] # None
  BY ClosureIsClosed DEF Buildable, Extends
<1>2. [d \in Imports[u] |-> r.interfaces[d]] = [d \in Imports[u] |-> old.interfaces[d]]
  BY <1>1, ClosureIsClosed
<1> QED
  BY <1>1, <1>2 DEF Buildable, BuiltFrom

(* What Accept makes of a call.                                            *)
Accepted(c, r, rest) ==
    /\ call' = [call EXCEPT ![c] = r]
    /\ CallInv(c, r)
    /\ r.at = "thrown" \/ (r.at = call[c].at /\ r.work = rest /\ Extends(r, call[c]))

(* A unit that is built enters the maps of the call and leaves its list.   *)
LEMMA AcceptStep ==
    ASSUME IInv, NEW c \in Calls, NEW u \in Names, NEW rest \in Seq(Names),
           Members(call[c].work) = {u} \cup Members(rest),
           call[c].at \in Accepting, Accept(c, u, Built(c, u), rest)
    PROVE  \E r \in CallRecords : Accepted(c, r, rest)
<1>0. call[c] \in CallRecords /\ CallInv(c, call[c]) /\ call[c].at # "idle"
  BY DEF IInv, Accepting
<1>1. CASE WrongEffects(Built(c, u))
  <2>1. Goto(c, "thrown", <<>>) /\ call[c].at # "idle"
    BY <1>0, <1>1 DEF Accept
  <2> QED
    BY <2>1, GivesUp DEF Accepted
<1>2. CASE ~WrongEffects(Built(c, u))
  <2> DEFINE core == Built(c, u)
  <2> DEFINE export == InterfaceOf(core)
  <2> DEFINE r == [call[c] EXCEPT !.interfaces[u] = export, !.linked[u] = core, !.work = rest]
  <2>1. Buildable(call[c], u)
    BY <1>0 DEF CallInv
  <2>2. core \in Cores /\ core # None /\ core = BuiltFrom(c, call[c], u)
    BY <2>1, BuiltProperties
  <2>3. export \in Interfaces /\ export # None /\ (u \in Declared => export = Declares[u][Version(c, u)])
    BY <2>1, InterfaceOfBuilt
  <2>4. call' = [call EXCEPT ![c] = r]
    BY <1>2 DEF Accept, IInv, CallRecords
  <2>5. export = InterfaceOf(core)
    OBVIOUS
  <2> HIDE DEF core, export
  <2>6. r \in CallRecords
    BY <1>0, <2>2, <2>3 DEF CallRecords, MaybeInterface
  <2>7. /\ r.at = call[c].at /\ r.work = rest /\ r.wave = call[c].wave /\ r.failed = call[c].failed
        /\ \A x \in Names : r.interfaces[x] = IF x = u THEN export ELSE call[c].interfaces[x]
        /\ \A x \in Names : r.linked[x] = IF x = u THEN core ELSE call[c].linked[x]
    BY <1>0 DEF CallRecords
  <2> HIDE DEF r
  <2>8. Extends(r, call[c])
    <3> SUFFICES ASSUME call[c].interfaces[u] # None PROVE export = call[c].interfaces[u]
      BY <2>7 DEF Extends
    <3>1. CASE u \in Declared
      BY <1>0, <2>3, <3>1 DEF CallInv, Interfacing
    <3>2. CASE u \notin Declared
      <4>1. call[c].linked[u] # None /\ call[c].interfaces[u] = InterfaceOf(call[c].linked[u])
        BY <1>0, <3>2 DEF CallInv, Interfacing
      <4>2. call[c].linked[u] = core
        BY <1>0, <2>2, <4>1 DEF CallInv, Linking
      <4> QED
        BY <2>5, <4>1, <4>2
    <3> QED
      BY <3>1, <3>2
  <2>9. \A x \in Names : Buildable(call[c], x) =>
          Buildable(r, x) /\ BuiltFrom(c, r, x) = BuiltFrom(c, call[c], x)
    BY <1>0, <2>6, <2>8, BuiltStays
  <2>10. Interfacing(c, r)
    <3>1. Declared \subseteq Names
      BY ProjectAssumption DEF IInv, Declared, ProjectAssumption
    <3>2. ASSUME NEW x \in Declared PROVE r.interfaces[x] = Declares[x][Version(c, x)]
      BY <1>0, <2>3, <2>7, <3>1 DEF CallInv, Interfacing
    <3>3. ASSUME NEW x \in Names \ Declared, r.interfaces[x] # None
          PROVE  r.linked[x] # None /\ r.interfaces[x] = InterfaceOf(r.linked[x])
      <4>1. CASE x = u
        BY <2>2, <2>5, <2>7, <4>1
      <4>2. CASE x # u
        BY <1>0, <2>7, <3>3, <4>2 DEF CallInv, Interfacing
      <4> QED
        BY <4>1, <4>2
    <3> QED
      BY <3>2, <3>3 DEF Interfacing
  <2>11. Linking(c, r)
    BY <1>0, <2>1, <2>2, <2>7, <2>9 DEF CallInv, Linking
  <2>12. \A x \in Members(r.work) \cup Members(r.wave) : Buildable(r, x)
    <3>1. Members(r.work) \cup Members(r.wave) \subseteq Members(call[c].work) \cup Members(call[c].wave)
      BY <2>7
    <3>2. Members(r.work) \cup Members(r.wave) \subseteq Names
      BY <2>6, MembersInSet DEF CallRecords
    <3> QED
      BY <1>0, <2>9, <3>1, <3>2 DEF CallInv
  <2>13. Progress(c, r)
    <3>1. r.at \in DeclaredPath => \A x \in Names : r.interfaces[x] # None
      BY <1>0, <2>3, <2>7 DEF CallInv, Progress
    <3>2. Declared \subseteq Names
      BY ProjectAssumption DEF IInv, Declared, ProjectAssumption
    <3>3. r.at = "declared hits" =>
            \A x \in Declared : r.linked[x] # None \/ x \in Members(r.work) \/ x \in Members(r.wave)
      BY <1>0, <2>2, <2>7, <3>2 DEF CallInv, Progress
    <3>4. r.at = "declared remember" =>
            \A x \in Declared : r.linked[x] # None \/ x \in Members(r.work) \/ r.failed
      BY <1>0, <2>2, <2>7, <3>2 DEF CallInv, Progress
    <3>5. r.at \in PlainPath => Declared = {}
      BY <1>0, <2>7 DEF CallInv, Progress
    <3> QED
      BY <2>7, <3>1, <3>3, <3>4, <3>5 DEF Progress, Accepting
  <2>14. CallInv(c, r)
    BY <2>10, <2>11, <2>12, <2>13 DEF CallInv
  <2> QED
    BY <2>4, <2>6, <2>7, <2>8, <2>14 DEF Accepted
<1> QED
  BY <1>1, <1>2

(* A call that holds no module of the batch compiler makes a step.         *)
LEMMA GoesOn ==
    ASSUME IInv, NEW c \in Calls, NEW r \in CallRecords,
           call' = [call EXCEPT ![c] = r], project' = project, owned' = owned,
           cache' \in Seq(SoundEntries), CallInv(c, r), call[c].at # "thrown",
           call[c].at \notin Remembering \/ call[c].work = <<>>
    PROVE  IInv'
<1>1. OwnedInv'
  BY HoldsNone, OwnedElsewhere
<1> QED
  BY <1>1, CallStep

-----------------------------------------------------------------------------
(* A call before it starts.                                                *)
LEMMA IdleIsACall == Idle \in CallRecords
<1>1. <<>> \in Seq(Names) /\ "idle" \in Places /\ None \in MaybeInterface
  BY EmptySeq DEF Places, MaybeInterface
<1> QED
  BY <1>1 DEF Idle, CallRecords

(* The initial states.                                                     *)
LEMMA InitInv == Init => IInv
<1> SUFFICES ASSUME Init PROVE IInv
  OBVIOUS
<1>1. Idle \in CallRecords
  BY IdleIsACall
<1>2. call \in [Calls -> CallRecords] /\ \A c \in Calls : call[c] = Idle
  BY <1>1 DEF Init
<1>3. \A c \in Calls : CallInv(c, Idle)
  BY MembersOfEmpty DEF CallInv, Idle, Interfacing, Linking, Progress, PlainPath, DeclaredPath
<1>4. cache \in Seq(SoundEntries)
  BY EmptySeq DEF Init
<1> QED
  BY <1>2, <1>3, <1>4 DEF Init, IInv, OwnedInv

(* compile() starts.                                                       *)
LEMMA StartInv ==
    ASSUME IInv, NEW c \in Calls, Start(c)
    PROVE  IInv'
<1> DEFINE given == [u \in Names |-> IF u \in Declared THEN Declares[u][Version(c, u)] ELSE None]
<1> DEFINE r == [Idle EXCEPT !.at = IF Declared = {} THEN "wave" ELSE "inferred wave", !.interfaces = given]
<1>1. call[c] = Idle /\ Idle \in CallRecords
  BY IdleIsACall DEF Start, IInv, CallInv, Progress
<1>2. call' = [call EXCEPT ![c] = r]
  BY <1>1 DEF Start, IInv
<1>3. \A u \in Names : given[u] = (IF u \in Declared THEN Declares[u][Version(c, u)] ELSE None)
  OBVIOUS
<1>4. given \in [Names -> MaybeInterface]
  <2>1. \A u \in Names : Declares[u][Version(c, u)] \in Interfaces
    BY ProjectAssumption DEF IInv, Version, ProjectAssumption
  <2> QED
    BY <2>1 DEF MaybeInterface
<1> HIDE DEF given
<1>5. r \in CallRecords
  <2>1. "wave" \in Places /\ "inferred wave" \in Places
    BY DEF Places
  <2> QED
    BY <1>1, <1>4, <2>1 DEF CallRecords
<1>6. /\ r.at = (IF Declared = {} THEN "wave" ELSE "inferred wave") /\ r.work = <<>> /\ r.wave = <<>>
      /\ r.interfaces = given /\ \A u \in Names : r.linked[u] = None
  BY DEF Idle
<1> HIDE DEF r
<1>7. CallInv(c, r)
  <2>1. Declared \subseteq Names
    BY ProjectAssumption DEF IInv, Declared, ProjectAssumption
  <2>2. Interfacing(c, r)
    BY <1>3, <1>6, <2>1 DEF Interfacing
  <2>3. Linking(c, r) /\ Progress(c, r)
    BY <1>6 DEF Linking, Progress, PlainPath, DeclaredPath
  <2> QED
    BY <1>6, <2>2, <2>3, MembersOfEmpty DEF CallInv
<1>8. call[c].at = "idle"
  BY DEF Start
<1> QED
  BY <1>2, <1>5, <1>7, <1>8, GoesOn DEF Start, IInv, Remembering

(* What a list of modules is split into by a set of modules.               *)
LEMMA SelectedModules ==
    ASSUME NEW q \in Seq(Names), NEW T
    PROVE  Selected(q, T) \in Seq(Names) /\ Members(Selected(q, T)) = Members(q) \cap T
BY SelectedProperties

(* Every module is in the list of all of them.                             *)
LEMMA UnitsAreNames == Units \in Seq(Names) /\ Members(Units) = Names
BY ProjectAssumption DEF ProjectAssumption, Members, Names

(* A preparation that does not stop has prepared all.                      *)
LEMMA PreparedIsBuildable ==
    ASSUME NEW c \in Calls, NEW u \in Names, Outcome(c, u) = "prepared"
    PROVE  Buildable(call[c], u)
BY DEF Outcome, Buildable

(* A module that is ready and lacks an interface that it depends on depends*)
(* on it through a declared module.                                        *)
LEMMA UnscheduledIsOutrun ==
    ASSUME IInv, NEW c \in Calls, call[c].at # "idle", NEW u \in Ready(c), Outcome(c, u) = "unscheduled"
    PROVE  Outrun
<1>0. /\ u \in Names /\ call[c].interfaces[u] = None /\ CallInv(c, call[c])
      /\ \A i \in Imports[u] : call[c].interfaces[i] # None
  BY DEF Ready, IInv
<1>1. PICK d \in Closure(u) : call[c].interfaces[d] = None
  BY DEF Outcome
<1>2. \A x \in Declared : call[c].interfaces[x] # None
  BY <1>0, ProjectAssumption DEF IInv, CallInv, Interfacing, Declared, Version, ProjectAssumption
<1>3. PICK i \in Imports[u] : d \in Closure(i)
  BY <1>0, <1>1, ClosureByImports
<1>4. i \in Names /\ d \in Names
  BY <1>0, <1>1, ClosureIsClosed
<1>5. i \in Declared
  <2> SUFFICES ASSUME i \notin Declared PROVE FALSE
    OBVIOUS
  <2>1. call[c].linked[i] # None
    BY <1>0, <1>4 DEF CallInv, Interfacing
  <2>2. Buildable(call[c], i)
    BY <1>0, <1>4, <2>1 DEF CallInv, Linking
  <2> QED
    BY <1>1, <1>3, <2>2 DEF Buildable
<1>6. u \notin Declared /\ d \notin Declared
  BY <1>0, <1>1, <1>2
<1> QED
  BY <1>0, <1>3, <1>5, <1>6 DEF Outrun

(* A wave is prepared.                                                     *)
LEMMA PrepareWaveInv ==
    ASSUME IInv, NEW c \in Calls, PrepareWave(c)
    PROVE  IInv'
<1> DEFINE wave   == Selected(Units, Ready(c))
<1> DEFINE misses == Selected(wave, {u \in Names : Fingerprint(c, u) \notin Keys})
<1> DEFINE hits   == Selected(wave, {u \in Names : Fingerprint(c, u) \in Keys})
<1>0. /\ call[c] \in CallRecords /\ CallInv(c, call[c]) /\ call[c].at \in {"wave", "inferred wave"}
      /\ call[c].at # "idle"
  BY DEF IInv, PrepareWave
<1>1. wave \in Seq(Names) /\ Members(wave) \subseteq Ready(c) /\ Ready(c) \subseteq Names
  BY SelectedModules, UnitsAreNames DEF Ready
<1>2. /\ misses \in Seq(Names) /\ Members(misses) \subseteq Members(wave)
      /\ hits \in Seq(Names) /\ Members(hits) \subseteq Members(wave)
  BY <1>1, SelectedModules
<1>4. ASSUME NEW end \in {"thrown", "unscheduled", "failed"}, Stops(c, wave, end), Goto(c, end, <<>>)
      PROVE  IInv'
  <2>0. end = "unscheduled" => Outrun
    <3> HIDE DEF wave
    <3>1. PICK i \in 1 .. Len(wave) : end = Outcome(c, wave[i])
      BY <1>4 DEF Stops
    <3>2. wave[i] \in Ready(c)
      BY <1>1, <3>1 DEF Members
    <3> QED
      BY <1>0, <3>1, <3>2, UnscheduledIsOutrun
  <2>1. PICK r \in CallRecords : call' = [call EXCEPT ![c] = r] /\ CallInv(c, r)
    BY <1>0, <1>4, <2>0, GivesUp
  <2> QED
    BY <1>0, <2>1, GoesOn DEF PrepareWave, IInv, Remembering
<1>5. ASSUME \A u \in Members(wave) : Outcome(c, u) = "prepared",
             call' = [call EXCEPT
                  ![c].wave = IF call[c].at = "wave" THEN wave ELSE misses,
                  ![c].at = IF call[c].at = "inferred wave" THEN "inferred hits"
                            ELSE IF misses = <<>> THEN "lookup" ELSE "compiling",
                  ![c].work = IF call[c].at = "inferred wave" THEN hits
                              ELSE IF misses = <<>> THEN wave ELSE misses]
      PROVE  IInv'
  <2> DEFINE list == IF call[c].at = "wave" THEN wave ELSE misses
  <2> DEFINE at == IF call[c].at = "inferred wave" THEN "inferred hits"
                   ELSE IF misses = <<>> THEN "lookup" ELSE "compiling"
  <2> DEFINE work == IF call[c].at = "inferred wave" THEN hits ELSE IF misses = <<>> THEN wave ELSE misses
  <2>1. list \in Seq(Names) /\ Members(list) \subseteq Members(wave)
    BY <1>1, <1>2
  <2>2. work \in Seq(Names) /\ Members(work) \subseteq Members(wave)
    BY <1>1, <1>2
  <2>3. at \in {"inferred hits", "lookup", "compiling"} /\ (at # "inferred hits" => call[c].at = "wave")
    BY <1>0
  <2>4. call' = [call EXCEPT ![c].wave = list, ![c].at = at, ![c].work = work]
    BY <1>5
  <2> HIDE DEF list, at, work
  <2> DEFINE r == [call[c] EXCEPT !.wave = list, !.at = at, !.work = work]
  <2>5. call' = [call EXCEPT ![c] = r]
    BY <2>4 DEF IInv
  <2>6. r \in CallRecords
    <3>1. at \in Places
      BY <2>3 DEF Places, Compiling
    <3> QED
      BY <1>0, <2>1, <2>2, <3>1 DEF CallRecords
  <2>7. /\ r.at = at /\ r.work = work /\ r.wave = list
        /\ r.interfaces = call[c].interfaces /\ r.linked = call[c].linked
    BY <1>0 DEF CallRecords
  <2> HIDE DEF r
  <2>8. /\ Interfacing(c, r) /\ Linking(c, r)
        /\ \A u \in Names : Buildable(call[c], u) => Buildable(r, u)
    BY <1>0, <2>7, MapsStay
  <2>9. \A u \in Members(r.work) \cup Members(r.wave) : Buildable(r, u)
    BY <1>1, <1>5, <2>1, <2>2, <2>7, <2>8, PreparedIsBuildable
  <2>10. Progress(c, r)
    <3>1. call[c].at = "wave" => Declared = {}
      BY <1>0 DEF CallInv, Progress, PlainPath
    <3> QED
      BY <2>3, <2>7, <3>1 DEF Progress, PlainPath, DeclaredPath
  <2>11. CallInv(c, r)
    BY <2>8, <2>9, <2>10 DEF CallInv
  <2> QED
    BY <1>0, <2>5, <2>6, <2>11, GoesOn DEF PrepareWave, IInv, Remembering
<1> QED
  BY <1>4, <1>5 DEF PrepareWave

(* The signal is aborted between two waves.                                *)
LEMMA CancelInv ==
    ASSUME IInv, NEW c \in Calls, Cancel(c)
    PROVE  IInv'
<1>1. call[c].at = "wave" /\ Goto(c, "thrown", <<>>)
  BY DEF Cancel
<1>2. PICK r \in CallRecords : call' = [call EXCEPT ![c] = r] /\ CallInv(c, r)
  BY <1>1, GivesUp
<1> QED
  BY <1>1, <1>2, GoesOn DEF Cancel, IInv, Remembering

(* The last wave is done.                                                  *)
LEMMA AllInferredInv ==
    ASSUME IInv, NEW c \in Calls, AllInferred(c)
    PROVE  IInv'
<1> DEFINE batch  == Selected(Units, Declared)
<1> DEFINE misses == Selected(batch, {u \in Names : Fingerprint(c, u) \notin Keys})
<1> DEFINE hits   == Selected(batch, {u \in Names : Fingerprint(c, u) \in Keys})
<1>0. /\ call[c] \in CallRecords /\ CallInv(c, call[c]) /\ call[c].at \in {"wave", "inferred wave"}
      /\ call[c].at # "idle"
  BY DEF IInv, AllInferred
<1>1. \A u \in Names : call[c].interfaces[u] # None
  BY NothingLeft DEF AllInferred
<1>2. \A u \in Names : Buildable(call[c], u)
  BY <1>1, ClosureIsClosed DEF Buildable
<1>3. Declared \subseteq Names
  BY ProjectAssumption DEF IInv, Declared, ProjectAssumption
<1>4. batch \in Seq(Names) /\ Members(batch) = Declared
  <2>1. batch \in Seq(Names) /\ Members(batch) = Names \cap Declared
    BY SelectedModules, UnitsAreNames
  <2> QED
    BY <1>3, <2>1
<1>5. /\ misses \in Seq(Names) /\ hits \in Seq(Names)
      /\ \A u \in Declared : u \in Members(misses) \/ u \in Members(hits)
  BY <1>3, <1>4, SelectedModules
<1>6. CASE call[c].at = "wave"
  <2>1. Goto(c, "linking", <<>>) /\ "linking" \in Places
    BY <1>1, <1>6 DEF AllInferred, Places
  <2>2. PICK none \in Seq(Names) : none = <<>> /\ \A u \in Members(none) : Buildable(call[c], u)
    BY MembersOfEmpty, EmptySeq
  <2>3. Goto(c, "linking", none)
    BY <2>1, <2>2
  <2>4. PICK r \in CallRecords : Moves(c, r, "linking", none)
    BY <1>6, <2>1, <2>2, <2>3, GotoStep
  <2>5. r.at = "linking" /\ r.linked = call[c].linked
    BY <1>0, <2>4 DEF Moves, CallRecords
  <2>6. \A u \in Names : r.linked[u] # None
    BY <1>0, <1>1, <1>6, <2>5 DEF CallInv, Interfacing, Progress, PlainPath
  <2>7. Progress(c, r)
    BY <2>5, <2>6 DEF Progress, PlainPath, DeclaredPath
  <2>8. call' = [call EXCEPT ![c] = r] /\ CallInv(c, r)
    BY <2>4, <2>7 DEF Moves
  <2> QED
    BY <1>0, <2>8, GoesOn DEF AllInferred, IInv, Remembering
<1>7. ASSUME NEW end \in {"thrown", "failed"}, Goto(c, end, <<>>)
      PROVE  IInv'
  <2>1. PICK r \in CallRecords : call' = [call EXCEPT ![c] = r] /\ CallInv(c, r)
    BY <1>0, <1>7, GivesUp
  <2> QED
    BY <1>0, <2>1, GoesOn DEF AllInferred, IInv, Remembering
<1>8. ASSUME call' = [call EXCEPT ![c].at = "declared hits", ![c].wave = misses, ![c].work = hits]
      PROVE  IInv'
  <2>1. call' = [call EXCEPT ![c].at = "declared hits", ![c].wave = misses, ![c].work = hits]
    BY <1>8
  <2> HIDE DEF misses, hits
  <2> DEFINE r == [call[c] EXCEPT !.at = "declared hits", !.wave = misses, !.work = hits]
  <2>2. call' = [call EXCEPT ![c] = r]
    BY <2>1 DEF IInv
  <2>3. r \in CallRecords
    <3>1. "declared hits" \in Places
      BY DEF Places
    <3> QED
      BY <1>0, <1>5, <3>1 DEF CallRecords
  <2>4. /\ r.at = "declared hits" /\ r.work = hits /\ r.wave = misses
        /\ r.interfaces = call[c].interfaces /\ r.linked = call[c].linked
    BY <1>0 DEF CallRecords
  <2> HIDE DEF r
  <2>5. Interfacing(c, r) /\ Linking(c, r)
    BY <1>0, <2>4, MapsStay
  <2>6. \A u \in Members(r.work) \cup Members(r.wave) : Buildable(r, u)
    BY <1>2, <1>5, <2>4, MembersInSet DEF Buildable
  <2>7. Progress(c, r)
    BY <1>1, <1>5, <2>4 DEF Progress, PlainPath, DeclaredPath
  <2>8. CallInv(c, r)
    BY <2>5, <2>6, <2>7 DEF CallInv
  <2> QED
    BY <1>0, <2>2, <2>3, <2>8, GoesOn DEF AllInferred, IInv, Remembering
<1> QED
  BY <1>0, <1>1, <1>6, <1>7, <1>8 DEF AllInferred

(* A hit is served.                                                        *)
LEMMA ServeHitInv ==
    ASSUME IInv, NEW c \in Calls, ServeHit(c)
    PROVE  IInv'
<1> DEFINE u == Head(call[c].work)
<1> DEFINE key == Fingerprint(c, u)
<1> DEFINE core == IF key \in Keys THEN EntryOf(key).core ELSE None
<1>0. /\ call[c] \in CallRecords /\ call[c].at \in {"inferred hits", "declared hits"}
      /\ call[c].work \in Seq(Names) /\ call[c].work # <<>>
  BY DEF IInv, ServeHit, CallRecords
<1>1. u \in Names /\ Tail(call[c].work) \in Seq(Names) /\ Members(call[c].work) = {u} \cup Members(Tail(call[c].work))
  BY <1>0, MembersOfTail
<1>2. /\ cache' = Touched(key, core)
      /\ core = None => Goto(c, "thrown", <<>>)
      /\ core # None => Accept(c, u, core, Tail(call[c].work))
      /\ project' = project /\ owned' = owned
  BY DEF ServeHit
<1> HIDE DEF u
<1>7. Buildable(call[c], u)
  BY <1>1 DEF IInv, CallInv
<1>3. core \in {None, Built(c, u)}
  BY <1>1, <1>7, HitIsBuilt
<1> HIDE DEF core
<1>4. cache' \in Seq(SoundEntries)
  <2>1. [key |-> key, core |-> core] \in SoundEntries
    BY <1>1, <1>3, <1>7, EntryIsSound
  <2> HIDE DEF key
  <2> QED
    BY <1>2, <2>1, TouchedIsSound DEF IInv
<1>5. CASE core = None
  <2>1. Goto(c, "thrown", <<>>) /\ call[c].at # "idle"
    BY <1>0, <1>2, <1>5
  <2>2. PICK r \in CallRecords : call' = [call EXCEPT ![c] = r] /\ CallInv(c, r)
    BY <2>1, GivesUp
  <2> QED
    BY <1>0, <1>2, <1>4, <2>2, GoesOn DEF Remembering
<1>6. CASE core # None
  <2>1. Accept(c, u, Built(c, u), Tail(call[c].work)) /\ call[c].at \in Accepting
    BY <1>0, <1>2, <1>3, <1>6 DEF Accepting
  <2>2. PICK r \in CallRecords : call' = [call EXCEPT ![c] = r] /\ CallInv(c, r)
    BY <1>1, <2>1, AcceptStep DEF Accepted
  <2> QED
    BY <1>0, <1>2, <1>4, <2>2, GoesOn DEF Remembering
<1> QED
  BY <1>5, <1>6

(* The hits are served.                                                    *)
LEMMA HitsServedInv ==
    ASSUME IInv, NEW c \in Calls, HitsServed(c)
    PROVE  IInv'
<1> DEFINE at == IF call[c].at = "inferred hits" THEN "inferred compiling" ELSE "declared compiling"
<1>0. /\ call[c] \in CallRecords /\ CallInv(c, call[c]) /\ call[c].at \in {"inferred hits", "declared hits"}
      /\ call[c].work = <<>> /\ call[c].wave \in Seq(Names)
  BY DEF IInv, HitsServed, CallRecords
<1>1. Goto(c, at, call[c].wave) /\ at \in Places /\ at # "idle"
  BY DEF HitsServed, Places, Compiling
<1>2. \A u \in Members(call[c].wave) : Buildable(call[c], u)
  BY <1>0 DEF CallInv
<1>3. at \in {"inferred compiling", "declared compiling"} /\ (at = "declared compiling" => call[c].at = "declared hits")
  BY <1>0
<1> HIDE DEF at
<1>4. PICK r \in CallRecords : Moves(c, r, at, call[c].wave)
  BY <1>0, <1>1, <1>2, GotoStep
<1>5. r.at = at /\ r.work = call[c].wave /\ r.linked = call[c].linked /\ r.interfaces = call[c].interfaces
  BY <1>0, <1>4 DEF Moves, CallRecords
<1>6. Progress(c, r)
  BY <1>0, <1>3, <1>5, MembersOfEmpty DEF CallInv, Progress, PlainPath, DeclaredPath
<1>7. call' = [call EXCEPT ![c] = r] /\ CallInv(c, r)
  BY <1>4, <1>6 DEF Moves
<1> QED
  BY <1>0, <1>7, GoesOn DEF HitsServed, IInv, Remembering

(* The batch compiler answers.                                             *)
LEMMA BatchReturnsInv ==
    ASSUME IInv, NEW c \in Calls, NEW ok \in BOOLEAN, BatchReturns(c, ok)
    PROVE  IInv'
<1>0. /\ call[c] \in CallRecords /\ CallInv(c, call[c]) /\ call[c].at \in Compiling
      /\ call[c].work \in Seq(Names)
  BY DEF IInv, BatchReturns, CallRecords
<1>1. CASE ~ok
  <2>1. Goto(c, "thrown", <<>>) /\ call[c].at # "idle" /\ owned' = owned
    BY <1>0, <1>1 DEF BatchReturns, Compiling
  <2>2. PICK r \in CallRecords : call' = [call EXCEPT ![c] = r] /\ CallInv(c, r)
    BY <2>1, GivesUp
  <2> QED
    BY <1>0, <2>1, <2>2, GoesOn DEF BatchReturns, IInv, Remembering, Compiling
<1>2. CASE ok
  <2> DEFINE at == CASE call[c].at = "compiling" -> "remember"
                     [] call[c].at = "inferred compiling" -> "inferred remember"
                     [] call[c].at = "declared compiling" -> "declared remember"
  <2> DEFINE r == [call[c] EXCEPT !.at = at]
  <2>1. /\ owned' = owned \cup {<<c, u>> : u \in {x \in Members(call[c].work) : ~BrokenCore(Built(c, x))}}
        /\ call' = [call EXCEPT ![c] = r]
    BY <1>2 DEF BatchReturns, IInv
  <2>2. /\ at \in Remembering
        /\ at = "remember" => call[c].at = "compiling"
        /\ at = "declared remember" => call[c].at = "declared compiling"
    BY <1>0 DEF Compiling, Remembering
  <2> HIDE DEF at
  <2>3. r \in CallRecords
    <3>1. at \in Places
      BY <2>2 DEF Places, Remembering
    <3> QED
      BY <1>0, <3>1 DEF CallRecords
  <2>4. /\ r.at = at /\ r.work = call[c].work /\ r.wave = call[c].wave /\ r.failed = call[c].failed
        /\ r.interfaces = call[c].interfaces /\ r.linked = call[c].linked
    BY <1>0 DEF CallRecords
  <2> HIDE DEF r
  <2>5. \A u \in Members(r.work) \cup Members(r.wave) : Buildable(r, u)
    BY <1>0, <2>4 DEF CallInv, Buildable
  <2>6. Interfacing(c, r) /\ Linking(c, r)
    BY <1>0, <2>4, MapsStay DEF Compiling
  <2>7. Progress(c, r)
    BY <1>0, <2>2, <2>4 DEF CallInv, Progress, PlainPath, DeclaredPath, Remembering
  <2>8. CallInv(c, r)
    BY <2>5, <2>6, <2>7 DEF CallInv
  <2>9. OwnedInv'
    <3>1. Members(call[c].work) \subseteq Names
      BY <1>0, MembersInSet
    <3>2. owned' \subseteq Calls \X Names
      BY <2>1, <3>1 DEF IInv, OwnedInv
    <3>3. \A k \in Calls : call'[k] = IF k = c THEN r ELSE call[k]
      BY <2>1 DEF IInv
    <3>4. \A u \in Names : <<c, u>> \notin owned
      BY <1>0, HoldsNone DEF Compiling, Remembering
    <3>5. ASSUME NEW k \in Calls, NEW u \in Names, <<k, u>> \in owned' PROVE Held(k, call'[k], u)
      <4>1. CASE k = c
        <5>1. u \in Members(call[c].work) /\ ~BrokenCore(Built(c, u))
          BY <2>1, <3>4, <3>5, <4>1
        <5>2. Built(c, u) = BuiltFrom(c, r, u)
          BY <2>4 DEF Built, BuiltFrom
        <5> QED
          BY <2>2, <2>4, <3>3, <4>1, <5>1, <5>2 DEF Held
      <4>2. CASE k # c
        <5>1. <<k, u>> \in owned
          BY <2>1, <3>5, <4>2
        <5> QED
          BY <3>3, <4>2, <5>1 DEF IInv, OwnedInv
      <4> QED
        BY <4>1, <4>2
    <3> QED
      BY <3>2, <3>5, OwnedFrom DEF BatchReturns
  <2> QED
    BY <2>1, <2>3, <2>8, <2>9, CallStep DEF BatchReturns, IInv
<1> QED
  BY <1>1, <1>2

(* The head of the list is done: it is destroyed, or was never handed out. *)
LEMMA HeadDone ==
    ASSUME IInv, NEW c \in Calls, NEW r \in CallRecords, call[c].at # "thrown",
           call[c].at \in Remembering, call[c].work # <<>>,
           call' = [call EXCEPT ![c] = r], project' = project, cache' \in Seq(SoundEntries),
           CallInv(c, r), owned' \subseteq owned,
           BrokenCore(Built(c, Head(call[c].work))) \/ <<c, Head(call[c].work)>> \notin owned',
           r.at = "thrown" \/ (r.at = call[c].at /\ r.work = Tail(call[c].work) /\ Extends(r, call[c]))
    PROVE  IInv'
<1> DEFINE u == Head(call[c].work)
<1>1. call[c].work \in Seq(Names) /\ call[c] \in CallRecords /\ CallInv(c, call[c])
  BY DEF IInv, CallRecords
<1>2. Members(call[c].work) = {u} \cup Members(Tail(call[c].work))
  BY <1>1, MembersOfTail
<1> HIDE DEF u
<1>3. \A k \in Calls : call'[k] = IF k = c THEN r ELSE call[k]
  BY DEF IInv
<1>4. ASSUME NEW k \in Calls, NEW x \in Names, <<k, x>> \in owned' PROVE Held(k, call'[k], x)
  <2>1. <<k, x>> \in owned /\ Held(k, call[k], x)
    BY <1>4 DEF IInv, OwnedInv
  <2>2. CASE k # c
    BY <1>3, <2>1, <2>2
  <2>3. CASE k = c /\ r.at = "thrown"
    BY <1>3, <2>3 DEF Held
  <2>4. CASE k = c /\ r.at # "thrown"
    <3>1. x \in Members(call[c].work) /\ ~BrokenCore(BuiltFrom(c, call[c], x))
      BY <2>1, <2>4 DEF Held
    <3>2. Built(c, x) = BuiltFrom(c, call[c], x)
      BY DEF Built, BuiltFrom
    <3>3. x # u
      BY <1>4, <2>4, <3>1, <3>2 DEF u
    <3>4. x \in Members(Tail(call[c].work))
      BY <1>2, <3>1, <3>3
    <3>5. BuiltFrom(c, r, x) = BuiltFrom(c, call[c], x)
      <4>1. Buildable(call[c], x)
        BY <1>1, <3>1 DEF CallInv
      <4> QED
        BY <1>1, <2>4, <4>1, BuiltStays
    <3> QED
      BY <1>3, <2>4, <3>1, <3>4, <3>5 DEF Held
  <2> QED
    BY <2>2, <2>3, <2>4
<1>5. OwnedInv'
  BY <1>4, OwnedFrom DEF IInv, OwnedInv
<1> QED
  BY <1>5, CallStep

(* One compiled module is copied, destroyed and remembered.                *)
LEMMA RememberOneInv ==
    ASSUME IInv, NEW c \in Calls, NEW readable \in BOOLEAN, RememberOne(c, readable)
    PROVE  IInv'
<1> DEFINE u == Head(call[c].work)
<1> DEFINE rest == Tail(call[c].work)
<1>0. /\ call[c] \in CallRecords /\ CallInv(c, call[c]) /\ call[c].at \in Remembering
      /\ call[c].work \in Seq(Names) /\ call[c].work # <<>>
      /\ call[c].at # "thrown" /\ call[c].at # "idle" /\ project' = project
  BY DEF IInv, RememberOne, CallRecords, Remembering
<1>1. u \in Names /\ rest \in Seq(Names) /\ Members(call[c].work) = {u} \cup Members(rest)
  BY <1>0, MembersOfTail
<1>4. Buildable(call[c], u)
  BY <1>0, <1>1 DEF CallInv
<1>2. CASE BrokenCore(Built(c, u))
  <2> DEFINE r == [call[c] EXCEPT !.work = rest, !.failed = TRUE]
  <2>1. call' = [call EXCEPT ![c] = r] /\ cache' = cache /\ owned' = owned
    BY <1>2 DEF RememberOne, IInv
  <2>2. r \in CallRecords
    BY <1>0, <1>1 DEF CallRecords
  <2>3. /\ r.at = call[c].at /\ r.work = rest /\ r.wave = call[c].wave /\ r.failed = TRUE
        /\ r.interfaces = call[c].interfaces /\ r.linked = call[c].linked
    BY <1>0 DEF CallRecords
  <2> HIDE DEF r
  <2>4. \A x \in Members(r.work) \cup Members(r.wave) : Buildable(r, x)
    BY <1>0, <1>1, <2>3 DEF CallInv, Buildable
  <2>5. Interfacing(c, r) /\ Linking(c, r) /\ Extends(r, call[c])
    BY <1>0, <2>3, MapsStay DEF Extends
  <2>6. Progress(c, r)
    BY <1>0, <2>3 DEF CallInv, Progress, PlainPath, DeclaredPath, Remembering
  <2>7. CallInv(c, r)
    BY <2>4, <2>5, <2>6 DEF CallInv
  <2>8. cache' \in Seq(SoundEntries) /\ owned' \subseteq owned
    BY <2>1 DEF IInv
  <2> QED
    BY <1>0, <1>2, <2>1, <2>2, <2>3, <2>5, <2>7, <2>8, HeadDone
<1>3. CASE ~BrokenCore(Built(c, u))
  <2>1. /\ owned' = owned \ {<<c, u>>}
        /\ ~readable => Goto(c, "thrown", <<>>) /\ cache' = cache
        /\ readable => /\ cache' = Remember(cache, Fingerprint(c, u), Built(c, u))
                       /\ call[c].at = "remember" => call' = [call EXCEPT ![c].work = rest]
                       /\ call[c].at # "remember" => Accept(c, u, Built(c, u), rest)
    BY <1>3 DEF RememberOne
  <2>2. owned' \subseteq owned /\ <<c, u>> \notin owned'
    BY <2>1
  <2>3. CASE ~readable
    <3>1. PICK r \in CallRecords : call' = [call EXCEPT ![c] = r] /\ r.at = "thrown" /\ CallInv(c, r)
      BY <1>0, <2>1, <2>3, GivesUp
    <3>2. cache' \in Seq(SoundEntries)
      BY <2>1, <2>3 DEF IInv
    <3> QED
      BY <1>0, <2>2, <3>1, <3>2, HeadDone
  <2>4. CASE readable
    <3>1. cache' \in Seq(SoundEntries)
      <4>1. [key |-> Fingerprint(c, u), core |-> Built(c, u)] \in SoundEntries
        BY <1>1, <1>4, EntryIsSound
      <4>2. cache' = Remember(cache, Fingerprint(c, u), Built(c, u)) /\ cache \in Seq(SoundEntries)
        BY <2>1, <2>4 DEF IInv
      <4> HIDE DEF u
      <4> QED
        BY <4>1, <4>2, RememberIsSound
    <3>2. CASE call[c].at = "remember"
      <4> DEFINE r == [call[c] EXCEPT !.work = rest]
      <4>1. call' = [call EXCEPT ![c] = r]
        BY <2>1, <2>4, <3>2 DEF IInv
      <4>2. r \in CallRecords
        BY <1>0, <1>1 DEF CallRecords
      <4>3. /\ r.at = "remember" /\ r.work = rest /\ r.wave = call[c].wave
            /\ r.interfaces = call[c].interfaces /\ r.linked = call[c].linked
        BY <1>0, <3>2 DEF CallRecords
      <4> HIDE DEF r
      <4>4. \A x \in Members(r.work) \cup Members(r.wave) : Buildable(r, x)
        BY <1>0, <1>1, <4>3 DEF CallInv, Buildable
      <4>5. Interfacing(c, r) /\ Linking(c, r) /\ Extends(r, call[c])
        BY <1>0, <4>3, MapsStay DEF Extends
      <4>6. Progress(c, r)
        BY <1>0, <3>2, <4>3 DEF CallInv, Progress, PlainPath, DeclaredPath
      <4>7. CallInv(c, r)
        BY <4>4, <4>5, <4>6 DEF CallInv
      <4> QED
        BY <1>0, <2>2, <3>1, <3>2, <4>1, <4>2, <4>3, <4>5, <4>7, HeadDone
    <3>3. CASE call[c].at # "remember"
      <4>1. Accept(c, u, Built(c, u), rest) /\ call[c].at \in Accepting
        BY <1>0, <2>1, <2>4, <3>3 DEF Accepting, Remembering
      <4>2. PICK r \in CallRecords :
              /\ call' = [call EXCEPT ![c] = r] /\ CallInv(c, r)
              /\ r.at = "thrown" \/ (r.at = call[c].at /\ r.work = rest /\ Extends(r, call[c]))
        <5>1. PICK r \in CallRecords : Accepted(c, r, rest)
          BY <1>1, <4>1, AcceptStep
        <5> QED
          BY <5>1 DEF Accepted
      <4> QED
        BY <1>0, <2>2, <3>1, <4>2, HeadDone
    <3> QED
      BY <3>2, <3>3
  <2> QED
    BY <2>3, <2>4
<1> QED
  BY <1>2, <1>3

(* The end of the loop over the compilations.                              *)
LEMMA RememberedInv ==
    ASSUME IInv, NEW c \in Calls, Remembered(c)
    PROVE  IInv'
<1>0. /\ call[c] \in CallRecords /\ CallInv(c, call[c]) /\ call[c].at \in Remembering
      /\ call[c].work = <<>> /\ call[c].wave \in Seq(Names) /\ Members(call[c].work) = {}
  BY MembersOfEmpty DEF IInv, Remembered, CallRecords, Remembering
<1>1. CASE call[c].failed
  <2>1. Goto(c, "failed", <<>>) /\ call[c].at # "idle"
    BY <1>0, <1>1 DEF Remembered, Remembering
  <2>2. PICK r \in CallRecords : call' = [call EXCEPT ![c] = r] /\ CallInv(c, r)
    BY <2>1, GivesUp
  <2> QED
    BY <1>0, <2>2, GoesOn DEF Remembered, IInv, Remembering
<1>2. CASE ~call[c].failed
  <2> DEFINE at == CASE call[c].at = "remember" -> "lookup"
                     [] call[c].at = "inferred remember" -> "inferred wave"
                     [] call[c].at = "declared remember" -> "linking"
  <2> DEFINE work == IF call[c].at = "remember" THEN call[c].wave ELSE <<>>
  <2>1. Goto(c, at, work)
    BY <1>0, <1>2 DEF Remembered, Remembering
  <2>2. /\ at \in {"lookup", "inferred wave", "linking"}
        /\ at = "lookup" => call[c].at = "remember"
        /\ at = "linking" => call[c].at = "declared remember"
    BY <1>0 DEF Remembering
  <2>3. work \in Seq(Names)
    BY <1>0, EmptySeq
  <2>4. \A u \in Members(work) : Buildable(call[c], u)
    BY <1>0, MembersOfEmpty DEF CallInv
  <2> HIDE DEF at, work
  <2>5. at \in Places /\ at # "idle" /\ call[c].at # "idle"
    BY <1>0, <2>2 DEF Places, Remembering
  <2>6. PICK r \in CallRecords : Moves(c, r, at, work)
    BY <2>1, <2>3, <2>4, <2>5, GotoStep
  <2>7. r.at = at /\ r.linked = call[c].linked /\ r.interfaces = call[c].interfaces
    BY <1>0, <2>6 DEF Moves, CallRecords
  <2>8. at = "linking" => \A u \in Names : r.linked[u] # None
    <3> SUFFICES ASSUME call[c].at = "declared remember", NEW u \in Names
                 PROVE  call[c].linked[u] # None
      BY <2>2, <2>7
    <3>1. u \in Declared => call[c].linked[u] # None
      BY <1>0, <1>2 DEF CallInv, Progress
    <3>2. u \notin Declared => call[c].linked[u] # None
      BY <1>0 DEF CallInv, Progress, DeclaredPath, Interfacing
    <3> QED
      BY <3>1, <3>2
  <2>9. Progress(c, r)
    BY <1>0, <2>2, <2>7, <2>8 DEF CallInv, Progress, PlainPath, DeclaredPath
  <2>10. call' = [call EXCEPT ![c] = r] /\ CallInv(c, r)
    BY <2>6, <2>9 DEF Moves
  <2> QED
    BY <1>0, <2>10, GoesOn DEF Remembered, IInv, Remembering
<1> QED
  BY <1>1, <1>2

(* A module of the wave is looked up.                                      *)
LEMMA LookUpInv ==
    ASSUME IInv, NEW c \in Calls, LookUp(c)
    PROVE  IInv'
<1> DEFINE u == Head(call[c].work)
<1> DEFINE key == Fingerprint(c, u)
<1>0. /\ call[c] \in CallRecords /\ CallInv(c, call[c]) /\ call[c].at = "lookup"
      /\ call[c].work \in Seq(Names) /\ call[c].at # "idle" /\ project' = project /\ owned' = owned
  BY DEF IInv, LookUp, CallRecords
<1>1. CASE call[c].work = <<>>
  <2>1. PICK none \in Seq(Names) : none = <<>> /\ \A x \in Members(none) : Buildable(call[c], x)
    BY MembersOfEmpty, EmptySeq
  <2>2. Goto(c, "wave", none) /\ "wave" \in Places /\ cache' = cache
    BY <1>1, <2>1 DEF LookUp, Places
  <2>3. PICK r \in CallRecords : Moves(c, r, "wave", none)
    BY <1>0, <2>1, <2>2, GotoStep
  <2>4. r.at = "wave"
    BY <1>0, <2>3 DEF Moves, CallRecords
  <2>5. Progress(c, r)
    BY <1>0, <2>4 DEF CallInv, Progress, PlainPath, DeclaredPath
  <2>6. call' = [call EXCEPT ![c] = r] /\ CallInv(c, r)
    BY <2>3, <2>5 DEF Moves
  <2> QED
    BY <1>0, <2>2, <2>6, GoesOn DEF IInv, Remembering
<1>2. CASE call[c].work # <<>> /\ (key \notin Keys \/ (key \in Keys /\ EntryOf(key).core = None))
  <2>1. Goto(c, "omitted", <<>>) /\ cache' = cache
    BY <1>2 DEF LookUp
  <2>2. PICK r \in CallRecords : call' = [call EXCEPT ![c] = r] /\ CallInv(c, r)
    BY <1>0, <2>1, GivesUp
  <2> QED
    BY <1>0, <2>1, <2>2, GoesOn DEF IInv, Remembering
<1>3. CASE call[c].work # <<>> /\ key \in Keys /\ EntryOf(key).core # None
  <2>1. cache' = Touched(key, EntryOf(key).core) /\ Accept(c, u, EntryOf(key).core, Tail(call[c].work))
    BY <1>3 DEF LookUp
  <2>2. u \in Names /\ Tail(call[c].work) \in Seq(Names) /\ Members(call[c].work) = {u} \cup Members(Tail(call[c].work))
    BY <1>0, <1>3, MembersOfTail
  <2>8. Buildable(call[c], u)
    BY <1>0, <2>2 DEF CallInv
  <2> HIDE DEF u
  <2>3. EntryOf(key).core = Built(c, u)
    BY <1>3, <2>2, <2>8, HitIsBuilt
  <2>4. [key |-> key, core |-> Built(c, u)] \in SoundEntries
    BY <2>2, <2>8, EntryIsSound
  <2>5. Accept(c, u, Built(c, u), Tail(call[c].work)) /\ call[c].at \in Accepting
    BY <1>0, <2>1, <2>3 DEF Accepting
  <2> HIDE DEF key
  <2>6. cache' \in Seq(SoundEntries)
    BY <2>1, <2>3, <2>4, TouchedIsSound DEF IInv
  <2>7. PICK r \in CallRecords : call' = [call EXCEPT ![c] = r] /\ CallInv(c, r)
    BY <2>2, <2>5, AcceptStep DEF Accepted
  <2> QED
    BY <1>0, <2>6, <2>7, GoesOn DEF Remembering
<1> QED
  BY <1>1, <1>2, <1>3

(* The units are linked.                                                   *)
LEMMA LinkInv ==
    ASSUME IInv, NEW c \in Calls, NEW ok \in BOOLEAN, Link(c, ok)
    PROVE  IInv'
<1>0. call[c] \in CallRecords /\ CallInv(c, call[c]) /\ call[c].at = "linking" /\ call[c].at # "idle"
  BY DEF IInv, Link
<1>1. CASE ~ok
  <2>1. Goto(c, "thrown", <<>>)
    BY <1>1 DEF Link
  <2>2. PICK r \in CallRecords : call' = [call EXCEPT ![c] = r] /\ CallInv(c, r)
    BY <1>0, <2>1, GivesUp
  <2> QED
    BY <1>0, <2>2, GoesOn DEF Link, IInv, Remembering
<1>2. CASE ok
  <2>1. PICK none \in Seq(Names) : none = <<>> /\ \A x \in Members(none) : Buildable(call[c], x)
    BY MembersOfEmpty, EmptySeq
  <2>2. Goto(c, "linked", none) /\ "linked" \in Places
    BY <1>2, <2>1 DEF Link, Places, Ended
  <2>3. PICK r \in CallRecords : Moves(c, r, "linked", none)
    BY <1>0, <2>1, <2>2, GotoStep
  <2>4. r.at = "linked" /\ r.linked = call[c].linked
    BY <1>0, <2>3 DEF Moves, CallRecords
  <2>5. Progress(c, r)
    BY <1>0, <2>4 DEF CallInv, Progress, PlainPath, DeclaredPath
  <2>6. call' = [call EXCEPT ![c] = r] /\ CallInv(c, r)
    BY <2>3, <2>5 DEF Moves
  <2> QED
    BY <1>0, <2>6, GoesOn DEF Link, IInv, Remembering
<1> QED
  BY <1>1, <1>2

(* clear(), and steps that change nothing.                                 *)
LEMMA CacheOnlyInv ==
    ASSUME IInv, cache' \in Seq(SoundEntries), UNCHANGED <<project, call, owned>>
    PROVE  IInv'
<1>1. \A c \in Calls : CallInv(c, call[c])'
  BY SameProject DEF IInv
<1>2. OwnedInv'
  BY OwnedFrom DEF IInv, OwnedInv
<1> QED
  BY <1>1, <1>2 DEF IInv

(* Every step keeps the invariant.                                         *)
LEMMA NextInv == IInv /\ [Next]_vars => IInv'
<1> SUFFICES ASSUME IInv, [Next]_vars PROVE IInv'
  OBVIOUS
<1>1. ASSUME NEW c \in Calls, Start(c) PROVE IInv'
  BY <1>1, StartInv
<1>2. ASSUME NEW c \in Calls, PrepareWave(c) PROVE IInv'
  BY <1>2, PrepareWaveInv
<1>3. ASSUME NEW c \in Calls, AllInferred(c) PROVE IInv'
  BY <1>3, AllInferredInv
<1>4. ASSUME NEW c \in Calls, ServeHit(c) PROVE IInv'
  BY <1>4, ServeHitInv
<1>5. ASSUME NEW c \in Calls, HitsServed(c) PROVE IInv'
  BY <1>5, HitsServedInv
<1>6. ASSUME NEW c \in Calls, NEW ok \in BOOLEAN, BatchReturns(c, ok) PROVE IInv'
  BY <1>6, BatchReturnsInv
<1>7. ASSUME NEW c \in Calls, NEW ok \in BOOLEAN, RememberOne(c, ok) PROVE IInv'
  BY <1>7, RememberOneInv
<1>8. ASSUME NEW c \in Calls, Remembered(c) PROVE IInv'
  BY <1>8, RememberedInv
<1>9. ASSUME NEW c \in Calls, LookUp(c) PROVE IInv'
  BY <1>9, LookUpInv
<1>10. ASSUME NEW c \in Calls, NEW ok \in BOOLEAN, Link(c, ok) PROVE IInv'
  BY <1>10, LinkInv
<1>13. ASSUME NEW c \in Calls, Cancel(c) PROVE IInv'
  BY <1>13, CancelInv
<1>11. CASE Clear
  <2>1. cache' \in Seq(SoundEntries)
    BY <1>11, EmptySeq DEF Clear
  <2> QED
    BY <1>11, <2>1, CacheOnlyInv DEF Clear
<1>12. CASE UNCHANGED vars
  BY <1>12, CacheOnlyInv DEF vars, IInv
<1> QED
  BY <1>1, <1>2, <1>3, <1>4, <1>5, <1>6, <1>7, <1>8, <1>9, <1>10, <1>11, <1>12, <1>13 DEF Next, Step

-----------------------------------------------------------------------------
(* The caches, the lists and the maps of every call are as IInv says.      *)
THEOREM ProjectInvariant == Spec => []IInv
BY InitInv, NextInv, PTL DEF Spec

(* A linked program is made of the call's own sources, each compiled       *)
(* against the interfaces of the very modules it is linked with and the    *)
(* types that all it depends on declare, whatever other calls put into the *)
(* cache and however an edit reaches a module through its imports.         *)
THEOREM LinkedProgramIsUpToDate == Spec => []LinkedIsUpToDate
<1>1. ASSUME IInv, NEW c \in Calls, call[c].at = "linked", NEW u \in Names
      PROVE  call[c].linked[u] =
               [unit |-> u, version |-> Version(c, u),
                imports |-> [d \in Imports[u] |-> InterfaceOf(call[c].linked[d])],
                types |-> [d \in Closure(u) |-> Types[d][Version(c, d)]]]
  <2>1. CallInv(c, call[c]) /\ \A x \in Names : call[c].linked[x] # None
    BY <1>1 DEF IInv, CallInv, Progress
  <2>2. \A x \in Names : Buildable(call[c], x) /\ call[c].linked[x] = BuiltFrom(c, call[c], x)
    BY <2>1 DEF CallInv, Linking
  <2>3. ASSUME NEW d \in Imports[u] PROVE call[c].interfaces[d] = InterfaceOf(call[c].linked[d])
    <3>1. d \in Names /\ call[c].interfaces[d] # None
      BY <2>2, ClosureIsClosed DEF Buildable
    <3>2. CASE d \notin Declared
      BY <1>1, <2>1, <3>1, <3>2 DEF CallInv, Interfacing
    <3>3. CASE d \in Declared
      <4>1. call[c].interfaces[d] = Declares[d][Version(c, d)]
        BY <1>1, <2>1, <3>3 DEF CallInv, Interfacing
      <4>2. call[c].linked[d] = BuiltFrom(c, call[c], d)
        BY <2>2, <3>1
      <4>3. BuiltFrom(c, call[c], d).unit = d /\ BuiltFrom(c, call[c], d).version = Version(c, d)
        BY DEF BuiltFrom
      <4> QED
        BY <3>3, <4>1, <4>2, <4>3 DEF InterfaceOf
    <3> QED
      BY <3>2, <3>3
  <2>4. [d \in Imports[u] |-> call[c].interfaces[d]] =
        [d \in Imports[u] |-> InterfaceOf(call[c].linked[d])]
    BY <2>3
  <2> QED
    BY <2>2, <2>4 DEF BuiltFrom
<1>2. IInv => LinkedIsUpToDate
  BY <1>1 DEF LinkedIsUpToDate
<1> QED
  BY <1>2, ProjectInvariant, PTL

(* A call is left without a schedule in no other project than one in which *)
(* an undeclared module imports a declared one that depends on undeclared  *)
(* modules: the throws "cannot infer declared project dependencies" and    *)
(* "has no interface for dependency" cannot be reached in the others.      *)
UnscheduledIsExplained == \A c \in Calls : call[c].at = "unscheduled" => Outrun

THEOREM ScheduleAdvances == Spec => []UnscheduledIsExplained
<1>1. IInv => UnscheduledIsExplained
  BY DEF IInv, CallInv, Progress, UnscheduledIsExplained
<1> QED
  BY <1>1, ProjectInvariant, PTL

(* A call that returns has destroyed every module it was given.            *)
THEOREM ReturningReleases == Spec => []ReturnReleases
<1>1. IInv => ReturnReleases
  BY DEF IInv, OwnedInv, Held, ReturnReleases, Remembering
<1> QED
  BY <1>1, ProjectInvariant, PTL

-----------------------------------------------------------------------------
(* ParallelCompiler: how a batch is cut into parts.                        *)

(* The loop of sizeBalancedBatches after n modules: every module is left   *)
(* or in a part.                                                           *)
CutStates(weight, count) ==
    {c \in [left : SUBSET (1 .. Len(weight)), parts : [1 .. count -> Seq(1 .. Len(weight))], load : [1 .. count -> Nat]] :
        \A i \in 1 .. Len(weight) : i \in c.left \/ \E p \in 1 .. count : i \in Members(c.parts[p])}

CutAfter(weight, count, n) ==
    {c \in CutStates(weight, count) : IsFiniteSet(c.left) /\ Cardinality(c.left) = Len(weight) - n}

(* There is a heaviest module among those that are left.                   *)
LEMMA HeaviestIsLeft ==
    ASSUME NEW weight \in Seq(Nat), NEW left \in SUBSET (1 .. Len(weight)), left # {}
    PROVE  Heaviest(left, weight) \in left
<1> DEFINE Heavier(i, j) == weight[i] > weight[j] \/ (weight[i] = weight[j] /\ i <= j)
           Has1(set) == \E i \in set : \A j \in set : Heavier(i, j)
           S == {n \in Nat : n <= Len(weight) => \A set \in SUBSET (1 .. n) : set # {} => Has1(set)}
<1>0. Len(weight) \in Nat /\ \A i \in 1 .. Len(weight) : weight[i] \in Nat
  OBVIOUS
<1>1. 0 \in S
  <2>1. ASSUME NEW set \in SUBSET (1 .. 0) PROVE set = {}
    <3>1. 1 .. 0 = {}
      OBVIOUS
    <3> QED
      BY <3>1
  <2> HIDE DEF Has1
  <2> QED
    BY <2>1
<1>2. ASSUME NEW n \in S PROVE n + 1 \in S
  <2> SUFFICES ASSUME n + 1 <= Len(weight), NEW set \in SUBSET (1 .. n + 1), set # {} PROVE Has1(set)
    BY <1>0
  <2> DEFINE rest == set \ {n + 1}
  <2>0. n \in Nat /\ n <= Len(weight) /\ \A i \in 1 .. n + 1 : i \in 1 .. Len(weight) /\ i <= n + 1 /\ (i = n + 1 \/ i \in 1 .. n)
    BY <1>0
  <2>1. rest \in SUBSET (1 .. n)
    BY <2>0
  <2>2. CASE rest = {}
    <3>1. set = {n + 1}
      BY <2>2
    <3>2. Heavier(n + 1, n + 1)
      BY <1>0, <2>0
    <3> HIDE DEF Heavier
    <3> QED
      BY <3>1, <3>2
  <2>3. CASE rest # {}
    <3>1. PICK i \in rest : \A j \in rest : Heavier(i, j)
      BY <2>0, <2>1, <2>3
    <3>2. i \in 1 .. n /\ i \in set
      BY <2>1
    <3>3. CASE n + 1 \notin set \/ Heavier(i, n + 1)
      <4>1. \A j \in set : Heavier(i, j)
        <5> HIDE DEF Heavier
        <5> QED
          BY <3>1, <3>3
      <4> HIDE DEF Heavier
      <4> QED
        BY <3>2, <4>1
    <3>4. CASE n + 1 \in set /\ ~Heavier(i, n + 1)
      <4>1. weight[n + 1] \in Nat /\ weight[i] \in Nat /\ weight[n + 1] > weight[i]
        BY <1>0, <2>0, <3>2, <3>4
      <4>2. ASSUME NEW j \in set PROVE Heavier(n + 1, j)
        <5>1. CASE j = n + 1
          BY <1>0, <2>0, <5>1
        <5>2. CASE j # n + 1
          <6>1. Heavier(i, j) /\ weight[j] \in Nat
            BY <1>0, <2>0, <3>1, <5>2
          <6> QED
            BY <4>1, <6>1
        <5> QED
          BY <5>1, <5>2
      <4> HIDE DEF Heavier
      <4> QED
        BY <3>4, <4>2
    <3> QED
      BY <3>3, <3>4
  <2> QED
    BY <2>2, <2>3
<1> HIDE DEF S
<1>3. S = Nat
  <2>1. S \subseteq Nat
    BY DEF S
  <2> QED
    BY <1>1, <1>2, <2>1, InductionOnSet
<1>4. \E i \in left : \A j \in left : Heavier(i, j)
  BY <1>0, <1>3 DEF S
<1> QED
  BY <1>4 DEF Heaviest

(* There is a lightest part.                                               *)
LEMMA LightestIsAPart ==
    ASSUME NEW count \in Nat \ {0}, NEW load \in [1 .. count -> Nat]
    PROVE  Lightest(load) \in 1 .. count
<1> DEFINE loads == {load[p] : p \in 1 .. count}
<1>1. loads \subseteq Nat /\ 1 \in 1 .. count /\ loads # {}
  OBVIOUS
<1>2. PICK least \in loads : \A x \in loads : least <= x
  BY <1>1, LeastNatural
<1> DEFINE those == {p \in 1 .. count : load[p] = least}
<1>3. those \subseteq Nat /\ those # {}
  BY <1>2
<1>4. PICK p \in those : \A q \in those : p <= q
  BY <1>3, LeastNatural
<1>5. ASSUME NEW q \in 1 .. count PROVE load[p] < load[q] \/ (load[p] = load[q] /\ p <= q)
  <2>1. load[q] \in loads /\ load[p] = least /\ load[q] \in Nat /\ least \in Nat
    BY <1>1, <1>2, <1>4
  <2>2. least <= load[q]
    BY <1>2, <2>1
  <2>3. load[q] = least => p <= q
    BY <1>4
  <2> QED
    BY <2>1, <2>2, <2>3
<1>6. DOMAIN load = 1 .. count /\ p \in 1 .. count
  BY <1>4
<1> QED
  BY <1>5, <1>6 DEF Lightest

(* One turn puts one of the modules that are left into a part.             *)
LEMMA PutHeaviestPuts ==
    ASSUME NEW weight \in Seq(Nat), NEW count \in Nat \ {0}, NEW c \in CutStates(weight, count), c.left # {}
    PROVE  /\ PutHeaviest(c, weight) \in CutStates(weight, count)
           /\ \E i \in c.left : PutHeaviest(c, weight).left = c.left \ {i}
<1> DEFINE i == Heaviest(c.left, weight)
           p == Lightest(c.load)
           parts == [c.parts EXCEPT ![p] = Append(@, i)]
           load == [c.load EXCEPT ![p] = @ + weight[i]]
<1>0. Len(weight) \in Nat /\ \A j \in 1 .. Len(weight) : weight[j] \in Nat
  OBVIOUS
<1>1. /\ c.left \in SUBSET (1 .. Len(weight)) /\ c.parts \in [1 .. count -> Seq(1 .. Len(weight))]
      /\ c.load \in [1 .. count -> Nat]
      /\ \A j \in 1 .. Len(weight) : j \in c.left \/ \E q \in 1 .. count : j \in Members(c.parts[q])
  BY DEF CutStates
<1>2. i \in c.left /\ p \in 1 .. count /\ i \in 1 .. Len(weight)
  BY <1>1, HeaviestIsLeft, LightestIsAPart
<1>3. PutHeaviest(c, weight) = [left |-> c.left \ {i}, parts |-> parts, load |-> load]
  BY DEF PutHeaviest
<1> HIDE DEF i, p
<1>4. load \in [1 .. count -> Nat]
  <2>1. c.load[p] \in Nat /\ weight[i] \in Nat
    BY <1>0, <1>1, <1>2
  <2>2. c.load[p] + weight[i] \in Nat
    BY <2>1
  <2> QED
    BY <1>1, <1>2, <2>2
<1>5. Append(c.parts[p], i) \in Seq(1 .. Len(weight)) /\ Members(Append(c.parts[p], i)) = Members(c.parts[p]) \cup {i}
  <2>1. c.parts[p] \in Seq(1 .. Len(weight))
    BY <1>1, <1>2
  <2> QED
    BY <1>2, <2>1, AppendProperties, MembersOfAppend
<1>6. /\ parts \in [1 .. count -> Seq(1 .. Len(weight))]
      /\ parts[p] = Append(c.parts[p], i) /\ \A q \in 1 .. count : q # p => parts[q] = c.parts[q]
  BY <1>1, <1>2, <1>5
<1> HIDE DEF parts, load
<1>7. ASSUME NEW j \in 1 .. Len(weight), j \notin c.left \ {i}
      PROVE  \E q \in 1 .. count : j \in Members(parts[q])
  <2>1. CASE j = i
    BY <1>2, <1>5, <1>6, <2>1
  <2>2. CASE j # i
    <3>1. PICK q \in 1 .. count : j \in Members(c.parts[q])
      BY <1>1, <1>7, <2>2
    <3> QED
      BY <1>5, <1>6, <3>1
  <2> QED
    BY <2>1, <2>2
<1> DEFINE d == [left |-> c.left \ {i}, parts |-> parts, load |-> load]
<1>8. /\ d \in [left : SUBSET (1 .. Len(weight)), parts : [1 .. count -> Seq(1 .. Len(weight))], load : [1 .. count -> Nat]]
      /\ d.left = c.left \ {i} /\ d.parts = parts
  BY <1>1, <1>4, <1>6
<1>9. PutHeaviest(c, weight) = d
  BY <1>3
<1> HIDE DEF d
<1> QED
  BY <1>2, <1>7, <1>8, <1>9 DEF CutStates

(* The loop, as any function that follows it.                              *)
LEMMA CutLoop ==
    ASSUME NEW weight \in Seq(Nat), NEW count \in Nat \ {0}, NEW f, f[0] \in CutAfter(weight, count, 0),
           \A n \in 1 .. Len(weight) :
               f[n - 1] \in CutAfter(weight, count, n - 1) => f[n] = PutHeaviest(f[n - 1], weight)
    PROVE  \A n \in 0 .. Len(weight) : f[n] \in CutAfter(weight, count, n)
<1> DEFINE S == {n \in Nat : n <= Len(weight) => f[n] \in CutAfter(weight, count, n)}
<1>0. Len(weight) \in Nat
  OBVIOUS
<1>1. 0 \in S
  OBVIOUS
<1>2. ASSUME NEW n \in S PROVE n + 1 \in S
  <2> SUFFICES ASSUME n + 1 <= Len(weight) PROVE f[n + 1] \in CutAfter(weight, count, n + 1)
    OBVIOUS
  <2>1. n \in Nat /\ n + 1 \in 1 .. Len(weight) /\ (n + 1) - 1 = n /\ n <= Len(weight)
    BY <1>0
  <2>2. f[n] \in CutAfter(weight, count, n)
    BY <2>1
  <2>3. f[n + 1] = PutHeaviest(f[n], weight)
    BY <2>1, <2>2
  <2>4. /\ f[n] \in CutStates(weight, count) /\ IsFiniteSet(f[n].left)
        /\ Cardinality(f[n].left) = Len(weight) - n
    BY <2>2 DEF CutAfter
  <2>5. f[n].left # {}
    <3>1. Len(weight) - n # 0
      BY <1>0, <2>1
    <3> QED
      BY <2>4, <3>1, FS_EmptySet
  <2> DEFINE c == f[n]
             d == f[n + 1]
  <2>11. c \in CutStates(weight, count) /\ c.left # {} /\ d = PutHeaviest(c, weight) /\ IsFiniteSet(c.left)
    BY <2>3, <2>4, <2>5
  <2> HIDE DEF c, d
  <2>6. PICK i \in c.left : d.left = c.left \ {i}
    BY <2>11, PutHeaviestPuts
  <2>7. IsFiniteSet(d.left) /\ Cardinality(d.left) = Cardinality(c.left) - 1
    <3> DEFINE rest == c.left \ {i}
    <3>1. IsFiniteSet(rest) /\ Cardinality(rest) = Cardinality(c.left) - 1
      BY <2>6, <2>11, FS_RemoveElement
    <3> HIDE DEF rest
    <3>2. d.left = rest
      BY <2>6 DEF rest
    <3> QED
      BY <3>1, <3>2
  <2>8. Cardinality(d.left) = Len(weight) - (n + 1)
    <3>1. Cardinality(c.left) = Len(weight) - n
      BY <2>4 DEF c
    <3> QED
      BY <1>0, <2>1, <2>7, <3>1
  <2>9. d \in CutStates(weight, count)
    BY <2>11, PutHeaviestPuts
  <2> QED
    BY <2>7, <2>8, <2>9 DEF CutAfter, d
<1> HIDE DEF S
<1>3. S = Nat
  <2>1. S \subseteq Nat
    BY DEF S
  <2> QED
    BY <1>1, <1>2, <2>1, InductionOnSet
<1> QED
  BY <1>0, <1>3 DEF S

(* Every module of a batch is in one of its parts.                         *)
THEOREM CutCovers ==
    ASSUME NEW weight \in Seq(Nat), NEW workers \in Nat \ {0}, Len(weight) # 0
    PROVE  /\ sizeBalancedBatches(weight, workers) \in Seq(Seq(Nat))
           /\ Len(sizeBalancedBatches(weight, workers)) <= workers
           /\ \A i \in 1 .. Len(weight) : \E p \in 1 .. Len(sizeBalancedBatches(weight, workers)) :
                 i \in Members(sizeBalancedBatches(weight, workers)[p])
<1> DEFINE count == IF workers < Len(weight) THEN workers ELSE Len(weight)
           first == [left |-> 1 .. Len(weight), parts |-> [p \in 1 .. count |-> <<>>], load |-> [p \in 1 .. count |-> 0]]
           Body(f) == [n \in 0 .. Len(weight) |-> IF n = 0 THEN first ELSE PutHeaviest(f[n - 1], weight)]
           put == CHOOSE f : f = Body(f)
           X == CutStates(weight, count)
           G == [c \in X |-> IF c.left = {} THEN c ELSE PutHeaviest(c, weight)]
<1>0. Len(weight) \in Nat /\ count \in Nat \ {0} /\ count <= workers
  OBVIOUS
<1>1. sizeBalancedBatches(weight, workers) = put[Len(weight)].parts
  BY DEF sizeBalancedBatches
<1>2. first \in CutAfter(weight, count, 0)
  <2>1. <<>> \in Seq(1 .. Len(weight))
    BY EmptySeq
  <2>2. first \in CutStates(weight, count)
    BY <2>1 DEF CutStates
  <2>3. IsFiniteSet(1 .. Len(weight)) /\ Cardinality(1 .. Len(weight)) = Len(weight)
    BY <1>0, FS_Interval
  <2>4. Len(weight) - 0 = Len(weight)
    BY <1>0
  <2> QED
    BY <2>2, <2>3, <2>4 DEF CutAfter
<1> HIDE DEF first, count
<1>3. G \in [X -> X] /\ first \in X
  BY <1>0, <1>2, PutHeaviestPuts DEF CutAfter
<1>4. PICK f \in [0 .. Len(weight) -> X] : Repeats(f, G, first, Len(weight))
  <2> HIDE DEF G, X
  <2> QED
    BY <1>0, <1>3, RepetitionExists
<1>5. ASSUME NEW n \in 0 .. Len(weight) PROVE f[n] = IF n = 0 THEN first ELSE G[f[n - 1]]
  BY <1>4 DEF Repeats
<1>6. ASSUME NEW n \in 1 .. Len(weight), f[n - 1] \in CutAfter(weight, count, n - 1)
      PROVE  f[n] = PutHeaviest(f[n - 1], weight)
  <2>1. n \in 0 .. Len(weight) /\ n # 0 /\ n \in Nat /\ n - 1 < Len(weight)
    BY <1>0
  <2>2. /\ f[n - 1] \in X /\ Cardinality(f[n - 1].left) = Len(weight) - (n - 1)
    BY <1>6 DEF CutAfter
  <2>3. Len(weight) - (n - 1) # 0
    BY <1>0, <2>1
  <2>4. f[n - 1].left # {}
    BY <2>2, <2>3, FS_EmptySet
  <2>5. f[n] = G[f[n - 1]]
    BY <1>5, <2>1
  <2> QED
    BY <2>2, <2>4, <2>5
<1>7. \A n \in 0 .. Len(weight) : f[n] \in CutAfter(weight, count, n)
  <2>1. f[0] \in CutAfter(weight, count, 0)
    <3>1. 0 \in 0 .. Len(weight)
      BY <1>0
    <3>2. f[0] = first
      BY <1>5, <3>1
    <3> QED
      BY <1>2, <3>2
  <2> QED
    BY <1>0, <1>6, <2>1, CutLoop
<1>8. f = Body(f)
  <2>1. ASSUME NEW n \in 0 .. Len(weight) PROVE f[n] = IF n = 0 THEN first ELSE PutHeaviest(f[n - 1], weight)
    <3>1. CASE n = 0
      BY <1>5, <3>1
    <3>2. CASE n # 0
      <4>1. n \in 1 .. Len(weight) /\ n - 1 \in 0 .. Len(weight)
        BY <1>0, <3>2
      <4> QED
        BY <1>6, <1>7, <3>2, <4>1
    <3> QED
      BY <3>1, <3>2
  <2> QED
    BY <1>4, <2>1
<1>9. put = Body(put)
  BY <1>8
<1> HIDE DEF put
<1>10. put[0] = first /\ \A n \in 1 .. Len(weight) : put[n] = PutHeaviest(put[n - 1], weight)
  <2>1. \A n \in 0 .. Len(weight) : put[n] = IF n = 0 THEN first ELSE PutHeaviest(put[n - 1], weight)
    BY <1>9
  <2>2. 0 \in 0 .. Len(weight) /\ \A n \in 1 .. Len(weight) : n \in 0 .. Len(weight) /\ n # 0
    BY <1>0
  <2> QED
    BY <2>1, <2>2
<1>11. put[Len(weight)] \in CutAfter(weight, count, Len(weight))
  <2>1. \A n \in 0 .. Len(weight) : put[n] \in CutAfter(weight, count, n)
    BY <1>0, <1>2, <1>10, CutLoop
  <2> QED
    BY <1>0, <2>1
<1> DEFINE last == put[Len(weight)]
<1>12. last \in CutStates(weight, count) /\ IsFiniteSet(last.left) /\ Cardinality(last.left) = 0
  <2>1. Len(weight) - Len(weight) = 0
    BY <1>0
  <2> QED
    BY <1>11, <2>1 DEF CutAfter
<1>13. last.left = {}
  BY <1>12, FS_EmptySet
<1>14. /\ last.parts \in [1 .. count -> Seq(1 .. Len(weight))]
       /\ \A i \in 1 .. Len(weight) : \E p \in 1 .. count : i \in Members(last.parts[p])
  BY <1>12, <1>13 DEF CutStates
<1>15. last.parts \in Seq(Seq(Nat)) /\ Len(last.parts) = count
  <2>1. Seq(1 .. Len(weight)) \subseteq Seq(Nat)
    <3>1. 1 .. Len(weight) \subseteq Nat
      BY <1>0
    <3> QED
      BY <3>1
  <2>2. last.parts \in [1 .. count -> Seq(Nat)]
    BY <1>14, <2>1
  <2>3. last.parts \in Seq(Seq(Nat))
    BY <1>0, <2>2, SeqDef
  <2> QED
    BY <1>0, <2>2, <2>3
<1> QED
  BY <1>0, <1>1, <1>14, <1>15

-----------------------------------------------------------------------------
(* The service is quiet when no module fails, or at most one call is made. *)
Quiet == Faults = {} \/ \A c, d \in scenario.calls : c = d

PoolRequests == [of : Batches \cup {Nobody}, part : Seq(Nat)]
CallPlaces == {"idle", "running", "resolved", "rejected"}
PartPlaces == {"none", "reading", "pending", "resolved", "rejected"}

CallTypes ==
    /\ scenario \in Scenarios /\ closed \subseteq Workers
    /\ active \in BOOLEAN /\ terminated \in BOOLEAN
    /\ stage \in [Batches -> CallPlaces]
    /\ weights \in [Batches -> Seq(Nat)]
    /\ cut \in [Batches -> Seq(Seq(Nat))]
    /\ DOMAIN results = Batches
PartTypes ==
    /\ part \in [Batches -> [Workers -> PartPlaces]]
    /\ answer \in [Batches -> [Workers -> PoolRequests]]
    /\ \A c \in Batches, w \in Workers : part[c][w] # "none" => w <= Len(cut[c])
WorkerTypes ==
    /\ inbox \in [Workers -> Seq(PoolRequests)]
    /\ busy \in [Workers -> PoolRequests]
    /\ outbox \in [Workers -> Seq(PoolRequests)]
    /\ handler \in [Workers -> Batches \cup {Nobody}]

(* A batch that runs is the only one, and all of it is in its parts.       *)
Covered(c) ==
    /\ Len(cut[c]) <= WorkerCount
    /\ \A i \in 1 .. Len(weights[c]) : \E w \in 1 .. Len(cut[c]) : i \in Members(cut[c][w])

RunningAlone ==
    /\ active => \E c \in Batches : stage[c] = "running"
    /\ \A c \in Batches : stage[c] = "running" =>
          active /\ Covered(c) /\ \A d \in Batches : stage[d] = "running" => c = d

(* When nothing fails, parts are only open while their call runs.          *)
PartsOfCall(c) ==
    /\ stage[c] # "idle" => c \in scenario.calls
    /\ \A w \in Workers :
         /\ part[c][w] # "none" => stage[c] # "idle"
         /\ part[c][w] = "rejected" => Faults # {}
         /\ Faults = {} /\ part[c][w] \in {"reading", "pending"} => stage[c] = "running"

(* A part that is posted could be read; one that resolved did not break,   *)
(* and the answer is that to its own request.                              *)
PartSound(c, w) ==
    /\ part[c][w] \in {"pending", "resolved"} => ~Has(Destroyed, c, cut[c][w])
    /\ part[c][w] = "resolved" =>
         answer[c][w] = [of |-> c, part |-> cut[c][w]] /\ ~Has(Breaking, c, cut[c][w])

(* At most one message is on its way between the host and a worker, and it *)
(* belongs to the request that set the handlers.                           *)
Mine(w) == [of |-> handler[w], part |-> cut[handler[w]][w]]
Silent(w) == inbox[w] = <<>> /\ busy[w] = NoRequest /\ outbox[w] = <<>>
Asked(w) == inbox[w] = <<Mine(w)>> /\ busy[w] = NoRequest /\ outbox[w] = <<>>
Working(w) == inbox[w] = <<>> /\ busy[w] = Mine(w) /\ outbox[w] = <<>>
Answered(w) ==
    /\ inbox[w] = <<>> /\ busy[w] = NoRequest /\ outbox[w] = <<Mine(w)>>
    /\ ~Has(Breaking, handler[w], cut[handler[w]][w])
Broken(w) ==
    /\ inbox[w] = <<>> /\ busy[w] = NoRequest /\ outbox[w] = <<NoRequest>>
    /\ Breaking # {}
Outstanding(w) ==
    /\ handler[w] \in Batches /\ part[handler[w]][w] = "pending"
    /\ Asked(w) \/ Working(w) \/ Answered(w) \/ Broken(w)
Traffic(w) == Silent(w) \/ Outstanding(w)

OwnResults(c) ==
    stage[c] = "resolved" =>
        /\ results[c] = [i \in 1 .. Len(weights[c]) |-> <<c, i>>]
        /\ \A i \in 1 .. Len(weights[c]) : <<c, i>> \notin Faults

PoolTypes == CallTypes /\ PartTypes /\ WorkerTypes
Sound ==
    /\ \A c \in Batches : PartsOfCall(c) /\ OwnResults(c)
    /\ \A c \in Batches, w \in Workers : PartSound(c, w)
    /\ \A w \in Workers : Traffic(w)
PoolInv == PoolTypes /\ RunningAlone /\ (Quiet => Sound)

-----------------------------------------------------------------------------
LEMMA PoolInitInv == PoolInit => PoolInv
<1> SUFFICES ASSUME PoolInit PROVE PoolInv
  OBVIOUS
<1>1. NoRequest \in PoolRequests /\ <<>> \in Seq(Nat) /\ <<>> \in Seq(Seq(Nat)) /\ <<>> \in Seq(PoolRequests)
  <2>1. <<>> \in Seq(Nat)
    BY EmptySeq
  <2> QED
    BY <2>1, EmptySeq DEF NoRequest, PoolRequests
<1>3. \A c \in Batches : stage[c] = "idle" /\ \A w \in Workers : part[c][w] = "none"
  BY DEF PoolInit
<1>2. PoolTypes
  BY <1>1, <1>3 DEF PoolInit, PoolTypes, CallTypes, PartTypes, WorkerTypes, CallPlaces, PartPlaces
<1>4. \A w \in Workers : Silent(w)
  BY DEF PoolInit, Silent
<1> QED
  <2>1. RunningAlone
    BY <1>3 DEF PoolInit, RunningAlone
  <2> QED
    BY <1>2, <1>3, <1>4, <2>1 DEF PoolInv, Sound, PartsOfCall, PartSound, Traffic, OwnResults

(* What does not change keeps what is said of it.                          *)
LEMMA TrafficStays ==
    ASSUME NEW w \in Workers, Traffic(w), UNCHANGED scenario,
           inbox'[w] = inbox[w], busy'[w] = busy[w], outbox'[w] = outbox[w], handler'[w] = handler[w],
           Outstanding(w) => cut'[handler[w]] = cut[handler[w]] /\ part'[handler[w]][w] = "pending"
    PROVE  Traffic(w)'
<1>1. CASE Silent(w)
  BY <1>1 DEF Traffic, Silent
<1>2. CASE Outstanding(w)
  <2>1. Mine(w)' = Mine(w)
    BY <1>2 DEF Mine
  <2>2. Breaking' = Breaking
    BY DEF Breaking
  <2>3. Has(Breaking, handler[w], cut[handler[w]][w])' = Has(Breaking, handler[w], cut[handler[w]][w])
    BY <1>2, <2>2 DEF Has
  <2>4. Asked(w) => Asked(w)'
    BY <2>1 DEF Asked
  <2>5. Working(w) => Working(w)'
    BY <2>1 DEF Working
  <2>6. Answered(w) => Answered(w)'
    BY <2>1, <2>3 DEF Answered
  <2>7. Broken(w) => Broken(w)'
    BY <2>2 DEF Broken
  <2> QED
    BY <1>2, <2>4, <2>5, <2>6, <2>7 DEF Outstanding, Traffic
<1> QED
  BY <1>1, <1>2 DEF Traffic

LEMMA PartStays ==
    ASSUME NEW c \in Batches, NEW w \in Workers, PartSound(c, w), UNCHANGED scenario,
           cut'[c] = cut[c], part'[c][w] = part[c][w], answer'[c][w] = answer[c][w]
    PROVE  PartSound(c, w)'
BY DEF PartSound, Has, Destroyed, Breaking

LEMMA CallStays ==
    ASSUME NEW c \in Batches, PartsOfCall(c), UNCHANGED scenario,
           stage'[c] = stage[c], cut'[c] = cut[c], part'[c] = part[c]
    PROVE  PartsOfCall(c)'
BY DEF PartsOfCall, Faults, Destroyed, Breaking

LEMMA ResultsStay ==
    ASSUME NEW c \in Batches, OwnResults(c), UNCHANGED scenario,
           stage'[c] = stage[c], weights'[c] = weights[c], results'[c] = results[c]
    PROVE  OwnResults(c)'
BY DEF OwnResults, Faults, Destroyed, Breaking

LEMMA QuietStays == ASSUME UNCHANGED scenario PROVE Quiet' = Quiet /\ Faults' = Faults
BY DEF Quiet, Faults, Destroyed, Breaking

(* What an action must show: types, the batch that runs, and the rest when *)
(* the service is quiet.                                                   *)
LEMMA InvFrom ==
    ASSUME UNCHANGED scenario, PoolTypes', RunningAlone',
           Quiet => /\ \A c \in Batches : PartsOfCall(c)' /\ OwnResults(c)'
                    /\ \A c \in Batches, w \in Workers : PartSound(c, w)'
                    /\ \A w \in Workers : Traffic(w)'
    PROVE  PoolInv'
BY QuietStays DEF PoolInv, Sound

(* The batch that runs goes on when no call changes its stage.             *)
LEMMA RunsOn ==
    ASSUME RunningAlone, active' = active, stage' = stage, cut' = cut, weights' = weights
    PROVE  RunningAlone'
BY DEF RunningAlone, Covered

LEMMA RefuseInv == ASSUME PoolInv, NEW c \in Batches, Refuse(c) PROVE PoolInv'
<1>1. /\ stage[c] = "idle" /\ c \in scenario.calls
      /\ stage' = [stage EXCEPT ![c] = "rejected"]
      /\ UNCHANGED <<scenario, active, terminated, weights, cut, results, part, answer>>
      /\ UNCHANGED <<inbox, busy, outbox, handler, closed>>
  BY DEF Refuse, workerVars
<1>2. PoolTypes /\ RunningAlone /\ (Quiet => Sound)
  BY DEF PoolInv
<1>3. PoolTypes'
  BY <1>1, <1>2 DEF PoolTypes, CallTypes, PartTypes, WorkerTypes, CallPlaces
<1>4. stage'[c] = "rejected" /\ \A d \in Batches \ {c} : stage'[d] = stage[d]
  BY <1>1, <1>2 DEF PoolTypes, CallTypes
<1>5. \A d \in Batches : stage'[d] = "running" <=> stage[d] = "running"
  BY <1>1, <1>4
<1>6. RunningAlone'
  BY <1>1, <1>2, <1>5 DEF RunningAlone, Covered
<1>7. ASSUME Quiet PROVE /\ \A d \in Batches : PartsOfCall(d)' /\ OwnResults(d)'
                         /\ \A d \in Batches, w \in Workers : PartSound(d, w)'
                         /\ \A w \in Workers : Traffic(w)'
  <2>1. Sound
    BY <1>2, <1>7
  <2>2. \A w \in Workers : part[c][w] = "none"
    BY <1>1, <2>1 DEF Sound, PartsOfCall
  <2>3. PartsOfCall(c)' /\ OwnResults(c)'
    BY <1>1, <1>4, <2>2 DEF PartsOfCall, OwnResults
  <2>4. ASSUME NEW d \in Batches, d # c PROVE PartsOfCall(d)' /\ OwnResults(d)'
    BY <1>1, <1>4, <2>1, <2>4, CallStays, ResultsStay DEF Sound
  <2>5. \A d \in Batches, w \in Workers : PartSound(d, w)'
    BY <1>1, <2>1, PartStays DEF Sound
  <2>6. \A w \in Workers : Traffic(w)'
    BY <1>1, <2>1, TrafficStays DEF Sound, Outstanding
  <2> QED
    BY <2>3, <2>4, <2>5, <2>6
<1> QED
  BY <1>1, <1>3, <1>6, <1>7, InvFrom

LEMMA CompileHereInv == ASSUME PoolInv, NEW c \in Batches, CompileHere(c) PROVE PoolInv'
<1>0. PICK batch \in Weights :
          /\ weights' = [weights EXCEPT ![c] = batch]
          /\ stage' = [stage EXCEPT ![c] = IF \E i \in 1 .. Len(batch) : <<c, i>> \in Faults
                                           THEN "rejected" ELSE "resolved"]
          /\ results' = [results EXCEPT ![c] = [i \in 1 .. Len(batch) |-> <<c, i>>]]
  BY DEF CompileHere
<1>1. /\ stage[c] = "idle" /\ c \in scenario.calls
      /\ UNCHANGED <<scenario, active, terminated, cut, part, answer>>
      /\ UNCHANGED <<inbox, busy, outbox, handler, closed>>
  BY DEF CompileHere, workerVars
<1>2. PoolTypes /\ RunningAlone /\ (Quiet => Sound)
  BY DEF PoolInv
<1>3. batch \in Seq(Nat)
  BY <1>2, ParallelAssumption DEF PoolTypes, CallTypes, Weights
<1>4. /\ stage'[c] \in {"rejected", "resolved"}
      /\ stage'[c] = "resolved" => \A i \in 1 .. Len(batch) : <<c, i>> \notin Faults
      /\ weights'[c] = batch /\ results'[c] = [i \in 1 .. Len(batch) |-> <<c, i>>]
      /\ \A d \in Batches \ {c} : stage'[d] = stage[d] /\ weights'[d] = weights[d] /\ results'[d] = results[d]
  BY <1>0, <1>2 DEF PoolTypes, CallTypes
<1>5. PoolTypes'
  <2>1. DOMAIN results' = Batches /\ weights' \in [Batches -> Seq(Nat)]
    BY <1>0, <1>2, <1>3 DEF PoolTypes, CallTypes
  <2>2. stage' \in [Batches -> CallPlaces]
    BY <1>0, <1>2 DEF PoolTypes, CallTypes, CallPlaces
  <2> QED
    BY <1>1, <1>2, <2>1, <2>2 DEF PoolTypes, CallTypes, PartTypes, WorkerTypes
<1>6. RunningAlone'
  <2>1. \A d \in Batches : stage'[d] = "running" <=> d # c /\ stage[d] = "running"
    BY <1>1, <1>4
  <2>2. \A d \in Batches : stage[d] = "running" => d # c /\ Covered(d)' = Covered(d)
    BY <1>1, <1>4 DEF Covered
  <2> QED
    BY <1>1, <1>2, <2>1, <2>2 DEF RunningAlone
<1>7. ASSUME Quiet PROVE /\ \A d \in Batches : PartsOfCall(d)' /\ OwnResults(d)'
                         /\ \A d \in Batches, w \in Workers : PartSound(d, w)'
                         /\ \A w \in Workers : Traffic(w)'
  <2>1. Sound
    BY <1>2, <1>7
  <2>2. \A w \in Workers : part[c][w] = "none"
    BY <1>1, <2>1 DEF Sound, PartsOfCall
  <2>3. PartsOfCall(c)' /\ OwnResults(c)'
    <3>1. Faults' = Faults
      BY <1>1, QuietStays
    <3> QED
      BY <1>1, <1>4, <2>2, <3>1 DEF PartsOfCall, OwnResults
  <2>4. ASSUME NEW d \in Batches, d # c PROVE PartsOfCall(d)' /\ OwnResults(d)'
    BY <1>1, <1>4, <2>1, <2>4, CallStays, ResultsStay DEF Sound
  <2>5. \A d \in Batches, w \in Workers : PartSound(d, w)'
    BY <1>1, <2>1, PartStays DEF Sound
  <2>6. \A w \in Workers : Traffic(w)'
    BY <1>1, <2>1, TrafficStays DEF Sound, Outstanding
  <2> QED
    BY <2>3, <2>4, <2>5, <2>6
<1> QED
  BY <1>1, <1>5, <1>6, <1>7, InvFrom

(* No worker is at work when a batch starts.                               *)
LEMMA AllSilent ==
    ASSUME PoolInv, Quiet, ~active, NEW c \in scenario.calls, c \in Batches, stage[c] = "idle",
           NEW w \in Workers
    PROVE  Silent(w)
<1>1. Sound /\ RunningAlone
  BY DEF PoolInv
<1> SUFFICES ASSUME Outstanding(w) PROVE FALSE
  BY <1>1 DEF Sound, Traffic
<1>2. handler[w] \in Batches /\ part[handler[w]][w] = "pending"
  BY DEF Outstanding
<1>3. PartsOfCall(handler[w])
  BY <1>1, <1>2 DEF Sound
<1>4. Faults # {}
  BY <1>1, <1>2, <1>3 DEF PartsOfCall, RunningAlone
<1>5. handler[w] \in scenario.calls /\ stage[handler[w]] # "idle"
  BY <1>2, <1>3 DEF PartsOfCall
<1> QED
  BY <1>4, <1>5 DEF Quiet

LEMMA StartBatchInv == ASSUME PoolInv, NEW c \in Batches, StartBatch(c) PROVE PoolInv'
<1> DEFINE used(p) == 1 .. Len(p)
           posted(p) == IF c \in Emits THEN {} ELSE used(p)
<1>0. PICK batch \in Weights :
          /\ Len(batch) >= MINIMUM_PARALLEL_MODULES
          /\ weights' = [weights EXCEPT ![c] = batch]
          /\ cut' = [cut EXCEPT ![c] = sizeBalancedBatches(batch, WorkerCount)]
          /\ part' = [part EXCEPT ![c] = [w \in Workers |->
                        IF w \notin used(sizeBalancedBatches(batch, WorkerCount)) THEN "none"
                        ELSE IF c \in Emits THEN "reading" ELSE "pending"]]
          /\ Post(sizeBalancedBatches(batch, WorkerCount), c, posted(sizeBalancedBatches(batch, WorkerCount)))
  BY DEF StartBatch
<1> DEFINE parts == sizeBalancedBatches(batch, WorkerCount)
           ws == posted(parts)
<1>1. /\ stage[c] = "idle" /\ c \in scenario.calls /\ ~active /\ active' = TRUE
      /\ stage' = [stage EXCEPT ![c] = "running"]
      /\ UNCHANGED <<scenario, terminated, results, answer, busy, outbox, closed>>
  BY DEF StartBatch, NotActive
<1>2. PoolTypes /\ RunningAlone /\ (Quiet => Sound)
  BY DEF PoolInv
<1>3. batch \in Seq(Nat) /\ Len(batch) # 0
  <2>1. batch \in Seq(Nat)
    BY <1>2, ParallelAssumption DEF PoolTypes, CallTypes, Weights
  <2> QED
    BY <1>0, <2>1, ParallelAssumption
<1>4. /\ parts \in Seq(Seq(Nat)) /\ Len(parts) \in Nat /\ Len(parts) <= WorkerCount
      /\ \A i \in 1 .. Len(batch) : \E p \in 1 .. Len(parts) : i \in Members(parts[p])
  <2> HIDE DEF ws, posted, used
  <2>1. WorkerCount \in Nat \ {0}
    BY ParallelAssumption
  <2>2. /\ parts \in Seq(Seq(Nat)) /\ Len(parts) <= WorkerCount
        /\ \A i \in 1 .. Len(batch) : \E p \in 1 .. Len(parts) : i \in Members(parts[p])
    BY <1>3, <2>1, CutCovers
  <2> HIDE DEF parts
  <2>3. Len(parts) \in Nat
    BY <2>2
  <2> QED
    BY <2>2, <2>3
<1>5. weights' = [weights EXCEPT ![c] = batch] /\ cut' = [cut EXCEPT ![c] = parts]
  BY <1>0
<1>6. part' = [part EXCEPT ![c] = [w \in Workers |-> IF w \notin used(parts) THEN "none"
                                                     ELSE IF c \in Emits THEN "reading" ELSE "pending"]]
  BY <1>0
<1>7. /\ handler' = [w \in Workers |-> IF w \in ws THEN c ELSE handler[w]]
      /\ inbox' = [w \in Workers |-> IF w \in ws \ closed THEN Append(inbox[w], [of |-> c, part |-> parts[w]])
                                     ELSE inbox[w]]
  BY <1>0 DEF Post
<1> HIDE DEF parts
<1>8. /\ stage'[c] = "running" /\ weights'[c] = batch /\ cut'[c] = parts
      /\ \A d \in Batches \ {c} : stage'[d] = stage[d] /\ weights'[d] = weights[d] /\ cut'[d] = cut[d]
  BY <1>1, <1>2, <1>5 DEF PoolTypes, CallTypes
<1>9. /\ \A w \in Workers : part'[c][w] = IF w \notin used(parts) THEN "none"
                                         ELSE IF c \in Emits THEN "reading" ELSE "pending"
      /\ \A d \in Batches \ {c} : part'[d] = part[d]
  <2> HIDE DEF used
  <2> QED
    BY <1>2, <1>6 DEF PoolTypes, PartTypes
<1>10. used(parts) \subseteq Workers /\ \A w \in used(parts) : parts[w] \in Seq(Nat) /\ w <= Len(parts)
  BY <1>4, ParallelAssumption, ElementOfSeq DEF Workers
<1> HIDE DEF used
<1>11. PoolTypes'
  <2>1. CallTypes'
    BY <1>1, <1>2, <1>3, <1>4, <1>5 DEF PoolTypes, CallTypes, CallPlaces
  <2>2. PartTypes'
    <3>1. \A v \in Workers : part'[c][v] # "none" => v <= Len(cut'[c])
      BY <1>8, <1>9, <1>10
    <3>2. \A d \in Batches, v \in Workers : part'[d][v] # "none" => v <= Len(cut'[d])
      BY <1>2, <1>8, <1>9, <3>1 DEF PoolTypes, PartTypes
    <3>3. part' \in [Batches -> [Workers -> PartPlaces]]
      BY <1>2, <1>6 DEF PoolTypes, PartTypes, PartPlaces
    <3> QED
      BY <1>1, <1>2, <3>2, <3>3 DEF PoolTypes, PartTypes
  <2>3. ws \subseteq used(parts)
    OBVIOUS
  <2>4. \A w \in ws : [of |-> c, part |-> parts[w]] \in PoolRequests
    BY <1>10, <2>3 DEF PoolRequests
  <2> HIDE DEF posted
  <2>5. ASSUME NEW w \in Workers
        PROVE  inbox'[w] \in Seq(PoolRequests) /\ handler'[w] \in Batches \cup {Nobody}
    BY <1>2, <1>7, <2>4, AppendProperties DEF PoolTypes, WorkerTypes
  <2>6. WorkerTypes'
    BY <1>1, <1>2, <1>7, <2>5 DEF PoolTypes, WorkerTypes
  <2> QED
    BY <2>1, <2>2, <2>6 DEF PoolTypes
<1>12. RunningAlone'
  <2>1. \A d \in Batches : stage'[d] = "running" <=> d = c
    BY <1>1, <1>2, <1>8 DEF RunningAlone
  <2>2. Covered(c)'
    BY <1>4, <1>8 DEF Covered
  <2> QED
    BY <1>1, <2>1, <2>2 DEF RunningAlone
<1>13. ASSUME Quiet PROVE /\ \A d \in Batches : PartsOfCall(d)' /\ OwnResults(d)'
                          /\ \A d \in Batches, w \in Workers : PartSound(d, w)'
                          /\ \A w \in Workers : Traffic(w)'
  <2>1. Sound /\ Faults' = Faults /\ Destroyed' = Destroyed
    BY <1>1, <1>2, <1>13, QuietStays DEF Destroyed
  <2>2. PartsOfCall(c)' /\ OwnResults(c)'
    <3>1. \A w \in Workers : part'[c][w] # "rejected"
      BY <1>9
    <3> QED
      BY <1>1, <1>8, <3>1 DEF PartsOfCall, OwnResults
  <2>3. ASSUME NEW d \in Batches, d # c PROVE PartsOfCall(d)' /\ OwnResults(d)'
    BY <1>1, <1>8, <1>9, <2>1, <2>3, CallStays, ResultsStay DEF Sound
  <2>4. ASSUME NEW w \in Workers PROVE PartSound(c, w)'
    <3>1. part'[c][w] # "resolved"
      BY <1>9
    <3>2. part'[c][w] = "pending" => Mode[c] # "emit"
      BY <1>9 DEF Emits
    <3>3. \A x \in Destroyed : Mode[x[1]] = "emit"
      BY <1>2, ParallelAssumption DEF PoolTypes, CallTypes, Destroyed
    <3>4. part'[c][w] = "pending" => ~Has(Destroyed, c, cut'[c][w])
      BY <3>2, <3>3 DEF Has
    <3> QED
      BY <2>1, <3>1, <3>4 DEF PartSound
  <2>5. ASSUME NEW d \in Batches, NEW w \in Workers, d # c PROVE PartSound(d, w)'
    BY <1>1, <1>8, <1>9, <2>1, <2>5, PartStays DEF Sound
  <2>6. ASSUME NEW w \in Workers PROVE Traffic(w)'
    <3>1. Silent(w)
      BY <1>1, <1>13, AllSilent
    <3>2. CASE w \in ws \ closed
      <4>1. handler'[w] = c /\ inbox'[w] = Append(inbox[w], [of |-> c, part |-> parts[w]])
        BY <1>7, <3>2
      <4>2. inbox'[w] = <<[of |-> c, part |-> parts[w]]>>
        BY <3>1, <4>1 DEF Silent
      <4>3. part'[c][w] = "pending"
        BY <1>9, <3>2
      <4>4. Asked(w)'
        BY <1>1, <1>8, <3>1, <4>1, <4>2 DEF Asked, Mine, Silent
      <4> QED
        BY <4>1, <4>3, <4>4 DEF Traffic, Outstanding
    <3>3. CASE w \notin ws \ closed
      <4>1. inbox'[w] = inbox[w]
        BY <1>7, <3>3
      <4> QED
        BY <1>1, <3>1, <4>1 DEF Traffic, Silent
    <3> QED
      BY <3>2, <3>3
  <2> QED
    BY <2>2, <2>3, <2>4, <2>5, <2>6
<1> QED
  BY <1>1, <1>11, <1>12, <1>13, InvFrom

(* A part whose Core is read belongs to the call that runs: its worker is  *)
(* not at work.                                                            *)
LEMMA SilentWhileReading ==
    ASSUME PoolInv, Quiet, NEW c \in Batches, NEW w \in Workers, part[c][w] = "reading"
    PROVE  Silent(w)
<1>1. Sound /\ RunningAlone
  BY DEF PoolInv
<1> SUFFICES ASSUME Outstanding(w) PROVE FALSE
  BY <1>1 DEF Sound, Traffic
<1>2. handler[w] \in Batches /\ part[handler[w]][w] = "pending" /\ handler[w] # c
  BY DEF Outstanding
<1>3. PartsOfCall(handler[w]) /\ PartsOfCall(c)
  BY <1>1, <1>2 DEF Sound
<1>4. handler[w] \in scenario.calls /\ c \in scenario.calls
  BY <1>2, <1>3 DEF PartsOfCall
<1>5. Faults = {}
  BY <1>2, <1>4 DEF Quiet
<1>6. stage[handler[w]] = "running" /\ stage[c] = "running"
  BY <1>2, <1>3, <1>5 DEF PartsOfCall
<1> QED
  BY <1>1, <1>2, <1>6 DEF RunningAlone

(* Settling a part of a call changes that part.                            *)
LEMMA SettledPart ==
    ASSUME PoolTypes, NEW c \in Batches, NEW w \in Workers, NEW place \in PartPlaces, Settled(c, w, place)
    PROVE  /\ part' \in [Batches -> [Workers -> PartPlaces]]
           /\ part'[c][w] = place
           /\ \A d \in Batches, v \in Workers : d # c \/ v # w => part'[d][v] = part[d][v]
BY DEF PoolTypes, PartTypes, Settled

(* What is said of the parts of a call when one of them is settled.        *)
LEMMA CallWithSettled ==
    ASSUME NEW c \in Batches, NEW w \in Workers, PartsOfCall(c), part[c][w] # "none",
           UNCHANGED scenario, stage'[c] = stage[c], cut'[c] = cut[c],
           \A v \in Workers : v # w => part'[c][v] = part[c][v],
           part'[c][w] = "rejected" => Faults # {},
           part'[c][w] \in {"reading", "pending"} => part[c][w] \in {"reading", "pending"}
    PROVE  PartsOfCall(c)'
BY QuietStays DEF PartsOfCall

LEMMA CoreIsReadInv ==
    ASSUME PoolInv, NEW c \in Batches, NEW w \in Workers, CoreIsRead(c, w) PROVE PoolInv'
<1>1. /\ part[c][w] = "reading" /\ ~Has(Destroyed, c, cut[c][w])
      /\ Settled(c, w, "pending")
      /\ UNCHANGED <<scenario, active, terminated, answer, busy, outbox, closed>>
      /\ UNCHANGED <<stage, weights, cut, results>>
  BY DEF CoreIsRead, batchOf
<1>2. PoolTypes /\ RunningAlone /\ (Quiet => Sound)
  BY DEF PoolInv
<1>3. /\ handler' = [v \in Workers |-> IF v \in {w} THEN c ELSE handler[v]]
      /\ inbox' = [v \in Workers |-> IF v \in {w} \ closed THEN Append(inbox[v], [of |-> c, part |-> cut[c][v]])
                                     ELSE inbox[v]]
  BY DEF CoreIsRead, Post
<1>4. /\ part' \in [Batches -> [Workers -> PartPlaces]] /\ part'[c][w] = "pending"
      /\ \A d \in Batches, v \in Workers : d # c \/ v # w => part'[d][v] = part[d][v]
  BY <1>1, <1>2, SettledPart DEF PartPlaces
<1>5. /\ handler'[w] = c
      /\ inbox'[w] = IF w \in closed THEN inbox[w] ELSE Append(inbox[w], [of |-> c, part |-> cut[c][w]])
      /\ \A v \in Workers : v # w => handler'[v] = handler[v] /\ inbox'[v] = inbox[v]
  BY <1>3
<1>6. [of |-> c, part |-> cut[c][w]] \in PoolRequests
  <2>1. w <= Len(cut[c]) /\ cut[c] \in Seq(Seq(Nat))
    BY <1>1, <1>2 DEF PoolTypes, PartTypes, CallTypes
  <2>2. w \in Nat \ {0}
    BY ParallelAssumption DEF Workers
  <2>3. w \in 1 .. Len(cut[c])
    BY <2>1, <2>2
  <2>4. cut[c][w] \in Seq(Nat)
    BY <2>1, <2>3, ElementOfSeq
  <2> QED
    BY <2>4 DEF PoolRequests
<1>7. PoolTypes'
  <2>1. CallTypes'
    BY <1>1, <1>2 DEF PoolTypes, CallTypes
  <2>2. PartTypes'
    BY <1>1, <1>2, <1>4 DEF PoolTypes, PartTypes
  <2>3. ASSUME NEW v \in Workers
        PROVE  inbox'[v] \in Seq(PoolRequests) /\ handler'[v] \in Batches \cup {Nobody}
    <3>1. inbox[v] \in Seq(PoolRequests) /\ handler[v] \in Batches \cup {Nobody}
      BY <1>2 DEF PoolTypes, WorkerTypes
    <3>2. Append(inbox[v], [of |-> c, part |-> cut[c][w]]) \in Seq(PoolRequests)
      BY <1>6, <3>1, AppendProperties
    <3> QED
      BY <1>5, <3>1, <3>2
  <2>4. WorkerTypes'
    BY <1>1, <1>2, <1>3, <2>3 DEF PoolTypes, WorkerTypes
  <2> QED
    BY <2>1, <2>2, <2>4 DEF PoolTypes
<1>8. RunningAlone'
  BY <1>1, <1>2, RunsOn
<1>9. ASSUME Quiet PROVE /\ \A d \in Batches : PartsOfCall(d)' /\ OwnResults(d)'
                         /\ \A d \in Batches, v \in Workers : PartSound(d, v)'
                         /\ \A v \in Workers : Traffic(v)'
  <2>1. Sound /\ Faults' = Faults /\ Destroyed' = Destroyed
    BY <1>1, <1>2, <1>9, QuietStays DEF Destroyed
  <2>2. PartsOfCall(c)'
    BY <1>1, <1>4, <2>1, CallWithSettled DEF Sound
  <2>3. ASSUME NEW d \in Batches, d # c PROVE PartsOfCall(d)'
    <3>1. part'[d] = part[d]
      BY <1>2, <1>4, <2>3 DEF PoolTypes, PartTypes
    <3> QED
      BY <1>1, <2>1, <3>1, CallStays DEF Sound
  <2>4. \A d \in Batches : OwnResults(d)'
    BY <1>1, <2>1, ResultsStay DEF Sound
  <2>5. PartSound(c, w)'
    <3>1. ~Has(Destroyed, c, cut'[c][w])
      BY <1>1
    <3> QED
      BY <1>4, <2>1, <3>1 DEF PartSound
  <2>6. ASSUME NEW d \in Batches, NEW v \in Workers, d # c \/ v # w PROVE PartSound(d, v)'
    BY <1>1, <1>4, <2>1, <2>6, PartStays DEF Sound
  <2>7. ASSUME NEW v \in Workers, v # w PROVE Traffic(v)'
    <3>1. Outstanding(v) => part'[handler[v]][v] = "pending"
      BY <1>4, <2>7 DEF Outstanding
    <3> QED
      BY <1>1, <1>5, <2>1, <2>7, <3>1, TrafficStays DEF Sound
  <2>8. Traffic(w)'
    <3>1. Silent(w)
      BY <1>1, <1>9, SilentWhileReading
    <3>2. CASE w \in closed
      <4>1. inbox'[w] = inbox[w]
        BY <1>5, <3>2
      <4> QED
        BY <1>1, <3>1, <4>1 DEF Traffic, Silent
    <3>3. CASE w \notin closed
      <4>1. inbox'[w] = <<[of |-> c, part |-> cut[c][w]]>>
        BY <1>5, <3>1, <3>3 DEF Silent
      <4>2. Asked(w)'
        BY <1>1, <1>5, <3>1, <4>1 DEF Asked, Mine, Silent
      <4> QED
        BY <1>4, <1>5, <4>2 DEF Traffic, Outstanding
    <3> QED
      BY <3>2, <3>3
  <2> QED
    BY <2>2, <2>3, <2>4, <2>5, <2>6, <2>7, <2>8
<1> QED
  BY <1>1, <1>7, <1>8, <1>9, InvFrom

LEMMA CoreIsGoneInv ==
    ASSUME PoolInv, NEW c \in Batches, NEW w \in Workers, CoreIsGone(c, w) PROVE PoolInv'
<1>1. /\ part[c][w] = "reading" /\ Has(Destroyed, c, cut[c][w])
      /\ Settled(c, w, "rejected")
      /\ UNCHANGED <<scenario, active, terminated, answer, inbox, busy, outbox, handler, closed>>
      /\ UNCHANGED <<stage, weights, cut, results>>
  BY DEF CoreIsGone, batchOf, workerVars
<1>2. PoolTypes /\ RunningAlone /\ (Quiet => Sound)
  BY DEF PoolInv
<1>3. Faults # {}
  BY <1>1 DEF Has, Faults
<1>4. /\ part' \in [Batches -> [Workers -> PartPlaces]] /\ part'[c][w] = "rejected"
      /\ \A d \in Batches, v \in Workers : d # c \/ v # w => part'[d][v] = part[d][v]
  BY <1>1, <1>2, SettledPart DEF PartPlaces
<1>7. PoolTypes'
  <2>1. CallTypes' /\ WorkerTypes'
    BY <1>1, <1>2 DEF PoolTypes, CallTypes, WorkerTypes
  <2>2. PartTypes'
    BY <1>1, <1>2, <1>4 DEF PoolTypes, PartTypes
  <2> QED
    BY <2>1, <2>2 DEF PoolTypes
<1>8. RunningAlone'
  BY <1>1, <1>2, RunsOn
<1>9. ASSUME Quiet PROVE /\ \A d \in Batches : PartsOfCall(d)' /\ OwnResults(d)'
                         /\ \A d \in Batches, v \in Workers : PartSound(d, v)'
                         /\ \A v \in Workers : Traffic(v)'
  <2>1. Sound
    BY <1>2, <1>9
  <2>2. PartsOfCall(c)'
    BY <1>1, <1>3, <1>4, <2>1, CallWithSettled DEF Sound
  <2>3. ASSUME NEW d \in Batches, d # c PROVE PartsOfCall(d)'
    <3>1. part'[d] = part[d]
      BY <1>2, <1>4, <2>3 DEF PoolTypes, PartTypes
    <3> QED
      BY <1>1, <2>1, <3>1, CallStays DEF Sound
  <2>4. \A d \in Batches : OwnResults(d)'
    BY <1>1, <2>1, ResultsStay DEF Sound
  <2>5. PartSound(c, w)'
    BY <1>4 DEF PartSound
  <2>6. ASSUME NEW d \in Batches, NEW v \in Workers, d # c \/ v # w PROVE PartSound(d, v)'
    BY <1>1, <1>4, <2>1, <2>6, PartStays DEF Sound
  <2>7. ASSUME NEW v \in Workers PROVE Traffic(v)'
    <3>1. Outstanding(v) => part'[handler[v]][v] = "pending"
      BY <1>1, <1>4 DEF Outstanding
    <3> QED
      BY <1>1, <2>1, <3>1, TrafficStays DEF Sound
  <2> QED
    BY <2>2, <2>3, <2>4, <2>5, <2>6, <2>7
<1> QED
  BY <1>1, <1>7, <1>8, <1>9, InvFrom

(* What a step of one worker keeps of calls and other workers.             *)
LEMMA WorkerStep ==
    ASSUME PoolInv, NEW w \in Workers,
           UNCHANGED <<scenario, active, terminated, stage, weights, cut, results, part, answer, handler>>,
           WorkerTypes', closed' \subseteq Workers,
           \A v \in Workers : v # w => inbox'[v] = inbox[v] /\ busy'[v] = busy[v] /\ outbox'[v] = outbox[v],
           Quiet => Traffic(w)'
    PROVE  PoolInv'
<1>2. PoolTypes /\ RunningAlone /\ (Quiet => Sound)
  BY DEF PoolInv
<1>7. PoolTypes'
  BY <1>2 DEF PoolTypes, CallTypes, PartTypes
<1>8. RunningAlone'
  BY <1>2, RunsOn
<1>9. ASSUME Quiet PROVE /\ \A d \in Batches : PartsOfCall(d)' /\ OwnResults(d)'
                         /\ \A d \in Batches, v \in Workers : PartSound(d, v)'
                         /\ \A v \in Workers : Traffic(v)'
  <2>1. Sound
    BY <1>2, <1>9
  <2>2. \A d \in Batches : PartsOfCall(d)' /\ OwnResults(d)'
    BY <2>1, CallStays, ResultsStay DEF Sound
  <2>3. \A d \in Batches, v \in Workers : PartSound(d, v)'
    BY <2>1, PartStays DEF Sound
  <2>4. ASSUME NEW v \in Workers, v # w PROVE Traffic(v)'
    BY <2>1, <2>4, TrafficStays DEF Sound, Outstanding
  <2> QED
    BY <1>9, <2>2, <2>3, <2>4
<1> QED
  BY <1>7, <1>8, <1>9, InvFrom

(* Where the one request of a worker is.                                   *)
LEMMA WhereIsIt ==
    ASSUME PoolInv, Quiet, NEW w \in Workers, ~Silent(w)
    PROVE  /\ Outstanding(w)
           /\ inbox[w] # <<>> => Asked(w)
           /\ busy[w] # NoRequest => Working(w)
           /\ outbox[w] # <<>> => Answered(w) \/ Broken(w)
<1>1. Outstanding(w)
  BY DEF PoolInv, Sound, Traffic
<1> QED
  BY <1>1 DEF Outstanding, Asked, Working, Answered, Broken

LEMMA ReceiveInv == ASSUME PoolInv, NEW w \in Workers, Receive(w) PROVE PoolInv'
<1>1. /\ busy[w] = NoRequest /\ inbox[w] # <<>>
      /\ busy' = [busy EXCEPT ![w] = Head(inbox[w])]
      /\ inbox' = [inbox EXCEPT ![w] = Tail(@)]
      /\ UNCHANGED <<scenario, active, terminated, stage, weights, cut, results, part, answer, handler>>
      /\ UNCHANGED <<outbox, closed>>
  BY DEF Receive, batchOf
<1>2. PoolTypes
  BY DEF PoolInv
<1>3. /\ inbox \in [Workers -> Seq(PoolRequests)] /\ busy \in [Workers -> PoolRequests]
  BY <1>2 DEF PoolTypes, WorkerTypes
<1>4. Head(inbox[w]) \in PoolRequests /\ Tail(inbox[w]) \in Seq(PoolRequests)
  <2>1. inbox[w] \in Seq(PoolRequests)
    BY <1>3
  <2> QED
    BY <1>1, <2>1, MembersOfTail
<1>5. WorkerTypes'
  BY <1>1, <1>2, <1>3, <1>4 DEF PoolTypes, WorkerTypes
<1>6. /\ busy'[w] = Head(inbox[w]) /\ inbox'[w] = Tail(inbox[w])
      /\ \A v \in Workers : v # w => busy'[v] = busy[v] /\ inbox'[v] = inbox[v]
  BY <1>1, <1>3
<1>7. ASSUME Quiet PROVE Traffic(w)'
  <2>1. Outstanding(w) /\ Asked(w)
    BY <1>1, <1>7, WhereIsIt DEF Silent
  <2>2. inbox[w] = <<Mine(w)>>
    BY <2>1 DEF Asked
  <2>3. Head(inbox[w]) = Mine(w) /\ Tail(inbox[w]) = <<>>
    BY <2>2
  <2>4. Working(w)'
    BY <1>1, <1>6, <2>1, <2>3 DEF Working, Asked, Mine
  <2> QED
    BY <1>1, <2>1, <2>4 DEF Traffic, Outstanding
<1>8. closed' \subseteq Workers
  BY <1>1, <1>2 DEF PoolTypes, CallTypes
<1> QED
  BY <1>1, <1>5, <1>6, <1>7, <1>8, WorkerStep

LEMMA AnswerInv == ASSUME PoolInv, NEW w \in Workers, Answer(w) PROVE PoolInv'
<1>1. /\ busy[w] # NoRequest /\ ~Has(Breaking, busy[w].of, busy[w].part)
      /\ outbox' = [outbox EXCEPT ![w] = Append(@, busy[w])]
      /\ busy' = [busy EXCEPT ![w] = NoRequest]
      /\ UNCHANGED <<scenario, active, terminated, stage, weights, cut, results, part, answer, handler>>
      /\ UNCHANGED <<inbox, closed>>
  BY DEF Answer, batchOf
<1>2. PoolTypes
  BY DEF PoolInv
<1>3. /\ outbox \in [Workers -> Seq(PoolRequests)] /\ busy \in [Workers -> PoolRequests]
      /\ NoRequest \in PoolRequests
  BY <1>2, EmptySeq DEF PoolTypes, WorkerTypes, NoRequest, PoolRequests
<1>4. Append(outbox[w], busy[w]) \in Seq(PoolRequests)
  BY <1>3, AppendProperties
<1>5. WorkerTypes'
  BY <1>1, <1>2, <1>3, <1>4 DEF PoolTypes, WorkerTypes
<1>6. /\ busy'[w] = NoRequest /\ outbox'[w] = Append(outbox[w], busy[w])
      /\ \A v \in Workers : v # w => busy'[v] = busy[v] /\ outbox'[v] = outbox[v]
  BY <1>1, <1>3
<1>7. ASSUME Quiet PROVE Traffic(w)'
  <2>1. Outstanding(w) /\ Working(w)
    BY <1>1, <1>7, WhereIsIt DEF Silent
  <2>2. outbox'[w] = <<Mine(w)>>
    BY <1>6, <2>1 DEF Working
  <2>3. ~Has(Breaking, handler[w], cut[handler[w]][w])
    BY <1>1, <2>1 DEF Working, Mine
  <2>4. Breaking' = Breaking
    BY <1>1 DEF Breaking
  <2>5. ~Has(Breaking, handler[w], cut[handler[w]][w])'
    BY <1>1, <2>3, <2>4 DEF Has
  <2>6. Answered(w)'
    BY <1>1, <1>6, <2>1, <2>2, <2>5 DEF Working, Answered, Mine
  <2> QED
    BY <1>1, <2>1, <2>6 DEF Traffic, Outstanding
<1>8. closed' \subseteq Workers
  BY <1>1, <1>2 DEF PoolTypes, CallTypes
<1> QED
  BY <1>1, <1>5, <1>6, <1>7, <1>8, WorkerStep

LEMMA BreakInv == ASSUME PoolInv, NEW w \in Workers, Break(w) PROVE PoolInv'
<1>1. /\ busy[w] # NoRequest /\ Has(Breaking, busy[w].of, busy[w].part)
      /\ outbox' = [outbox EXCEPT ![w] = Append(@, NoRequest)]
      /\ busy' = [busy EXCEPT ![w] = NoRequest]
      /\ inbox' = [inbox EXCEPT ![w] = <<>>]
      /\ closed' = closed \cup {w}
      /\ UNCHANGED <<scenario, active, terminated, stage, weights, cut, results, part, answer, handler>>
  BY DEF Break, batchOf
<1>2. PoolTypes
  BY DEF PoolInv
<1>3. /\ outbox \in [Workers -> Seq(PoolRequests)] /\ busy \in [Workers -> PoolRequests]
      /\ inbox \in [Workers -> Seq(PoolRequests)] /\ <<>> \in Seq(PoolRequests)
      /\ NoRequest \in PoolRequests
  BY <1>2, EmptySeq DEF PoolTypes, WorkerTypes, NoRequest, PoolRequests
<1>4. Append(outbox[w], NoRequest) \in Seq(PoolRequests)
  BY <1>3, AppendProperties
<1>5. WorkerTypes'
  BY <1>1, <1>2, <1>3, <1>4 DEF PoolTypes, WorkerTypes
<1>6. /\ busy'[w] = NoRequest /\ outbox'[w] = Append(outbox[w], NoRequest) /\ inbox'[w] = <<>>
      /\ \A v \in Workers : v # w => busy'[v] = busy[v] /\ outbox'[v] = outbox[v] /\ inbox'[v] = inbox[v]
  BY <1>1, <1>3
<1>7. ASSUME Quiet PROVE Traffic(w)'
  <2>1. Outstanding(w) /\ Working(w)
    BY <1>1, <1>7, WhereIsIt DEF Silent
  <2>2. outbox'[w] = <<NoRequest>>
    BY <1>6, <2>1 DEF Working
  <2>3. Breaking # {} /\ Breaking' = Breaking
    BY <1>1 DEF Has, Breaking
  <2>4. Broken(w)'
    BY <1>6, <2>2, <2>3 DEF Broken, NoRequest
  <2> QED
    BY <1>1, <2>1, <2>4 DEF Traffic, Outstanding
<1>8. closed' \subseteq Workers
  BY <1>1, <1>2 DEF PoolTypes, CallTypes
<1> QED
  BY <1>1, <1>5, <1>6, <1>7, <1>8, WorkerStep

LEMMA DeliverInv == ASSUME PoolInv, NEW w \in Workers, Deliver(w) PROVE PoolInv'
<1>0. PICK c : c = handler[w]
  OBVIOUS
<1> DEFINE message == Head(outbox[w])
           place == IF message = NoRequest THEN "rejected" ELSE "resolved"
<1>1. /\ outbox[w] # <<>> /\ outbox' = [outbox EXCEPT ![w] = Tail(@)]
      /\ UNCHANGED <<scenario, active, terminated, stage, weights, cut, results>>
      /\ UNCHANGED <<inbox, busy, handler, closed>>
  BY DEF Deliver, batchOf
<1>2. PoolTypes /\ RunningAlone /\ (Quiet => Sound)
  BY DEF PoolInv
<1>3. IF part[c][w] # "pending" THEN UNCHANGED <<part, answer>>
      ELSE /\ part' = [part EXCEPT ![c] = [@ EXCEPT ![w] = place]]
           /\ answer' = [answer EXCEPT ![c] = [@ EXCEPT ![w] = message]]
  BY <1>0 DEF Deliver, Settled
<1>4. message \in PoolRequests /\ Tail(outbox[w]) \in Seq(PoolRequests)
  <2>1. outbox[w] \in Seq(PoolRequests)
    BY <1>2 DEF PoolTypes, WorkerTypes
  <2> QED
    BY <1>1, <2>1, MembersOfTail
<1>5. place \in PartPlaces
  BY DEF PartPlaces
<1> HIDE DEF message, place
<1>6. PoolTypes'
  <2>1. CallTypes'
    BY <1>1, <1>2 DEF PoolTypes, CallTypes
  <2>2. WorkerTypes'
    BY <1>1, <1>2, <1>4 DEF PoolTypes, WorkerTypes
  <2>3. part \in [Batches -> [Workers -> PartPlaces]] /\ answer \in [Batches -> [Workers -> PoolRequests]]
    BY <1>2 DEF PoolTypes, PartTypes
  <2>4. part' \in [Batches -> [Workers -> PartPlaces]] /\ answer' \in [Batches -> [Workers -> PoolRequests]]
    <3>1. CASE part[c][w] # "pending"
      BY <1>3, <2>3, <3>1
    <3>2. CASE part[c][w] = "pending"
      <4>1. [part EXCEPT ![c] = [@ EXCEPT ![w] = place]] \in [Batches -> [Workers -> PartPlaces]]
        BY <1>5, <2>3
      <4>2. [answer EXCEPT ![c] = [@ EXCEPT ![w] = message]] \in [Batches -> [Workers -> PoolRequests]]
        BY <1>4, <2>3
      <4> QED
        BY <1>3, <3>2, <4>1, <4>2
    <3> QED
      BY <3>1, <3>2
  <2>5. ASSUME NEW d \in Batches, NEW v \in Workers, part'[d][v] # "none" PROVE part[d][v] # "none"
    BY <1>3, <2>3, <2>5
  <2>6. PartTypes'
    BY <1>1, <1>2, <2>4, <2>5 DEF PoolTypes, PartTypes
  <2> QED
    BY <2>1, <2>2, <2>6 DEF PoolTypes
<1>7. RunningAlone'
  BY <1>1, <1>2, RunsOn
<1>8. ASSUME Quiet PROVE /\ \A d \in Batches : PartsOfCall(d)' /\ OwnResults(d)'
                         /\ \A d \in Batches, v \in Workers : PartSound(d, v)'
                         /\ \A v \in Workers : Traffic(v)'
  <2>1. Sound
    BY <1>2, <1>8
  <2>2. Outstanding(w) /\ (Answered(w) \/ Broken(w))
    BY <1>1, <1>8, WhereIsIt DEF Silent
  <2>3. c \in Batches /\ part[c][w] = "pending"
    BY <1>0, <2>2 DEF Outstanding
  <2>4. Settled(c, w, place) /\ answer' = [answer EXCEPT ![c] = [@ EXCEPT ![w] = message]]
    BY <1>3, <2>3 DEF Settled
  <2>5. /\ part' \in [Batches -> [Workers -> PartPlaces]] /\ part'[c][w] = place
        /\ \A d \in Batches, v \in Workers : d # c \/ v # w => part'[d][v] = part[d][v]
    BY <1>2, <1>5, <2>3, <2>4, SettledPart
  <2>6. /\ answer'[c][w] = message
        /\ \A d \in Batches, v \in Workers : d # c \/ v # w => answer'[d][v] = answer[d][v]
    <3>1. answer \in [Batches -> [Workers -> PoolRequests]]
      BY <1>2 DEF PoolTypes, PartTypes
    <3> QED
      BY <2>3, <2>4, <3>1
  <2>7. \/ place = "resolved" /\ message = [of |-> c, part |-> cut[c][w]] /\ ~Has(Breaking, c, cut[c][w])
        \/ place = "rejected" /\ Faults # {}
    <3>1. CASE Answered(w)
      <4>1. message = Mine(w) /\ ~Has(Breaking, c, cut[c][w])
        BY <1>0, <3>1 DEF Answered, message
      <4>2. message # NoRequest
        BY <1>0, <2>3, <4>1, ParallelAssumption DEF Mine, NoRequest
      <4> QED
        BY <1>0, <4>1, <4>2 DEF place, Mine
    <3>2. CASE Broken(w)
      <4>1. message = NoRequest /\ Breaking # {}
        BY <3>2 DEF Broken, message
      <4> QED
        BY <4>1 DEF place, Faults
    <3> QED
      BY <2>2, <3>1, <3>2
  <2>8. PartsOfCall(c)'
    BY <1>1, <2>1, <2>3, <2>5, <2>7, CallWithSettled DEF Sound
  <2>9. ASSUME NEW d \in Batches, d # c PROVE PartsOfCall(d)'
    <3>1. part'[d] = part[d]
      BY <1>2, <2>5, <2>9 DEF PoolTypes, PartTypes
    <3> QED
      BY <1>1, <2>1, <3>1, CallStays DEF Sound
  <2>10. \A d \in Batches : OwnResults(d)'
    BY <1>1, <2>1, ResultsStay DEF Sound
  <2>11. PartSound(c, w)'
    <3>1. ~Has(Destroyed, c, cut[c][w])
      BY <2>1, <2>3 DEF Sound, PartSound
    <3>2. Destroyed' = Destroyed /\ Breaking' = Breaking /\ cut' = cut
      BY <1>1 DEF Destroyed, Breaking
    <3>3. ~Has(Destroyed, c, cut[c][w])' /\ (Has(Breaking, c, cut[c][w])' <=> Has(Breaking, c, cut[c][w]))
      BY <3>1, <3>2 DEF Has
    <3>4. CASE place = "resolved" /\ message = [of |-> c, part |-> cut[c][w]] /\ ~Has(Breaking, c, cut[c][w])
      <4>1. answer'[c][w] = [of |-> c, part |-> cut'[c][w]]
        BY <2>6, <3>2, <3>4
      <4> QED
        BY <3>3, <3>4, <4>1 DEF PartSound
    <3>5. CASE place = "rejected"
      BY <2>5, <3>5 DEF PartSound
    <3> QED
      BY <2>7, <3>4, <3>5
  <2>12. ASSUME NEW d \in Batches, NEW v \in Workers, d # c \/ v # w PROVE PartSound(d, v)'
    BY <1>1, <2>1, <2>5, <2>6, <2>12, PartStays DEF Sound
  <2>13. ASSUME NEW v \in Workers, v # w PROVE Traffic(v)'
    <3>1. Outstanding(v) => part'[handler[v]][v] = "pending"
      BY <2>5, <2>13 DEF Outstanding
    <3>2. outbox'[v] = outbox[v]
      BY <1>1, <1>2, <2>13 DEF PoolTypes, WorkerTypes
    <3> QED
      BY <1>1, <2>1, <3>1, <3>2, TrafficStays DEF Sound
  <2>14. Traffic(w)'
    <3>1. inbox[w] = <<>> /\ busy[w] = NoRequest /\ \E x : outbox[w] = <<x>>
      BY <2>2 DEF Answered, Broken
    <3>2. outbox'[w] = <<>>
      <4>1. outbox'[w] = Tail(outbox[w])
        BY <1>1, <1>2 DEF PoolTypes, WorkerTypes
      <4> QED
        BY <3>1, <4>1
    <3> QED
      BY <1>1, <3>1, <3>2 DEF Traffic, Silent, NoRequest
  <2> QED
    BY <2>3, <2>8, <2>9, <2>10, <2>11, <2>12, <2>13, <2>14
<1> QED
  BY <1>1, <1>6, <1>7, <1>8, InvFrom

-----------------------------------------------------------------------------
LEMMA GreatestMember ==
    ASSUME NEW n \in Nat, NEW S, S \subseteq 1 .. n, S # {}
    PROVE  \E w \in S : \A v \in S : v <= w
<1> DEFINE T == {n - w : w \in S}
<1>1. T \subseteq Nat /\ T # {}
  <2>1. \A w \in S : n - w \in Nat
    OBVIOUS
  <2> QED
    BY <2>1
<1>2. PICK m \in T : \A k \in T : m <= k
  BY <1>1, LeastNatural
<1>3. PICK w \in S : m = n - w
  BY <1>2
<1>4. ASSUME NEW v \in S PROVE v <= w
  <2>1. n - v \in T
    OBVIOUS
  <2>2. v \in 1 .. n /\ w \in 1 .. n
    OBVIOUS
  <2>3. n - w <= n - v
    <3> HIDE DEF T
    <3> QED
      BY <1>2, <1>3, <2>1
  <2> QED
    BY <2>2, <2>3
<1> QED
  BY <1>4

(* Every part of the batch is answered: each module has its own result.    *)
LEMMA AnswersAreOwn ==
    ASSUME PoolInv, Quiet, NEW c \in Batches, stage[c] = "running", AllResolved(c),
           NEW i \in 1 .. Len(weights[c])
    PROVE  Ordered(c)[i] = <<c, i>> /\ <<c, i>> \notin Faults
<1>1. Sound /\ RunningAlone /\ PoolTypes
  BY DEF PoolInv
<1>2. Covered(c)
  BY <1>1 DEF RunningAlone
<1>3. cut[c] \in Seq(Seq(Nat)) /\ Len(cut[c]) \in Nat
  BY <1>1 DEF PoolTypes, CallTypes
<1>4. 1 .. Len(cut[c]) \subseteq Workers
  BY <1>2, <1>3, ParallelAssumption DEF Covered, Workers
<1>5. ASSUME NEW w \in 1 .. Len(cut[c])
      PROVE  /\ answer[c][w].of = c /\ answer[c][w].part = cut[c][w]
             /\ ~Has(Destroyed, c, cut[c][w]) /\ ~Has(Breaking, c, cut[c][w])
  <2>1. w \in Workers /\ part[c][w] = "resolved"
    BY <1>4 DEF AllResolved
  <2>2. PartSound(c, w)
    BY <1>1, <2>1 DEF Sound
  <2> QED
    BY <2>1, <2>2 DEF PartSound
<1>6. PICK w \in 1 .. Len(cut[c]) : i \in Members(cut[c][w])
  BY <1>2 DEF Covered
<1>7. w \in Given(c, i)
  BY <1>5, <1>6 DEF Given
<1>8. Given(c, i) \subseteq 1 .. Len(cut[c])
  BY DEF Given
<1>9. \E v \in Given(c, i) : \A u \in Given(c, i) : u <= v
  BY <1>3, <1>7, <1>8, GreatestMember
<1>10. Ordered(c)[i] = <<c, i>>
  <2> DEFINE last == CHOOSE v \in Given(c, i) : \A u \in Given(c, i) : u <= v
  <2>1. last \in Given(c, i)
    BY <1>9
  <2>2. Ordered(c)[i] = <<answer[c][last].of, i>>
    BY <1>7 DEF Ordered
  <2> HIDE DEF last
  <2>3. answer[c][last].of = c
    BY <1>5, <1>8, <2>1
  <2> QED
    BY <2>2, <2>3
<1>11. <<c, i>> \notin Faults
  <2>1. PICK k \in 1 .. Len(cut[c][w]) : i = cut[c][w][k]
    BY <1>6 DEF Members
  <2> QED
    BY <1>5, <2>1 DEF Has, Faults
<1> QED
  BY <1>10, <1>11

(* What a call that ends keeps of the others, and of the workers.          *)
LEMMA CallEnds ==
    ASSUME PoolInv, NEW c \in Batches, stage[c] = "running",
           active' = FALSE, UNCHANGED <<scenario, terminated, weights, cut, part, answer>>,
           UNCHANGED <<inbox, busy, outbox, handler, closed>>,
           stage' = [stage EXCEPT ![c] = stage'[c]], stage'[c] \in {"resolved", "rejected"},
           DOMAIN results' = Batches, \A d \in Batches \ {c} : results'[d] = results[d],
           Quiet => PartsOfCall(c)' /\ OwnResults(c)'
    PROVE  PoolInv'
<1>2. PoolTypes /\ RunningAlone /\ (Quiet => Sound)
  BY DEF PoolInv
<1>4. \A d \in Batches \ {c} : stage'[d] = stage[d]
  BY <1>2 DEF PoolTypes, CallTypes
<1>5. PoolTypes'
  <2>1. stage' \in [Batches -> CallPlaces]
    BY <1>2 DEF PoolTypes, CallTypes, CallPlaces
  <2> QED
    BY <1>2, <2>1 DEF PoolTypes, CallTypes, PartTypes, WorkerTypes
<1>6. RunningAlone'
  BY <1>2, <1>4 DEF RunningAlone
<1>7. ASSUME Quiet PROVE /\ \A d \in Batches : PartsOfCall(d)' /\ OwnResults(d)'
                         /\ \A d \in Batches, w \in Workers : PartSound(d, w)'
                         /\ \A w \in Workers : Traffic(w)'
  <2>1. Sound
    BY <1>2, <1>7
  <2>4. ASSUME NEW d \in Batches, d # c PROVE PartsOfCall(d)' /\ OwnResults(d)'
    BY <1>4, <2>1, <2>4, CallStays, ResultsStay DEF Sound
  <2>5. \A d \in Batches, w \in Workers : PartSound(d, w)'
    BY <2>1, PartStays DEF Sound
  <2>6. \A w \in Workers : Traffic(w)'
    BY <2>1, TrafficStays DEF Sound, Outstanding
  <2> QED
    BY <1>7, <2>4, <2>5, <2>6
<1> QED
  BY <1>5, <1>6, <1>7, InvFrom

LEMMA FinishBatchInv == ASSUME PoolInv, NEW c \in Batches, FinishBatch(c) PROVE PoolInv'
<1> DEFINE end == IF \A i \in 1 .. Len(weights[c]) : Usable(c, Ordered(c)[i]) THEN "resolved" ELSE "rejected"
<1>1. /\ stage[c] = "running" /\ AllResolved(c) /\ active' = FALSE
      /\ results' = [results EXCEPT ![c] = Ordered(c)]
      /\ stage' = [stage EXCEPT ![c] = end]
      /\ UNCHANGED <<scenario, terminated, weights, cut, part, answer>>
      /\ UNCHANGED <<inbox, busy, outbox, handler, closed>>
  BY DEF FinishBatch, workerVars
<1>2. PoolTypes /\ RunningAlone
  BY DEF PoolInv
<1> HIDE DEF end
<1>3. stage'[c] = end /\ stage' = [stage EXCEPT ![c] = stage'[c]]
  BY <1>1, <1>2 DEF PoolTypes, CallTypes
<1>4. end \in {"resolved", "rejected"}
  BY DEF end
<1>5. /\ DOMAIN results' = Batches /\ results'[c] = Ordered(c)
      /\ \A d \in Batches \ {c} : results'[d] = results[d]
  BY <1>1, <1>2 DEF PoolTypes, CallTypes
<1>6. ASSUME Quiet PROVE PartsOfCall(c)'
  <2>1. PartsOfCall(c)
    BY <1>6 DEF PoolInv, Sound
  <2>2. ASSUME NEW w \in Workers, part[c][w] # "none" PROVE part[c][w] = "resolved"
    <3>1. w <= Len(cut[c]) /\ Len(cut[c]) \in Nat
      BY <1>2, <2>2 DEF PoolTypes, PartTypes, CallTypes
    <3>2. w \in Nat \ {0}
      BY ParallelAssumption DEF Workers
    <3>3. w \in 1 .. Len(cut[c])
      BY <3>1, <3>2
    <3> QED
      BY <1>1, <3>3 DEF AllResolved
  <2> QED
    BY <1>1, <1>3, <1>4, <2>1, <2>2, QuietStays DEF PartsOfCall
<1>7. ASSUME Quiet PROVE OwnResults(c)'
  <2>1. \A i \in 1 .. Len(weights[c]) : Ordered(c)[i] = <<c, i>> /\ <<c, i>> \notin Faults
    BY <1>1, <1>7, AnswersAreOwn
  <2>2. Ordered(c) = [i \in 1 .. Len(weights[c]) |-> Ordered(c)[i]]
    BY DEF Ordered
  <2>3. Ordered(c) = [i \in 1 .. Len(weights[c]) |-> <<c, i>>]
    BY <2>1, <2>2
  <2>4. Faults' = Faults /\ weights' = weights
    BY <1>1, QuietStays
  <2> QED
    BY <1>5, <2>1, <2>3, <2>4 DEF OwnResults
<1> QED
  BY <1>1, <1>3, <1>4, <1>5, <1>6, <1>7, CallEnds

LEMMA FailBatchInv == ASSUME PoolInv, NEW c \in Batches, FailBatch(c) PROVE PoolInv'
<1>1. /\ stage[c] = "running" /\ active' = FALSE
      /\ stage' = [stage EXCEPT ![c] = "rejected"]
      /\ UNCHANGED <<scenario, terminated, weights, cut, results, part, answer>>
      /\ UNCHANGED <<inbox, busy, outbox, handler, closed>>
  BY DEF FailBatch, workerVars
<1>2. PICK w \in Workers : part[c][w] = "rejected"
  BY DEF FailBatch
<1>3. PoolTypes
  BY DEF PoolInv
<1>4. stage'[c] = "rejected" /\ stage' = [stage EXCEPT ![c] = stage'[c]]
  BY <1>1, <1>3 DEF PoolTypes, CallTypes
<1>5. DOMAIN results' = Batches /\ \A d \in Batches \ {c} : results'[d] = results[d]
  BY <1>1, <1>3 DEF PoolTypes, CallTypes
<1>6. ASSUME Quiet PROVE PartsOfCall(c)' /\ OwnResults(c)'
  <2>1. PartsOfCall(c)
    BY <1>6 DEF PoolInv, Sound
  <2>2. Faults # {}
    BY <1>2, <2>1 DEF PartsOfCall
  <2> QED
    BY <1>1, <1>4, <2>1, <2>2, QuietStays DEF PartsOfCall, OwnResults
<1> QED
  BY <1>1, <1>4, <1>5, <1>6, CallEnds

LEMMA TerminateInv == ASSUME PoolInv, Terminate PROVE PoolInv'
<1>1. /\ terminated' = TRUE /\ closed' = Workers
      /\ inbox' = [w \in Workers |-> <<>>]
      /\ busy' = [w \in Workers |-> NoRequest]
      /\ outbox' = [w \in Workers |-> <<>>]
      /\ UNCHANGED <<scenario, active, stage, weights, cut, results, part, answer, handler>>
  BY DEF Terminate, batchOf
<1>2. PoolTypes /\ RunningAlone /\ (Quiet => Sound)
  BY DEF PoolInv
<1>3. PoolTypes'
  <2>1. NoRequest \in PoolRequests /\ <<>> \in Seq(PoolRequests)
    BY EmptySeq DEF NoRequest, PoolRequests
  <2>2. WorkerTypes'
    BY <1>1, <1>2, <2>1 DEF PoolTypes, WorkerTypes
  <2>3. CallTypes' /\ PartTypes'
    BY <1>1, <1>2 DEF PoolTypes, CallTypes, PartTypes
  <2> QED
    BY <2>2, <2>3 DEF PoolTypes
<1>4. RunningAlone'
  BY <1>1, <1>2, RunsOn
<1>5. \A w \in Workers : Traffic(w)'
  BY <1>1 DEF Traffic, Silent, NoRequest
<1>6. ASSUME Quiet PROVE /\ \A d \in Batches : PartsOfCall(d)' /\ OwnResults(d)'
                         /\ \A d \in Batches, w \in Workers : PartSound(d, w)'
  BY <1>1, <1>2, <1>6, CallStays, ResultsStay, PartStays DEF Sound
<1> QED
  BY <1>1, <1>3, <1>4, <1>5, <1>6, InvFrom

LEMMA PoolNextInv == PoolInv /\ [PoolNext]_poolVars => PoolInv'
<1> SUFFICES ASSUME PoolInv, [PoolNext]_poolVars PROVE PoolInv'
  OBVIOUS
<1>1. CASE \E c \in Batches : Refuse(c) \/ CompileHere(c) \/ StartBatch(c) \/ FinishBatch(c) \/ FailBatch(c)
  BY <1>1, RefuseInv, CompileHereInv, StartBatchInv, FinishBatchInv, FailBatchInv
<1>2. CASE \E c \in Batches, w \in Workers : CoreIsRead(c, w) \/ CoreIsGone(c, w)
  BY <1>2, CoreIsReadInv, CoreIsGoneInv
<1>3. CASE \E w \in Workers : Receive(w) \/ Answer(w) \/ Break(w) \/ Deliver(w)
  BY <1>3, ReceiveInv, AnswerInv, BreakInv, DeliverInv
<1>4. CASE Terminate
  BY <1>4, TerminateInv
<1>5. CASE UNCHANGED poolVars
  <2>1. /\ UNCHANGED <<scenario, active, terminated, stage, weights, cut, results, part, answer>>
        /\ UNCHANGED <<inbox, busy, outbox, handler, closed>>
    BY <1>5 DEF poolVars, batchOf, workerVars
  <2>2. PoolTypes /\ RunningAlone /\ (Quiet => Sound)
    BY DEF PoolInv
  <2>3. PoolTypes' /\ RunningAlone'
    BY <2>1, <2>2, RunsOn DEF PoolTypes, CallTypes, PartTypes, WorkerTypes
  <2>4. ASSUME Quiet PROVE /\ \A d \in Batches : PartsOfCall(d)' /\ OwnResults(d)'
                           /\ \A d \in Batches, w \in Workers : PartSound(d, w)'
                           /\ \A w \in Workers : Traffic(w)'
    BY <2>1, <2>2, <2>4, CallStays, ResultsStay, PartStays, TrafficStays DEF Sound, Outstanding
  <2> QED
    BY <2>1, <2>3, <2>4, InvFrom
<1> QED
  BY <1>1, <1>2, <1>3, <1>4, <1>5 DEF PoolNext

(* Batches of the parallel service run one at a time, and while the        *)
(* service is quiet no message is on its way that is not the answer to the *)
(* last request of its worker.                                             *)
THEOREM PoolInvariant == PoolSpec => []PoolInv
BY PoolInitInv, PoolNextInv, PTL DEF PoolSpec

(* #active is set exactly while a batch runs, in every scenario.           *)
THEOREM PoolIsTyped == PoolSpec => []PoolTypeOK
<1>1. PoolInv => PoolTypeOK
  BY DEF PoolInv, PoolTypes, CallTypes, PartTypes, WorkerTypes, CallPlaces, PartPlaces, RunningAlone, PoolTypeOK
<1> QED
  BY <1>1, PoolInvariant, PTL

(* While no module fails, or for one batch alone, each result of a call is *)
(* that of its own module at its place (functional_parallel_compiler_      *)
(* test.ts:25): no answer goes to another batch or another index.          *)
THEOREM PoolResultsAreOwn == PoolSpec => [](Quiet => ResultsAreOwn)
<1>1. PoolInv => (Quiet => ResultsAreOwn)
  BY DEF PoolInv, Sound, OwnResults, ResultsAreOwn
<1> QED
  BY <1>1, PoolInvariant, PTL
=============================================================================
