--------------------------- MODULE ComponentReload ---------------------------
(***************************************************************************)
(* ComponentReloadSlot (src/src/functional/component_reload.ts): calls are *)
(* routed to the active version of a component, replace() checks the       *)
(* health of a candidate and then swaps it in, and a version that was      *)
(* replaced is disposed when its last call has returned.                   *)
(*                                                                         *)
(* Each action is the code between two awaits.  The operations, the health *)
(* checks and the dispose functions belong to the application: they take   *)
(* as long as they like, may fail, and may themselves call or replace      *)
(* through the same slot and wait for it (parent).                         *)
(***************************************************************************)
EXTENDS Integers, FiniteSets

CONSTANTS
    Calls,        \* the calls of call()
    Replacements, \* the calls of replace(), each with a candidate of its own
    Initial,      \* the version the slot is built with
    Wit,          \* the interface of each version
    Disposable    \* the versions that come with a dispose function

Versions == {Initial} \cup Replacements
Operations == Calls \cup Replacements

ASSUME ReloadAssumption ==
    /\ IsFiniteSet(Calls)
    /\ Calls \cap Replacements = {}
    /\ Initial \notin Operations
    /\ Disposable \subseteq Versions

VARIABLES
    active,    \* #active
    calls,     \* calls of each ActiveComponentVersion
    retired,   \* the versions whose `retired` is set
    dispose,   \* the versions whose `dispose` is still defined
    at,        \* where each operation stands
    serves,    \* the version an operation holds in a local variable
    parent     \* the operation whose code started and awaits this one

vars == <<active, calls, retired, dispose, at, serves, parent>>

Slot == Initial  \* stands for "none" in parent: the application itself

Init ==
    /\ active = Initial
    /\ calls = [v \in Versions |-> 0]
    /\ retired = {}
    /\ dispose = Disposable
    /\ at = [o \in Operations |-> "idle"]
    /\ serves = [o \in Operations |-> Initial]
    /\ parent = [o \in Operations |-> Slot]

Ended == {"done", "failed"}

(* Code of the application that can start an operation: its own, an        *)
(* operation, a health check, a dispose function.                          *)
Starters == {Slot} \cup {o \in Operations : at[o] \in {"running", "checking", "disposing"}}

Starts(o) == \E p \in Starters : parent' = [parent EXCEPT ![o] = p]

(* What the code of the application started for o has been awaited.        *)
Awaited(o) == \A child \in Operations : parent[child] = o => at[child] \in Ended

(* call() up to the await of the operation.                                *)
Call(c) ==
    /\ at[c] = "idle"
    /\ Starts(c)
    /\ calls' = [calls EXCEPT ![active] = @ + 1]
    /\ serves' = [serves EXCEPT ![c] = active]
    /\ at' = [at EXCEPT ![c] = "running"]
    /\ UNCHANGED <<active, retired, dispose>>

MutantDrained(v) == v \in retired' /\ v \in dispose

(* disposeRetiredVersion(v): whether v is disposed now.                    *)
Drained(v) == v \in retired' /\ calls'[v] = 0 /\ v \in dispose

MutantDisposeRetired(o, v) ==
    /\ dispose' = dispose
    /\ at' = [at EXCEPT ![o] = "done"]

(* The rest of an operation that ends with disposeRetiredVersion(v).       *)
DisposeRetired(o, v) ==
    IF Drained(v)
    THEN /\ dispose' = dispose \ {v}
         /\ at' = [at EXCEPT ![o] = "disposing"]
    ELSE /\ dispose' = dispose
         /\ at' = [at EXCEPT ![o] = "done"]

(* The finally block of call(): the operation returned or threw.           *)
Return(c) ==
    /\ c \in Calls /\ at[c] = "running" /\ Awaited(c)
    /\ calls' = [calls EXCEPT ![serves[c]] = @ - 1]
    /\ UNCHANGED <<active, retired, serves, parent>>
    /\ DisposeRetired(c, serves[c])

MutantCheck(r) ==
    /\ at[r] = "idle"
    /\ Starts(r)
    /\ at' = [at EXCEPT ![r] = "checking"]
    /\ serves' = [serves EXCEPT ![r] = active]
    /\ UNCHANGED <<active, calls, retired, dispose>>

(* replace() up to the await of the health check: the interfaces agree ... *)
Check(r) ==
    /\ at[r] = "idle" /\ Wit[r] = Wit[active]
    /\ Starts(r)
    /\ at' = [at EXCEPT ![r] = "checking"]
    /\ serves' = [serves EXCEPT ![r] = active]
    /\ UNCHANGED <<active, calls, retired, dispose>>

(* ... or differ.                                                          *)
Mismatch(r) ==
    /\ at[r] = "idle" /\ Wit[r] # Wit[active]
    /\ Starts(r)
    /\ at' = [at EXCEPT ![r] = "failed"]
    /\ UNCHANGED <<active, calls, retired, dispose, serves>>

Unhealthy(r) ==
    /\ at[r] = "checking" /\ Awaited(r)
    /\ at' = [at EXCEPT ![r] = "failed"]
    /\ UNCHANGED <<active, calls, retired, dispose, serves, parent>>

MutantReplaced(r) == serves[r]

(* The version a healthy candidate replaces: the one that is active now,   *)
(* not the one that was when the check began.                              *)
Replaced(r) == active

MutantSwapAwaitsTheCalls(r) ==
    /\ at[r] = "checking" /\ Awaited(r) /\ calls[active] = 0
    /\ active' = r
    /\ retired' = retired \cup {active}
    /\ UNCHANGED <<calls, serves, parent>>
    /\ DisposeRetired(r, active)

Swap(r) ==
    /\ at[r] = "checking" /\ Awaited(r)
    /\ active' = r
    /\ retired' = retired \cup {Replaced(r)}
    /\ UNCHANGED <<calls, serves, parent>>
    /\ DisposeRetired(r, Replaced(r))

(* The dispose function returned or threw.                                 *)
Disposed(o) ==
    /\ at[o] = "disposing" /\ Awaited(o)
    /\ \E end \in Ended : at' = [at EXCEPT ![o] = end]
    /\ UNCHANGED <<active, calls, retired, dispose, serves, parent>>

Next ==
    \/ \E c \in Calls : Call(c) \/ Return(c)
    \/ \E r \in Replacements : Check(r) \/ Mismatch(r) \/ Unhealthy(r) \/ Swap(r)
    \/ \E o \in Operations : Disposed(o)

Spec == Init /\ [][Next]_vars

(* Operations, dispose functions and the health checks that do not fail    *)
(* settle once what they await has: the application's side of the bargain. *)
FairSpec ==
    /\ Spec
    /\ \A c \in Calls : WF_vars(Return(c))
    /\ \A r \in Replacements : WF_vars(Swap(r))
    /\ \A o \in Operations : WF_vars(Disposed(o))

-----------------------------------------------------------------------------
States == {"idle", "running", "checking", "disposing"} \cup Ended

(* The routing state and the counters stay in their ranges.                *)
TypeOK ==
    /\ active \in Versions
    /\ calls \in [Versions -> Nat]
    /\ retired \subseteq Versions
    /\ dispose \subseteq Disposable
    /\ at \in [Operations -> States]
    /\ serves \in [Operations -> Versions]
    /\ parent \in [Operations -> Operations \cup {Slot}]

Running(v) == {c \in Calls : at[c] = "running" /\ serves[c] = v}

(* No call runs on a version that has been disposed, whatever replacements *)
(* overtake it ("disposes the retired version after its active calls       *)
(* drain", src/docs/canonical-abi.md:60).                                  *)
NoCallOnDisposed ==
    \A v \in Disposable : Running(v) # {} => v \in dispose

(* A retired version without calls is not forgotten: whoever made it so    *)
(* has called its dispose function.                                        *)
DrainedIsDisposed ==
    \A v \in retired : Running(v) = {} => v \notin dispose

(* The slot has one live version.  Of the versions that were ever routed   *)
(* to only the active one is not retired, and the active one never is:     *)
(* also when replacements overlap and finish in another order.             *)
Activated == {v \in Versions : v = Initial \/ v = active \/ v \in retired \/ at[v] \in {"done", "disposing"}}

OneLiveVersion == Activated \ retired = {active}

(* Every version that is routed to has the interface the slot began with,  *)
(* though the comparison is made before the health check is awaited.       *)
InterfaceIsKept == \A v \in Activated : Wit[v] = Wit[Initial]

(* A replacement never waits for the calls it retires, so that one started *)
(* from inside a call of the same slot settles too.                        *)
EveryReplacementSettles ==
    \A r \in Replacements : at[r] = "checking" ~> at[r] \in Ended
=============================================================================
