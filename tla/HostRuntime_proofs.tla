-------------------------- MODULE HostRuntime_proofs --------------------------
(***************************************************************************)
(* Proofs about the host's side of a compiled program: the slot that       *)
(* exchanges a running component (ComponentReload) and the linear memory   *)
(* of an instance (WasmHeap).                                              *)
(*                                                                         *)
(* ComponentReload, for any finite set of calls, any set of replacements,  *)
(* any interfaces and any dispose functions: the safety properties speak   *)
(* of the calls that run on a version, the code of the counter `calls`.    *)
(* IInv ties the two together and adds what the code knows of versions     *)
(* that were not activated yet.                                            *)
(*                                                                         *)
(* WasmHeap, for a memory of any size, pages of any size, encodings of any *)
(* number of blocks and any number of arenas: HeapInv says that there are  *)
(* lists, the current one and one for each arena, such that the links in   *)
(* memory are those lists; that the blocks on them and those of values are *)
(* apart from each other; that no block lies across the mark of an arena;  *)
(* and, until something older than an arena is released inside it, that    *)
(* the blocks fill the heap.  The lemmas go from one allocation to a whole *)
(* encoding, from one free() to a whole release, and then to the arenas.   *)
(***************************************************************************)
EXTENDS ComponentReload, WasmHeap, FiniteSetTheorems, TLAPS

-----------------------------------------------------------------------------
(* The component slot.                                                     *)

(* The counter of a version is the number of calls that run on it.         *)
CallsCounted == \A v \in Versions : calls[v] = Cardinality(Running(v))

(* What was disposed had been retired and drained.                         *)
DisposedAreDrained ==
    \A v \in Disposable : v \notin dispose => v \in retired /\ calls[v] = 0

(* A retired version whose counter is zero has been disposed.              *)
DrainedAreDisposed == \A v \in retired : calls[v] = 0 => v \notin dispose

(* A candidate becomes active by its swap only.                            *)
CandidatesAreFresh ==
    \A r \in Replacements : at[r] \in {"idle", "checking"} => r # active /\ r \notin retired

SwappedAreRouted ==
    \A r \in Replacements : at[r] \in {"done", "disposing"} => r = active \/ r \in retired

(* The interface was compared with that of a version that is still like    *)
(* the active one.                                                         *)
CheckedInterface == \A r \in Replacements : at[r] = "checking" => Wit[r] = Wit[Initial]

IInv ==
    /\ TypeOK
    /\ CallsCounted
    /\ DisposedAreDrained
    /\ DrainedAreDisposed
    /\ CandidatesAreFresh
    /\ SwappedAreRouted
    /\ active \notin retired
    /\ Initial = active \/ Initial \in retired
    /\ CheckedInterface
    /\ InterfaceIsKept

-----------------------------------------------------------------------------
(* The steps that start or end a call change the runs of one version by    *)
(* one call.                                                               *)
LEMMA RunningFinite == \A v : IsFiniteSet(Running(v))
<1>1. SUFFICES ASSUME NEW v PROVE IsFiniteSet(Running(v))
  OBVIOUS
<1>2. Running(v) \subseteq Calls
  BY DEF Running
<1> QED
  BY <1>2, ReloadAssumption, FS_Subset

LEMMA InitIInv == Init => IInv
<1> SUFFICES ASSUME Init PROVE IInv
  OBVIOUS
<1>1. TypeOK
  BY ReloadAssumption DEF Init, TypeOK, States, Versions, Operations, Slot, Ended
<1>2. CallsCounted
  <2>1. \A v : Running(v) = {}
    BY DEF Init, Running, Operations
  <2> QED
    BY <2>1, FS_EmptySet DEF CallsCounted, Init
<1>3. DisposedAreDrained /\ DrainedAreDisposed /\ active \notin retired /\ Initial = active
  BY DEF Init, DisposedAreDrained, DrainedAreDisposed
<1>4. CandidatesAreFresh
  BY ReloadAssumption DEF Init, CandidatesAreFresh, Operations
<1>5. SwappedAreRouted /\ CheckedInterface
  BY DEF Init, SwappedAreRouted, CheckedInterface, Operations
<1>6. InterfaceIsKept
  <2>1. \A v \in Activated : v = Initial
    BY DEF Init, Activated, Versions, Operations
  <2> QED
    BY <2>1 DEF InterfaceIsKept
<1> QED
  BY <1>1, <1>2, <1>3, <1>4, <1>5, <1>6 DEF IInv

(* A step that neither starts nor ends a running call, swaps or disposes:  *)
(* only where a replacement or a finished operation stands may change.     *)
LEMMA QuietStep ==
  ASSUME IInv, UNCHANGED <<active, calls, retired, dispose>>, TypeOK',
         \A v : Running(v)' = Running(v),
         CandidatesAreFresh', SwappedAreRouted', CheckedInterface'
  PROVE  IInv'
<1>1. CallsCounted'
  BY DEF IInv, CallsCounted
<1>2. DisposedAreDrained' /\ DrainedAreDisposed'
  BY DEF IInv, DisposedAreDrained, DrainedAreDisposed
<1>3. (active \notin retired /\ (Initial = active \/ Initial \in retired))'
  BY DEF IInv
<1>4. InterfaceIsKept'
  <2> SUFFICES ASSUME NEW v \in Activated' PROVE Wit[v] = Wit[Initial]
    BY DEF InterfaceIsKept
  <2>1. v = Initial \/ v = active \/ v \in retired
    BY DEF Activated, SwappedAreRouted, Versions
  <2> QED
    BY <2>1 DEF IInv, InterfaceIsKept, Activated, TypeOK
<1> QED
  BY <1>1, <1>2, <1>3, <1>4 DEF IInv

LEMMA CallStep == ASSUME IInv, NEW c \in Calls, Call(c) PROVE IInv'
<1> USE DEF IInv, TypeOK, Operations
<1>1. TypeOK'
  BY DEF Call, Starts, Starters, States, Ended
<1>2. \A v : v = active => c \notin Running(v) /\ Running(v)' = Running(v) \cup {c}
  BY DEF Call, Running
<1>3. \A v : v # active => Running(v)' = Running(v)
  BY DEF Call, Running
<1>4. CallsCounted'
  <2> SUFFICES ASSUME NEW v \in Versions PROVE calls'[v] = Cardinality(Running(v)')
    BY DEF CallsCounted
  <2>1. CASE v = active
    <3>1. Cardinality(Running(v)') = Cardinality(Running(v)) + 1
      BY <2>1, <1>2, RunningFinite, FS_AddElement
    <3> QED
      BY <2>1, <3>1 DEF Call, CallsCounted
  <2>2. CASE v # active
    BY <2>2, <1>3 DEF Call, CallsCounted
  <2> QED
    BY <2>1, <2>2
<1>5. DisposedAreDrained'
  BY DEF Call, DisposedAreDrained
<1>6. DrainedAreDisposed'
  BY DEF Call, DrainedAreDisposed
<1>7. CandidatesAreFresh' /\ SwappedAreRouted' /\ CheckedInterface'
  BY ReloadAssumption DEF Call, CandidatesAreFresh, SwappedAreRouted, CheckedInterface
<1>8. (active \notin retired /\ (Initial = active \/ Initial \in retired))'
  BY DEF Call
<1>9. InterfaceIsKept'
  BY <1>7 DEF Call, InterfaceIsKept, Activated, SwappedAreRouted, Versions
<1> QED
  BY <1>1, <1>4, <1>5, <1>6, <1>7, <1>8, <1>9

LEMMA ReturnStep == ASSUME IInv, NEW c \in Calls, Return(c) PROVE IInv'
<1> DEFINE w == serves[c]
<1> USE DEF IInv, TypeOK, Operations
<1>1. w \in Versions /\ c \in Running(w) /\ at' \in [Operations -> States] /\ at'[c] # "running"
  BY DEF Return, Running, DisposeRetired, States, Ended
<1>2. \A v : v = w => Running(v)' = Running(v) \ {c}
  BY <1>1 DEF Return, Running, DisposeRetired
<1>3. \A v : v # w => Running(v)' = Running(v)
  BY DEF Return, Running, DisposeRetired
<1>4. \A v : v = w => /\ Cardinality(Running(v)) \in Nat \ {0}
                      /\ Cardinality(Running(v)') = Cardinality(Running(v)) - 1
  <2> SUFFICES ASSUME NEW v, v = w
               PROVE  /\ Cardinality(Running(v)) \in Nat \ {0}
                      /\ Cardinality(Running(v)') = Cardinality(Running(v)) - 1
    OBVIOUS
  <2>1. IsFiniteSet(Running(v)) /\ c \in Running(v)
    BY RunningFinite, <1>1
  <2>2. Cardinality(Running(v)) \in Nat /\ Cardinality(Running(v)) # 0
    BY <2>1, FS_EmptySet, FS_CardinalityType
  <2>3. Cardinality(Running(v) \ {c}) = Cardinality(Running(v)) - 1
    BY <2>1, FS_RemoveElement
  <2> QED
    BY <2>2, <2>3, <1>2
<1>5. calls[w] \in Nat \ {0} /\ calls' = [calls EXCEPT ![w] = calls[w] - 1]
  BY <1>1, <1>4 DEF Return, CallsCounted
<1>6. CallsCounted'
  <2> SUFFICES ASSUME NEW v \in Versions PROVE calls'[v] = Cardinality(Running(v)')
    BY DEF CallsCounted
  <2>1. CASE v = w
    BY <2>1, <1>1, <1>4, <1>5 DEF CallsCounted
  <2>2. CASE v # w
    BY <2>2, <1>3, <1>5 DEF CallsCounted
  <2> QED
    BY <2>1, <2>2
<1>7. dispose' = IF w \in retired /\ calls'[w] = 0 THEN dispose \ {w} ELSE dispose
  BY DEF Return, DisposeRetired, Drained
<1> HIDE DEF w
<1>8. TypeOK'
  <2>1. calls' \in [Versions -> Nat]
    BY <1>1, <1>5
  <2> QED
    BY <2>1, <1>1, <1>7 DEF Return
<1>9. DisposedAreDrained'
  <2> SUFFICES ASSUME NEW v \in Disposable, v \notin dispose' PROVE v \in retired' /\ calls'[v] = 0
    BY DEF DisposedAreDrained
  <2>1. v \in Versions /\ retired' = retired
    BY ReloadAssumption DEF Return
  <2>2. CASE v \notin dispose
    <3>1. v \in retired /\ calls[v] = 0 /\ v # w
      BY <2>2, <1>5 DEF DisposedAreDrained
    <3> QED
      BY <3>1, <2>1, <1>5
  <2>3. CASE v \in dispose
    BY <2>3, <2>1, <1>7
  <2> QED
    BY <2>2, <2>3
<1>10. DrainedAreDisposed'
  <2> SUFFICES ASSUME NEW v \in retired, calls'[v] = 0 PROVE v \notin dispose'
    BY DEF DrainedAreDisposed, Return
  <2>1. CASE v = w
    BY <2>1, <1>7
  <2>2. CASE v # w
    <3>1. calls[v] = 0
      BY <2>2, <1>5
    <3> QED
      BY <3>1, <1>7 DEF DrainedAreDisposed
  <2> QED
    BY <2>1, <2>2
<1>11. \A r \in Replacements : at'[r] = at[r]
  BY ReloadAssumption DEF Return, DisposeRetired
<1>12. CandidatesAreFresh' /\ SwappedAreRouted' /\ CheckedInterface'
  BY <1>11 DEF Return, CandidatesAreFresh, SwappedAreRouted, CheckedInterface
<1>13. (active \notin retired /\ (Initial = active \/ Initial \in retired))'
  BY DEF Return
<1>14. InterfaceIsKept'
  BY <1>11 DEF Return, InterfaceIsKept, Activated, Versions
<1> QED
  BY <1>6, <1>8, <1>9, <1>10, <1>12, <1>13, <1>14

LEMMA CheckStep == ASSUME IInv, NEW r \in Replacements, Check(r) \/ Mismatch(r) \/ Unhealthy(r) PROVE IInv'
<1> USE DEF IInv, TypeOK, Operations
<1>1. TypeOK'
  BY DEF Check, Mismatch, Unhealthy, Starts, Starters, States, Ended, Versions
<1>2. UNCHANGED <<active, calls, retired, dispose>>
  BY DEF Check, Mismatch, Unhealthy
<1>3. \A v : Running(v)' = Running(v)
  BY ReloadAssumption DEF Check, Mismatch, Unhealthy, Running
<1>4. CandidatesAreFresh' /\ SwappedAreRouted'
  BY DEF Check, Mismatch, Unhealthy, CandidatesAreFresh, SwappedAreRouted
<1>5. CheckedInterface'
  <2>1. Wit[active] = Wit[Initial]
    BY DEF InterfaceIsKept, Activated
  <2> QED
    BY <2>1 DEF Check, Mismatch, Unhealthy, CheckedInterface
<1> HIDE DEF IInv, TypeOK
<1> QED
  BY <1>1, <1>2, <1>3, <1>4, <1>5, QuietStep

LEMMA DisposedStep == ASSUME IInv, NEW o \in Operations, Disposed(o) PROVE IInv'
<1> USE DEF IInv, TypeOK
<1>1. TypeOK'
  BY DEF Disposed, States, Ended
<1>2. UNCHANGED <<active, calls, retired, dispose>>
  BY DEF Disposed
<1>3. \A v : Running(v)' = Running(v)
  BY DEF Disposed, Running, Operations, Ended
<1>4. CandidatesAreFresh' /\ SwappedAreRouted' /\ CheckedInterface'
  BY DEF Disposed, CandidatesAreFresh, SwappedAreRouted, CheckedInterface, Operations, Ended
<1> HIDE DEF IInv, TypeOK
<1> QED
  BY <1>1, <1>2, <1>3, <1>4, QuietStep

LEMMA SwapStep == ASSUME IInv, NEW r \in Replacements, Swap(r) PROVE IInv'
<1> USE DEF IInv, TypeOK, Operations
<1>1. r # active /\ r \notin retired /\ Wit[r] = Wit[Initial] /\ at' \in [Operations -> States]
  BY DEF Swap, CandidatesAreFresh, CheckedInterface, DisposeRetired, States, Ended
<1>2. active' = r /\ retired' = retired \cup {active} /\ calls' = calls
  BY DEF Swap, Replaced
<1>3. dispose' = IF calls[active] = 0 THEN dispose \ {active} ELSE dispose
  BY <1>2 DEF Swap, Replaced, DisposeRetired, Drained
<1>4. at'[r] \in {"done", "disposing"} /\ \A o \in Operations \ {r} : at'[o] = at[o]
  BY DEF Swap, DisposeRetired
<1>5. TypeOK'
  BY <1>1, <1>2, <1>3 DEF Swap, Versions
<1>6. \A v : Running(v)' = Running(v)
  BY <1>4, ReloadAssumption DEF Swap, Running
<1>7. CallsCounted'
  BY <1>2, <1>6 DEF CallsCounted
<1>8. DisposedAreDrained'
  BY <1>2, <1>3 DEF DisposedAreDrained
<1>9. DrainedAreDisposed'
  BY <1>2, <1>3 DEF DrainedAreDisposed
<1>10. CandidatesAreFresh'
  BY <1>2, <1>4 DEF CandidatesAreFresh
<1>11. SwappedAreRouted'
  BY <1>2, <1>4 DEF SwappedAreRouted
<1>12. CheckedInterface'
  BY <1>4 DEF CheckedInterface
<1>13. (active \notin retired /\ (Initial = active \/ Initial \in retired))'
  BY <1>1, <1>2
<1>14. InterfaceIsKept'
  <2> SUFFICES ASSUME NEW v \in Activated' PROVE Wit[v] = Wit[Initial]
    BY DEF InterfaceIsKept
  <2>1. v \in Versions /\ (v = r \/ v = Initial \/ v = active \/ v \in retired)
    BY <1>2, <1>11 DEF Activated, SwappedAreRouted, Versions
  <2> QED
    BY <2>1, <1>1 DEF InterfaceIsKept, Activated
<1> QED
  BY <1>5, <1>7, <1>8, <1>9, <1>10, <1>11, <1>12, <1>13, <1>14

LEMMA StutterStep == IInv /\ UNCHANGED vars => IInv'
BY DEF vars, IInv, TypeOK, CallsCounted, Running, DisposedAreDrained, DrainedAreDisposed,
       CandidatesAreFresh, SwappedAreRouted, CheckedInterface, InterfaceIsKept, Activated

LEMMA Inductive == Spec => []IInv
<1>1. IInv /\ [Next]_vars => IInv'
  BY CallStep, ReturnStep, CheckStep, SwapStep, DisposedStep, StutterStep DEF Next
<1> QED
  BY InitIInv, <1>1, PTL DEF Spec

-----------------------------------------------------------------------------
(* The state of the slot stays in its ranges for any calls and versions;   *)
(* in particular no counter of calls ever becomes negative.                *)
THEOREM SlotTypeCorrect == Spec => []TypeOK
<1>1. IInv => TypeOK
  BY DEF IInv
<1> QED
  BY <1>1, Inductive, PTL

(* disposeRetiredVersion never disposes a version under a running call,    *)
(* for any calls, overlapping replacements and failures.                   *)
THEOREM NeverDisposedInUse == Spec => []NoCallOnDisposed
<1>1. IInv => NoCallOnDisposed
  <2> SUFFICES ASSUME IInv, NEW v \in Disposable, Running(v) # {}, v \notin dispose PROVE FALSE
    BY DEF NoCallOnDisposed
  <2>1. Cardinality(Running(v)) = 0
    BY ReloadAssumption DEF IInv, DisposedAreDrained, CallsCounted
  <2> QED
    BY <2>1, RunningFinite, FS_EmptySet
<1> QED
  BY <1>1, Inductive, PTL

(* Neither call() nor replace() forgets to dispose a drained version.      *)
THEOREM NeverForgotten == Spec => []DrainedIsDisposed
<1>1. IInv => DrainedIsDisposed
  <2> SUFFICES ASSUME IInv, NEW v \in retired, Running(v) = {} PROVE v \notin dispose
    BY DEF DrainedIsDisposed
  <2>1. v \in Versions /\ calls[v] = 0
    BY FS_EmptySet DEF IInv, TypeOK, CallsCounted
  <2> QED
    BY <2>1 DEF IInv, DrainedAreDisposed
<1> QED
  BY <1>1, Inductive, PTL

(* However replacements overlap, the versions that were routed to are the  *)
(* retired ones and the active one.                                        *)
THEOREM SingleLiveVersion == Spec => []OneLiveVersion
<1>1. IInv => OneLiveVersion
  <2> SUFFICES ASSUME IInv PROVE Activated \ retired = {active}
    BY DEF OneLiveVersion
  <2>1. active \in Activated \ retired
    BY DEF IInv, TypeOK, Activated
  <2>2. \A v \in Activated \ retired : v = active
    BY DEF IInv, Activated, SwappedAreRouted, Versions
  <2> QED
    BY <2>1, <2>2
<1> QED
  BY <1>1, Inductive, PTL

(* The interface the slot was built with is the one of every version it    *)
(* routes to.                                                              *)
THEOREM InterfaceKept == Spec => []InterfaceIsKept
<1>1. IInv => InterfaceIsKept
  BY DEF IInv
<1> QED
  BY <1>1, Inductive, PTL

-----------------------------------------------------------------------------
(* The linear memory.                                                      *)

(* The types of the parts of a heap.                                       *)
Headers == [kind : {"none", "used", "free"}, len : Nat, next : Addresses]
Capacities == {PageBytes} \cup {PagesFor(t) * PageBytes : t \in 0 .. Limit}
Heaps == [top : Addresses, head : Addresses, capacity : Capacities, header : [Addresses -> Headers]]
HeapBlocks == [at : Addresses, len : Nat]

(* The size of a block is what its header says.                            *)
Size(h, a) == h.header[a].len

(* Blocks that start at S are aligned, not too short, below the top and    *)
(* apart from each other.                                                  *)
Spread(h, S) ==
    /\ S \subseteq Addresses
    /\ \A a \in S : HeapStart <= a /\ Minimum <= Size(h, a) /\ Size(h, a) % 8 = 0 /\ a + Size(h, a) <= h.top
    /\ \A a, b \in S : a = b \/ a + Size(h, a) <= b \/ b + Size(h, b) <= a

(* Every cell of the heap is in one of the blocks that start at S.         *)
Fills(h, S) ==
    \A a \in Addresses : HeapStart <= a /\ a < h.top => \E s \in S : s <= a /\ a < s + Size(h, s)

(* The i-th of a list, 0 behind its end.                                   *)
Nth(l, i) == IF i \in 1 .. Len(l) THEN l[i] ELSE 0

(* The links from first are the list l, of blocks that are intact.         *)
IsChain(h, first, l) ==
    /\ l \in Seq(Addresses \ {0}) /\ Injective(l)
    /\ first = Nth(l, 1)
    /\ \A i \in 1 .. Len(l) : Intact(h, l[i]) /\ h.header[l[i]].next = Nth(l, i + 1)

(* Addresses are multiples of eight up to the limit of the memory.         *)
LEMMA AddressFacts ==
    /\ Limit \in Nat /\ HeapStart \in Addresses /\ 0 \in Addresses
    /\ Minimum = 16 /\ HeapStart \in Nat \ {0}
    /\ \A a \in Addresses : a \in Nat /\ a % 8 = 0 /\ a <= Limit
    /\ \A a \in Nat : a <= Limit /\ a % 8 = 0 => a \in Addresses
<1>1. Limit \in Nat /\ HeapStart <= Limit
  BY HeapAssumption DEF Limit
<1> HIDE DEF Limit
<1> QED
  BY <1>1, HeapAssumption DEF Addresses, Minimum

(* Sums and differences of multiples of eight.                             *)
LEMMA Sums8 ==
    ASSUME NEW a \in Nat, NEW b \in Nat, a % 8 = 0, b % 8 = 0
    PROVE  (a + b) % 8 = 0 /\ (a >= b => (a - b) % 8 = 0)
OBVIOUS

(* The length of a block is a multiple of eight, and never below the least *)
(* one.                                                                    *)
LEMMA NormalizeFacts ==
    ASSUME NEW bytes \in Nat
    PROVE  Normalize(bytes) \in Nat /\ Normalize(bytes) >= 16 /\ Normalize(bytes) % 8 = 0
<1> DEFINE aligned == ((bytes + 7) \div 8) * 8
<1>1. aligned \in Nat /\ aligned % 8 = 0
  OBVIOUS
<1> HIDE DEF aligned
<1>2. Normalize(bytes) = IF aligned < 16 THEN 16 ELSE aligned
  BY DEF Normalize, Minimum, aligned
<1>3. 16 % 8 = 0
  OBVIOUS
<1> QED
  BY <1>1, <1>2, <1>3

-----------------------------------------------------------------------------
(* Lists of free blocks.                                                   *)

(* A list without repetition is not longer than there are addresses.       *)
LEMMA ShortList ==
    ASSUME NEW l \in Seq(Addresses), Injective(l)
    PROVE  MaxBlocks \in Nat /\ Len(l) <= MaxBlocks
<1>1. IsFiniteSet(Addresses)
  <2>1. Limit \in Nat
    BY AddressFacts
  <2>2. IsFiniteSet(0 .. Limit)
    BY <2>1, FS_Interval
  <2> QED
    BY <2>2, FS_Subset DEF Addresses
<1>2. MaxBlocks \in Nat
  BY <1>1, FS_CardinalityType DEF MaxBlocks
<1>3. Len(l) \in Nat
  OBVIOUS
<1>4. IsFiniteSet(1 .. Len(l)) /\ Cardinality(1 .. Len(l)) = Len(l)
  <2>1. PICK n \in Nat : n = Len(l)
    BY <1>3
  <2>2. 1 \in Int /\ n \in Int /\ (1 > n => n = 0) /\ n - 1 + 1 = n
    OBVIOUS
  <2>3. IsFiniteSet(1 .. n) /\ Cardinality(1 .. n) = (IF 1 > n THEN 0 ELSE n - 1 + 1)
    BY <2>2, FS_Interval
  <2>4. IsFiniteSet(1 .. n) /\ Cardinality(1 .. n) = n
    BY <2>2, <2>3
  <2> QED
    BY <2>1, <2>4
<1>5. \A i \in 1 .. Len(l) : l[i] \in Addresses
  BY ElementOfSeq
<1>6. [i \in 1 .. Len(l) |-> l[i]] \in Injection(1 .. Len(l), Addresses)
  BY <1>5 DEF Injection, IsInjective, Injective
<1>7. Cardinality(1 .. Len(l)) <= Cardinality(Addresses)
  BY <1>1, <1>4, <1>6, FS_Injection DEF ExistsInjection
<1> QED
  BY <1>2, <1>4, <1>7 DEF MaxBlocks

Walks == [seen : Seq(Addresses), at : Addresses]

(* A step along the links of a heap stays at addresses.                    *)
LEMMA FollowWalks ==
    ASSUME NEW h \in Heaps, NEW w \in Walks
    PROVE  Follow(h, w) \in Walks
<1>1. CASE w.at = 0
  BY <1>1 DEF Follow
<1>2. CASE w.at # 0
  <2>1. w.seen \in Seq(Addresses) /\ w.at \in Addresses
    BY DEF Walks
  <2>2. Append(w.seen, w.at) \in Seq(Addresses)
    BY <2>1, AppendProperties
  <2>3. h.header[w.at].next \in Addresses /\ 0 \in Addresses
    BY <2>1, AddressFacts DEF Heaps, Headers
  <2> QED
    BY <1>2, <2>2, <2>3 DEF Follow, Walks
<1> QED
  BY <1>1, <1>2

(* The walk along the links gives the list that they link.                 *)
LEMMA ChainIs ==
    ASSUME NEW h \in Heaps, NEW first, NEW l, IsChain(h, first, l)
    PROVE  Chain(h, first) = l
<1> DEFINE start == [seen |-> <<>>, at |-> first]
           Body(f) == [n \in 0 .. MaxBlocks |-> IF n = 0 THEN start ELSE Follow(h, f[n - 1])]
           walk == CHOOSE f : f = Body(f)
           G == [w \in Walks |-> Follow(h, w)]
<1>0. /\ l \in Seq(Addresses) /\ Injective(l) /\ Len(l) \in Nat
      /\ \A i \in 1 .. Len(l) : l[i] \in Addresses /\ l[i] # 0
  <2>1. l \in Seq(Addresses \ {0}) /\ Injective(l)
    BY DEF IsChain
  <2>2. Len(l) \in Nat /\ \A i \in 1 .. Len(l) : l[i] \in Addresses \ {0}
    BY <2>1, ElementOfSeq
  <2>3. l \in Seq(Addresses)
    BY <2>1
  <2> QED
    BY <2>1, <2>2, <2>3
<1>1. MaxBlocks \in Nat /\ Len(l) <= MaxBlocks
  BY <1>0, ShortList
<1>2. Chain(h, first) = walk[MaxBlocks].seen
  BY DEF Chain
<1>3. start \in Walks
  <2>1. first \in Addresses
    BY <1>0, AddressFacts DEF IsChain, Nth
  <2>2. <<>> \in Seq(Addresses)
    BY EmptySeq
  <2> QED
    BY <2>1, <2>2 DEF Walks
<1>4. G \in [Walks -> Walks]
  BY FollowWalks
<1>5. PICK f \in [0 .. MaxBlocks -> Walks] : Repeats(f, G, start, MaxBlocks)
  <2> HIDE DEF G, start
  <2> QED
    BY <1>1, <1>3, <1>4, RepetitionExists
<1>6. f = Body(f)
  <2>1. ASSUME NEW n \in 0 .. MaxBlocks PROVE f[n] = IF n = 0 THEN start ELSE Follow(h, f[n - 1])
    <3>1. f[n] = IF n = 0 THEN start ELSE G[f[n - 1]]
      BY <1>5 DEF Repeats
    <3>2. CASE n # 0
      <4>1. n - 1 \in 0 .. MaxBlocks
        BY <1>1, <3>2
      <4>2. f[n - 1] \in Walks
        BY <1>5, <4>1
      <4> HIDE DEF start
      <4> QED
        BY <3>1, <3>2, <4>2
    <3>3. CASE n = 0
      BY <3>1, <3>3
    <3> QED
      BY <3>2, <3>3
  <2> HIDE DEF start
  <2> QED
    BY <1>5, <2>1
<1>7. walk = Body(walk)
  BY <1>6
<1> HIDE DEF walk
<1>8. /\ walk[0] = start
      /\ \A n \in 1 .. MaxBlocks : walk[n] = Follow(h, walk[n - 1])
  <2>1. \A n \in 0 .. MaxBlocks : walk[n] = IF n = 0 THEN start ELSE Follow(h, walk[n - 1])
    BY <1>7
  <2>2. 0 \in 0 .. MaxBlocks /\ \A n \in 1 .. MaxBlocks : n \in 0 .. MaxBlocks /\ n # 0
    BY <1>1
  <2> HIDE DEF start
  <2> QED
    BY <2>1, <2>2
<1> DEFINE Before(n) == IF n <= Len(l) THEN n ELSE Len(l)
           Good(w, n) == /\ w.seen \in Seq(Addresses) /\ Len(w.seen) = Before(n)
                         /\ \A i \in 1 .. Before(n) : w.seen[i] = l[i]
                         /\ w.at = Nth(l, n + 1)
           S == {n \in Nat : n <= MaxBlocks => Good(walk[n], n)}
<1>9. 0 \in S
  <2>1. start.seen = <<>> /\ start.at = Nth(l, 1) /\ <<>> \in Seq(Addresses) /\ Len(<<>>) = 0
    BY EmptySeq DEF IsChain
  <2>2. Before(0) = 0 /\ 1 .. 0 = {} /\ 0 + 1 = 1
    BY <1>0
  <2>3. walk[0].seen = <<>> /\ walk[0].at = Nth(l, 1)
    BY <1>8, <2>1
  <2> HIDE DEF start, Before
  <2>4. Good(walk[0], 0)
    BY <2>1, <2>2, <2>3
  <2> HIDE DEF Good
  <2> QED
    BY <2>4
<1>10. ASSUME NEW n \in S PROVE n + 1 \in S
  <2> SUFFICES ASSUME n + 1 <= MaxBlocks PROVE Good(walk[n + 1], n + 1)
    OBVIOUS
  <2>1. n \in Nat /\ n + 1 \in 1 .. MaxBlocks /\ (n + 1) - 1 = n /\ n <= MaxBlocks
    BY <1>1
  <2> DEFINE w == walk[n]
  <2>2. walk[n + 1] = Follow(h, w) /\ Good(w, n)
    BY <1>8, <2>1
  <2> HIDE DEF w, S
  <2>3. CASE n + 1 <= Len(l)
    <3>1. n + 1 \in 1 .. Len(l) /\ Before(n) = n /\ Before(n + 1) = n + 1
      BY <1>0, <2>1, <2>3
    <3>2. w.at = l[n + 1] /\ w.at \in Addresses /\ w.at # 0
      BY <1>0, <2>2, <3>1 DEF Nth
    <3>3. Intact(h, w.at) /\ h.header[w.at].next = Nth(l, (n + 1) + 1)
      BY <3>1, <3>2 DEF IsChain
    <3>4. walk[n + 1] = [seen |-> Append(w.seen, w.at), at |-> Nth(l, (n + 1) + 1)]
      BY <2>2, <3>2, <3>3 DEF Follow
    <3>5. w.seen \in Seq(Addresses) /\ Len(w.seen) = n /\ \A i \in 1 .. n : w.seen[i] = l[i]
      BY <2>2, <3>1
    <3>6. /\ Append(w.seen, w.at) \in Seq(Addresses) /\ Len(Append(w.seen, w.at)) = n + 1
          /\ \A i \in 1 .. n : Append(w.seen, w.at)[i] = w.seen[i]
          /\ Append(w.seen, w.at)[n + 1] = w.at
      BY <3>2, <3>5, AppendProperties
    <3>7. \A i \in 1 .. n + 1 : i \in 1 .. n \/ i = n + 1
      BY <2>1
    <3>8. \A i \in 1 .. n + 1 : Append(w.seen, w.at)[i] = l[i]
      BY <3>2, <3>5, <3>6, <3>7
    <3> QED
      BY <3>1, <3>4, <3>6, <3>8
  <2>4. CASE ~(n + 1 <= Len(l))
    <3>1. Before(n) = Len(l) /\ Before(n + 1) = Len(l) /\ n + 1 \notin 1 .. Len(l) /\ (n + 1) + 1 \notin 1 .. Len(l)
      BY <1>0, <2>1, <2>4
    <3>2. w.at = 0 /\ Nth(l, (n + 1) + 1) = 0
      BY <2>2, <3>1 DEF Nth
    <3>3. walk[n + 1] = w
      BY <2>2, <3>2 DEF Follow
    <3> QED
      BY <2>2, <3>1, <3>2, <3>3
  <2> QED
    BY <2>3, <2>4
<1>11. Good(walk[MaxBlocks], MaxBlocks)
  <2> HIDE DEF Good
  <2>1. S \subseteq Nat
    OBVIOUS
  <2> HIDE DEF S
  <2>2. S = Nat
    BY <1>9, <1>10, <2>1, InductionOnSet
  <2>3. MaxBlocks \in S /\ MaxBlocks <= MaxBlocks
    BY <1>1, <2>2
  <2> QED
    BY <2>3 DEF S
<1> DEFINE seen == walk[MaxBlocks].seen
<1>12. seen \in Seq(Addresses) /\ Len(seen) = Len(l) /\ \A i \in 1 .. Len(l) : seen[i] = l[i]
  <2>1. Before(MaxBlocks) = Len(l)
    BY <1>0, <1>1
  <2> QED
    BY <1>11, <2>1
<1> HIDE DEF seen
<1>13. seen = l
  BY <1>0, <1>12
<1> QED
  BY <1>2, <1>13 DEF seen

-----------------------------------------------------------------------------
(* One allocation.                                                         *)

(* A heap with the blocks U in use (or set aside) and the free list l.     *)
Mem(h, U, l) ==
    /\ h \in Heaps /\ HeapStart <= h.top
    /\ IsChain(h, h.head, l)
    /\ U \cap Members(l) = {}
    /\ Spread(h, U \cup Members(l))

(* Handing out a block leaves the headers outside of it alone.             *)
LEMMA InitializedHeaders ==
    ASSUME NEW header \in [Addresses -> Headers], NEW x \in Addresses, NEW len \in Nat, len > 0
    PROVE  /\ Initialized(header, Block(x, len)) \in [Addresses -> Headers]
           /\ Initialized(header, Block(x, len))[x] = [kind |-> "used", len |-> len, next |-> 0]
           /\ \A a \in Addresses : a < x \/ a >= x + len => Initialized(header, Block(x, len))[a] = header[a]
<1>1. NoHeader \in Headers /\ [kind |-> "used", len |-> len, next |-> 0] \in Headers
  BY AddressFacts DEF NoHeader, Headers
<1>2. Block(x, len).at = x /\ Block(x, len).len = len
  BY DEF Block
<1>3. \A a \in Addresses : a \in Cells(Block(x, len)) <=> x <= a /\ a < x + len
  BY <1>2 DEF Cells
<1>4. \A a \in Addresses : a \in Nat
  BY AddressFacts
<1>5. Initialized(header, Block(x, len)) =
        [a \in Addresses |-> IF a = x THEN [kind |-> "used", len |-> len, next |-> 0]
                             ELSE IF a \in Cells(Block(x, len)) THEN NoHeader ELSE header[a]]
  BY <1>2 DEF Initialized
<1>6. ASSUME NEW a \in Addresses, a < x \/ a >= x + len
      PROVE  a # x /\ a \notin Cells(Block(x, len))
  BY <1>3, <1>4, <1>6
<1> HIDE DEF NoHeader
<1>7. \A a \in Addresses : a < x \/ a >= x + len => Initialized(header, Block(x, len))[a] = header[a]
  BY <1>5, <1>6
<1> QED
  BY <1>1, <1>5, <1>7

(* What taking len bytes from the i-th free block makes of a heap.         *)
TakenFrom(h, U, l, i, len, h2) ==
    /\ h2 \in Heaps /\ h2.top = h.top
    /\ h2.head = IF i = 1 THEN Successor(h, l[i], len) ELSE h.head
    /\ h2.header[l[i]] = [kind |-> "used", len |-> len, next |-> 0]
    /\ Size(h, l[i]) # len =>
          /\ Size(h, l[i]) - len \in Nat /\ Size(h, l[i]) - len >= 16 /\ (Size(h, l[i]) - len) % 8 = 0
          /\ l[i] + len \in Addresses
          /\ h2.header[l[i] + len] = FreeHeader(Size(h, l[i]) - len, h.header[l[i]].next)
    /\ i > 1 => h2.header[l[i - 1]] = FreeHeader(Size(h, l[i - 1]), Successor(h, l[i], len))
    /\ \A s \in (U \cup Members(l)) \ {l[i]} : (i > 1 => s # l[i - 1]) => h2.header[s] = h.header[s]

(* What is taken from the i-th free block, of which rest is left over.     *)
LEMMA TakenHeaders ==
    ASSUME NEW h, NEW U, NEW l, Mem(h, U, l), NEW i \in 1 .. Len(l),
           NEW len \in Nat, len >= 16, len % 8 = 0, Suits(h, l[i], len)
    PROVE  TakenFrom(h, U, l, i, len, Taken(h, i, len))
<1> DEFINE x == l[i]
           rest == Size(h, x) - len
           succ == Successor(h, x, len)
           links == Unlinked(h, l, i, len, rest)
           h2 == Taken(h, i, len)
           S == U \cup Members(l)
<1>1. h \in Heaps /\ Spread(h, S) /\ IsChain(h, h.head, l) /\ l \in Seq(Addresses \ {0}) /\ Injective(l)
  BY DEF Mem, IsChain
<1>2. x \in S /\ x \in Addresses /\ x \in Nat /\ S \subseteq Addresses /\ Len(l) \in Nat /\ i \in Nat
  <2>1. Len(l) \in Nat /\ i \in Nat
    BY <1>1, LenProperties
  <2>2. x \in S
    BY DEF Members
  <2>3. S \subseteq Addresses
    BY <1>1 DEF Spread
  <2> HIDE DEF x, S
  <2> QED
    BY <2>1, <2>2, <2>3, AddressFacts
<1>3. Size(h, x) \in Nat /\ Size(h, x) % 8 = 0 /\ x + Size(h, x) <= h.top /\ h.top \in Addresses
  BY <1>1, <1>2 DEF Spread, Heaps, Headers, Size
<1>4. Size(h, x) = len \/ Size(h, x) >= len + 16
  BY DEF Suits, Minimum, Size
<1>5. Size(h, x) # len => /\ rest \in Nat /\ rest >= 16 /\ rest % 8 = 0 /\ x + len \in Addresses
  <2> SUFFICES ASSUME Size(h, x) # len PROVE /\ rest \in Nat /\ rest >= 16 /\ rest % 8 = 0 /\ x + len \in Addresses
    OBVIOUS
  <2>1. Size(h, x) >= len + 16
    BY <1>4
  <2>2. rest \in Nat /\ rest >= 16 /\ rest % 8 = 0
    <3> DEFINE z == Size(h, x)
    <3>1. z \in Nat /\ z % 8 = 0 /\ z >= len + 16
      BY <1>3, <2>1
    <3> HIDE DEF z
    <3>2. z >= len /\ z - len \in Nat /\ z - len >= 16
      BY <3>1
    <3>3. (z - len) % 8 = 0
      BY <3>1, <3>2, Sums8
    <3> QED
      BY <3>2, <3>3 DEF z
  <2>3. (x + len) % 8 = 0
    BY <1>2, AddressFacts, Sums8
  <2>4. h.top \in Nat /\ h.top <= Limit /\ Limit \in Nat
    BY <1>3, AddressFacts
  <2>5. x + len \in Nat /\ x + len <= Limit
    BY <1>2, <1>3, <2>1, <2>4
  <2> QED
    BY <2>2, <2>3, <2>5, AddressFacts
<1>6. h.header \in [Addresses -> Headers] /\ h.header[x].next \in Addresses
  BY <1>1, <1>2 DEF Heaps, Headers
<1>7. succ \in Addresses
  BY <1>5, <1>6 DEF Successor, Size
<1>8. links \in [Addresses -> Headers]
  <2>1. Size(h, x) # len => FreeHeader(rest, h.header[x].next) \in Headers
    BY <1>5, <1>6 DEF FreeHeader, Headers
  <2>2. ASSUME NEW a \in Addresses PROVE FreeHeader(h.header[a].len, succ) \in Headers
    BY <1>6, <1>7 DEF FreeHeader, Headers
  <2> HIDE DEF rest, succ
  <2> QED
    BY <1>6, <2>1, <2>2 DEF Unlinked, Size, succ
<1>9. Chain(h, h.head) = l
  BY <1>1, ChainIs
<1>10. /\ h2.head = IF i = 1 THEN succ ELSE h.head
       /\ h2.header = Initialized(links, Block(x, len))
       /\ h2.top = h.top /\ h2.capacity = h.capacity
       /\ h2 \in [top : {h.top}, head : {h2.head}, capacity : {h.capacity}, header : {h2.header}]
  <2> HIDE DEF succ, links
  <2>1. Taken(h, i, len) = [h EXCEPT !.head = IF i = 1 THEN succ ELSE @, !.header = Initialized(links, Block(x, len))]
    BY <1>9 DEF Taken, succ, links, Size
  <2> QED
    BY <1>1, <2>1 DEF Heaps
<1>11. /\ h2.header \in [Addresses -> Headers]
       /\ h2.header[x] = [kind |-> "used", len |-> len, next |-> 0]
       /\ \A a \in Addresses : a < x \/ a >= x + len => h2.header[a] = links[a]
  <2> HIDE DEF links, h2
  <2>1. len > 0
    OBVIOUS
  <2> QED
    BY <1>2, <1>8, <1>10, <2>1, InitializedHeaders
<1>12. h2 \in Heaps
  <2>1. h.top \in Addresses /\ h.head \in Addresses /\ h.capacity \in Capacities
    BY <1>1 DEF Heaps
  <2>2. h2.head \in Addresses
    BY <1>7, <1>10, <2>1
  <2> HIDE DEF h2
  <2> QED
    BY <1>10, <1>11, <2>1, <2>2 DEF Heaps
<1>13. ASSUME NEW s \in S \ {x}
       PROVE  s \in Addresses /\ (s < x \/ s >= x + len) /\ ~(Size(h, x) # len /\ s = x + len)
  <2>1. s \in Addresses /\ s \in Nat /\ Size(h, s) \in Nat /\ Size(h, s) >= 16
    BY <1>1, <1>2, AddressFacts DEF Spread, Heaps, Headers, Size
  <2>2. x + Size(h, x) <= s \/ s + Size(h, s) <= x
    BY <1>1, <1>2 DEF Spread
  <2> QED
    BY <1>2, <1>3, <1>4, <2>1, <2>2
<1>14. ASSUME NEW s \in S \ {x}, i > 1 => s # l[i - 1] PROVE h2.header[s] = h.header[s]
  <2>1. links[s] = h.header[s]
    BY <1>13, <1>14 DEF Unlinked, Size
  <2> HIDE DEF h2, links
  <2> QED
    BY <1>11, <1>13, <2>1
<1>15. ASSUME i > 1 PROVE h2.header[l[i - 1]] = FreeHeader(Size(h, l[i - 1]), succ)
  <2>1. i - 1 \in 1 .. Len(l) /\ i - 1 # i
    BY <1>2, <1>15
  <2>2. l[i - 1] \in S \ {x}
    BY <1>1, <2>1 DEF Members, Injective
  <2>3. links[l[i - 1]] = FreeHeader(Size(h, l[i - 1]), succ)
    BY <1>13, <1>15, <2>2 DEF Unlinked, Size
  <2> HIDE DEF h2, links, succ
  <2> QED
    BY <1>11, <1>13, <2>2, <2>3
<1>16. Size(h, x) # len => h2.header[x + len] = FreeHeader(rest, h.header[x].next)
  <2> SUFFICES ASSUME Size(h, x) # len PROVE h2.header[x + len] = FreeHeader(rest, h.header[x].next)
    OBVIOUS
  <2>1. links[x + len] = FreeHeader(rest, h.header[x].next)
    BY <1>5 DEF Unlinked, Size
  <2>2. x + len >= x + len
    BY <1>2
  <2> HIDE DEF h2, links, rest
  <2> QED
    BY <1>5, <1>11, <2>1, <2>2
<1> QED
  BY <1>5, <1>10, <1>11, <1>12, <1>14, <1>15, <1>16 DEF TakenFrom

-----------------------------------------------------------------------------
(* Lists with one place changed.                                           *)

(* r is l without its i-th.                                                *)
IsWithout(r, l, i) ==
    /\ Injective(r) /\ Members(r) = Members(l) \ {l[i]} /\ Len(r) = Len(l) - 1
    /\ \A j \in 1 .. Len(r) : r[j] = IF j < i THEN l[j] ELSE l[j + 1]

(* A list without its i-th member.                                         *)
LEMMA ListWithout ==
    ASSUME NEW T, NEW l \in Seq(T), Injective(l), NEW i \in 1 .. Len(l)
    PROVE  \E r \in Seq(T) : IsWithout(r, l, i)
<1>0. Len(l) \in Nat /\ i \in Nat /\ Len(l) - 1 \in Nat
  BY LenProperties
<1> DEFINE r == [j \in 1 .. Len(l) - 1 |-> IF j < i THEN l[j] ELSE l[j + 1]]
<1>1. \A j \in 1 .. Len(l) - 1 : j \in 1 .. Len(l) /\ j + 1 \in 1 .. Len(l) /\ j \in Nat
  BY <1>0
<1>2. r \in Seq(T)
  <2>1. \A j \in 1 .. Len(l) - 1 : r[j] \in T
    BY <1>1, ElementOfSeq
  <2> QED
    BY <1>0, <2>1, IsASeq
<1>3. Len(r) = Len(l) - 1
  BY <1>0
<1>4. \A j \in 1 .. Len(r) : r[j] = IF j < i THEN l[j] ELSE l[j + 1]
  BY <1>3
<1> HIDE DEF r
<1>5. ASSUME NEW j \in 1 .. Len(r), NEW k \in 1 .. Len(r), r[j] = r[k] PROVE j = k
  <2>1. /\ j \in 1 .. Len(l) /\ j + 1 \in 1 .. Len(l) /\ k \in 1 .. Len(l) /\ k + 1 \in 1 .. Len(l)
        /\ j \in Nat /\ k \in Nat
    BY <1>1, <1>3
  <2>2. CASE j < i /\ k < i
    BY <1>4, <1>5, <2>1, <2>2 DEF Injective
  <2>3. CASE j < i /\ ~(k < i)
    <3>1. l[j] = l[k + 1]
      BY <1>4, <1>5, <2>3
    <3>2. j = k + 1
      BY <2>1, <3>1 DEF Injective
    <3> QED
      BY <1>0, <2>1, <2>3, <3>2
  <2>4. CASE ~(j < i) /\ k < i
    <3>1. l[j + 1] = l[k]
      BY <1>4, <1>5, <2>4
    <3>2. j + 1 = k
      BY <2>1, <3>1 DEF Injective
    <3> QED
      BY <1>0, <2>1, <2>4, <3>2
  <2>5. CASE ~(j < i) /\ ~(k < i)
    <3>1. l[j + 1] = l[k + 1]
      BY <1>4, <1>5, <2>5
    <3>2. j + 1 = k + 1
      BY <2>1, <3>1 DEF Injective
    <3> QED
      BY <2>1, <3>2
  <2> QED
    BY <2>2, <2>3, <2>4, <2>5
<1>6. ASSUME NEW j \in 1 .. Len(r) PROVE r[j] \in Members(l) \ {l[i]}
  <2>1. j \in 1 .. Len(l) /\ j + 1 \in 1 .. Len(l) /\ j \in Nat
    BY <1>1, <1>3
  <2>2. r[j] \in Members(l)
    BY <1>4, <2>1 DEF Members
  <2>3. CASE j < i
    <3>1. j # i /\ r[j] = l[j]
      BY <1>0, <1>4, <2>1, <2>3
    <3> QED
      BY <2>1, <2>2, <3>1 DEF Injective
  <2>4. CASE ~(j < i)
    <3>1. j + 1 # i /\ r[j] = l[j + 1]
      BY <1>0, <1>4, <2>1, <2>4
    <3> QED
      BY <2>1, <2>2, <3>1 DEF Injective
  <2> QED
    BY <2>3, <2>4
<1>7. ASSUME NEW j \in 1 .. Len(l), j # i PROVE \E k \in 1 .. Len(r) : r[k] = l[j]
  <2>1. CASE j < i
    <3>1. j \in 1 .. Len(r)
      BY <1>0, <1>3, <2>1
    <3> QED
      BY <1>4, <2>1, <3>1
  <2>2. CASE ~(j < i)
    <3>1. j - 1 \in 1 .. Len(r) /\ ~(j - 1 < i) /\ (j - 1) + 1 = j
      BY <1>0, <1>3, <1>7, <2>2
    <3> QED
      BY <1>4, <3>1
  <2> QED
    BY <2>1, <2>2
<1>8. Members(r) = Members(l) \ {l[i]}
  <2>1. Members(r) \subseteq Members(l) \ {l[i]}
    BY <1>6 DEF Members
  <2>2. Members(l) \ {l[i]} \subseteq Members(r)
    BY <1>7 DEF Members
  <2> QED
    BY <2>1, <2>2
<1> QED
  BY <1>2, <1>3, <1>4, <1>5, <1>8 DEF Injective, IsWithout

(* A list with another i-th member.                                        *)
LEMMA ListReplaced ==
    ASSUME NEW T, NEW l \in Seq(T), Injective(l), NEW i \in 1 .. Len(l), NEW y \in T, y \notin Members(l)
    PROVE  \E r \in Seq(T) :
             /\ Injective(r) /\ Members(r) = (Members(l) \ {l[i]}) \cup {y} /\ Len(r) = Len(l)
             /\ \A j \in 1 .. Len(r) : r[j] = IF j = i THEN y ELSE l[j]
<1>0. Len(l) \in Nat
  BY LenProperties
<1> DEFINE r == [j \in 1 .. Len(l) |-> IF j = i THEN y ELSE l[j]]
<1>1. r \in Seq(T)
  <2>1. \A j \in 1 .. Len(l) : r[j] \in T
    BY ElementOfSeq
  <2> QED
    BY <1>0, <2>1, IsASeq
<1>2. Len(r) = Len(l)
  BY <1>0
<1>3. \A j \in 1 .. Len(l) : r[j] = IF j = i THEN y ELSE l[j]
  OBVIOUS
<1> HIDE DEF r
<1>4. \A j \in 1 .. Len(l) : l[j] \in Members(l)
  BY DEF Members
<1>5. Injective(r)
  BY <1>2, <1>3, <1>4 DEF Injective
<1>6. Members(r) = (Members(l) \ {l[i]}) \cup {y}
  <2>1. ASSUME NEW j \in 1 .. Len(l) PROVE r[j] \in (Members(l) \ {l[i]}) \cup {y}
    BY <1>3, <1>4 DEF Injective
  <2>2. ASSUME NEW j \in 1 .. Len(l), j # i PROVE l[j] \in Members(r)
    BY <1>2, <1>3, <2>2 DEF Members
  <2>3. y \in Members(r)
    BY <1>2, <1>3 DEF Members
  <2>4. Members(r) \subseteq (Members(l) \ {l[i]}) \cup {y}
    BY <1>2, <2>1 DEF Members
  <2>5. Members(l) \ {l[i]} \subseteq Members(r)
    BY <2>2 DEF Members
  <2> QED
    BY <2>3, <2>4, <2>5
<1> QED
  BY <1>1, <1>2, <1>3, <1>5, <1>6

-----------------------------------------------------------------------------
(* Where a block of n bytes may come from: from a free block, or from      *)
(* above the top.                                                          *)
Within(h, l, s, n) == s >= h.top \/ \E x \in Members(l) : x <= s /\ s + n <= x + Size(h, x)

(* The blocks new were allocated, and the list of free blocks is now l2.   *)
Grown(h, U, l, h2, l2, new) ==
    /\ Mem(h2, U \cup new, l2)
    /\ new \cap U = {} /\ h.top <= h2.top
    /\ \A u \in U : h2.header[u] = h.header[u]
    /\ \A s \in new \cup Members(l2) : Within(h, l, s, Size(h2, s))
    /\ Fills(h, U \cup Members(l)) => Fills(h2, U \cup new \cup Members(l2))

(* The types of the parts of a heap.                                       *)
LEMMA HeapFacts ==
    ASSUME NEW h \in Heaps
    PROVE  /\ h.top \in Nat /\ h.top <= Limit /\ h.top \in Addresses
           /\ h.header \in [Addresses -> Headers]
           /\ \A a \in Addresses : Size(h, a) \in Nat /\ h.header[a].next \in Addresses
<1>1. h.top \in Addresses /\ h.header \in [Addresses -> Headers]
  BY DEF Heaps
<1>2. \A a \in Addresses : h.header[a] \in Headers
  BY <1>1
<1>3. \A a \in Addresses : Size(h, a) \in Nat /\ h.header[a].next \in Addresses
  BY <1>2 DEF Headers, Size
<1> QED
  BY <1>1, <1>3, AddressFacts

(* A block that fits exactly leaves the list.                              *)
LEMMA TakenWhole ==
    ASSUME NEW h, NEW U, NEW l, Mem(h, U, l), NEW i \in 1 .. Len(l),
           NEW len \in Nat, len >= 16, len % 8 = 0, Size(h, l[i]) = len
    PROVE  \E l2 : /\ IsChain(Taken(h, i, len), Taken(h, i, len).head, l2)
                   /\ Members(l2) = Members(l) \ {l[i]}
<1> DEFINE x == l[i]
           h2 == Taken(h, i, len)
           succ == Successor(h, x, len)
           S == U \cup Members(l)
<1>1. h \in Heaps /\ Spread(h, S) /\ IsChain(h, h.head, l) /\ l \in Seq(Addresses \ {0}) /\ Injective(l)
  BY DEF Mem, IsChain
<1>2. Len(l) \in Nat /\ i \in Nat
  BY <1>1, LenProperties
<1>3. Suits(h, x, len)
  BY DEF Suits, Size
<1>4. /\ h2 \in Heaps /\ h2.top = h.top
      /\ h2.head = IF i = 1 THEN succ ELSE h.head
      /\ i > 1 => h2.header[l[i - 1]] = FreeHeader(Size(h, l[i - 1]), succ)
      /\ \A s \in S \ {x} : (i > 1 => s # l[i - 1]) => h2.header[s] = h.header[s]
  <2>1. TakenFrom(h, U, l, i, len, h2)
    BY <1>3, TakenHeaders
  <2> HIDE DEF h2
  <2> QED
    BY <2>1 DEF TakenFrom
<1>5. succ = Nth(l, i + 1)
  BY <1>1 DEF Successor, Size, IsChain
<1> HIDE DEF h2, succ
<1>6. PICK r \in Seq(Addresses \ {0}) :
             /\ Injective(r) /\ Members(r) = Members(l) \ {x} /\ Len(r) = Len(l) - 1
             /\ \A j \in 1 .. Len(r) : r[j] = IF j < i THEN l[j] ELSE l[j + 1]
  <2> DEFINE T == Addresses \ {0}
  <2>1. l \in Seq(T) /\ Injective(l)
    BY <1>1
  <2> HIDE DEF T, x
  <2>2. \E r \in Seq(T) : IsWithout(r, l, i)
    BY <2>1, ListWithout
  <2> QED
    BY <2>2 DEF T, x, IsWithout
<1>7. \A j \in Nat \ {0} : Nth(r, j) = IF j < i THEN Nth(l, j) ELSE Nth(l, j + 1)
  <2> SUFFICES ASSUME NEW j \in Nat \ {0} PROVE Nth(r, j) = IF j < i THEN Nth(l, j) ELSE Nth(l, j + 1)
    OBVIOUS
  <2>1. CASE j \in 1 .. Len(r)
    <3>1. j \in 1 .. Len(l) /\ j + 1 \in 1 .. Len(l)
      BY <1>2, <1>6, <2>1
    <3> QED
      BY <1>6, <2>1, <3>1 DEF Nth
  <2>2. CASE j \notin 1 .. Len(r)
    <3>1. ~(j < i) /\ j + 1 \notin 1 .. Len(l)
      BY <1>2, <1>6, <2>2
    <3> QED
      BY <2>2, <3>1 DEF Nth
  <2> QED
    BY <2>1, <2>2
<1>8. h2.head = Nth(r, 1)
  <2>1. h.head = Nth(l, 1)
    BY <1>1 DEF IsChain
  <2>2. CASE i = 1
    BY <1>4, <1>5, <1>7, <2>2
  <2>3. CASE i # 1
    <3>1. 1 < i
      BY <1>2, <2>3
    <3> QED
      BY <1>4, <1>7, <2>1, <2>3, <3>1
  <2> QED
    BY <2>2, <2>3
<1>9. ASSUME NEW k \in 1 .. Len(l), k # i
      PROVE  /\ Intact(h2, l[k])
             /\ h2.header[l[k]].next = IF k + 1 = i THEN Nth(l, i + 1) ELSE Nth(l, k + 1)
  <2>1. Intact(h, l[k]) /\ h.header[l[k]].next = Nth(l, k + 1)
    BY <1>1 DEF IsChain
  <2>2. l[k] \in S \ {x}
    BY <1>1, <1>9 DEF Members, Injective
  <2>3. CASE k + 1 = i
    <3>1. i > 1 /\ k = i - 1
      BY <1>2, <2>3
    <3>2. h2.header[l[k]] = FreeHeader(Size(h, l[k]), succ)
      BY <1>4, <3>1
    <3>3. h2.header[l[k]].kind = "free" /\ h2.header[l[k]].len = h.header[l[k]].len /\ h2.header[l[k]].next = succ
      BY <3>2 DEF FreeHeader, Size
    <3> QED
      BY <1>4, <1>5, <2>1, <2>3, <3>3 DEF Intact
  <2>4. CASE k + 1 # i
    <3>1. i > 1 => i - 1 \in 1 .. Len(l) /\ i - 1 # k
      BY <1>2, <2>4
    <3>2. i > 1 => l[k] # l[i - 1]
      BY <1>1, <3>1 DEF Injective
    <3>3. h2.header[l[k]] = h.header[l[k]]
      BY <1>4, <2>2, <3>2
    <3> QED
      BY <1>4, <2>1, <2>4, <3>3 DEF Intact
  <2> QED
    BY <2>3, <2>4
<1>10. ASSUME NEW j \in 1 .. Len(r) PROVE Intact(h2, r[j]) /\ h2.header[r[j]].next = Nth(r, j + 1)
  <2>1. j \in 1 .. Len(l) /\ j + 1 \in 1 .. Len(l) /\ j \in Nat /\ j + 1 \in Nat \ {0}
    BY <1>2, <1>6
  <2>2. CASE j + 1 < i
    <3>1. j < i /\ j # i /\ j + 1 # i
      BY <1>2, <2>1, <2>2
    <3> QED
      BY <1>6, <1>7, <1>9, <2>1, <2>2, <3>1
  <2>3. CASE j + 1 = i
    <3>1. j < i /\ j # i /\ ~(j + 1 < i)
      BY <1>2, <2>1, <2>3
    <3> QED
      BY <1>6, <1>7, <1>9, <2>1, <2>3, <3>1
  <2>4. CASE j + 1 > i
    <3>1. ~(j < i) /\ j + 1 # i /\ (j + 1) + 1 # i /\ ~(j + 1 < i)
      BY <1>2, <2>1, <2>4
    <3> QED
      BY <1>6, <1>7, <1>9, <2>1, <2>4, <3>1
  <2> QED
    BY <1>2, <2>1, <2>2, <2>3, <2>4
<1>11. IsChain(h2, h2.head, r)
  <2>1. \A j \in 1 .. Len(r) : Intact(h2, r[j]) /\ h2.header[r[j]].next = Nth(r, j + 1)
    BY <1>10
  <2> QED
    BY <1>6, <1>8, <2>1 DEF IsChain
<1> QED
  BY <1>6, <1>11 DEF h2

(* What is left over of a block that is split takes its place in the list. *)
LEMMA TakenPart ==
    ASSUME NEW h, NEW U, NEW l, Mem(h, U, l), NEW i \in 1 .. Len(l),
           NEW len \in Nat, len >= 16, len % 8 = 0, Suits(h, l[i], len), Size(h, l[i]) # len
    PROVE  \E l2 : /\ IsChain(Taken(h, i, len), Taken(h, i, len).head, l2)
                   /\ Members(l2) = (Members(l) \ {l[i]}) \cup {l[i] + len}
                   /\ l[i] + len \notin U \cup Members(l)
<1> DEFINE x == l[i]
           y == x + len
           h2 == Taken(h, i, len)
           succ == Successor(h, x, len)
           rest == Size(h, x) - len
           S == U \cup Members(l)
<1>1. h \in Heaps /\ Spread(h, S) /\ IsChain(h, h.head, l) /\ l \in Seq(Addresses \ {0}) /\ Injective(l)
  BY DEF Mem, IsChain
<1>2. Len(l) \in Nat /\ i \in Nat
  BY <1>1, LenProperties
<1>3. /\ h2 \in Heaps /\ h2.top = h.top
      /\ h2.head = IF i = 1 THEN succ ELSE h.head
      /\ rest \in Nat /\ rest >= 16 /\ rest % 8 = 0
      /\ y \in Addresses
      /\ h2.header[y] = FreeHeader(rest, h.header[x].next)
      /\ i > 1 => h2.header[l[i - 1]] = FreeHeader(Size(h, l[i - 1]), succ)
      /\ \A s \in S \ {x} : (i > 1 => s # l[i - 1]) => h2.header[s] = h.header[s]
  <2>1. TakenFrom(h, U, l, i, len, h2)
    BY TakenHeaders
  <2> HIDE DEF h2
  <2> QED
    BY <2>1 DEF TakenFrom
<1>4. succ = y
  BY DEF Successor, Size
<1>5. x \in S /\ x \in Addresses /\ x \in Nat /\ Size(h, x) \in Nat /\ HeapStart <= x /\ x + Size(h, x) <= h.top /\ HeapStart \in Nat
  <2>1. x \in S /\ S \subseteq Addresses
    BY <1>1 DEF Members, Spread
  <2> HIDE DEF x
  <2>2. HeapStart <= x /\ x + Size(h, x) <= h.top
    BY <1>1, <2>1 DEF Spread
  <2> QED
    BY <1>1, <2>1, <2>2, AddressFacts, HeapFacts
<1>6. y # 0 /\ y > x /\ y < x + Size(h, x)
  BY <1>3, <1>5
<1>7. y \notin S
  <2> SUFFICES ASSUME y \in S PROVE FALSE
    OBVIOUS
  <2>1. x = y \/ x + Size(h, x) <= y \/ y + Size(h, y) <= x
    BY <1>1, <1>5 DEF Spread
  <2>2. Size(h, y) \in Nat
    BY <1>1, <1>3, HeapFacts
  <2> QED
    BY <1>3, <1>5, <1>6, <2>1, <2>2
<1> HIDE DEF h2, succ, rest, y
<1>8. PICK r \in Seq(Addresses \ {0}) :
             /\ Injective(r) /\ Members(r) = (Members(l) \ {x}) \cup {y} /\ Len(r) = Len(l)
             /\ \A j \in 1 .. Len(r) : r[j] = IF j = i THEN y ELSE l[j]
  <2> DEFINE T == Addresses \ {0}
  <2>1. y \in T /\ y \notin Members(l) /\ l \in Seq(T) /\ Injective(l)
    BY <1>1, <1>3, <1>6, <1>7
  <2> HIDE DEF T, x
  <2>2. \E r \in Seq(T) :
             /\ Injective(r) /\ Members(r) = (Members(l) \ {l[i]}) \cup {y} /\ Len(r) = Len(l)
             /\ \A j \in 1 .. Len(r) : r[j] = IF j = i THEN y ELSE l[j]
    BY <2>1, ListReplaced
  <2> QED
    BY <2>2 DEF T, x
<1>9. \A j \in Nat \ {0} : Nth(r, j) = IF j = i THEN y ELSE Nth(l, j)
  BY <1>8 DEF Nth
<1>10. h2.head = Nth(r, 1)
  <2>1. h.head = Nth(l, 1)
    BY <1>1 DEF IsChain
  <2> QED
    BY <1>3, <1>4, <1>9, <2>1
<1>11. ASSUME NEW k \in 1 .. Len(l), k # i
      PROVE  /\ Intact(h2, l[k])
             /\ h2.header[l[k]].next = IF k + 1 = i THEN y ELSE Nth(l, k + 1)
  <2>1. Intact(h, l[k]) /\ h.header[l[k]].next = Nth(l, k + 1)
    BY <1>1 DEF IsChain
  <2>2. l[k] \in S \ {x}
    BY <1>1, <1>11 DEF Members, Injective
  <2>3. CASE k + 1 = i
    <3>1. i > 1 /\ k = i - 1
      BY <1>2, <2>3
    <3>2. h2.header[l[k]] = FreeHeader(Size(h, l[k]), succ)
      BY <1>3, <3>1
    <3>3. h2.header[l[k]].kind = "free" /\ h2.header[l[k]].len = h.header[l[k]].len /\ h2.header[l[k]].next = succ
      BY <3>2 DEF FreeHeader, Size
    <3> QED
      BY <1>3, <1>4, <2>1, <2>3, <3>3 DEF Intact
  <2>4. CASE k + 1 # i
    <3>1. i > 1 => i - 1 \in 1 .. Len(l) /\ i - 1 # k
      BY <1>2, <2>4
    <3>2. i > 1 => l[k] # l[i - 1]
      BY <1>1, <3>1 DEF Injective
    <3>3. h2.header[l[k]] = h.header[l[k]]
      BY <1>3, <2>2, <3>2
    <3> QED
      BY <1>3, <2>1, <2>4, <3>3 DEF Intact
  <2> QED
    BY <2>3, <2>4
<1>12. Intact(h2, y) /\ h2.header[y].next = Nth(l, i + 1)
  <2>1. h2.header[y].kind = "free" /\ h2.header[y].len = rest /\ h2.header[y].next = h.header[x].next
    BY <1>3 DEF FreeHeader
  <2>2. h.header[x].next = Nth(l, i + 1)
    BY <1>1 DEF IsChain
  <2>3. y >= HeapStart /\ y + rest <= h.top
    <3>1. y \in Nat /\ rest \in Nat /\ HeapStart <= y /\ y + rest <= h.top
      BY <1>3, <1>5, SMTT(60) DEF y, rest
    <3> HIDE DEF y, rest
    <3> QED
      BY <3>1, AddressFacts
  <2>4. rest >= Minimum
    BY <1>3, AddressFacts
  <2> QED
    BY <1>3, <2>1, <2>2, <2>3, <2>4 DEF Intact
<1>13. ASSUME NEW j \in 1 .. Len(r) PROVE Intact(h2, r[j]) /\ h2.header[r[j]].next = Nth(r, j + 1)
  <2>1. j \in 1 .. Len(l) /\ j \in Nat /\ j + 1 \in Nat \ {0} /\ i + 1 # i
    BY <1>2, <1>8
  <2>2. CASE j = i
    BY <1>8, <1>9, <1>12, <2>1, <2>2
  <2>3. CASE j # i
    BY <1>8, <1>9, <1>11, <2>1, <2>3
  <2> QED
    BY <2>2, <2>3
<1>14. IsChain(h2, h2.head, r)
  <2>1. \A j \in 1 .. Len(r) : Intact(h2, r[j]) /\ h2.header[r[j]].next = Nth(r, j + 1)
    BY <1>13
  <2> QED
    BY <1>8, <1>10, <2>1 DEF IsChain
<1> QED
  BY <1>7, <1>8, <1>14 DEF h2, y

-----------------------------------------------------------------------------
(* Blocks that keep their sizes, and a block that is split.                *)

(* Blocks that keep their sizes stay apart as the top rises.               *)
LEMMA SpreadSame ==
    ASSUME NEW h, NEW h2, NEW S, Spread(h, S), h2 \in Heaps, h \in Heaps, h.top <= h2.top,
           \A s \in S : Size(h2, s) = Size(h, s)
    PROVE  Spread(h2, S)
<1>1. ASSUME NEW s \in S
      PROVE  HeapStart <= s /\ Minimum <= Size(h2, s) /\ Size(h2, s) % 8 = 0 /\ s + Size(h2, s) <= h2.top
  <2>1. s \in Nat /\ Size(h, s) \in Nat /\ h.top \in Nat /\ h2.top \in Nat
    BY AddressFacts, HeapFacts DEF Spread
  <2>2. HeapStart <= s /\ Minimum <= Size(h, s) /\ Size(h, s) % 8 = 0 /\ s + Size(h, s) <= h.top
    BY DEF Spread
  <2>3. s + Size(h, s) <= h2.top
    BY <2>1, <2>2
  <2> QED
    BY <2>2, <2>3
<1> QED
  BY <1>1 DEF Spread

(* Blocks that keep their sizes fill the heap as they did.                 *)
LEMMA FillsSame ==
    ASSUME NEW h, NEW h2, NEW S, Fills(h, S), h2.top = h.top, \A s \in S : Size(h2, s) = Size(h, s)
    PROVE  Fills(h2, S)
BY DEF Fills

(* Splitting block x at y leaves the blocks apart, and the heap as full as *)
(* it was.                                                                 *)
LEMMA SpreadSplit ==
    ASSUME NEW h, NEW h2, NEW S, h \in Heaps, h2 \in Heaps, Spread(h, S), h2.top = h.top,
           NEW x \in S, NEW y \in Addresses, y > x,
           \A s \in S \ {x} : Size(h2, s) = Size(h, s),
           x + Size(h2, x) = y, y + Size(h2, y) = x + Size(h, x),
           Size(h2, x) >= 16, Size(h2, x) % 8 = 0, Size(h2, y) >= 16, Size(h2, y) % 8 = 0, y \notin S
    PROVE  Spread(h2, S \cup {y}) /\ (Fills(h, S) => Fills(h2, S \cup {y}))
<1>0. S \subseteq Addresses /\ HeapStart \in Nat /\ h.top \in Nat /\ Minimum = 16
  BY AddressFacts, HeapFacts DEF Spread
<1>1. \A s \in S \cup {y} : s \in Addresses /\ s \in Nat /\ Size(h, s) \in Nat /\ Size(h2, s) \in Nat
  BY <1>0, AddressFacts, HeapFacts
<1>2. ASSUME NEW s \in S \cup {y}
      PROVE  \E p \in S : p <= s /\ s + Size(h2, s) <= p + Size(h, p) /\ (p # x => s = p) /\ (p = x => s \in {x, y})
  <2>1. CASE s = y
    BY <1>1, <2>1
  <2>2. CASE s = x
    <3>1. x + Size(h2, x) <= x + Size(h, x)
      BY <1>1
    <3> QED
      BY <1>1, <2>2, <3>1
  <2>3. CASE s \in S /\ s # x /\ s # y
    BY <1>1, <2>3
  <2> QED
    BY <2>1, <2>2, <2>3
<1>3. ASSUME NEW s \in S \cup {y}
      PROVE  HeapStart <= s /\ Minimum <= Size(h2, s) /\ Size(h2, s) % 8 = 0 /\ s + Size(h2, s) <= h2.top
  <2>1. PICK p \in S : p <= s /\ s + Size(h2, s) <= p + Size(h, p)
    BY <1>2
  <2>2. HeapStart <= p /\ p + Size(h, p) <= h.top
    BY DEF Spread
  <2>3. HeapStart <= s /\ s + Size(h2, s) <= h2.top
    BY <1>0, <1>1, <2>1, <2>2
  <2>4. Minimum <= Size(h2, s) /\ Size(h2, s) % 8 = 0
    BY <1>0 DEF Spread
  <2> QED
    BY <2>3, <2>4
<1>4. ASSUME NEW a \in S \cup {y}, NEW b \in S \cup {y}
      PROVE  a = b \/ a + Size(h2, a) <= b \/ b + Size(h2, b) <= a
  <2>1. PICK p \in S : p <= a /\ a + Size(h2, a) <= p + Size(h, p) /\ (p # x => a = p) /\ (p = x => a \in {x, y})
    BY <1>2
  <2>2. PICK q \in S : q <= b /\ b + Size(h2, b) <= q + Size(h, q) /\ (q # x => b = q) /\ (q = x => b \in {x, y})
    BY <1>2
  <2>3. CASE p = q
    <3>1. CASE p = x
      BY <1>1, <2>1, <2>2, <2>3, <3>1
    <3>2. CASE p # x
      BY <2>1, <2>2, <2>3, <3>2
    <3> QED
      BY <3>1, <3>2
  <2>4. CASE p # q
    <3>1. p + Size(h, p) <= q \/ q + Size(h, q) <= p
      BY <2>4 DEF Spread
    <3> QED
      BY <1>1, <2>1, <2>2, <3>1
  <2> QED
    BY <2>3, <2>4
<1>5. Spread(h2, S \cup {y})
  BY <1>1, <1>3, <1>4 DEF Spread
<1>6. ASSUME Fills(h, S) PROVE Fills(h2, S \cup {y})
  <2> SUFFICES ASSUME NEW a \in Addresses, HeapStart <= a, a < h2.top
               PROVE  \E s \in S \cup {y} : s <= a /\ a < s + Size(h2, s)
    BY DEF Fills
  <2>1. PICK s \in S : s <= a /\ a < s + Size(h, s)
    BY <1>6 DEF Fills
  <2>2. CASE s # x
    BY <2>1, <2>2
  <2>3. CASE s = x
    <3>1. a \in Nat /\ x \in Nat /\ y \in Nat
      BY <1>1, AddressFacts
    <3>2. a < y \/ y <= a
      BY <3>1
    <3> QED
      BY <2>1, <2>3, <3>2
  <2> QED
    BY <2>2, <2>3
<1> QED
  BY <1>5, <1>6

(* Taking a block changes the size of no other one; what is left over has  *)
(* the rest.                                                               *)
LEMMA TakenSizes ==
    ASSUME NEW h, NEW U, NEW l, NEW i \in 1 .. Len(l), NEW len, NEW h2, TakenFrom(h, U, l, i, len, h2)
    PROVE  /\ \A s \in (U \cup Members(l)) \ {l[i]} : Size(h2, s) = Size(h, s)
           /\ Size(h2, l[i]) = len
           /\ Size(h, l[i]) # len => Size(h2, l[i] + len) = Size(h, l[i]) - len
<1>1. Size(h2, l[i]) = len
  BY DEF TakenFrom, Size
<1>2. Size(h, l[i]) # len => Size(h2, l[i] + len) = Size(h, l[i]) - len
  BY DEF TakenFrom, Size, FreeHeader
<1>3. ASSUME NEW s \in (U \cup Members(l)) \ {l[i]} PROVE Size(h2, s) = Size(h, s)
  <2>1. CASE i > 1 => s # l[i - 1]
    BY <2>1 DEF TakenFrom, Size
  <2>2. CASE i > 1 /\ s = l[i - 1]
    BY <2>2 DEF TakenFrom, Size, FreeHeader
  <2> QED
    BY <2>1, <2>2
<1> QED
  BY <1>1, <1>2, <1>3

(* Taking from the free list.                                              *)
LEMMA TakenGrown ==
    ASSUME NEW h, NEW U, NEW l, Mem(h, U, l), NEW i \in 1 .. Len(l),
           NEW len \in Nat, len >= 16, len % 8 = 0, Suits(h, l[i], len)
    PROVE  \E l2 : Grown(h, U, l, Taken(h, i, len), l2, {l[i]})
<1> DEFINE x == l[i]
           h2 == Taken(h, i, len)
           S == U \cup Members(l)
<1>1. h \in Heaps /\ Spread(h, S) /\ IsChain(h, h.head, l) /\ l \in Seq(Addresses \ {0}) /\ Injective(l)
      /\ U \cap Members(l) = {} /\ HeapStart <= h.top
  BY DEF Mem, IsChain
<1>2. TakenFrom(h, U, l, i, len, h2)
  BY TakenHeaders
<1>3. /\ \A s \in S \ {x} : Size(h2, s) = Size(h, s)
      /\ Size(h2, x) = len
      /\ Size(h, x) # len => Size(h2, x + len) = Size(h, x) - len
  <2> HIDE DEF h2
  <2> QED
    BY <1>2, TakenSizes
<1>4. x \in Members(l) /\ x \in S /\ x \notin U
  BY <1>1 DEF Members
<1>5. x \in Addresses /\ x \in Nat /\ Size(h, x) \in Nat /\ h.top \in Nat
  BY <1>1, <1>4, AddressFacts, HeapFacts DEF Spread
<1>6. h2 \in Heaps /\ h2.top = h.top
  <2> HIDE DEF h2
  <2> QED
    BY <1>2 DEF TakenFrom
<1>7. ASSUME NEW u \in U PROVE h2.header[u] = h.header[u]
  <2>1. u \in S \ {x}
    BY <1>4
  <2>2. i > 1 => i - 1 \in 1 .. Len(l)
    BY <1>1, LenProperties
  <2>3. i > 1 => l[i - 1] \in Members(l)
    BY <2>2 DEF Members
  <2>4. i > 1 => u # l[i - 1]
    BY <1>1, <2>3
  <2> HIDE DEF h2
  <2> QED
    BY <1>2, <2>1, <2>4 DEF TakenFrom
<1>8. ASSUME NEW s \in S \ {x}, s \in Members(l) PROVE Within(h, l, s, Size(h2, s))
  <2>1. s \in Nat /\ Size(h, s) \in Nat /\ Size(h2, s) = Size(h, s)
    BY <1>1, <1>3, AddressFacts, HeapFacts DEF Spread
  <2>2. s <= s /\ s + Size(h2, s) <= s + Size(h, s)
    BY <2>1
  <2> HIDE DEF h2
  <2> QED
    BY <1>8, <2>2 DEF Within
<1>9. CASE Size(h, x) = len
  <2>1. PICK l2 : IsChain(h2, h2.head, l2) /\ Members(l2) = Members(l) \ {x}
    BY <1>9, TakenWhole
  <2> HIDE DEF h2
  <2>2. (U \cup {x}) \cup Members(l2) = S /\ (U \cup {x}) \cap Members(l2) = {}
    BY <1>1, <1>4, <2>1
  <2>3. \A s \in S : Size(h2, s) = Size(h, s)
    BY <1>3, <1>9
  <2>4. Spread(h2, S)
    BY <1>1, <1>6, <2>3, <1>5, SpreadSame
  <2>5. Fills(h, S) => Fills(h2, S)
    BY <1>6, <2>3, FillsSame
  <2>6. Within(h, l, x, Size(h2, x))
    <3>1. x <= x /\ x + Size(h2, x) <= x + Size(h, x)
      BY <1>3, <1>5, <1>9
    <3> QED
      BY <1>4, <3>1 DEF Within
  <2>7. \A s \in {x} \cup Members(l2) : Within(h, l, s, Size(h2, s))
    BY <1>8, <2>1, <2>6
  <2>8. Mem(h2, U \cup {x}, l2)
    BY <1>1, <1>6, <2>1, <2>2, <2>4 DEF Mem
  <2>9. {x} \cap U = {} /\ h.top <= h2.top
    BY <1>4, <1>5, <1>6
  <2>10. Fills(h, U \cup Members(l)) => Fills(h2, U \cup {x} \cup Members(l2))
    BY <2>2, <2>5
  <2>11. Grown(h, U, l, h2, l2, {x})
    BY <1>7, <2>7, <2>8, <2>9, <2>10 DEF Grown
  <2> QED
    BY <2>11 DEF h2
<1>10. CASE Size(h, x) # len
  <2> DEFINE y == x + len
  <2>1. PICK l2 : IsChain(h2, h2.head, l2) /\ Members(l2) = (Members(l) \ {x}) \cup {y} /\ y \notin S
    BY <1>10, TakenPart
  <2> HIDE DEF h2
  <2>2. /\ y \in Addresses /\ y > x /\ x + Size(h2, x) = y /\ y + Size(h2, y) = x + Size(h, x)
        /\ Size(h2, y) \in Nat /\ Size(h2, y) >= 16 /\ Size(h2, y) % 8 = 0
    <3>1. y \in Addresses /\ Size(h, x) - len \in Nat /\ Size(h, x) - len >= 16 /\ (Size(h, x) - len) % 8 = 0
      BY <1>2, <1>10 DEF TakenFrom
    <3>2. Size(h2, y) = Size(h, x) - len /\ Size(h2, x) = len
      BY <1>3, <1>10
    <3>3. y > x /\ x + Size(h2, x) = y /\ y + Size(h2, y) = x + Size(h, x)
      BY <1>5, <3>2
    <3> QED
      BY <3>1, <3>2, <3>3
  <2> HIDE DEF y
  <2>3. (U \cup {x}) \cup Members(l2) = S \cup {y} /\ (U \cup {x}) \cap Members(l2) = {}
    BY <1>1, <1>4, <2>1
  <2>4. Spread(h2, S \cup {y}) /\ (Fills(h, S) => Fills(h2, S \cup {y}))
    <3>1. Size(h2, x) >= 16 /\ Size(h2, x) % 8 = 0
      BY <1>3
    <3> HIDE DEF S, x
    <3> QED
      BY <1>1, <1>3, <1>4, <1>6, <2>1, <2>2, <3>1, SpreadSplit
  <2>5. Within(h, l, x, Size(h2, x))
    <3>1. x <= x /\ x + Size(h2, x) <= x + Size(h, x)
      BY <1>5, <2>2, AddressFacts, SMTT(60)
    <3> QED
      BY <1>4, <3>1 DEF Within
  <2>6. Within(h, l, y, Size(h2, y))
    <3>1. x <= y /\ y + Size(h2, y) <= x + Size(h, x)
      BY <1>5, <2>2, AddressFacts
    <3> QED
      BY <1>4, <3>1 DEF Within
  <2>7. \A s \in {x} \cup Members(l2) : Within(h, l, s, Size(h2, s))
    BY <1>8, <2>1, <2>5, <2>6
  <2>8. Mem(h2, U \cup {x}, l2)
    BY <1>1, <1>6, <2>1, <2>3, <2>4 DEF Mem
  <2>9. {x} \cap U = {} /\ h.top <= h2.top
    BY <1>4, <1>5, <1>6
  <2>10. Fills(h, U \cup Members(l)) => Fills(h2, U \cup {x} \cup Members(l2))
    BY <2>3, <2>4
  <2>11. Grown(h, U, l, h2, l2, {x})
    BY <1>7, <2>7, <2>8, <2>9, <2>10 DEF Grown
  <2> QED
    BY <2>11 DEF h2
<1> QED
  BY <1>9, <1>10

(* Allocating above the top.                                               *)
LEMMA BumpedGrown ==
    ASSUME NEW h, NEW U, NEW l, Mem(h, U, l),
           NEW len \in Nat, len >= 16, len % 8 = 0, h.top + len <= Limit
    PROVE  /\ Grown(h, U, l, Bumped(h, len), l, {h.top})
           /\ Bumped(h, len).header[h.top] = [kind |-> "used", len |-> len, next |-> 0]
<1> DEFINE x == h.top
           h2 == Bumped(h, len)
           S == U \cup Members(l)
<1>1. h \in Heaps /\ Spread(h, S) /\ IsChain(h, h.head, l) /\ U \cap Members(l) = {} /\ HeapStart <= x
  BY DEF Mem
<1>2. x \in Nat /\ x \in Addresses /\ x % 8 = 0 /\ h.header \in [Addresses -> Headers] /\ HeapStart \in Nat
  BY <1>1, AddressFacts, HeapFacts
<1>3. x + len \in Addresses
  <2>1. (x + len) % 8 = 0
    BY <1>2, Sums8
  <2> QED
    BY <1>2, <2>1, AddressFacts
<1>4. /\ h2.top = x + len /\ h2.head = h.head
      /\ h2.header = Initialized(h.header, Block(x, len))
  BY <1>1 DEF Bumped, Heaps
<1>5. h2.capacity \in Capacities
  <2>1. x + len \in 0 .. Limit
    BY <1>2, AddressFacts
  <2>2. h.capacity \in Capacities
    BY <1>1 DEF Heaps
  <2>3. h2.capacity \in {h.capacity, PagesFor(x + len) * PageBytes}
    BY <1>1 DEF Bumped, Heaps
  <2> QED
    BY <2>1, <2>2, <2>3 DEF Capacities
<1>6. /\ h2.header \in [Addresses -> Headers]
      /\ h2.header[x] = [kind |-> "used", len |-> len, next |-> 0]
      /\ \A a \in Addresses : a < x \/ a >= x + len => h2.header[a] = h.header[a]
  <2> HIDE DEF h2, x
  <2>1. len > 0
    OBVIOUS
  <2> QED
    BY <1>2, <1>4, <2>1, InitializedHeaders
<1>7. h2 \in Heaps
  <2>1. h.head \in Addresses
    BY <1>1 DEF Heaps
  <2>2. h2 \in [top : {h2.top}, head : {h2.head}, capacity : {h2.capacity}, header : {h2.header}]
    BY <1>1 DEF Bumped, Heaps
  <2> HIDE DEF h2
  <2> QED
    BY <1>3, <1>4, <1>5, <1>6, <2>1, <2>2 DEF Heaps
<1> HIDE DEF h2
<1>8. ASSUME NEW s \in S
      PROVE  /\ s \in Addresses /\ s \in Nat /\ Size(h, s) \in Nat /\ s # x /\ s + Size(h, s) <= x
             /\ h2.header[s] = h.header[s] /\ Size(h2, s) = Size(h, s)
  <2>1. s \in Addresses /\ s \in Nat /\ Size(h, s) \in Nat /\ Size(h, s) >= 16 /\ s + Size(h, s) <= x
    BY <1>1, AddressFacts, HeapFacts DEF Spread
  <2>2. s < x
    BY <1>2, <2>1
  <2>3. h2.header[s] = h.header[s]
    BY <1>6, <2>1, <2>2
  <2>4. s # x
    BY <1>2, <2>1, <2>2
  <2> HIDE DEF x
  <2> QED
    BY <2>1, <2>3, <2>4 DEF Size
<1>9. Size(h2, x) = len /\ x <= h2.top /\ h2.top \in Nat
  BY <1>2, <1>4, <1>6 DEF Size
<1>10. ASSUME NEW s \in S \cup {x}
       PROVE  HeapStart <= s /\ Minimum <= Size(h2, s) /\ Size(h2, s) % 8 = 0 /\ s + Size(h2, s) <= h2.top
  <2>1. CASE s = x
    BY <1>1, <1>2, <1>4, <1>9, <2>1, AddressFacts
  <2>2. CASE s # x
    <3>1. s \in S
      BY <2>2
    <3>2. HeapStart <= s /\ Minimum <= Size(h, s) /\ Size(h, s) % 8 = 0
      BY <1>1, <3>1 DEF Spread
    <3>3. Size(h2, s) = Size(h, s) /\ s + Size(h, s) <= x /\ s \in Nat /\ Size(h, s) \in Nat
      BY <1>8, <3>1
    <3>4. s + Size(h2, s) <= h2.top
      BY <1>2, <1>9, <3>3
    <3> QED
      BY <3>2, <3>3, <3>4
  <2> QED
    BY <2>1, <2>2
<1>11. ASSUME NEW a \in S \cup {x}, NEW b \in S \cup {x}
       PROVE  a = b \/ a + Size(h2, a) <= b \/ b + Size(h2, b) <= a
  <2>1. CASE a \in S /\ b \in S
    <3>1. a = b \/ a + Size(h, a) <= b \/ b + Size(h, b) <= a
      BY <1>1, <2>1 DEF Spread
    <3> QED
      BY <1>8, <2>1, <3>1
  <2>2. CASE a \in S /\ b = x
    BY <1>8, <2>2
  <2>3. CASE a = x /\ b \in S
    BY <1>8, <2>3
  <2>4. CASE a = x /\ b = x
    BY <2>4
  <2> QED
    BY <2>1, <2>2, <2>3, <2>4
<1>12. Spread(h2, S \cup {x})
  <2>1. S \cup {x} \subseteq Addresses
    BY <1>2, <1>8
  <2> HIDE DEF S, x
  <2> QED
    BY <1>10, <1>11, <2>1 DEF Spread
<1>13. IsChain(h2, h2.head, l)
  <2>1. ASSUME NEW j \in 1 .. Len(l) PROVE Intact(h2, l[j]) /\ h2.header[l[j]].next = Nth(l, j + 1)
    <3>1. l[j] \in S
      BY DEF Members
    <3>2. Intact(h, l[j]) /\ h.header[l[j]].next = Nth(l, j + 1)
      BY <1>1 DEF IsChain
    <3>3. h2.header[l[j]] = h.header[l[j]] /\ l[j] + Size(h2, l[j]) <= h2.top
      BY <1>8, <1>10, <3>1
    <3> QED
      BY <3>2, <3>3 DEF Intact, Size
  <2> QED
    BY <1>1, <1>4, <2>1 DEF IsChain
<1>14. ASSUME NEW s \in {x} \cup Members(l) PROVE Within(h, l, s, Size(h2, s))
  <2>1. CASE s = x
    <3>1. x >= h.top
      BY <1>2
    <3> QED
      BY <2>1, <3>1 DEF Within
  <2>2. CASE s # x
    <3>1. s \in Members(l)
      BY <2>2
    <3>2. s <= s /\ s + Size(h2, s) <= s + Size(h, s)
      BY <1>8, <3>1
    <3> QED
      BY <3>1, <3>2 DEF Within
  <2> QED
    BY <2>1, <2>2
<1>15. ASSUME Fills(h, S) PROVE Fills(h2, S \cup {x})
  <2> SUFFICES ASSUME NEW a \in Addresses, HeapStart <= a, a < h2.top
               PROVE  \E s \in S \cup {x} : s <= a /\ a < s + Size(h2, s)
    BY DEF Fills
  <2>1. a \in Nat
    BY AddressFacts
  <2>2. CASE a < x
    <3>1. PICK s \in S : s <= a /\ a < s + Size(h, s)
      BY <1>15, <2>2 DEF Fills
    <3> QED
      BY <1>8, <3>1
  <2>3. CASE ~(a < x)
    <3>1. x <= a /\ a < x + Size(h2, x)
      BY <1>2, <1>4, <1>9, <2>1, <2>3
    <3> QED
      BY <3>1
  <2> QED
    BY <2>2, <2>3
<1>16. (U \cup {x}) \cup Members(l) = S \cup {x} /\ U \cup {x} \cup Members(l) = S \cup {x}
       /\ x \notin U /\ (U \cup {x}) \cap Members(l) = {} /\ \A u \in U : u \in S
  BY <1>1, <1>8
<1>17. Mem(h2, U \cup {x}, l)
  <2>1. HeapStart <= h2.top
    BY <1>1, <1>2, <1>9
  <2> HIDE DEF x
  <2> QED
    BY <1>7, <1>12, <1>13, <1>16, <2>1 DEF Mem
<1>18. Grown(h, U, l, h2, l, {x})
  <2>1. \A u \in U : h2.header[u] = h.header[u]
    BY <1>8, <1>16
  <2>2. \A s \in {x} \cup Members(l) : Within(h, l, s, Size(h2, s))
    BY <1>14
  <2>3. Fills(h, U \cup Members(l)) => Fills(h2, U \cup {x} \cup Members(l))
    BY <1>15, <1>16
  <2>4. h.top <= h2.top /\ {x} \cap U = {}
    BY <1>9, <1>16
  <2> HIDE DEF x, S
  <2>5. h.top <= h2.top
    BY <2>4
  <2> QED
    BY <1>17, <2>1, <2>2, <2>3, <2>4 DEF Grown
<1> QED
  BY <1>6, <1>18 DEF h2

-----------------------------------------------------------------------------
(* allocate().                                                             *)

UsedHeader(len) == [kind |-> "used", len |-> len, next |-> 0]

(* What allocate() answers: a block that is new, or that memory ran out.   *)
Allocated(h, U, l, a) ==
    \/ a.fault = "memory" /\ a.heap = h
    \/ /\ a.fault = "none" /\ a.block \in HeapBlocks
       /\ a.heap.header[a.block.at] = UsedHeader(a.block.len)
       /\ \E l2 : Grown(h, U, l, a.heap, l2, {a.block.at})

(* The guards of allocate() let every block of an intact list pass.        *)
LEMMA AllocateIsRight ==
    ASSUME NEW h, NEW U, NEW l, Mem(h, U, l), NEW bytes \in Nat
    PROVE  Allocated(h, U, l, Allocate(h, bytes))
<1> DEFINE len == Normalize(bytes)
           first == FirstFit(h, l, len)
           fits == Fitting(h, l, len)
<1>1. len \in Nat /\ len >= 16 /\ len % 8 = 0
  BY NormalizeFacts
<1>2. h \in Heaps /\ IsChain(h, h.head, l) /\ Spread(h, U \cup Members(l))
  BY DEF Mem
<1>3. Chain(h, h.head) = l
  BY <1>2, ChainIs
<1>4. {i \in 1 .. Len(l) : ~Intact(h, l[i])} = {}
  BY <1>2 DEF IsChain
<1>5. Allocate(h, bytes) =
        IF fits # {}
        THEN [heap |-> Taken(h, first, len), block |-> Block(l[first], len), fault |-> "none"]
        ELSE IF h.top + len <= Limit
        THEN [heap |-> Bumped(h, len), block |-> Block(h.top, len), fault |-> "none"]
        ELSE [heap |-> h, block |-> Block(0, 0), fault |-> "memory"]
  <2> DEFINE bad == {i \in 1 .. Len(l) : ~Intact(h, l[i])}
  <2>1. Allocate(h, bytes) =
        IF fits # {} /\ \A j \in bad : j > first
        THEN [heap |-> Taken(h, first, len), block |-> Block(l[first], len), fault |-> "none"]
        ELSE IF bad # {} THEN [heap |-> h, block |-> Block(0, 0), fault |-> "trap"]
        ELSE IF h.top + len <= Limit
        THEN [heap |-> Bumped(h, len), block |-> Block(h.top, len), fault |-> "none"]
        ELSE [heap |-> h, block |-> Block(0, 0), fault |-> "memory"]
    BY <1>3 DEF Allocate
  <2> HIDE DEF bad, fits, first, len
  <2>2. bad = {}
    BY <1>4 DEF bad
  <2> QED
    BY <2>1, <2>2
<1> HIDE DEF len
<1>6. CASE fits # {}
  <2>1. first \in fits
    <3>1. fits \subseteq Nat
      BY <1>2, LenProperties DEF Fitting, IsChain
    <3>2. \E i \in fits : \A j \in fits : i <= j
      BY <1>6, <3>1, LeastNatural
    <3> QED
      BY <3>2 DEF FirstFit
  <2> HIDE DEF first
  <2>2. first \in 1 .. Len(l) /\ Suits(h, l[first], len)
    BY <2>1 DEF Fitting
  <2>3. \E l2 : Grown(h, U, l, Taken(h, first, len), l2, {l[first]})
    BY <1>1, <2>2, TakenGrown
  <2>4. Taken(h, first, len).header[l[first]] = UsedHeader(len)
    <3>1. TakenFrom(h, U, l, first, len, Taken(h, first, len))
      BY <1>1, <2>2, TakenHeaders
    <3> QED
      BY <3>1 DEF TakenFrom, UsedHeader
  <2>5. l[first] \in Addresses
    BY <1>2, <2>2 DEF Spread, Members
  <2>6. Block(l[first], len) \in HeapBlocks /\ Block(l[first], len).at = l[first] /\ Block(l[first], len).len = len
    BY <1>1, <2>5 DEF Block, HeapBlocks
  <2> HIDE DEF fits
  <2> QED
    BY <1>5, <1>6, <2>3, <2>4, <2>6 DEF Allocated
<1>7. CASE fits = {} /\ h.top + len <= Limit
  <2>1. /\ Grown(h, U, l, Bumped(h, len), l, {h.top})
        /\ Bumped(h, len).header[h.top] = UsedHeader(len)
    BY <1>1, <1>7, BumpedGrown DEF UsedHeader
  <2>2. Block(h.top, len) \in HeapBlocks /\ Block(h.top, len).at = h.top /\ Block(h.top, len).len = len
    BY <1>1, <1>2, HeapFacts DEF Block, HeapBlocks
  <2> HIDE DEF fits
  <2> QED
    BY <1>5, <1>7, <2>1, <2>2 DEF Allocated
<1>8. CASE fits = {} /\ ~(h.top + len <= Limit)
  <2> HIDE DEF fits
  <2> QED
    BY <1>5, <1>8 DEF Allocated
<1> QED
  BY <1>6, <1>7, <1>8

(* Nothing allocated.                                                      *)
LEMMA GrownNothing ==
    ASSUME NEW h, NEW U, NEW l, Mem(h, U, l)
    PROVE  Grown(h, U, l, h, l, {})
<1>1. h \in Heaps /\ Spread(h, U \cup Members(l)) /\ U \cup {} = U
  BY DEF Mem
<1>2. ASSUME NEW s \in Members(l) PROVE Within(h, l, s, Size(h, s))
  <2>1. s \in Nat /\ Size(h, s) \in Nat
    BY <1>1, AddressFacts, HeapFacts DEF Spread
  <2>2. s <= s /\ s + Size(h, s) <= s + Size(h, s)
    BY <2>1
  <2> QED
    BY <2>2 DEF Within
<1>3. h.top <= h.top
  BY <1>1, HeapFacts
<1> QED
  BY <1>1, <1>2, <1>3 DEF Grown

(* Blocks allocated after others.                                          *)
LEMMA GrownMore ==
    ASSUME NEW h, NEW U, NEW l, NEW h1, NEW l1, NEW new, NEW h2, NEW l2, NEW more,
           h \in Heaps, Grown(h, U, l, h1, l1, new), Grown(h1, U \cup new, l1, h2, l2, more),
           \A x \in Members(l) : x \in Addresses
    PROVE  Grown(h, U, l, h2, l2, new \cup more)
<1>1. h1 \in Heaps /\ h2 \in Heaps /\ Spread(h1, (U \cup new) \cup Members(l1))
      /\ Spread(h2, ((U \cup new) \cup more) \cup Members(l2))
  BY DEF Grown, Mem
<1>2. h.top \in Nat /\ h1.top \in Nat /\ h2.top \in Nat /\ h.top <= h1.top /\ h1.top <= h2.top
  BY <1>1, HeapFacts DEF Grown
<1>3. h.top <= h2.top
  BY <1>2
<1>4. (U \cup new) \cup more = U \cup (new \cup more)
  OBVIOUS
<1>5. \A u \in U \cup new : h2.header[u] = h1.header[u]
  BY DEF Grown
<1>6. \A u \in U : h2.header[u] = h.header[u]
  BY <1>5 DEF Grown
<1>7. ASSUME NEW s \in new PROVE Within(h, l, s, Size(h2, s))
  <2>1. Within(h, l, s, Size(h1, s))
    BY DEF Grown
  <2>2. Size(h2, s) = Size(h1, s)
    BY <1>5 DEF Size
  <2> QED
    BY <2>1, <2>2
<1>8. ASSUME NEW s \in more \cup Members(l2) PROVE Within(h, l, s, Size(h2, s))
  <2>1. Within(h1, l1, s, Size(h2, s))
    BY DEF Grown
  <2>2. s \in Nat /\ Size(h2, s) \in Nat
    BY <1>1, AddressFacts, HeapFacts DEF Spread
  <2>3. CASE s >= h1.top
    <3>1. s >= h.top
      BY <1>2, <2>2, <2>3
    <3> QED
      BY <3>1 DEF Within
  <2>4. CASE ~(s >= h1.top)
    <3>1. PICK x \in Members(l1) : x <= s /\ s + Size(h2, s) <= x + Size(h1, x)
      BY <2>1, <2>4 DEF Within
    <3>2. x \in Nat /\ Size(h1, x) \in Nat
      BY <1>1, AddressFacts, HeapFacts DEF Spread
    <3>3. Within(h, l, x, Size(h1, x))
      BY DEF Grown
    <3>4. CASE x >= h.top
      <4>1. s >= h.top
        BY <1>2, <2>2, <3>1, <3>2, <3>4
      <4> QED
        BY <4>1 DEF Within
    <3>5. CASE ~(x >= h.top)
      <4>1. PICK y \in Members(l) : y <= x /\ x + Size(h1, x) <= y + Size(h, y)
        BY <3>3, <3>5 DEF Within
      <4>2. y \in Nat /\ Size(h, y) \in Nat
        BY <4>1, AddressFacts, HeapFacts
      <4>3. y <= s /\ s + Size(h2, s) <= y + Size(h, y)
        BY <2>2, <3>1, <3>2, <4>1, <4>2
      <4> QED
        BY <4>3 DEF Within
    <3> QED
      BY <3>4, <3>5
  <2> QED
    BY <2>3, <2>4
<1>9. ASSUME Fills(h, U \cup Members(l)) PROVE Fills(h2, U \cup (new \cup more) \cup Members(l2))
  <2>1. Fills(h1, (U \cup new) \cup Members(l1))
    BY <1>9 DEF Grown
  <2>2. Fills(h2, ((U \cup new) \cup more) \cup Members(l2))
    BY <2>1 DEF Grown
  <2> QED
    BY <1>4, <2>2
<1>10. Mem(h2, U \cup (new \cup more), l2)
  BY <1>4 DEF Grown
<1>11. (new \cup more) \cap U = {}
  BY DEF Grown
<1>12. \A s \in (new \cup more) \cup Members(l2) : Within(h, l, s, Size(h2, s))
  BY <1>7, <1>8
<1> QED
  BY <1>3, <1>6, <1>9, <1>10, <1>11, <1>12 DEF Grown

-----------------------------------------------------------------------------
(* Loops over a sequence.                                                  *)

(* A recursive function whose steps know their number exists.              *)
Steps(f, F, a, N) == \A n \in 0 .. N : f[n] = IF n = 0 THEN a ELSE F[<<f[n - 1], n>>]

(* There is a function that folds F over the numbers up to N.              *)
LEMMA StepsExist ==
    ASSUME NEW X, NEW F \in [X \X Nat -> X], NEW a \in X, NEW N \in Nat
    PROVE  \E f \in [0 .. N -> X] : Steps(f, F, a, N)
<1> DEFINE Is(f, k) == Steps(f, F, a, k)
<1> DEFINE S == {k \in Nat : \E f \in [0 .. k -> X] : Is(f, k)}
<1>1. 0 \in S
  <2> DEFINE f == [n \in 0 .. 0 |-> a]
  <2>1. f \in [0 .. 0 -> X] /\ \A n \in 0 .. 0 : n = 0 /\ f[n] = a
    OBVIOUS
  <2>2. Is(f, 0)
    BY <2>1 DEF Steps
  <2> HIDE DEF f, Is
  <2> QED
    BY <2>1, <2>2
<1>2. ASSUME NEW k \in S PROVE k + 1 \in S
  <2>0. k \in Nat /\ k + 1 \in Nat
    OBVIOUS
  <2>1. PICK f \in [0 .. k -> X] : Is(f, k)
    OBVIOUS
  <2> DEFINE y == F[<<f[k], k + 1>>]
  <2>2. y \in X
    BY <2>0
  <2> DEFINE g == [n \in 0 .. k + 1 |-> IF n = k + 1 THEN y ELSE f[n]]
  <2>3. \A n \in 0 .. k + 1 : n \in 0 .. k \/ n = k + 1
    BY <2>0
  <2>4. g \in [0 .. k + 1 -> X]
    <3> HIDE DEF y
    <3> QED
      BY <2>2, <2>3
  <2>5. \A n \in 0 .. k : g[n] = f[n]
    BY <2>0
  <2>6. g[k + 1] = F[<<g[(k + 1) - 1], k + 1>>] /\ k + 1 # 0
    <3>1. (k + 1) - 1 = k /\ k \in 0 .. k /\ k + 1 \in 0 .. k + 1 /\ k + 1 # 0
      BY <2>0
    <3>2. g[k + 1] = y /\ g[k] = f[k]
      BY <2>5, <3>1
    <3> HIDE DEF g
    <3> QED
      BY <3>1, <3>2
  <2>7. ASSUME NEW n \in 0 .. k PROVE g[n] = IF n = 0 THEN a ELSE F[<<g[n - 1], n>>]
    <3>1. f[n] = IF n = 0 THEN a ELSE F[<<f[n - 1], n>>]
      BY <2>1 DEF Steps
    <3>2. n # 0 => n - 1 \in 0 .. k
      BY <2>0
    <3> HIDE DEF g
    <3> QED
      BY <3>1, <3>2, <2>5
  <2> HIDE DEF g
  <2>8. Is(g, k + 1)
    BY <2>3, <2>6, <2>7 DEF Steps
  <2> HIDE DEF Is
  <2> QED
    BY <2>0, <2>4, <2>8
<1> HIDE DEF S
<1>3. S = Nat
  <2>1. S \subseteq Nat
    BY DEF S
  <2> QED
    BY <1>1, <1>2, <2>1, InductionOnSet
<1>4. N \in S
  BY <1>3
<1> QED
  BY <1>4 DEF S

(* Where the blocks of a value start.                                      *)
StartsOf(blocks) == {blocks[i].at : i \in 1 .. Len(blocks)}

(* The headers of blocks are those of the heap, and no two are the same.   *)
Holds(h, blocks) ==
    /\ blocks \in Seq(HeapBlocks)
    /\ \A i, j \in 1 .. Len(blocks) : blocks[i].at = blocks[j].at => i = j
    /\ \A i \in 1 .. Len(blocks) : h.header[blocks[i].at] = UsedHeader(blocks[i].len)

(* How far an encoding came.                                               *)
Encoded(h, U, l, a) ==
    /\ a.fault \in {"none", "memory"}
    /\ Holds(a.heap, a.blocks)
    /\ \E l2 : Grown(h, U, l, a.heap, l2, StartsOf(a.blocks))

Encodings == [heap : Heaps, fault : {"none", "memory"}, blocks : Seq(HeapBlocks)]

(* One block more starts at one address more.                              *)
LEMMA StartsOfAppend ==
    ASSUME NEW blocks \in Seq(HeapBlocks), NEW b \in HeapBlocks
    PROVE  StartsOf(Append(blocks, b)) = StartsOf(blocks) \cup {b.at}
<1> DEFINE q == Append(blocks, b)
<1>1. /\ Len(blocks) \in Nat /\ Len(q) = Len(blocks) + 1
      /\ \A i \in 1 .. Len(blocks) : q[i] = blocks[i]
      /\ q[Len(blocks) + 1] = b
  BY AppendProperties
<1> HIDE DEF q
<1>2. \A i \in 1 .. Len(q) : i \in 1 .. Len(blocks) \/ i = Len(blocks) + 1
  BY <1>1
<1>3. Len(blocks) + 1 \in 1 .. Len(q) /\ \A i \in 1 .. Len(blocks) : i \in 1 .. Len(q)
  BY <1>1
<1>4. StartsOf(q) \subseteq StartsOf(blocks) \cup {b.at}
  BY <1>1, <1>2 DEF StartsOf
<1>5. StartsOf(blocks) \subseteq StartsOf(q)
  <2>1. ASSUME NEW i \in 1 .. Len(blocks) PROVE blocks[i].at \in StartsOf(q)
    <3>1. i \in 1 .. Len(q) /\ blocks[i].at = q[i].at
      BY <1>1, <1>3
    <3> QED
      BY <3>1 DEF StartsOf
  <2> QED
    BY <2>1 DEF StartsOf
<1>6. b.at \in StartsOf(q)
  <2>1. b.at = q[Len(blocks) + 1].at
    BY <1>1
  <2> QED
    BY <1>3, <2>1 DEF StartsOf
<1> QED
  BY <1>4, <1>5, <1>6 DEF q

(* One block more.                                                         *)
LEMMA EncodedNext ==
    ASSUME NEW h, NEW U, NEW l, h \in Heaps, l \in Seq(Addresses \ {0}),
           NEW a \in Encodings, Encoded(h, U, l, a), NEW bytes \in Nat
    PROVE  /\ AllocateNext(a, bytes) \in Encodings /\ Encoded(h, U, l, AllocateNext(a, bytes))
           /\ AllocateNext(a, bytes).fault = "none" => AllocateNext(a, bytes).blocks # <<>>
<1> DEFINE z == Allocate(a.heap, bytes)
           a2 == AllocateNext(a, bytes)
           V == U \cup StartsOf(a.blocks)
<1>1. PICK l1 : Grown(h, U, l, a.heap, l1, StartsOf(a.blocks))
  BY DEF Encoded
<1>2. Mem(a.heap, V, l1)
  BY <1>1 DEF Grown
<1>3. Allocated(a.heap, V, l1, z)
  BY <1>2, AllocateIsRight
<1>4. a.heap \in Heaps /\ a.blocks \in Seq(HeapBlocks) /\ a.fault \in {"none", "memory"}
  BY DEF Encodings
<1>5. CASE a.fault # "none"
  <2>1. a2 = a
    BY <1>5 DEF AllocateNext
  <2> QED
    BY <1>5, <2>1
<1>6. CASE a.fault = "none"
  <2>1. a2 = [heap |-> z.heap, fault |-> z.fault,
              blocks |-> IF z.fault = "none" THEN Append(a.blocks, z.block) ELSE a.blocks]
    BY <1>6 DEF AllocateNext
  <2> HIDE DEF a2, z
  <2>2. CASE z.fault = "memory" /\ z.heap = a.heap
    <3>1. a2.heap = a.heap /\ a2.fault = "memory" /\ a2.blocks = a.blocks /\ a2 \in Encodings
      BY <1>4, <2>1, <2>2 DEF Encodings
    <3>2. a2 \in Encodings /\ Encoded(h, U, l, a2) /\ a2.fault # "none"
      BY <3>1 DEF Encoded
    <3> QED
      BY <3>2 DEF a2
  <2>3. CASE z.fault # "memory" \/ z.heap # a.heap
    <3>1. z.fault = "none" /\ z.block \in HeapBlocks /\ z.heap.header[z.block.at] = UsedHeader(z.block.len)
      BY <1>3, <2>3 DEF Allocated
    <3>2. PICK l2 : Grown(a.heap, V, l1, z.heap, l2, {z.block.at})
      BY <1>3, <2>3 DEF Allocated
    <3> DEFINE q == Append(a.blocks, z.block)
    <3>3. /\ q \in Seq(HeapBlocks) /\ Len(a.blocks) \in Nat /\ Len(q) = Len(a.blocks) + 1
          /\ \A i \in 1 .. Len(a.blocks) : q[i] = a.blocks[i]
          /\ q[Len(a.blocks) + 1] = z.block
      BY <1>4, <3>1, AppendProperties
    <3>4. StartsOf(q) = StartsOf(a.blocks) \cup {z.block.at}
      BY <1>4, <3>1, StartsOfAppend
    <3> HIDE DEF q
    <3>5. z.heap \in Heaps
      BY <3>2 DEF Grown, Mem
    <3>6. a2.heap = z.heap /\ a2.fault = "none" /\ a2.blocks = q /\ a2 \in Encodings
      BY <2>1, <3>1, <3>3, <3>5 DEF Encodings, q
    <3>7. \A x \in Members(l) : x \in Addresses
      BY MembersInSet
    <3>8. Grown(h, U, l, z.heap, l2, StartsOf(q))
      BY <1>1, <3>2, <3>4, <3>7, GrownMore
    <3>9. \A i \in 1 .. Len(q) : i \in 1 .. Len(a.blocks) \/ i = Len(a.blocks) + 1
      BY <3>3
    <3>10. \A i \in 1 .. Len(a.blocks) : a.blocks[i].at \in V /\ a.blocks[i].at # z.block.at
      <4>1. \A i \in 1 .. Len(a.blocks) : a.blocks[i].at \in V
        BY DEF StartsOf
      <4>2. z.block.at \notin V
        BY <3>2 DEF Grown
      <4> QED
        BY <4>1, <4>2
    <3>11. Holds(a.heap, a.blocks)
      BY DEF Encoded
    <3>12. \A i, j \in 1 .. Len(q) : q[i].at = q[j].at => i = j
      <4> SUFFICES ASSUME NEW i \in 1 .. Len(q), NEW j \in 1 .. Len(q), q[i].at = q[j].at PROVE i = j
        OBVIOUS
      <4>1. CASE i \in 1 .. Len(a.blocks) /\ j \in 1 .. Len(a.blocks)
        BY <3>3, <3>11, <4>1 DEF Holds
      <4>2. CASE i = Len(a.blocks) + 1 /\ j \in 1 .. Len(a.blocks)
        BY <3>3, <3>10, <4>2
      <4>3. CASE j = Len(a.blocks) + 1 /\ i \in 1 .. Len(a.blocks)
        BY <3>3, <3>10, <4>3
      <4> QED
        BY <3>9, <4>1, <4>2, <4>3
    <3>13. \A i \in 1 .. Len(q) : z.heap.header[q[i].at] = UsedHeader(q[i].len)
      <4> SUFFICES ASSUME NEW i \in 1 .. Len(q) PROVE z.heap.header[q[i].at] = UsedHeader(q[i].len)
        OBVIOUS
      <4>1. CASE i \in 1 .. Len(a.blocks)
        <5>1. z.heap.header[a.blocks[i].at] = a.heap.header[a.blocks[i].at]
          BY <3>2, <3>10, <4>1 DEF Grown
        <5> QED
          BY <3>3, <3>11, <4>1, <5>1 DEF Holds
      <4>2. CASE i = Len(a.blocks) + 1
        BY <3>1, <3>3, <4>2
      <4> QED
        BY <3>9, <4>1, <4>2
    <3>14. Holds(z.heap, q)
      BY <3>3, <3>12, <3>13 DEF Holds
    <3>15. q # <<>>
      BY <3>3
    <3>16. a2 \in Encodings /\ Encoded(h, U, l, a2) /\ a2.blocks # <<>>
      BY <3>6, <3>8, <3>14, <3>15 DEF Encoded
    <3> QED
      BY <3>16 DEF a2
  <2> QED
    BY <2>2, <2>3
<1> QED
  BY <1>5, <1>6

(* All the blocks that an encoding asks for.                               *)
LEMMA AllocateAllIsRight ==
    ASSUME NEW h, NEW U, NEW l, Mem(h, U, l), NEW request \in Seq(Nat), request # <<>>
    PROVE  LET a == AllocateAll(h, request)
           IN  /\ a \in Encodings /\ Encoded(h, U, l, a)
               /\ a.fault = "none" => a.blocks # <<>>
<1> DEFINE start == [heap |-> h, fault |-> "none", blocks |-> <<>>]
           Body(f) == [n \in 0 .. Len(request) |-> IF n = 0 THEN start ELSE AllocateNext(f[n - 1], request[n])]
           after == CHOOSE f : f = Body(f)
           X == {a \in Encodings : Encoded(h, U, l, a)}
           ByteLength(n) == IF n \in 1 .. Len(request) THEN request[n] ELSE 0
           F == [p \in X \X Nat |-> AllocateNext(p[1], ByteLength(p[2]))]
<1>0. /\ h \in Heaps /\ l \in Seq(Addresses \ {0}) /\ Len(request) \in Nat /\ Len(request) # 0
      /\ \A n \in 1 .. Len(request) : request[n] \in Nat
  BY LenProperties, ElementOfSeq, EmptySeq DEF Mem, IsChain
<1>1. AllocateAll(h, request) = after[Len(request)]
  BY DEF AllocateAll
<1>2. start \in X
  <2>1. start.heap = h /\ start.fault = "none" /\ start.blocks = <<>> /\ start \in Encodings
    BY <1>0, EmptySeq DEF Encodings
  <2>2. StartsOf(<<>>) = {} /\ Holds(h, <<>>)
    BY EmptySeq DEF StartsOf, Holds
  <2>3. Grown(h, U, l, h, l, {})
    BY GrownNothing
  <2> HIDE DEF start
  <2>4. Encoded(h, U, l, start)
    BY <2>1, <2>2, <2>3 DEF Encoded
  <2> QED
    BY <2>1, <2>4
<1>3. ASSUME NEW a \in X, NEW bytes \in Nat
      PROVE  AllocateNext(a, bytes) \in X /\ (AllocateNext(a, bytes).fault = "none" => AllocateNext(a, bytes).blocks # <<>>)
  BY <1>0, EncodedNext
<1> HIDE DEF start, X
<1>4. F \in [X \X Nat -> X]
  <2>1. ASSUME NEW p \in X \X Nat PROVE AllocateNext(p[1], ByteLength(p[2])) \in X
    <3>1. p[1] \in X /\ ByteLength(p[2]) \in Nat
      BY <1>0
    <3> HIDE DEF ByteLength
    <3> QED
      BY <1>3, <3>1
  <2> HIDE DEF ByteLength
  <2> QED
    BY <2>1
<1>5. PICK f \in [0 .. Len(request) -> X] : Steps(f, F, start, Len(request))
  <2> HIDE DEF F
  <2> QED
    BY <1>0, <1>2, <1>4, StepsExist
<1>6. f = Body(f)
  <2>1. ASSUME NEW n \in 0 .. Len(request) PROVE f[n] = IF n = 0 THEN start ELSE AllocateNext(f[n - 1], request[n])
    <3>1. CASE n = 0
      BY <1>5, <3>1 DEF Steps
    <3>2. CASE n # 0
      <4>1. n - 1 \in 0 .. Len(request) /\ n \in 1 .. Len(request) /\ n \in Nat
        BY <1>0, <3>2
      <4>2. f[n] = F[<<f[n - 1], n>>] /\ f[n - 1] \in X
        BY <1>5, <3>2, <4>1 DEF Steps
      <4>3. F[<<f[n - 1], n>>] = AllocateNext(f[n - 1], request[n])
        BY <4>1, <4>2
      <4> HIDE DEF F
      <4> QED
        BY <3>2, <4>2, <4>3
    <3> QED
      BY <3>1, <3>2
  <2> QED
    BY <1>5, <2>1
<1>7. after = Body(after)
  BY <1>6
<1> HIDE DEF after, F, ByteLength
<1>8. /\ after[0] = start
      /\ \A n \in 1 .. Len(request) : after[n] = AllocateNext(after[n - 1], request[n])
  <2>1. \A n \in 0 .. Len(request) : after[n] = IF n = 0 THEN start ELSE AllocateNext(after[n - 1], request[n])
    BY <1>7
  <2>2. 0 \in 0 .. Len(request) /\ \A n \in 1 .. Len(request) : n \in 0 .. Len(request) /\ n # 0
    BY <1>0
  <2> QED
    BY <2>1, <2>2
<1>9. \A n \in 0 .. Len(request) : after[n] \in X
  <2>1. \A n \in 1 .. Len(request) : after[n - 1] \in X => after[n] \in X
    BY <1>0, <1>3, <1>8
  <2> QED
    BY <1>0, <1>2, <1>8, <2>1, RepetitionStays
<1>10. Len(request) \in 1 .. Len(request) /\ Len(request) - 1 \in 0 .. Len(request)
  BY <1>0
<1>11. after[Len(request)] \in X /\ (after[Len(request)].fault = "none" => after[Len(request)].blocks # <<>>)
  BY <1>0, <1>3, <1>8, <1>9, <1>10
<1> DEFINE a == after[Len(request)]
<1> HIDE DEF a
<1>12. a \in Encodings /\ Encoded(h, U, l, a) /\ (a.fault = "none" => a.blocks # <<>>)
  BY <1>11 DEF X, a
<1> QED
  BY <1>1, <1>12 DEF a

-----------------------------------------------------------------------------
(* free().                                                                 *)

(* The blocks gone are free again; every block keeps its size.             *)
Freed(h, U, l, gone, h2, l2) ==
    /\ Mem(h2, U, l2)
    /\ Members(l2) = Members(l) \cup gone
    /\ h2.top = h.top
    /\ \A u \in U : h2.header[u] = h.header[u]
    /\ \A s \in U \cup gone \cup Members(l) : Size(h2, s) = Size(h, s)

(* free() of a block changes its header and the head of the list only.     *)
LEMMA FreeHeaps ==
    ASSUME NEW h \in Heaps, NEW b \in HeapBlocks
    PROVE  /\ Free(h, b) \in Heaps /\ Free(h, b).top = h.top /\ Free(h, b).head = b.at
           /\ Free(h, b).header[b.at] = FreeHeader(b.len, h.head)
           /\ \A a \in Addresses : a # b.at => Free(h, b).header[a] = h.header[a]
<1>1. b.at \in Addresses /\ b.len \in Nat /\ h.head \in Addresses /\ h.header \in [Addresses -> Headers]
      /\ h.top \in Addresses /\ h.capacity \in Capacities
  BY DEF HeapBlocks, Heaps
<1>2. FreeHeader(b.len, h.head) \in Headers
  BY <1>1 DEF FreeHeader, Headers
<1> DEFINE header2 == [h.header EXCEPT ![b.at] = FreeHeader(b.len, h.head)]
<1>3. /\ header2 \in [Addresses -> Headers]
      /\ header2[b.at] = FreeHeader(b.len, h.head)
      /\ \A a \in Addresses : a # b.at => header2[a] = h.header[a]
  BY <1>1, <1>2
<1> HIDE DEF header2
<1>4. /\ Free(h, b).header = header2 /\ Free(h, b).top = h.top /\ Free(h, b).head = b.at
      /\ Free(h, b) \in [top : {h.top}, head : {b.at}, capacity : {h.capacity}, header : {header2}]
  BY DEF Free, Heaps, header2
<1>5. Free(h, b) \in Heaps
  BY <1>1, <1>3, <1>4 DEF Heaps
<1> QED
  BY <1>3, <1>4, <1>5

(* free() puts the block on the list, and leaves every other block alone.  *)
LEMMA FreeOne ==
    ASSUME NEW h, NEW U, NEW l, NEW b \in HeapBlocks, Mem(h, U \cup {b.at}, l),
           b.at \notin U, Size(h, b.at) = b.len
    PROVE  \E l2 : Freed(h, U, l, {b.at}, Free(h, b), l2)
<1> DEFINE x == b.at
           h2 == Free(h, b)
           S == (U \cup {x}) \cup Members(l)
           T == Addresses \ {0}
<1>1. h \in Heaps /\ Spread(h, S) /\ IsChain(h, h.head, l) /\ HeapStart <= h.top
      /\ (U \cup {x}) \cap Members(l) = {}
  BY DEF Mem
<1>2. x \in T /\ l \in Seq(T) /\ Injective(l) /\ S \subseteq Addresses
  <2>1. x \in S /\ x \in Addresses /\ HeapStart <= x /\ S \subseteq Addresses
    BY <1>1 DEF Spread
  <2>2. x # 0
    BY <2>1, AddressFacts
  <2> QED
    BY <1>1, <2>1, <2>2 DEF IsChain
<1>3. /\ h2 \in Heaps /\ h2.top = h.top /\ h2.head = x
      /\ h2.header[x] = FreeHeader(b.len, h.head)
      /\ \A a \in Addresses : a # x => h2.header[a] = h.header[a]
  BY <1>1, FreeHeaps
<1> HIDE DEF h2, T
<1> DEFINE one == <<x>>
           l2 == one \o l
<1>4. one \in Seq(T) /\ Len(one) = 1 /\ one[1] = x /\ Members(one) = {x} /\ Injective(one)
  BY <1>2 DEF Members, Injective
<1> HIDE DEF one, x
<1>5. Members(l2) = {x} \cup Members(l) /\ Injective(l2)
  <2>1. Members(one) \cap Members(l) = {}
    BY <1>1, <1>4
  <2> QED
    BY <1>2, <1>4, <2>1, MembersOfConcat, InjectiveConcat
<1>6. /\ l2 \in Seq(T) /\ Len(l) \in Nat /\ Len(l2) = 1 + Len(l)
      /\ \A i \in 1 .. 1 + Len(l) : l2[i] = IF i <= 1 THEN one[i] ELSE l[i - 1]
  <2>1. l \in Seq(T)
    BY <1>2
  <2>3. Len(l) \in Nat
    BY <2>1, LenProperties
  <2>2. /\ l2 \in Seq(T) /\ Len(l2) = Len(one) + Len(l)
        /\ \A i \in 1 .. Len(one) + Len(l) : l2[i] = IF i <= Len(one) THEN one[i] ELSE l[i - Len(one)]
    BY <1>4, <2>1, ConcatProperties
  <2> HIDE DEF l2
  <2> QED
    BY <1>4, <2>2, <2>3
<1> HIDE DEF l2
<1>7. Nth(l2, 1) = x /\ \A j \in Nat \ {0} : Nth(l2, j + 1) = Nth(l, j)
  <2>1. 1 \in 1 .. Len(l2) /\ 1 <= 1 /\ 1 \in 1 .. 1 + Len(l)
    BY <1>6
  <2>2. Nth(l2, 1) = x
    BY <1>4, <1>6, <2>1 DEF Nth
  <2>3. ASSUME NEW j \in Nat \ {0} PROVE Nth(l2, j + 1) = Nth(l, j)
    <3>1. (j + 1) - 1 = j /\ ~(j + 1 <= 1) /\ (j + 1 \in 1 .. Len(l2) <=> j \in 1 .. Len(l))
          /\ (j + 1 \in 1 .. Len(l2) => j + 1 \in 1 .. 1 + Len(l))
      BY <1>6
    <3> QED
      BY <1>6, <3>1 DEF Nth
  <2> QED
    BY <2>2, <2>3
<1>8. \A s \in S : Size(h2, s) = Size(h, s)
  <2>1. Size(h2, x) = Size(h, x)
    BY <1>3 DEF Size, FreeHeader, x
  <2>2. \A s \in S : s # x => Size(h2, s) = Size(h, s)
    BY <1>2, <1>3 DEF Size
  <2> QED
    BY <2>1, <2>2
<1>9. Spread(h2, S)
  <2>1. h.top <= h2.top
    BY <1>1, <1>3, HeapFacts
  <2> QED
    BY <1>1, <1>3, <1>8, <2>1, SpreadSame
<1>10. Intact(h2, x) /\ h2.header[x].next = Nth(l, 1)
  <2>1. h2.header[x].kind = "free" /\ h2.header[x].next = h.head /\ h2.header[x].len = Size(h2, x)
    BY <1>3 DEF FreeHeader, Size
  <2>2. HeapStart <= x /\ Minimum <= Size(h2, x) /\ Size(h2, x) % 8 = 0 /\ x + Size(h2, x) <= h2.top
    BY <1>9 DEF Spread
  <2>3. x \in Addresses /\ x \in Nat /\ Size(h2, x) \in Nat
    BY <1>2, <1>3, AddressFacts, HeapFacts
  <2>4. x >= HeapStart /\ Size(h2, x) >= Minimum
    BY <2>2, <2>3, AddressFacts
  <2>5. Intact(h2, x)
    BY <2>1, <2>2, <2>3, <2>4 DEF Intact
  <2> QED
    BY <1>1, <2>1, <2>5 DEF IsChain
<1>11. ASSUME NEW j \in 1 .. Len(l) PROVE Intact(h2, l[j]) /\ h2.header[l[j]].next = Nth(l, j + 1)
  <2>1. l[j] \in S /\ l[j] # x
    BY <1>1 DEF Members
  <2>2. Intact(h, l[j]) /\ h.header[l[j]].next = Nth(l, j + 1)
    BY <1>1 DEF IsChain
  <2>3. h2.header[l[j]] = h.header[l[j]]
    BY <1>2, <1>3, <2>1
  <2> QED
    BY <1>3, <2>2, <2>3 DEF Intact
<1>12. ASSUME NEW i \in 1 .. Len(l2) PROVE Intact(h2, l2[i]) /\ h2.header[l2[i]].next = Nth(l2, i + 1)
  <2>1. CASE i = 1
    <3>1. l2[i] = x /\ Nth(l2, i + 1) = Nth(l, 1)
      BY <1>4, <1>6, <1>7, <2>1
    <3> QED
      BY <1>10, <3>1
  <2>2. CASE i # 1
    <3>1. i - 1 \in 1 .. Len(l) /\ ~(i <= 1) /\ (i - 1) + 1 = i /\ i \in Nat \ {0} /\ i \in 1 .. 1 + Len(l)
      BY <1>6, <2>2
    <3>2. l2[i] = l[i - 1] /\ Nth(l2, i + 1) = Nth(l, i)
      BY <1>6, <1>7, <3>1
    <3> QED
      BY <1>11, <3>1, <3>2
  <2> QED
    BY <2>1, <2>2
<1>13. IsChain(h2, h2.head, l2)
  <2>1. \A i \in 1 .. Len(l2) : Intact(h2, l2[i]) /\ h2.header[l2[i]].next = Nth(l2, i + 1)
    BY <1>12
  <2> QED
    BY <1>3, <1>5, <1>6, <1>7, <2>1 DEF IsChain, T
<1>14. U \cup Members(l2) = S /\ U \cap Members(l2) = {} /\ U \cup {x} \cup Members(l) = S
  <2>1. x \notin U
    BY DEF x
  <2> QED
    BY <1>1, <1>5, <2>1
<1>15. Mem(h2, U, l2)
  BY <1>1, <1>3, <1>9, <1>13, <1>14 DEF Mem
<1>16. \A u \in U : h2.header[u] = h.header[u]
  <2>1. x \notin U
    BY DEF x
  <2> QED
    BY <1>2, <1>3, <2>1
<1>17. Freed(h, U, l, {x}, h2, l2)
  BY <1>3, <1>5, <1>8, <1>14, <1>15, <1>16 DEF Freed
<1> QED
  BY <1>17 DEF x, h2

(* Blocks freed after others.                                              *)
LEMMA FreedMore ==
    ASSUME NEW h, NEW U, NEW l, NEW gone, NEW h1, NEW l1, NEW more, NEW h2, NEW l2,
           Freed(h, U \cup more, l, gone, h1, l1), Freed(h1, U, l1, more, h2, l2)
    PROVE  Freed(h, U, l, gone \cup more, h2, l2)
<1>1. Mem(h2, U, l2) /\ h2.top = h.top
  BY DEF Freed
<1>2. Members(l2) = Members(l) \cup (gone \cup more)
  BY DEF Freed
<1>3. \A u \in U : h2.header[u] = h.header[u]
  BY DEF Freed
<1>4. ASSUME NEW s \in U \cup (gone \cup more) \cup Members(l) PROVE Size(h2, s) = Size(h, s)
  <2>1. s \in (U \cup more) \cup gone \cup Members(l) /\ s \in U \cup more \cup (Members(l) \cup gone)
    OBVIOUS
  <2>2. Size(h1, s) = Size(h, s)
    BY <2>1 DEF Freed
  <2>3. Size(h2, s) = Size(h1, s)
    BY <2>1 DEF Freed
  <2> QED
    BY <2>2, <2>3
<1> QED
  BY <1>1, <1>2, <1>3, <1>4 DEF Freed

(* All the blocks of a value.                                              *)
LEMMA FreeAllIsRight ==
    ASSUME NEW h, NEW U, NEW l, NEW blocks, Holds(h, blocks),
           Mem(h, U \cup StartsOf(blocks), l), U \cap StartsOf(blocks) = {}
    PROVE  \E l2 : Freed(h, U, l, StartsOf(blocks), FreeAll(h, blocks), l2)
<1> DEFINE N == Len(blocks)
           Body(f) == [n \in 0 .. N |-> IF n = 0 THEN h ELSE Free(f[n - 1], blocks[N + 1 - n])]
           after == CHOOSE f : f = Body(f)
           Nth1(n) == IF n \in 1 .. N THEN blocks[N + 1 - n] ELSE Block(0, 0)
           F == [p \in Heaps \X Nat |-> Free(p[1], Nth1(p[2]))]
<1>0. blocks \in Seq(HeapBlocks) /\ N \in Nat /\ h \in Heaps /\ \A i \in 1 .. N : blocks[i] \in HeapBlocks
  BY LenProperties, ElementOfSeq DEF Holds, Mem
<1>1. FreeAll(h, blocks) = after[N]
  BY DEF FreeAll
<1>2. \A n \in 1 .. N : N + 1 - n \in 1 .. N
  BY <1>0
<1>3. \A n \in Nat : Nth1(n) \in HeapBlocks
  <2>1. Block(0, 0) \in HeapBlocks
    BY AddressFacts DEF Block, HeapBlocks
  <2> QED
    BY <1>0, <1>2, <2>1
<1> HIDE DEF N, Nth1
<1>4. F \in [Heaps \X Nat -> Heaps]
  <2>1. ASSUME NEW p \in Heaps \X Nat PROVE Free(p[1], Nth1(p[2])) \in Heaps
    <3>1. p[1] \in Heaps /\ Nth1(p[2]) \in HeapBlocks
      BY <1>3
    <3> QED
      BY <3>1, FreeHeaps
  <2> QED
    BY <2>1
<1>5. PICK f \in [0 .. N -> Heaps] : Steps(f, F, h, N)
  <2> HIDE DEF F
  <2> QED
    BY <1>0, <1>4, StepsExist
<1>6. f = Body(f)
  <2>1. ASSUME NEW n \in 0 .. N PROVE f[n] = IF n = 0 THEN h ELSE Free(f[n - 1], blocks[N + 1 - n])
    <3>1. CASE n = 0
      BY <1>5, <3>1 DEF Steps
    <3>2. CASE n # 0
      <4>1. n - 1 \in 0 .. N /\ n \in 1 .. N /\ n \in Nat
        BY <1>0, <3>2
      <4>2. f[n] = F[<<f[n - 1], n>>] /\ f[n - 1] \in Heaps
        BY <1>5, <3>2, <4>1 DEF Steps
      <4>3. F[<<f[n - 1], n>>] = Free(f[n - 1], Nth1(n))
        BY <4>1, <4>2
      <4>4. Nth1(n) = blocks[N + 1 - n]
        BY <4>1 DEF Nth1
      <4> HIDE DEF F
      <4> QED
        BY <3>2, <4>2, <4>3, <4>4
    <3> QED
      BY <3>1, <3>2
  <2> QED
    BY <1>5, <2>1
<1>7. after = Body(after)
  BY <1>6
<1> HIDE DEF after, F
<1>8. /\ after[0] = h
      /\ \A n \in 1 .. N : after[n] = Free(after[n - 1], blocks[N + 1 - n])
  <2>1. \A n \in 0 .. N : after[n] = IF n = 0 THEN h ELSE Free(after[n - 1], blocks[N + 1 - n])
    BY <1>7
  <2>2. 0 \in 0 .. N /\ \A n \in 1 .. N : n \in 0 .. N /\ n # 0
    BY <1>0
  <2> QED
    BY <2>1, <2>2
<1> DEFINE Rest(n) == U \cup {blocks[i].at : i \in 1 .. N - n}
           Gone(n) == {blocks[i].at : i \in (N - n) + 1 .. N}
           Good(n) == \E ln : Freed(h, Rest(n), l, Gone(n), after[n], ln)
           Numbers == {n \in Nat : n <= N => Good(n)}
<1>9. 0 \in Numbers
  <2>1. N - 0 = N /\ (N + 1) .. N = {}
    BY <1>0
  <2>2. Rest(0) = U \cup StartsOf(blocks) /\ Gone(0) = {}
    BY <2>1 DEF StartsOf, N
  <2>3. Freed(h, U \cup StartsOf(blocks), l, {}, h, l)
    BY DEF Freed
  <2> HIDE DEF Rest, Gone
  <2> QED
    BY <1>8, <2>2, <2>3
<1>10. ASSUME NEW n \in Numbers PROVE n + 1 \in Numbers
  <2> HIDE DEF Good
  <2>0. n \in Nat /\ n + 1 \in Nat
    OBVIOUS
  <2> SUFFICES ASSUME n + 1 <= N PROVE Good(n + 1)
    BY <2>0
  <2> USE DEF Good
  <2>1. n \in Nat /\ n <= N /\ n + 1 \in 1 .. N /\ (n + 1) - 1 = n /\ N - n \in 1 .. N /\ N + 1 - (n + 1) = N - n
    BY <1>0
  <2>2. PICK ln : Freed(h, Rest(n), l, Gone(n), after[n], ln)
    BY <2>1
  <2> HIDE DEF Numbers
  <2> DEFINE k == N - n
             b == blocks[k]
  <2>3. after[n + 1] = Free(after[n], b)
    BY <1>8, <2>1
  <2>4. Rest(n) = Rest(n + 1) \cup {b.at}
    <3>1. \A i \in 1 .. k : i \in 1 .. N - (n + 1) \/ i = k
      BY <1>0, <2>1
    <3>2. k \in 1 .. k /\ \A i \in 1 .. N - (n + 1) : i \in 1 .. k
      BY <1>0, <2>1
    <3> HIDE DEF k
    <3>3. Rest(n) = U \cup {blocks[i].at : i \in 1 .. k}
      BY DEF k
    <3> QED
      BY <3>1, <3>2, <3>3
  <2>5. Gone(n + 1) = Gone(n) \cup {b.at}
    <3>1. \A i \in (N - (n + 1)) + 1 .. N : i \in (N - n) + 1 .. N \/ i = k
      BY <1>0, <2>1
    <3>2. k \in (N - (n + 1)) + 1 .. N /\ \A i \in (N - n) + 1 .. N : i \in (N - (n + 1)) + 1 .. N
      BY <1>0, <2>1
    <3> HIDE DEF k
    <3> QED
      BY <3>1, <3>2
  <2>6. b.at \notin Rest(n + 1)
    <3>1. b.at \in StartsOf(blocks)
      BY <2>1 DEF StartsOf, N
    <3>2. \A i \in 1 .. N - (n + 1) : i \in 1 .. N /\ i # k
      BY <1>0, <2>1
    <3>3. \A i \in 1 .. N - (n + 1) : blocks[i].at # b.at
      BY <2>1, <3>2 DEF Holds, N
    <3> QED
      BY <3>1, <3>3
  <2>7. b \in HeapBlocks
    BY <1>0, <2>1
  <2>8. Mem(after[n], Rest(n + 1) \cup {b.at}, ln)
    BY <2>2, <2>4 DEF Freed
  <2>9. Size(after[n], b.at) = b.len
    <3>1. b.at \in Rest(n)
      BY <2>4
    <3>2. after[n].header[b.at] = h.header[b.at]
      BY <2>2, <3>1 DEF Freed
    <3>3. h.header[b.at] = UsedHeader(b.len)
      BY <2>1 DEF Holds, N
    <3> HIDE DEF b
    <3> QED
      BY <3>2, <3>3 DEF Size, UsedHeader
  <2> HIDE DEF Rest, Gone, b
  <2>10. PICK l2 : Freed(after[n], Rest(n + 1), ln, {b.at}, Free(after[n], b), l2)
    BY <2>6, <2>7, <2>8, <2>9, FreeOne
  <2>11. Freed(h, Rest(n + 1), l, Gone(n) \cup {b.at}, Free(after[n], b), l2)
    BY <2>2, <2>4, <2>10, FreedMore
  <2> QED
    BY <2>3, <2>5, <2>11
<1>11. Good(N)
  <2> HIDE DEF Good
  <2>1. Numbers \subseteq Nat
    OBVIOUS
  <2> HIDE DEF Numbers
  <2>2. Numbers = Nat
    BY <1>9, <1>10, <2>1, InductionOnSet
  <2>3. N \in Numbers /\ N <= N
    BY <1>0, <2>2
  <2> QED
    BY <2>3 DEF Numbers
<1>12. Rest(N) = U /\ Gone(N) = StartsOf(blocks)
  <2>1. N - N = 0 /\ 1 .. 0 = {} /\ 0 + 1 = 1
    BY <1>0
  <2> QED
    BY <2>1 DEF StartsOf, N
<1> HIDE DEF Rest, Gone
<1> QED
  BY <1>1, <1>11, <1>12

-----------------------------------------------------------------------------
(* An encoding: its blocks, or none of them.                               *)
LEMMA EncodeIsRight ==
    ASSUME NEW h, NEW U, NEW l, Mem(h, U, l), NEW request \in Seq(Nat), request # <<>>,
           NEW a, a = AllocateAll(h, request)
    PROVE  /\ a.fault = "none" =>
                 /\ Holds(a.heap, a.blocks) /\ a.blocks # <<>>
                 /\ \E l2 : Grown(h, U, l, a.heap, l2, StartsOf(a.blocks))
           /\ a.fault # "none" => \E l2 : Grown(h, U, l, FreeAll(a.heap, a.blocks), l2, {})
<1>1. Encoded(h, U, l, a) /\ (a.fault = "none" => a.blocks # <<>>)
  BY AllocateAllIsRight
<1>2. CASE a.fault = "none"
  BY <1>1, <1>2 DEF Encoded
<1>3. CASE a.fault # "none"
  <2> DEFINE h3 == FreeAll(a.heap, a.blocks)
             new == StartsOf(a.blocks)
  <2>1. PICK l1 : Grown(h, U, l, a.heap, l1, new)
    BY <1>1 DEF Encoded
  <2>2. Mem(a.heap, U \cup new, l1) /\ U \cap new = {} /\ Holds(a.heap, a.blocks)
    BY <1>1, <2>1 DEF Encoded, Grown
  <2>3. PICK l3 : Freed(a.heap, U, l1, new, h3, l3)
    BY <2>2, FreeAllIsRight
  <2> HIDE DEF h3, new
  <2>4. h \in Heaps /\ a.heap \in Heaps /\ h3.top = a.heap.top /\ Mem(h3, U, l3)
    BY <2>2, <2>3 DEF Mem, Freed
  <2>5. h.top <= h3.top
    BY <2>1, <2>4 DEF Grown
  <2>6. \A u \in U : h3.header[u] = h.header[u]
    BY <2>1, <2>3 DEF Grown, Freed
  <2>7. Members(l3) = new \cup Members(l1) /\ \A s \in U \cup new \cup Members(l1) : Size(h3, s) = Size(a.heap, s)
    BY <2>3 DEF Freed
  <2>8. \A s \in Members(l3) : Within(h, l, s, Size(h3, s))
    BY <2>1, <2>7 DEF Grown
  <2>9. ASSUME Fills(h, U \cup Members(l)) PROVE Fills(h3, U \cup Members(l3))
    <3>1. Fills(a.heap, U \cup new \cup Members(l1))
      BY <2>1, <2>9 DEF Grown
    <3>2. Fills(h3, U \cup new \cup Members(l1))
      BY <2>4, <2>7, <3>1, FillsSame
    <3>3. U \cup new \cup Members(l1) = U \cup Members(l3)
      BY <2>7
    <3> QED
      BY <3>2, <3>3
  <2>10. U \cup {} = U /\ {} \cap U = {} /\ {} \cup Members(l3) = Members(l3) /\ U \cup {} \cup Members(l3) = U \cup Members(l3)
    OBVIOUS
  <2>11. Grown(h, U, l, h3, l3, {})
    BY <2>4, <2>5, <2>6, <2>8, <2>9, <2>10 DEF Grown
  <2> QED
    BY <1>3, <2>11 DEF h3
<1> QED
  BY <1>2, <1>3

-----------------------------------------------------------------------------
(* The whole memory: heap h, values v, arenas s; L[k] is the free list set *)
(* aside by the k-th arena, and behind them the current one.               *)

Arenas == [owner : Tasks \cup {"scratch"}, mark : Addresses, saved : Addresses]

(* Where the blocks of values start, those set aside, those current.       *)
LiveOf(v) == UNION {StartsOf(v[r]) : r \in DOMAIN v}
SavedOf(s, L) == UNION {Members(L[k]) : k \in 1 .. Len(s)}
CurrentOf(s, L) == Members(L[Len(s) + 1])
AllOf(v, s, L) == LiveOf(v) \cup SavedOf(s, L) \cup CurrentOf(s, L)
(* The k-th list has been current since the mark of the arena before it.   *)
Base(s, k) == IF k = 1 THEN HeapStart ELSE s[k - 1].mark

(* Values are intact, kept under their root, and share no block.           *)
ValuesAre(h, v) ==
    /\ \A r \in DOMAIN v : Holds(h, v[r]) /\ v[r] # <<>> /\ Root(v[r]) = r
    /\ \A r, q \in DOMAIN v : r # q => StartsOf(v[r]) \cap StartsOf(v[q]) = {}

(* Each arena set a list of its own aside.                                 *)
SavedAre(h, s, L) ==
    /\ \A k \in 1 .. Len(s) : IsChain(h, s[k].saved, L[k])
    /\ \A j, k \in 1 .. Len(s) : j # k => Members(L[j]) \cap Members(L[k]) = {}

(* No block lies across the mark of an arena, and what an arena set aside  *)
(* lies below its mark.                                                    *)
MarksAre(h, v, s, L) ==
    \A k \in 1 .. Len(s) :
        /\ HeapStart <= s[k].mark /\ s[k].mark <= h.top
        /\ \A j \in 1 .. k : s[j].mark <= s[k].mark
        /\ \A x \in Members(L[k]) : x < s[k].mark
        /\ \A x \in AllOf(v, s, L) : x < s[k].mark => x + Size(h, x) <= s[k].mark

(* Nothing is lost: the blocks fill the heap, a free list has blocks of    *)
(* its own arena only, and a value is below a mark or above it.            *)
IsWhole(h, v, s, L) ==
    /\ Fills(h, AllOf(v, s, L))
    /\ \A k \in 1 .. Len(s) + 1 : \A x \in Members(L[k]) : Base(s, k) <= x
    /\ \A r \in DOMAIN v : \A x, y \in StartsOf(v[r]) : \A k \in 1 .. Len(s) : x < s[k].mark => y < s[k].mark

(* The memory is well with the lists L.                                    *)
Well(h, v, s, c, L) ==
    /\ s \in Seq(Arenas)
    /\ Mem(h, LiveOf(v) \cup SavedOf(s, L), L[Len(s) + 1])
    /\ ValuesAre(h, v)
    /\ SavedAre(h, s, L)
    /\ MarksAre(h, v, s, L)
    /\ ~c => IsWhole(h, v, s, L)

(* What is known of a memory that is well: types, and blocks within the    *)
(* heap.                                                                   *)
LEMMA WellFacts ==
    ASSUME NEW h, NEW v, NEW s, NEW c, NEW L, Well(h, v, s, c, L)
    PROVE  /\ Len(s) \in Nat /\ \A k \in 1 .. Len(s) : s[k] \in Arenas /\ s[k].mark \in Addresses /\ s[k].mark \in Nat
           /\ h \in Heaps /\ h.top \in Nat /\ HeapStart <= h.top
           /\ Spread(h, AllOf(v, s, L))
           /\ \A x \in AllOf(v, s, L) : x \in Addresses /\ x \in Nat /\ Size(h, x) \in Nat /\ Size(h, x) >= 16
                                        /\ HeapStart <= x /\ x + Size(h, x) <= h.top
           /\ \A k \in 1 .. Len(s) + 1 : Members(L[k]) \subseteq AllOf(v, s, L)
<1>1. Len(s) \in Nat /\ \A k \in 1 .. Len(s) : s[k] \in Arenas
  BY LenProperties, ElementOfSeq DEF Well
<1>2. \A k \in 1 .. Len(s) : s[k].mark \in Addresses /\ s[k].mark \in Nat
  BY <1>1, AddressFacts DEF Arenas
<1>3. h \in Heaps /\ HeapStart <= h.top
  BY DEF Well, Mem
<1>4. Spread(h, AllOf(v, s, L))
  BY DEF Well, Mem, AllOf, CurrentOf
<1>5. ASSUME NEW x \in AllOf(v, s, L)
      PROVE  x \in Addresses /\ x \in Nat /\ Size(h, x) \in Nat /\ Size(h, x) >= 16
             /\ HeapStart <= x /\ x + Size(h, x) <= h.top
  BY <1>3, <1>4, AddressFacts, HeapFacts DEF Spread
<1>6. ASSUME NEW k \in 1 .. Len(s) + 1 PROVE Members(L[k]) \subseteq AllOf(v, s, L)
  <2>1. CASE k \in 1 .. Len(s)
    BY <2>1 DEF AllOf, SavedOf
  <2>2. CASE k = Len(s) + 1
    BY <2>2 DEF AllOf, CurrentOf
  <2> QED
    BY <1>1, <2>1, <2>2
<1> QED
  BY <1>1, <1>2, <1>3, <1>4, <1>5, <1>6, HeapFacts

(* A block in use is on no list.                                           *)
LEMMA LiveIsNotSaved ==
    ASSUME NEW h, NEW v, NEW s, NEW L, ValuesAre(h, v), SavedAre(h, s, L), NEW k \in 1 .. Len(s)
    PROVE  LiveOf(v) \cap Members(L[k]) = {}
<1> SUFFICES ASSUME NEW x \in LiveOf(v), x \in Members(L[k]) PROVE FALSE
  OBVIOUS
<1>1. PICK r \in DOMAIN v : x \in StartsOf(v[r])
  BY DEF LiveOf
<1>2. PICK i \in 1 .. Len(v[r]) : x = v[r][i].at
  BY <1>1 DEF StartsOf
<1>3. h.header[x] = UsedHeader(v[r][i].len)
  BY <1>2 DEF ValuesAre, Holds
<1>4. h.header[x].kind = "used"
  BY <1>3 DEF UsedHeader
<1>5. PICK j \in 1 .. Len(L[k]) : x = L[k][j]
  BY DEF Members
<1>6. h.header[x].kind = "free"
  BY <1>5 DEF SavedAre, IsChain, Intact
<1> QED
  BY <1>4, <1>6

-----------------------------------------------------------------------------
(* The lists, with another current one.                                    *)
Relisted(s, L, l2) == [k \in 1 .. Len(s) + 1 |-> IF k = Len(s) + 1 THEN l2 ELSE L[k]]

(* L2 is L with l2 for the current list.                                   *)
IsRelisted(v, s, L, l2, L2) ==
    /\ \A k \in 1 .. Len(s) : L2[k] = L[k]
    /\ L2[Len(s) + 1] = l2
    /\ SavedOf(s, L2) = SavedOf(s, L)
    /\ AllOf(v, s, L2) = LiveOf(v) \cup SavedOf(s, L) \cup Members(l2)
    /\ \A k \in 1 .. Len(s) + 1 : k \in 1 .. Len(s) \/ k = Len(s) + 1

(* Only the current list is another one.                                   *)
LEMMA RelistedFacts ==
    ASSUME NEW s \in Seq(Arenas), NEW L, NEW l2, NEW v
    PROVE  IsRelisted(v, s, L, l2, Relisted(s, L, l2))
<1>1. Len(s) \in Nat
  BY LenProperties
<1>2. \A k \in 1 .. Len(s) : k \in 1 .. Len(s) + 1 /\ k # Len(s) + 1
  BY <1>1
<1>3. Len(s) + 1 \in 1 .. Len(s) + 1
  BY <1>1
<1>4. \A k \in 1 .. Len(s) : Relisted(s, L, l2)[k] = L[k]
  BY <1>2 DEF Relisted
<1>5. Relisted(s, L, l2)[Len(s) + 1] = l2
  BY <1>3 DEF Relisted
<1>6. SavedOf(s, Relisted(s, L, l2)) = SavedOf(s, L)
  BY <1>4 DEF SavedOf
<1>7. AllOf(v, s, Relisted(s, L, l2)) = LiveOf(v) \cup SavedOf(s, L) \cup Members(l2)
  BY <1>5, <1>6 DEF AllOf, CurrentOf
<1>8. \A k \in 1 .. Len(s) + 1 : k \in 1 .. Len(s) \/ k = Len(s) + 1
  BY <1>1
<1> QED
  BY <1>4, <1>5, <1>6, <1>7, <1>8 DEF IsRelisted

(* The list of an arena is that list as long as its headers are kept.      *)
LEMMA ChainKept ==
    ASSUME NEW h, NEW h2, NEW first, NEW l, IsChain(h, first, l),
           \A x \in Members(l) : h2.header[x] = h.header[x] /\ x + Size(h, x) <= h2.top
    PROVE  IsChain(h2, first, l)
<1>1. ASSUME NEW j \in 1 .. Len(l) PROVE Intact(h2, l[j]) /\ h2.header[l[j]].next = Nth(l, j + 1)
  <2>1. l[j] \in Members(l)
    BY DEF Members
  <2>2. Intact(h, l[j]) /\ h.header[l[j]].next = Nth(l, j + 1)
    BY DEF IsChain
  <2>3. h2.header[l[j]] = h.header[l[j]] /\ l[j] + Size(h, l[j]) <= h2.top
    BY <2>1
  <2> QED
    BY <2>2, <2>3 DEF Intact, Size
<1> QED
  BY <1>1 DEF IsChain

(* Blocks that are new make the memory grow.                               *)
LEMMA WellGrows ==
    ASSUME NEW h, NEW v, NEW s, NEW c, NEW L, Well(h, v, s, c, L),
           NEW h2, NEW l2, NEW new,
           Grown(h, LiveOf(v) \cup SavedOf(s, L), L[Len(s) + 1], h2, l2, new),
           NEW v2, LiveOf(v2) = LiveOf(v) \cup new, ValuesAre(h2, v2),
           \A r \in DOMAIN v2 : (r \in DOMAIN v /\ v2[r] = v[r]) \/ StartsOf(v2[r]) \subseteq new
    PROVE  Well(h2, v2, s, c, Relisted(s, L, l2))
<1> DEFINE U == LiveOf(v) \cup SavedOf(s, L)
           l == L[Len(s) + 1]
           L2 == Relisted(s, L, l2)
           A == AllOf(v, s, L)
           A2 == AllOf(v2, s, L2)
<1>0. s \in Seq(Arenas) /\ h2 \in Heaps /\ Mem(h2, U \cup new, l2) /\ A = U \cup Members(l)
  BY DEF Well, Grown, Mem, AllOf, CurrentOf
<1>1. /\ \A k \in 1 .. Len(s) : L2[k] = L[k]
      /\ L2[Len(s) + 1] = l2 /\ SavedOf(s, L2) = SavedOf(s, L)
      /\ A2 = LiveOf(v2) \cup SavedOf(s, L) \cup Members(l2)
      /\ \A k \in 1 .. Len(s) + 1 : k \in 1 .. Len(s) \/ k = Len(s) + 1
  <2>1. s \in Seq(Arenas)
    BY DEF Well
  <2>2. IsRelisted(v2, s, L, l2, L2)
    BY <2>1, RelistedFacts
  <2> HIDE DEF L2, A2
  <2> QED
    BY <2>2 DEF IsRelisted, A2
<1> HIDE DEF L2
<1>2. A2 = U \cup new \cup Members(l2) /\ LiveOf(v2) \cup SavedOf(s, L2) = U \cup new
  BY <1>1
<1>3. /\ Len(s) \in Nat /\ \A k \in 1 .. Len(s) : s[k] \in Arenas /\ s[k].mark \in Nat
      /\ h \in Heaps /\ h.top \in Nat /\ HeapStart <= h.top
      /\ \A x \in A : x \in Nat /\ Size(h, x) \in Nat /\ x + Size(h, x) <= h.top
      /\ \A k \in 1 .. Len(s) + 1 : Members(L[k]) \subseteq A
  BY WellFacts
<1>4. h2.top \in Nat /\ h.top <= h2.top
  BY <1>0, HeapFacts DEF Grown
<1>5. \A x \in A2 : x \in Nat /\ Size(h2, x) \in Nat
  BY <1>0, <1>2, AddressFacts, HeapFacts DEF Mem, Spread
<1>6. \A u \in U : h2.header[u] = h.header[u] /\ Size(h2, u) = Size(h, u)
  BY DEF Grown, Size
<1>7. \A x \in new \cup Members(l2) : Within(h, l, x, Size(h2, x))
  BY DEF Grown
<1> HIDE DEF A, A2, U, l
<1>8. SavedAre(h2, s, L2)
  <2>1. ASSUME NEW k \in 1 .. Len(s) PROVE IsChain(h2, s[k].saved, L2[k])
    <3>1. IsChain(h, s[k].saved, L[k])
      BY DEF Well, SavedAre
    <3>2. ASSUME NEW x \in Members(L[k]) PROVE h2.header[x] = h.header[x] /\ x + Size(h, x) <= h2.top
      <4>1. x \in U /\ x \in A
        BY <1>0 DEF SavedOf, U
      <4>2. x \in Nat /\ Size(h, x) \in Nat /\ x + Size(h, x) <= h.top
        BY <1>3, <4>1
      <4>3. x + Size(h, x) <= h2.top
        BY <1>3, <1>4, <4>2
      <4> QED
        BY <1>6, <4>1, <4>3
    <3> QED
      BY <1>1, <3>1, <3>2, ChainKept
  <2> QED
    BY <1>1, <2>1 DEF Well, SavedAre
<1>9. MarksAre(h2, v2, s, L2)
  <2> SUFFICES ASSUME NEW k \in 1 .. Len(s)
               PROVE  /\ HeapStart <= s[k].mark /\ s[k].mark <= h2.top
                      /\ \A j \in 1 .. k : s[j].mark <= s[k].mark
                      /\ \A x \in Members(L2[k]) : x < s[k].mark
                      /\ \A x \in A2 : x < s[k].mark => x + Size(h2, x) <= s[k].mark
    BY DEF MarksAre, A2
  <2> DEFINE m == s[k].mark
  <2>1. /\ HeapStart <= m /\ m <= h.top /\ m \in Nat
        /\ \A j \in 1 .. k : s[j].mark <= m
        /\ \A x \in Members(L[k]) : x < m
        /\ \A x \in A : x < m => x + Size(h, x) <= m
    BY <1>3 DEF Well, MarksAre, A
  <2> HIDE DEF m
  <2>2. m <= h2.top
    BY <1>3, <1>4, <2>1
  <2>3. ASSUME NEW x \in A2, x < m PROVE x + Size(h2, x) <= m
    <3>1. CASE x \in U
      BY <1>0, <1>6, <2>1, <2>3, <3>1
    <3>2. CASE x \notin U
      <4>1. Within(h, l, x, Size(h2, x))
        BY <1>2, <1>7, <3>2
      <4>2. ~(x >= h.top)
        BY <1>3, <1>5, <2>1, <2>3
      <4>3. PICK y \in Members(l) : y <= x /\ x + Size(h2, x) <= y + Size(h, y)
        BY <4>1, <4>2 DEF Within
      <4>4. y \in A /\ y \in Nat /\ Size(h, y) \in Nat
        BY <1>0, <1>3
      <4>5. y < m
        BY <1>5, <2>1, <2>3, <4>3, <4>4
      <4>6. y + Size(h, y) <= m
        BY <2>1, <4>4, <4>5
      <4> QED
        BY <1>5, <2>1, <4>3, <4>4, <4>6
    <3> QED
      BY <3>1, <3>2
  <2>4. \A x \in Members(L2[k]) : x < m
    BY <1>1, <2>1
  <2> QED
    BY <2>1, <2>2, <2>3, <2>4 DEF m
<1>10. ASSUME ~c PROVE IsWhole(h2, v2, s, L2)
  <2>1. IsWhole(h, v, s, L)
    BY <1>10 DEF Well
  <2>2. Fills(h2, A2)
    <3>1. Fills(h, U \cup Members(l))
      BY <1>0, <2>1 DEF IsWhole, A
    <3>2. Fills(h2, U \cup new \cup Members(l2))
      BY <3>1 DEF Grown, U, l
    <3> QED
      BY <1>2, <3>2
  <2> DEFINE base == Base(s, Len(s) + 1)
  <2>3. base \in Nat /\ base <= h.top /\ \A k \in 1 .. Len(s) : s[k].mark <= base
    <3>1. CASE Len(s) = 0
      <4>1. Len(s) + 1 = 1 /\ 1 .. Len(s) = {}
        BY <3>1
      <4> QED
        BY <1>3, <4>1, AddressFacts DEF Base
    <3>2. CASE Len(s) # 0
      <4>1. Len(s) + 1 # 1 /\ (Len(s) + 1) - 1 = Len(s) /\ Len(s) \in 1 .. Len(s)
        BY <1>3, <3>2
      <4>2. base = s[Len(s)].mark
        BY <4>1 DEF Base
      <4> HIDE DEF base
      <4> QED
        BY <1>3, <4>1, <4>2 DEF Well, MarksAre
    <3> QED
      BY <3>1, <3>2
  <2>4. \A x \in Members(l) : base <= x
    <3>1. Len(s) + 1 \in 1 .. Len(s) + 1
      BY <1>3
    <3> QED
      BY <2>1, <3>1 DEF IsWhole, l
  <2> HIDE DEF base
  <2>5. ASSUME NEW x \in new \cup Members(l2) PROVE base <= x /\ x \in Nat
    <3>1. x \in A2 /\ x \in Nat /\ Within(h, l, x, Size(h2, x))
      BY <1>2, <1>5, <1>7
    <3>2. CASE x >= h.top
      BY <1>3, <2>3, <3>1, <3>2
    <3>3. CASE ~(x >= h.top)
      <4>1. PICK y \in Members(l) : y <= x
        BY <3>1, <3>3 DEF Within
      <4>2. y \in Nat /\ base <= y
        BY <1>0, <1>3, <2>4, <4>1
      <4> QED
        BY <2>3, <3>1, <4>1, <4>2
    <3> QED
      BY <3>2, <3>3
  <2>6. ASSUME NEW k \in 1 .. Len(s) + 1, NEW x \in Members(L2[k]) PROVE Base(s, k) <= x
    <3>1. CASE k \in 1 .. Len(s)
      <4>1. x \in Members(L[k])
        BY <1>1, <2>6, <3>1
      <4> QED
        BY <2>1, <4>1 DEF IsWhole
    <3>2. CASE k = Len(s) + 1
      <4>1. x \in Members(l2)
        BY <1>1, <2>6, <3>2
      <4> QED
        BY <2>5, <3>2, <4>1 DEF base
    <3> QED
      BY <1>1, <3>1, <3>2
  <2>7. ASSUME NEW r \in DOMAIN v2, NEW x \in StartsOf(v2[r]), NEW y \in StartsOf(v2[r]),
               NEW k \in 1 .. Len(s), x < s[k].mark
        PROVE  y < s[k].mark
    <3>1. CASE r \in DOMAIN v /\ v2[r] = v[r]
      BY <2>1, <2>7, <3>1 DEF IsWhole
    <3>2. CASE StartsOf(v2[r]) \subseteq new
      <4>1. base <= x /\ x \in Nat
        BY <2>5, <3>2
      <4>2. s[k].mark <= base /\ s[k].mark \in Nat
        BY <1>3, <2>3
      <4> QED
        BY <2>3, <2>7, <4>1, <4>2
    <3> QED
      BY <3>1, <3>2
  <2> QED
    BY <2>2, <2>6, <2>7 DEF IsWhole, A2
<1>11. Mem(h2, LiveOf(v2) \cup SavedOf(s, L2), L2[Len(s) + 1])
  BY <1>0, <1>1, <1>2
<1>12. Well(h2, v2, s, c, L2)
  BY <1>0, <1>8, <1>9, <1>10, <1>11 DEF Well
<1> QED
  BY <1>12 DEF L2

-----------------------------------------------------------------------------
(* Values that are forgotten.                                              *)
LEMMA KeptFacts ==
    ASSUME NEW v, NEW keys, keys \subseteq DOMAIN v
    PROVE  /\ DOMAIN Kept(v, keys) = keys
           /\ \A r \in keys : Kept(v, keys)[r] = v[r]
           /\ LiveOf(Kept(v, keys)) = UNION {StartsOf(v[r]) : r \in keys}
<1>1. (DOMAIN v) \cap keys = keys
  OBVIOUS
<1>2. DOMAIN Kept(v, keys) = keys /\ \A r \in keys : Kept(v, keys)[r] = v[r]
  BY <1>1 DEF Kept
<1> QED
  BY <1>2 DEF LiveOf

(* The values that stay are intact when their headers are.                 *)
LEMMA ValuesKept ==
    ASSUME NEW h, NEW v, NEW keys, keys \subseteq DOMAIN v, ValuesAre(h, v), NEW h2,
           \A r \in keys : \A x \in StartsOf(v[r]) : h2.header[x] = h.header[x]
    PROVE  ValuesAre(h2, Kept(v, keys))
<1>1. DOMAIN Kept(v, keys) = keys /\ \A r \in keys : Kept(v, keys)[r] = v[r]
  BY KeptFacts
<1>2. ASSUME NEW r \in keys PROVE Holds(h2, v[r]) /\ v[r] # <<>> /\ Root(v[r]) = r
  <2>1. Holds(h, v[r]) /\ v[r] # <<>> /\ Root(v[r]) = r
    BY DEF ValuesAre
  <2>2. ASSUME NEW i \in 1 .. Len(v[r]) PROVE h2.header[v[r][i].at] = UsedHeader(v[r][i].len)
    <3>1. v[r][i].at \in StartsOf(v[r])
      BY DEF StartsOf
    <3> QED
      BY <2>1, <3>1 DEF Holds
  <2> QED
    BY <2>1, <2>2 DEF Holds
<1>3. \A r, q \in keys : r # q => StartsOf(v[r]) \cap StartsOf(v[q]) = {}
  BY DEF ValuesAre
<1> HIDE DEF Kept
<1> QED
  BY <1>1, <1>2, <1>3 DEF ValuesAre

(* The mark of the innermost arena.                                        *)
MarkOf(s) == IF s = <<>> THEN 0 ELSE s[Len(s)].mark

(* A value is released.                                                    *)
LEMMA WellFrees ==
    ASSUME NEW h, NEW v, NEW s, NEW c, NEW L, Well(h, v, s, c, L), NEW root \in DOMAIN v,
           NEW c2, ~c2 => ~c /\ \A x \in StartsOf(v[root]) : MarkOf(s) <= x
    PROVE  \E l2 : Well(FreeAll(h, v[root]), Kept(v, (DOMAIN v) \ {root}), s, c2, Relisted(s, L, l2))
<1> DEFINE keys == (DOMAIN v) \ {root}
           v2 == Kept(v, keys)
           gone == StartsOf(v[root])
           h2 == FreeAll(h, v[root])
           U == LiveOf(v2) \cup SavedOf(s, L)
           l == L[Len(s) + 1]
           A == AllOf(v, s, L)
<1>1. /\ s \in Seq(Arenas) /\ Mem(h, LiveOf(v) \cup SavedOf(s, L), l)
      /\ ValuesAre(h, v) /\ SavedAre(h, s, L) /\ MarksAre(h, v, s, L)
  BY DEF Well
<1>2. DOMAIN v2 = keys /\ LiveOf(v2) = UNION {StartsOf(v[r]) : r \in keys} /\ \A r \in keys : v2[r] = v[r]
  BY KeptFacts
<1>3. LiveOf(v) = LiveOf(v2) \cup gone
  BY <1>2 DEF LiveOf
<1>4. U \cap gone = {}
  <2>1. ASSUME NEW r \in keys PROVE StartsOf(v[r]) \cap gone = {}
    BY <1>1 DEF ValuesAre
  <2>4. LiveOf(v2) \cap gone = {}
    BY <1>2, <2>1
  <2>2. \A k \in 1 .. Len(s) : LiveOf(v) \cap Members(L[k]) = {}
    BY <1>1, LiveIsNotSaved
  <2>3. SavedOf(s, L) \cap gone = {}
    BY <1>3, <2>2 DEF SavedOf
  <2> QED
    BY <2>3, <2>4
<1>5. LiveOf(v) \cup SavedOf(s, L) = U \cup gone /\ A = U \cup gone \cup Members(l)
  BY <1>3 DEF AllOf, CurrentOf
<1>6. Holds(h, v[root])
  BY <1>1 DEF ValuesAre
<1>7. PICK l2 : Freed(h, U, l, gone, h2, l2)
  BY <1>1, <1>4, <1>5, <1>6, FreeAllIsRight
<1> DEFINE L2 == Relisted(s, L, l2)
           A2 == AllOf(v2, s, L2)
<1>8. /\ \A k \in 1 .. Len(s) : L2[k] = L[k]
      /\ L2[Len(s) + 1] = l2 /\ SavedOf(s, L2) = SavedOf(s, L)
      /\ A2 = LiveOf(v2) \cup SavedOf(s, L) \cup Members(l2)
      /\ \A k \in 1 .. Len(s) + 1 : k \in 1 .. Len(s) \/ k = Len(s) + 1
  <2>1. IsRelisted(v2, s, L, l2, L2)
    BY <1>1, RelistedFacts
  <2> HIDE DEF L2, A2
  <2> QED
    BY <2>1 DEF IsRelisted, A2
<1> HIDE DEF L2, h2
<1>9. Mem(h2, U, l2) /\ Members(l2) = Members(l) \cup gone /\ h2.top = h.top
  BY <1>7 DEF Freed
<1>10. A2 = A
  BY <1>5, <1>8, <1>9
<1>11. \A x \in A : Size(h2, x) = Size(h, x)
  BY <1>5, <1>7 DEF Freed
<1>12. \A x \in U : h2.header[x] = h.header[x]
  BY <1>7 DEF Freed
<1>13. /\ Len(s) \in Nat /\ \A k \in 1 .. Len(s) : s[k].mark \in Nat
       /\ \A x \in A : x \in Nat /\ x + Size(h, x) <= h.top /\ HeapStart <= x
  BY WellFacts
<1>14. SavedAre(h2, s, L2)
  <2>1. ASSUME NEW k \in 1 .. Len(s) PROVE IsChain(h2, s[k].saved, L2[k])
    <3>1. IsChain(h, s[k].saved, L[k])
      BY <1>1 DEF SavedAre
    <3>2. ASSUME NEW x \in Members(L[k]) PROVE h2.header[x] = h.header[x] /\ x + Size(h, x) <= h2.top
      <4>1. x \in U /\ x \in A
        BY <1>5 DEF SavedOf
      <4> HIDE DEF U, A
      <4> QED
        BY <1>9, <1>12, <1>13, <4>1
    <3> QED
      BY <1>8, <3>1, <3>2, ChainKept
  <2> QED
    BY <1>1, <1>8, <2>1 DEF SavedAre
<1>15. ValuesAre(h2, v2)
  <2>1. \A r \in keys : \A x \in StartsOf(v[r]) : h2.header[x] = h.header[x]
    BY <1>2, <1>12
  <2>2. keys \subseteq DOMAIN v
    OBVIOUS
  <2> HIDE DEF keys
  <2> QED
    BY <1>1, <2>1, <2>2, ValuesKept
<1> HIDE DEF A, U, v2, A2
<1>16. MarksAre(h2, v2, s, L2)
  <2>1. \A k \in 1 .. Len(s) :
        /\ HeapStart <= s[k].mark /\ s[k].mark <= h2.top
        /\ \A j \in 1 .. k : s[j].mark <= s[k].mark
        /\ \A x \in Members(L2[k]) : x < s[k].mark
        /\ \A x \in A : x < s[k].mark => x + Size(h, x) <= s[k].mark
    BY <1>1, <1>8, <1>9 DEF MarksAre, A
  <2>2. \A k \in 1 .. Len(s) : \A x \in A2 : x < s[k].mark => x + Size(h2, x) <= s[k].mark
    BY <1>10, <1>11, <2>1
  <2> QED
    BY <2>1, <2>2 DEF MarksAre, A2
<1>17. ASSUME ~c2 PROVE IsWhole(h2, v2, s, L2)
  <2>1. IsWhole(h, v, s, L) /\ \A x \in gone : MarkOf(s) <= x
    BY <1>17 DEF Well
  <2>2. Fills(h2, A2)
    <3>1. Fills(h, A)
      BY <2>1 DEF IsWhole, A
    <3> QED
      BY <1>9, <1>10, <1>11, <3>1, FillsSame
  <2>3. ASSUME NEW x \in gone PROVE Base(s, Len(s) + 1) <= x
    <3>1. x \in A
      BY <1>5
    <3>2. CASE s = <<>>
      <4>1. Len(s) + 1 = 1
        BY <3>2
      <4> QED
        BY <1>13, <3>1, <4>1 DEF Base
    <3>3. CASE s # <<>>
      <4>1. Len(s) # 0
        BY <1>1, <3>3, EmptySeq
      <4>2. Len(s) + 1 # 1 /\ (Len(s) + 1) - 1 = Len(s)
        BY <1>13, <4>1
      <4>3. Base(s, Len(s) + 1) = s[Len(s)].mark /\ MarkOf(s) = s[Len(s)].mark
        BY <3>3, <4>2 DEF Base, MarkOf
      <4> QED
        BY <2>1, <4>3
    <3> QED
      BY <3>2, <3>3
  <2>4. ASSUME NEW k \in 1 .. Len(s) + 1, NEW x \in Members(L2[k]) PROVE Base(s, k) <= x
    <3>1. CASE k \in 1 .. Len(s)
      BY <1>8, <2>1, <2>4, <3>1 DEF IsWhole
    <3>2. CASE k = Len(s) + 1
      <4>1. x \in Members(l) \/ x \in gone
        BY <1>8, <1>9, <2>4, <3>2
      <4>2. x \in Members(l) => Base(s, k) <= x
        BY <2>1, <3>2 DEF IsWhole
      <4> QED
        BY <2>3, <3>2, <4>1, <4>2
    <3> QED
      BY <1>8, <3>1, <3>2
  <2>5. \A r \in DOMAIN v2 : \A x, y \in StartsOf(v2[r]) : \A k \in 1 .. Len(s) : x < s[k].mark => y < s[k].mark
    BY <1>2, <2>1 DEF IsWhole
  <2> QED
    BY <2>2, <2>4, <2>5 DEF IsWhole, A2
<1>18. Mem(h2, LiveOf(v2) \cup SavedOf(s, L2), L2[Len(s) + 1])
  BY <1>8, <1>9 DEF U
<1>19. Well(h2, v2, s, c2, L2)
  BY <1>1, <1>14, <1>15, <1>16, <1>17, <1>18 DEF Well
<1> QED
  BY <1>19 DEF L2, h2, v2

(* The lists once an arena is opened: none is current.                     *)
Deeper(s, L) == [k \in 1 .. Len(s) + 2 |-> IF k = Len(s) + 2 THEN <<>> ELSE L[k]]

(* One arena more, a, and its empty list.                                  *)
IsDeeper(v, s, L, a, s2, L2) ==
    /\ Len(s) \in Nat /\ s2 \in Seq(Arenas) /\ Len(s2) = Len(s) + 1 /\ Len(s2) + 1 = Len(s) + 2
    /\ \A k \in 1 .. Len(s) : s2[k] = s[k] /\ k \in 1 .. Len(s) + 1
    /\ s2[Len(s) + 1] = a
    /\ \A k \in 1 .. Len(s) + 1 : L2[k] = L[k]
    /\ L2[Len(s) + 2] = <<>>
    /\ SavedOf(s2, L2) = SavedOf(s, L) \cup CurrentOf(s, L)
    /\ AllOf(v, s2, L2) = AllOf(v, s, L)
    /\ \A k \in 1 .. Len(s) + 1 : k \in 1 .. Len(s) \/ k = Len(s) + 1
    /\ \A k \in 1 .. Len(s) + 2 : k \in 1 .. Len(s) + 1 \/ k = Len(s) + 2

(* The arenas and lists once an arena is opened on a heap.                 *)
LEMMA DeeperFacts ==
    ASSUME NEW s \in Seq(Arenas), NEW a \in Arenas, NEW L, NEW v, NEW s2, s2 = Append(s, a)
    PROVE  IsDeeper(v, s, L, a, s2, Deeper(s, L))
<1> DEFINE L2 == Deeper(s, L)
<1>1. Len(s) \in Nat
  BY LenProperties
<1>2. s2 \in Seq(Arenas) /\ Len(s2) = Len(s) + 1 /\ s2[Len(s) + 1] = a /\ \A k \in 1 .. Len(s) : s2[k] = s[k]
  BY AppendProperties
<1>3. Len(s2) + 1 = Len(s) + 2 /\ Len(s) + 2 \in 1 .. Len(s) + 2
  BY <1>1, <1>2
<1>4. /\ \A k \in 1 .. Len(s) + 1 : k \in 1 .. Len(s) \/ k = Len(s) + 1
      /\ \A k \in 1 .. Len(s) + 2 : k \in 1 .. Len(s) + 1 \/ k = Len(s) + 2
      /\ \A k \in 1 .. Len(s) + 1 : k \in 1 .. Len(s) + 2 /\ k # Len(s) + 2
      /\ \A k \in 1 .. Len(s) : k \in 1 .. Len(s) + 1
      /\ Len(s) + 1 \in 1 .. Len(s) + 1
  BY <1>1
<1>5. L2[Len(s) + 2] = <<>> /\ \A k \in 1 .. Len(s) + 1 : L2[k] = L[k]
  BY <1>3, <1>4 DEF Deeper
<1> HIDE DEF L2
<1>6. SavedOf(s2, L2) = UNION {Members(L2[k]) : k \in 1 .. Len(s) + 1}
  BY <1>2 DEF SavedOf
<1>7. SavedOf(s2, L2) = SavedOf(s, L) \cup CurrentOf(s, L)
  <2>1. \A x : x \in SavedOf(s2, L2) <=> \E k \in 1 .. Len(s) + 1 : x \in Members(L[k])
    BY <1>5, <1>6
  <2>2. \A x : x \in SavedOf(s, L) \cup CurrentOf(s, L) <=> \E k \in 1 .. Len(s) + 1 : x \in Members(L[k])
    BY <1>4 DEF SavedOf, CurrentOf
  <2> QED
    BY <2>1, <2>2
<1>8. CurrentOf(s2, L2) = {}
  <2>1. Len(<<>>) = 0 /\ 1 .. 0 = {}
    BY EmptySeq
  <2>2. Members(<<>>) = {}
    BY <2>1 DEF Members
  <2> QED
    BY <1>3, <1>5, <2>2 DEF CurrentOf
<1>9. AllOf(v, s2, L2) = AllOf(v, s, L)
  BY <1>7, <1>8 DEF AllOf
<1>10. /\ \A k \in 1 .. Len(s) + 1 : Deeper(s, L)[k] = L[k]
       /\ Deeper(s, L)[Len(s) + 2] = <<>>
       /\ SavedOf(s2, Deeper(s, L)) = SavedOf(s, L) \cup CurrentOf(s, L)
       /\ AllOf(v, s2, Deeper(s, L)) = AllOf(v, s, L)
  BY <1>5, <1>7, <1>9 DEF L2
<1> QED
  BY <1>1, <1>2, <1>3, <1>4, <1>10 DEF IsDeeper

(* An arena is opened.                                                     *)
LEMMA WellOpens ==
    ASSUME NEW h, NEW v, NEW s, NEW c, NEW L, Well(h, v, s, c, L),
           NEW a \in Arenas, a.mark = h.top, a.saved = h.head,
           NEW h2, h2 = [h EXCEPT !.head = 0],
           NEW s2, s2 = Append(s, a)
    PROVE  Well(h2, v, s2, c, Deeper(s, L))
<1> DEFINE L2 == Deeper(s, L)
           A == AllOf(v, s, L)
           N == Len(s)
<1>1. /\ s \in Seq(Arenas) /\ Mem(h, LiveOf(v) \cup SavedOf(s, L), L[N + 1])
      /\ ValuesAre(h, v) /\ SavedAre(h, s, L) /\ MarksAre(h, v, s, L)
  BY DEF Well
<1>2. /\ N \in Nat /\ s2 \in Seq(Arenas) /\ Len(s2) = N + 1 /\ Len(s2) + 1 = N + 2
      /\ \A k \in 1 .. N : s2[k] = s[k] /\ k \in 1 .. N + 1
      /\ s2[N + 1] = a
      /\ \A k \in 1 .. N + 1 : L2[k] = L[k]
      /\ L2[N + 2] = <<>>
      /\ SavedOf(s2, L2) = SavedOf(s, L) \cup CurrentOf(s, L)
      /\ AllOf(v, s2, L2) = A
      /\ \A k \in 1 .. N + 1 : k \in 1 .. N \/ k = N + 1
      /\ \A k \in 1 .. N + 2 : k \in 1 .. N + 1 \/ k = N + 2
  <2>1. IsDeeper(v, s, L, a, s2, L2)
    BY <1>1, DeeperFacts
  <2> HIDE DEF L2
  <2> QED
    BY <2>1 DEF IsDeeper
<1> HIDE DEF L2
<1>3. /\ h \in Heaps /\ h.top \in Nat /\ HeapStart <= h.top /\ Spread(h, A)
      /\ \A k \in 1 .. N : s[k].mark \in Nat
      /\ \A x \in A : x \in Nat /\ Size(h, x) \in Nat /\ Size(h, x) >= 16 /\ x + Size(h, x) <= h.top
      /\ \A k \in 1 .. N + 1 : Members(L[k]) \subseteq A
  BY WellFacts
<1>4. h2 \in Heaps /\ h2.top = h.top /\ h2.header = h.header /\ h2.head = 0
  <2>1. h2.top = h.top /\ h2.header = h.header /\ h2.head = 0 /\ h2.capacity = h.capacity
    BY <1>3 DEF Heaps
  <2>2. h2 \in [top : {h2.top}, head : {h2.head}, capacity : {h2.capacity}, header : {h2.header}]
    BY <1>3 DEF Heaps
  <2>3. h2.top \in Addresses /\ h2.head \in Addresses /\ h2.capacity \in Capacities /\ h2.header \in [Addresses -> Headers]
    BY <1>3, <2>1, AddressFacts DEF Heaps
  <2> QED
    BY <2>1, <2>2, <2>3 DEF Heaps
<1>5. \A x : Size(h2, x) = Size(h, x) /\ h2.header[x] = h.header[x]
  BY <1>4 DEF Size
<1>6. Mem(h2, LiveOf(v) \cup SavedOf(s2, L2), L2[Len(s2) + 1])
  <2>1. Len(<<>>) = 0 /\ 1 .. 0 = {} /\ <<>> \in Seq(Addresses \ {0})
    BY EmptySeq
  <2>2. Members(<<>>) = {} /\ Injective(<<>>) /\ Nth(<<>>, 1) = 0
    BY <2>1 DEF Members, Injective, Nth
  <2>3. IsChain(h2, h2.head, <<>>)
    BY <1>4, <2>1, <2>2 DEF IsChain
  <2>4. LiveOf(v) \cup SavedOf(s2, L2) = A
    BY <1>2 DEF AllOf
  <2> HIDE DEF A
  <2>5. Spread(h2, A)
    BY <1>3, <1>4, <1>5 DEF Spread
  <2>6. L2[Len(s2) + 1] = <<>>
    BY <1>2
  <2> QED
    BY <1>3, <1>4, <2>2, <2>3, <2>4, <2>5, <2>6 DEF Mem
<1>7. ValuesAre(h2, v)
  BY <1>1, <1>5 DEF ValuesAre, Holds
<1>8. SavedAre(h2, s2, L2)
  <2>1. ASSUME NEW k \in 1 .. N + 1 PROVE IsChain(h2, s2[k].saved, L2[k])
    <3>1. IsChain(h, s2[k].saved, L[k])
      <4>1. CASE k \in 1 .. N
        BY <1>1, <1>2, <4>1 DEF SavedAre
      <4>2. CASE k = N + 1
        BY <1>1, <1>2, <4>2 DEF Mem
      <4> QED
        BY <1>2, <4>1, <4>2
    <3>2. \A x \in Members(L[k]) : h2.header[x] = h.header[x] /\ x + Size(h, x) <= h2.top
      BY <1>3, <1>4
    <3>3. IsChain(h2, s2[k].saved, L[k])
      BY <3>1, <3>2, ChainKept
    <3> QED
      BY <1>2, <3>3
  <2>2. ASSUME NEW j \in 1 .. N PROVE Members(L[j]) \cap Members(L[N + 1]) = {}
    BY <1>1 DEF Mem, SavedOf
  <2>3. ASSUME NEW j \in 1 .. N + 1, NEW k \in 1 .. N + 1, j # k
        PROVE  Members(L2[j]) \cap Members(L2[k]) = {}
    <3>1. Members(L[j]) \cap Members(L[k]) = {}
      <4>1. CASE j \in 1 .. N /\ k \in 1 .. N
        BY <1>1, <2>3, <4>1 DEF SavedAre
      <4>2. CASE j = N + 1 \/ k = N + 1
        BY <1>2, <2>2, <2>3, <4>2
      <4> QED
        BY <1>2, <4>1, <4>2
    <3> QED
      BY <1>2, <3>1
  <2> QED
    BY <1>2, <2>1, <2>3 DEF SavedAre
<1> HIDE DEF A
<1>9. MarksAre(h2, v, s2, L2)
  <2> DEFINE m(k) == s2[k].mark
  <2>1. ASSUME NEW k \in 1 .. N
        PROVE  /\ HeapStart <= m(k) /\ m(k) <= h.top
               /\ \A j \in 1 .. k : m(j) <= m(k)
               /\ \A x \in Members(L2[k]) : x < m(k)
               /\ \A x \in A : x < m(k) => x + Size(h, x) <= m(k)
    <3>1. /\ HeapStart <= s[k].mark /\ s[k].mark <= h.top
          /\ \A j \in 1 .. k : s[j].mark <= s[k].mark
          /\ \A x \in Members(L[k]) : x < s[k].mark
          /\ \A x \in A : x < s[k].mark => x + Size(h, x) <= s[k].mark
      BY <1>1 DEF MarksAre, A
    <3>2. m(k) = s[k].mark /\ L2[k] = L[k]
      BY <1>2
    <3>3. \A j \in 1 .. k : m(j) = s[j].mark
      <4>1. \A j \in 1 .. k : j \in 1 .. N
        BY <1>2
      <4> QED
        BY <1>2, <4>1
    <3> HIDE DEF m
    <3> QED
      BY <3>1, <3>2, <3>3
  <2>2. m(N + 1) = h.top
    BY <1>2
  <2> HIDE DEF m
  <2>3. \A x \in A : x < h.top /\ x + Size(h, x) <= h.top
    BY <1>3
  <2>4. \A j \in 1 .. N + 1 : m(j) <= h.top
    BY <1>2, <1>3, <2>1, <2>2
  <2>5. ASSUME NEW k \in 1 .. N + 1
        PROVE  /\ HeapStart <= m(k) /\ m(k) <= h2.top
               /\ \A j \in 1 .. k : m(j) <= m(k)
               /\ \A x \in Members(L2[k]) : x < m(k)
               /\ \A x \in AllOf(v, s2, L2) : x < m(k) => x + Size(h2, x) <= m(k)
    <3>1. CASE k \in 1 .. N
      BY <1>2, <1>4, <1>5, <2>1, <3>1
    <3>2. CASE k = N + 1
      <4>1. HeapStart <= m(k) /\ m(k) <= h2.top /\ \A j \in 1 .. k : m(j) <= m(k)
        BY <1>3, <1>4, <2>2, <2>4, <3>2
      <4>2. \A x \in Members(L2[k]) : x < m(k)
        <5>1. L2[k] = L[k] /\ Members(L[k]) \subseteq A
          BY <1>2, <1>3
        <5> QED
          BY <2>2, <2>3, <3>2, <5>1
      <4>3. \A x \in AllOf(v, s2, L2) : x < m(k) => x + Size(h2, x) <= m(k)
        BY <1>2, <1>5, <2>2, <2>3, <3>2
      <4> QED
        BY <4>1, <4>2, <4>3
    <3> QED
      BY <1>2, <3>1, <3>2
  <2> QED
    BY <1>2, <2>5 DEF MarksAre, m
<1>10. ASSUME ~c PROVE IsWhole(h2, v, s2, L2)
  <2>1. IsWhole(h, v, s, L)
    BY <1>10 DEF Well
  <2>2. Fills(h2, AllOf(v, s2, L2))
    <3>1. Fills(h, A)
      BY <2>1 DEF IsWhole, A
    <3>2. Fills(h2, A)
      BY <1>4, <1>5, <3>1 DEF Fills
    <3> QED
      BY <1>2, <3>2
  <2>3. ASSUME NEW k \in 1 .. N + 2, NEW x \in Members(L2[k]) PROVE Base(s2, k) <= x
    <3>1. CASE k = N + 2
      <4>1. L2[k] = <<>>
        BY <1>2, <3>1
      <4>2. Len(<<>>) = 0 /\ 1 .. 0 = {}
        BY EmptySeq
      <4> QED
        BY <2>3, <4>1, <4>2 DEF Members
    <3>2. CASE k \in 1 .. N + 1
      <4>1. x \in Members(L[k])
        BY <1>2, <2>3, <3>2
      <4>2. Base(s, k) <= x
        BY <2>1, <3>2, <4>1 DEF IsWhole
      <4>3. k # 1 => k - 1 \in 1 .. N
        BY <1>2, <3>2
      <4>4. Base(s2, k) = Base(s, k)
        BY <1>2, <4>3 DEF Base
      <4> QED
        BY <4>2, <4>4
    <3> QED
      BY <1>2, <3>1, <3>2
  <2>4. ASSUME NEW r \in DOMAIN v, NEW x \in StartsOf(v[r]), NEW y \in StartsOf(v[r]),
               NEW k \in 1 .. N + 1, x < s2[k].mark
        PROVE  y < s2[k].mark
    <3>1. CASE k \in 1 .. N
      BY <1>2, <2>1, <2>4, <3>1 DEF IsWhole
    <3>2. CASE k = N + 1
      <4>1. y \in A
        BY DEF A, AllOf, LiveOf
      <4>2. s2[k].mark = h.top
        BY <1>2, <3>2
      <4> QED
        BY <1>3, <4>1, <4>2
    <3> QED
      BY <1>2, <3>1, <3>2
  <2> HIDE DEF N
  <2> QED
    BY <1>2, <2>2, <2>3, <2>4 DEF IsWhole
<1>11. Well(h2, v, s2, c, L2)
  BY <1>2, <1>6, <1>7, <1>8, <1>9, <1>10 DEF Well
<1> QED
  BY <1>11 DEF L2

(* The innermost arena is closed: s2 and v2 are what is left of s and v.   *)
IsShallower(v, s, L, keys, s2, v2) ==
    /\ Len(s) \in Nat /\ Len(s) >= 1 /\ Len(s) \in 1 .. Len(s)
    /\ s2 \in Seq(Arenas) /\ Len(s2) = Len(s) - 1 /\ Len(s2) + 1 = Len(s)
    /\ \A k \in 1 .. Len(s) - 1 : s2[k] = s[k] /\ k \in 1 .. Len(s) /\ k # Len(s)
    /\ \A k \in 1 .. Len(s) : k \in 1 .. Len(s) - 1 \/ k = Len(s)
    /\ SavedOf(s, L) = SavedOf(s2, L) \cup Members(L[Len(s)])
    /\ AllOf(v2, s2, L) = LiveOf(v2) \cup SavedOf(s, L)
    /\ DOMAIN v2 = keys /\ \A r \in keys : v2[r] = v[r]
    /\ LiveOf(v2) = UNION {StartsOf(v[r]) : r \in keys}
    /\ LiveOf(v2) \subseteq LiveOf(v)

(* What is left once the innermost arena is closed.                        *)
LEMMA ShallowerFacts ==
    ASSUME NEW s \in Seq(Arenas), s # <<>>, NEW L, NEW v, NEW keys, keys \subseteq DOMAIN v,
           NEW s2, s2 = SubSeq(s, 1, Len(s) - 1), NEW v2, v2 = Kept(v, keys)
    PROVE  IsShallower(v, s, L, keys, s2, v2)
<1>1. Len(s) \in Nat /\ Len(s) # 0
  BY LenProperties, EmptySeq
<1>2. Len(s) >= 1 /\ Len(s) \in 1 .. Len(s) /\ Len(s) - 1 \in Nat
  BY <1>1
<1>3. /\ \A k \in 1 .. Len(s) - 1 : k \in 1 .. Len(s) /\ k # Len(s)
      /\ \A k \in 1 .. Len(s) : k \in 1 .. Len(s) - 1 \/ k = Len(s)
  BY <1>1
<1>4. s2 \in Seq(Arenas) /\ Len(s2) = Len(s) - 1 /\ \A k \in 1 .. Len(s) - 1 : s2[k] = s[k]
  <2> DEFINE n == Len(s) - 1
  <2>1. \A k \in 1 .. n : s[k] \in Arenas
    BY <1>3, ElementOfSeq
  <2>2. n \in Nat /\ n \in Int /\ 1 \in Int
    BY <1>2
  <2> HIDE DEF n
  <2>3. /\ SubSeq(s, 1, n) \in Seq(Arenas)
        /\ Len(SubSeq(s, 1, n)) = IF 1 <= n THEN n - 1 + 1 ELSE 0
        /\ \A k \in 1 .. n - 1 + 1 : SubSeq(s, 1, n)[k] = s[1 + k - 1]
    BY <2>1, <2>2, SubSeqProperties
  <2>4. n - 1 + 1 = n /\ (~(1 <= n) => n = 0) /\ \A k \in 1 .. n : 1 + k - 1 = k
    BY <2>2
  <2>5. s2 = SubSeq(s, 1, n)
    BY DEF n
  <2>6. s2 \in Seq(Arenas) /\ Len(s2) = n /\ \A k \in 1 .. n : s2[k] = s[k]
    BY <2>3, <2>4, <2>5
  <2> QED
    BY <2>6 DEF n
<1>5. Len(s2) + 1 = Len(s)
  BY <1>1, <1>4
<1>6. SavedOf(s, L) = SavedOf(s2, L) \cup Members(L[Len(s)])
  <2>1. \A x : x \in SavedOf(s, L) <=> \E k \in 1 .. Len(s) : x \in Members(L[k])
    BY DEF SavedOf
  <2>2. \A x : x \in SavedOf(s2, L) <=> \E k \in 1 .. Len(s) - 1 : x \in Members(L[k])
    BY <1>4 DEF SavedOf
  <2> QED
    BY <1>2, <1>3, <2>1, <2>2
<1>7. AllOf(v2, s2, L) = LiveOf(v2) \cup SavedOf(s, L)
  <2>1. CurrentOf(s2, L) = Members(L[Len(s)])
    BY <1>5 DEF CurrentOf
  <2> QED
    BY <1>6, <2>1 DEF AllOf
<1>8. DOMAIN v2 = keys /\ LiveOf(v2) = UNION {StartsOf(v[r]) : r \in keys} /\ \A r \in keys : v2[r] = v[r]
  BY KeptFacts
<1>9. LiveOf(v2) \subseteq LiveOf(v)
  BY <1>8 DEF LiveOf
<1> QED
  BY <1>1, <1>2, <1>3, <1>4, <1>5, <1>6, <1>7, <1>8, <1>9 DEF IsShallower

(* The heap once arena a is reset.                                         *)
ResetTo(h, a) == [h EXCEPT !.top = a.mark, !.head = a.saved, !.header = Cleared(@, a.mark)]

(* What lies below the mark is kept by a reset.                            *)
LEMMA ClearedFacts ==
    ASSUME NEW h \in Heaps, NEW a \in Arenas, NEW h2, h2 = ResetTo(h, a)
    PROVE  /\ h2 \in Heaps /\ h2.top = a.mark /\ h2.head = a.saved
           /\ \A x \in Addresses : ~(x >= a.mark) => h2.header[x] = h.header[x]
<1>1. a.mark \in Addresses /\ a.saved \in Addresses
  BY DEF Arenas
<1>2. h.header \in [Addresses -> Headers] /\ h.capacity \in Capacities
  BY DEF Heaps
<1> DEFINE header2 == Cleared(h.header, a.mark)
<1>3. NoHeader \in Headers
  BY AddressFacts DEF NoHeader, Headers
<1>4. header2 \in [Addresses -> Headers] /\ \A x \in Addresses : ~(x >= a.mark) => header2[x] = h.header[x]
  BY <1>2, <1>3 DEF Cleared
<1> HIDE DEF header2
<1>5. h2.top = a.mark /\ h2.head = a.saved /\ h2.header = header2
  BY DEF Heaps, header2, ResetTo
<1>6. h2 \in [top : {a.mark}, head : {a.saved}, capacity : {h.capacity}, header : {header2}]
  BY DEF Heaps, header2, ResetTo
<1>7. h2 \in Heaps
  BY <1>1, <1>2, <1>4, <1>6 DEF Heaps
<1> QED
  BY <1>4, <1>5, <1>7

(* The innermost arena is reset.                                           *)
LEMMA WellResets ==
    ASSUME NEW h, NEW v, NEW s, NEW c, NEW L, Well(h, v, s, c, L), s # <<>>,
           NEW a, a = s[Len(s)],
           NEW keys, keys \subseteq DOMAIN v,
           \A r \in DOMAIN v : r \in keys <=> \A x \in StartsOf(v[r]) : ~(x >= a.mark),
           NEW h2, h2 = ResetTo(h, a),
           NEW s2, s2 = SubSeq(s, 1, Len(s) - 1), NEW v2, v2 = Kept(v, keys)
    PROVE  Well(h2, v2, s2, c, L)
<1> DEFINE A == AllOf(v, s, L)
           A2 == AllOf(v2, s2, L)
           N == Len(s)
           m == a.mark
<1>1. /\ s \in Seq(Arenas) /\ Mem(h, LiveOf(v) \cup SavedOf(s, L), L[N + 1])
      /\ ValuesAre(h, v) /\ SavedAre(h, s, L) /\ MarksAre(h, v, s, L)
  BY DEF Well
<1>2. IsShallower(v, s, L, keys, s2, v2)
  BY <1>1, ShallowerFacts
<1>3. /\ N \in Nat /\ N >= 1 /\ N \in 1 .. N
      /\ s2 \in Seq(Arenas) /\ Len(s2) = N - 1 /\ Len(s2) + 1 = N
      /\ \A k \in 1 .. N - 1 : s2[k] = s[k] /\ k \in 1 .. N /\ k # N
      /\ \A k \in 1 .. N : k \in 1 .. N - 1 \/ k = N
  BY <1>2 DEF IsShallower
<1>4. /\ SavedOf(s, L) = SavedOf(s2, L) \cup Members(L[N])
      /\ A2 = LiveOf(v2) \cup SavedOf(s, L)
      /\ DOMAIN v2 = keys /\ \A r \in keys : v2[r] = v[r]
      /\ LiveOf(v2) = UNION {StartsOf(v[r]) : r \in keys}
      /\ LiveOf(v2) \subseteq LiveOf(v)
  BY <1>2 DEF IsShallower
<1>5. A2 \subseteq A
  BY <1>4 DEF AllOf
<1>6. /\ h \in Heaps /\ h.top \in Nat /\ Spread(h, A)
      /\ \A k \in 1 .. N : s[k] \in Arenas /\ s[k].mark \in Nat
      /\ \A x \in A : x \in Addresses /\ x \in Nat /\ Size(h, x) \in Nat /\ x + Size(h, x) <= h.top
  BY WellFacts
<1>7. /\ a \in Arenas /\ m \in Nat /\ HeapStart <= m /\ m <= h.top
      /\ \A k \in 1 .. N : s[k].mark <= m
      /\ \A x \in A : x < m => x + Size(h, x) <= m
  BY <1>1, <1>3, <1>6 DEF MarksAre, A
<1>8. /\ h2 \in Heaps /\ h2.top = m /\ h2.head = a.saved
      /\ \A x \in Addresses : ~(x >= m) => h2.header[x] = h.header[x]
  <2>1. h2 \in Heaps /\ h2.top = a.mark /\ h2.head = a.saved
        /\ \A x \in Addresses : ~(x >= a.mark) => h2.header[x] = h.header[x]
    BY <1>6, <1>7, ClearedFacts
  <2> QED
    BY <2>1
<1> HIDE DEF A, A2, m
<1>9. ASSUME NEW x \in A2 PROVE x < m /\ x \in A /\ x \in Addresses
  <2>1. x \in A /\ x \in Nat /\ x \in Addresses
    BY <1>5, <1>6
  <2>2. CASE x \in LiveOf(v2)
    <3>1. PICK r \in keys : x \in StartsOf(v[r])
      BY <1>4, <2>2
    <3>2. ~(x >= m)
      BY <3>1 DEF m
    <3> QED
      BY <1>7, <2>1, <3>2
  <2>3. CASE x \in SavedOf(s, L)
    <3>1. PICK k \in 1 .. N : x \in Members(L[k])
      BY <2>3 DEF SavedOf
    <3>2. x < s[k].mark /\ s[k].mark \in Nat
      BY <1>1, <1>6, <3>1 DEF MarksAre
    <3> QED
      BY <1>7, <2>1, <3>2
  <2> QED
    BY <1>4, <2>2, <2>3
<1>10. \A x \in A2 : h2.header[x] = h.header[x] /\ Size(h2, x) = Size(h, x)
  <2>1. \A x \in A2 : ~(x >= m)
    BY <1>6, <1>7, <1>9
  <2> QED
    BY <1>8, <1>9, <2>1 DEF Size
<1>11. \A x \in A2 : x + Size(h, x) <= m
  BY <1>7, <1>9
<1>12. \A k \in 1 .. N : Members(L[k]) \subseteq A2
  BY <1>4 DEF SavedOf
<1>13. ASSUME NEW k \in 1 .. N PROVE IsChain(h2, s[k].saved, L[k])
  <2>1. IsChain(h, s[k].saved, L[k])
    BY <1>1 DEF SavedAre
  <2>2. \A x \in Members(L[k]) : h2.header[x] = h.header[x] /\ x + Size(h, x) <= h2.top
    BY <1>8, <1>10, <1>11, <1>12
  <2> QED
    BY <2>1, <2>2, ChainKept
<1>14. Mem(h2, LiveOf(v2) \cup SavedOf(s2, L), L[Len(s2) + 1])
  <2>1. IsChain(h2, h2.head, L[N])
    BY <1>3, <1>8, <1>13
  <2>2. LiveOf(v) \cap Members(L[N]) = {}
    BY <1>1, <1>3, LiveIsNotSaved
  <2>3. \A k \in 1 .. N - 1 : Members(L[k]) \cap Members(L[N]) = {}
    BY <1>1, <1>3 DEF SavedAre
  <2>4. SavedOf(s2, L) \cap Members(L[N]) = {}
    BY <1>3, <2>3 DEF SavedOf
  <2>5. (LiveOf(v2) \cup SavedOf(s2, L)) \cap Members(L[N]) = {}
    BY <1>4, <2>2, <2>4
  <2>6. LiveOf(v2) \cup SavedOf(s2, L) \cup Members(L[N]) = A2
    BY <1>4
  <2>7. Spread(h2, A2)
    <3>1. \A x \in A2 : HeapStart <= x /\ Minimum <= Size(h2, x) /\ Size(h2, x) % 8 = 0
      BY <1>5, <1>6, <1>10 DEF Spread
    <3>2. \A x, y \in A2 : x = y \/ x + Size(h2, x) <= y \/ y + Size(h2, y) <= x
      BY <1>5, <1>6, <1>10 DEF Spread
    <3>3. A2 \subseteq Addresses /\ \A x \in A2 : x + Size(h2, x) <= h2.top
      BY <1>8, <1>9, <1>10, <1>11
    <3> QED
      BY <3>1, <3>2, <3>3 DEF Spread
  <2> QED
    BY <1>3, <1>7, <1>8, <2>1, <2>5, <2>6, <2>7 DEF Mem
<1>15. ValuesAre(h2, v2)
  <2>1. \A r \in keys : \A x \in StartsOf(v[r]) : h2.header[x] = h.header[x]
    BY <1>4, <1>10
  <2> QED
    BY <1>1, <2>1, ValuesKept
<1>16. SavedAre(h2, s2, L)
  BY <1>1, <1>3, <1>13 DEF SavedAre
<1>17. MarksAre(h2, v2, s2, L)
  <2>1. ASSUME NEW k \in 1 .. N - 1
        PROVE  /\ HeapStart <= s[k].mark /\ s[k].mark <= h2.top
               /\ \A j \in 1 .. k : s[j].mark <= s[k].mark
               /\ \A x \in Members(L[k]) : x < s[k].mark
               /\ \A x \in A2 : x < s[k].mark => x + Size(h2, x) <= s[k].mark
    <3>1. k \in 1 .. N
      BY <1>3
    <3>2. /\ HeapStart <= s[k].mark
          /\ \A j \in 1 .. k : s[j].mark <= s[k].mark
          /\ \A x \in Members(L[k]) : x < s[k].mark
          /\ \A x \in A : x < s[k].mark => x + Size(h, x) <= s[k].mark
      BY <1>1, <3>1 DEF MarksAre, A
    <3>3. s[k].mark <= h2.top
      BY <1>7, <1>8, <3>1
    <3>4. \A x \in A2 : x < s[k].mark => x + Size(h2, x) <= s[k].mark
      BY <1>5, <1>10, <3>2
    <3> QED
      BY <3>2, <3>3, <3>4
  <2>2. \A k \in 1 .. N - 1 : \A j \in 1 .. k : j \in 1 .. N - 1
    BY <1>3
  <2> HIDE DEF N
  <2> QED
    BY <1>3, <2>1, <2>2 DEF MarksAre, A2
<1>18. ASSUME ~c PROVE IsWhole(h2, v2, s2, L)
  <2>1. IsWhole(h, v, s, L)
    BY <1>18 DEF Well
  <2>2. ASSUME NEW x \in Addresses, HeapStart <= x, x < h2.top
        PROVE  \E y \in A2 : y <= x /\ x < y + Size(h2, y)
    <3>1. x < h.top /\ x < m /\ x \in Nat
      <4>1. x < m
        BY <1>8, <2>2
      <4>2. x \in Nat
        BY AddressFacts
      <4>3. h.top \in Nat /\ m \in Nat /\ m <= h.top
        BY <1>6, <1>7
      <4> QED
        BY <4>1, <4>2, <4>3
    <3>2. PICK y \in A : y <= x /\ x < y + Size(h, y)
      BY <2>1, <2>2, <3>1 DEF IsWhole, Fills, A
    <3>3. y \in Nat /\ y < m
      BY <1>6, <1>7, <3>1, <3>2
    <3>4. y \in A2
      <4>1. CASE y \in LiveOf(v)
        <5>1. PICK r \in DOMAIN v : y \in StartsOf(v[r])
          BY <4>1 DEF LiveOf
        <5>2. \A z \in StartsOf(v[r]) : z < m
          BY <1>3, <2>1, <3>3, <5>1 DEF IsWhole, m
        <5>3. StartsOf(v[r]) \subseteq A
          BY DEF A, AllOf, LiveOf
        <5>4. \A z \in StartsOf(v[r]) : ~(z >= m)
          BY <1>6, <1>7, <5>2, <5>3
        <5>5. r \in keys
          BY <5>4 DEF m
        <5> QED
          BY <1>4, <5>1, <5>5
      <4>2. CASE y \in SavedOf(s, L)
        BY <1>4, <4>2
      <4>3. CASE y \in CurrentOf(s, L)
        <5>1. N + 1 # 1 /\ (N + 1) - 1 = N /\ N + 1 \in 1 .. N + 1
          BY <1>3
        <5>2. Base(s, N + 1) = m
          BY <5>1 DEF Base, m
        <5>3. m <= y
          BY <2>1, <4>3, <5>1, <5>2 DEF IsWhole, CurrentOf
        <5> QED
          BY <1>7, <3>3, <5>3
      <4> QED
        BY <4>1, <4>2, <4>3 DEF A, AllOf
    <3> QED
      BY <1>10, <3>2, <3>4
  <2>3. ASSUME NEW k \in 1 .. N, NEW x \in Members(L[k]) PROVE Base(s2, k) <= x
    <3>1. k \in 1 .. N + 1
      BY <1>3
    <3>2. Base(s, k) <= x
      BY <2>1, <2>3, <3>1 DEF IsWhole
    <3>3. k # 1 => k - 1 \in 1 .. N - 1
      BY <1>3
    <3>4. Base(s2, k) = Base(s, k)
      BY <1>3, <3>3 DEF Base
    <3> QED
      BY <3>2, <3>4
  <2>4. ASSUME NEW r \in keys, NEW x \in StartsOf(v[r]), NEW y \in StartsOf(v[r]),
               NEW k \in 1 .. N - 1, x < s[k].mark
        PROVE  y < s[k].mark
    BY <1>3, <2>1, <2>4 DEF IsWhole
  <2>5. Fills(h2, A2)
    BY <2>2 DEF Fills
  <2>6. \A k \in 1 .. Len(s2) + 1 : \A x \in Members(L[k]) : Base(s2, k) <= x
    BY <1>3, <2>3
  <2>7. \A k \in 1 .. Len(s2) : k \in 1 .. N - 1 /\ s2[k] = s[k]
    BY <1>3
  <2>8. ASSUME NEW r \in DOMAIN v2, NEW x \in StartsOf(v2[r]), NEW y \in StartsOf(v2[r]),
               NEW k \in 1 .. Len(s2), x < s2[k].mark
        PROVE  y < s2[k].mark
    <3>1. r \in keys /\ v2[r] = v[r]
      BY <1>4
    <3> QED
      BY <2>4, <2>7, <2>8, <3>1
  <2> QED
    BY <2>5, <2>6, <2>8 DEF IsWhole, A2
<1> QED
  BY <1>3, <1>14, <1>15, <1>16, <1>17, <1>18 DEF Well

(* The values once another one is kept.                                    *)
Added(v, blocks) == [r \in (DOMAIN v) \cup {Root(blocks)} |-> IF r = Root(blocks) THEN blocks ELSE v[r]]

(* A value is encoded.                                                     *)
LEMMA WellAdds ==
    ASSUME NEW h, NEW v, NEW s, NEW c, NEW L, Well(h, v, s, c, L),
           NEW blocks, blocks # <<>>, NEW h2, Holds(h2, blocks), NEW l2,
           Grown(h, LiveOf(v) \cup SavedOf(s, L), L[Len(s) + 1], h2, l2, StartsOf(blocks)),
           NEW v2, v2 = Added(v, blocks)
    PROVE  Well(h2, v2, s, c, Relisted(s, L, l2))
<1> DEFINE root == Root(blocks)
           new == StartsOf(blocks)
<1>1. ValuesAre(h, v)
  BY DEF Well
<1>2. ASSUME NEW b, b \in Seq(HeapBlocks), b # <<>> PROVE Root(b) \in StartsOf(b)
  <2>1. Len(b) \in Nat /\ Len(b) # 0
    BY <1>2, LenProperties, EmptySeq
  <2>2. Len(b) \in 1 .. Len(b)
    BY <2>1
  <2> QED
    BY <2>2 DEF Root, StartsOf
<1>3. new \cap LiveOf(v) = {} /\ \A u \in LiveOf(v) : h2.header[u] = h.header[u]
  BY DEF Grown
<1>4. root \notin DOMAIN v
  <2> SUFFICES ASSUME root \in DOMAIN v PROVE FALSE
    OBVIOUS
  <2>1. Holds(h, v[root]) /\ v[root] # <<>> /\ Root(v[root]) = root
    BY <1>1 DEF ValuesAre
  <2>2. root \in StartsOf(v[root])
    BY <1>2, <2>1 DEF Holds
  <2>3. root \in LiveOf(v)
    BY <2>2 DEF LiveOf
  <2>4. root \in new
    BY <1>2 DEF Holds
  <2> QED
    BY <1>3, <2>3, <2>4
<1> HIDE DEF root, new
<1>5. /\ DOMAIN v2 = (DOMAIN v) \cup {root} /\ v2[root] = blocks
      /\ \A r \in DOMAIN v : v2[r] = v[r] /\ r # root
  BY <1>4 DEF root, Added
<1>6. LiveOf(v2) = LiveOf(v) \cup new
  <2>1. \A x : x \in LiveOf(v2) <=> \E r \in (DOMAIN v) \cup {root} : x \in StartsOf(v2[r])
    BY <1>5 DEF LiveOf
  <2>2. \A x : x \in LiveOf(v) <=> \E r \in DOMAIN v : x \in StartsOf(v[r])
    BY DEF LiveOf
  <2>3. StartsOf(v2[root]) = new
    BY <1>5 DEF new
  <2>4. \A r \in DOMAIN v : StartsOf(v2[r]) = StartsOf(v[r])
    BY <1>5
  <2> QED
    BY <2>1, <2>2, <2>3, <2>4
<1>7. ValuesAre(h2, v2)
  <2>1. ASSUME NEW r \in DOMAIN v PROVE Holds(h2, v2[r]) /\ v2[r] # <<>> /\ Root(v2[r]) = r
    <3>1. Holds(h, v[r]) /\ v[r] # <<>> /\ Root(v[r]) = r
      BY <1>1 DEF ValuesAre
    <3>2. ASSUME NEW i \in 1 .. Len(v[r]) PROVE h2.header[v[r][i].at] = UsedHeader(v[r][i].len)
      <4>1. v[r][i].at \in LiveOf(v)
        BY DEF LiveOf, StartsOf
      <4> QED
        BY <1>3, <3>1, <4>1 DEF Holds
    <3> QED
      BY <1>5, <3>1, <3>2 DEF Holds
  <2>2. Holds(h2, v2[root]) /\ v2[root] # <<>> /\ Root(v2[root]) = root
    BY <1>5 DEF root
  <2>3. \A r \in DOMAIN v : StartsOf(v2[r]) \cap StartsOf(v2[root]) = {}
    BY <1>3, <1>5 DEF LiveOf, new
  <2>4. \A r, q \in DOMAIN v : r # q => StartsOf(v2[r]) \cap StartsOf(v2[q]) = {}
    BY <1>1, <1>5 DEF ValuesAre
  <2>5. \A r, q \in (DOMAIN v) \cup {root} : r # q => StartsOf(v2[r]) \cap StartsOf(v2[q]) = {}
    <3> HIDE DEF StartsOf
    <3> QED
      BY <2>3, <2>4
  <2>6. \A r \in (DOMAIN v) \cup {root} : Holds(h2, v2[r]) /\ v2[r] # <<>> /\ Root(v2[r]) = r
    BY <2>1, <2>2
  <2> QED
    <3>1. \A r, q \in DOMAIN v2 : r # q => StartsOf(v2[r]) \cap StartsOf(v2[q]) = {}
      BY <1>5, <2>5
    <3>2. \A r \in DOMAIN v2 : Holds(h2, v2[r]) /\ v2[r] # <<>> /\ Root(v2[r]) = r
      BY <1>5, <2>6
    <3> QED
      BY <3>1, <3>2 DEF ValuesAre
<1>8. \A r \in DOMAIN v2 : (r \in DOMAIN v /\ v2[r] = v[r]) \/ StartsOf(v2[r]) \subseteq new
  BY <1>5 DEF new
<1> QED
  BY <1>6, <1>7, <1>8, WellGrows DEF new

(* An encoding fails, and what it had allocated is free.                   *)
LEMMA WellFails ==
    ASSUME NEW h, NEW v, NEW s, NEW c, NEW L, Well(h, v, s, c, L), NEW h2, NEW l2,
           Grown(h, LiveOf(v) \cup SavedOf(s, L), L[Len(s) + 1], h2, l2, {})
    PROVE  Well(h2, v, s, c, Relisted(s, L, l2))
<1>1. ValuesAre(h, v)
  BY DEF Well
<1>2. \A u \in LiveOf(v) : h2.header[u] = h.header[u]
  BY DEF Grown
<1>3. ASSUME NEW r \in DOMAIN v PROVE Holds(h2, v[r])
  <2>1. Holds(h, v[r])
    BY <1>1 DEF ValuesAre
  <2>2. ASSUME NEW i \in 1 .. Len(v[r]) PROVE h2.header[v[r][i].at] = UsedHeader(v[r][i].len)
    <3>1. v[r][i].at \in LiveOf(v)
      BY DEF LiveOf, StartsOf
    <3> QED
      BY <1>2, <2>1, <3>1 DEF Holds
  <2> QED
    BY <2>1, <2>2 DEF Holds
<1>4. ValuesAre(h2, v)
  BY <1>1, <1>3 DEF ValuesAre
<1>5. LiveOf(v) = LiveOf(v) \cup {}
  OBVIOUS
<1> QED
  BY <1>4, <1>5, WellGrows

-----------------------------------------------------------------------------
(* The inductive invariant: there are lists with which the memory is well. *)
HeapInv == \E L : Well(heap, values, arenas, crossed, L)

(* The empty memory is well.                                               *)
LEMMA HeapStarts == HeapInit => HeapInv
<1> SUFFICES ASSUME HeapInit PROVE HeapInv
  OBVIOUS
<1> DEFINE L == [k \in 1 .. 1 |-> <<>>]
<1>1. /\ heap = [top |-> HeapStart, head |-> 0, capacity |-> PageBytes, header |-> [x \in Addresses |-> NoHeader]]
      /\ values = <<>> /\ arenas = <<>>
  BY DEF HeapInit
<1>2. Len(<<>>) = 0 /\ 1 .. 0 = {} /\ 0 + 1 = 1 /\ 1 \in 1 .. 1 /\ \A k \in 1 .. 1 : k = 1
  BY EmptySeq
<1>3. <<>> \in Seq(Arenas) /\ <<>> \in Seq(Addresses \ {0})
  BY EmptySeq
<1>4. L[1] = <<>> /\ L[Len(arenas) + 1] = <<>>
  BY <1>1, <1>2
<1> HIDE DEF L
<1>5. DOMAIN values = {} /\ LiveOf(values) = {}
  BY <1>1 DEF LiveOf
<1>6. SavedOf(arenas, L) = {} /\ 1 .. Len(arenas) = {} /\ Len(arenas) + 1 = 1
  BY <1>1, <1>2 DEF SavedOf
<1>7. Members(<<>>) = {} /\ Injective(<<>>) /\ Nth(<<>>, 1) = 0
  BY <1>2 DEF Members, Injective, Nth
<1>8. heap \in Heaps /\ heap.top = HeapStart /\ heap.head = 0
  <2>1. NoHeader \in Headers
    BY AddressFacts DEF NoHeader, Headers
  <2>2. PageBytes \in Capacities
    BY DEF Capacities
  <2> QED
    BY <1>1, <2>1, <2>2, AddressFacts DEF Heaps
<1>9. Mem(heap, LiveOf(values) \cup SavedOf(arenas, L), L[Len(arenas) + 1])
  <2>1. IsChain(heap, heap.head, <<>>)
    BY <1>2, <1>3, <1>7, <1>8 DEF IsChain
  <2>2. HeapStart <= heap.top
    BY <1>8, AddressFacts
  <2>3. Spread(heap, {})
    BY DEF Spread
  <2> QED
    BY <1>4, <1>5, <1>6, <1>7, <1>8, <2>1, <2>2, <2>3 DEF Mem
<1>10. ValuesAre(heap, values) /\ SavedAre(heap, arenas, L) /\ MarksAre(heap, values, arenas, L)
  BY <1>5, <1>6 DEF ValuesAre, SavedAre, MarksAre
<1>11. IsWhole(heap, values, arenas, L)
  <2>1. \A x \in Addresses : ~(HeapStart <= x /\ x < heap.top)
    BY <1>8, AddressFacts
  <2>2. \A k \in 1 .. Len(arenas) + 1 : Members(L[k]) = {}
    BY <1>2, <1>4, <1>6, <1>7
  <2> QED
    BY <1>5, <1>6, <2>1, <2>2 DEF IsWhole, Fills
<1>12. Well(heap, values, arenas, crossed, L)
  BY <1>1, <1>3, <1>9, <1>10, <1>11 DEF Well
<1> QED
  BY <1>12 DEF HeapInv

(* encodeWasmValue keeps the memory well, whether it fails or not.         *)
LEMMA EncodeKeeps == ASSUME HeapInv, NEW request \in Requests, Encode(request) PROVE HeapInv'
<1>1. PICK L : Well(heap, values, arenas, crossed, L)
  BY DEF HeapInv
<1> DEFINE U == LiveOf(values) \cup SavedOf(arenas, L)
           l == L[Len(arenas) + 1]
<1>2. PICK a : a = AllocateAll(heap, request)
  OBVIOUS
<1>3. request \in Seq(Nat) /\ request # <<>>
  BY HeapAssumption
<1>4. Mem(heap, U, l)
  BY <1>1 DEF Well
<1>5. /\ a.fault = "none" =>
             /\ Holds(a.heap, a.blocks) /\ a.blocks # <<>>
             /\ \E l2 : Grown(heap, U, l, a.heap, l2, StartsOf(a.blocks))
      /\ a.fault # "none" => \E l2 : Grown(heap, U, l, FreeAll(a.heap, a.blocks), l2, {})
  <2> HIDE DEF U, l
  <2> QED
    BY <1>2, <1>3, <1>4, EncodeIsRight
<1>6. /\ arenas' = arenas /\ crossed' = crossed
      /\ a.fault = "none" =>
             /\ heap' = a.heap
             /\ values' = [r \in (DOMAIN values) \cup {Root(a.blocks)} |->
                              IF r = Root(a.blocks) THEN a.blocks ELSE values[r]]
      /\ a.fault # "none" => heap' = FreeAll(a.heap, a.blocks) /\ values' = values
  BY <1>2 DEF Encode
<1>7. CASE a.fault = "none"
  <2>1. PICK l2 : Grown(heap, U, l, a.heap, l2, StartsOf(a.blocks))
    BY <1>5, <1>7
  <2> DEFINE v2 == Added(values, a.blocks)
  <2>4. values' = v2
    BY <1>6, <1>7 DEF Added
  <2>5. Holds(a.heap, a.blocks) /\ a.blocks # <<>>
    BY <1>5, <1>7
  <2>6. Well(a.heap, v2, arenas, crossed, Relisted(arenas, L, l2))
    BY <1>1, <2>1, <2>5, WellAdds
  <2> HIDE DEF v2
  <2>2. Well(a.heap, values', arenas, crossed, Relisted(arenas, L, l2))
    BY <2>4, <2>6
  <2>3. Well(heap', values', arenas', crossed', Relisted(arenas, L, l2))
    BY <1>6, <1>7, <2>2
  <2> QED
    BY <2>3 DEF HeapInv
<1>8. CASE a.fault # "none"
  <2>1. PICK l2 : Grown(heap, U, l, FreeAll(a.heap, a.blocks), l2, {})
    BY <1>5, <1>8
  <2>2. Well(FreeAll(a.heap, a.blocks), values, arenas, crossed, Relisted(arenas, L, l2))
    BY <1>1, <2>1, WellFails
  <2>3. Well(heap', values', arenas', crossed', Relisted(arenas, L, l2))
    BY <1>6, <1>8, <2>2
  <2> QED
    BY <2>3 DEF HeapInv
<1> QED
  BY <1>7, <1>8

(* releaseEncodedWasmValue keeps the memory well.                          *)
LEMMA ReleaseKeeps == ASSUME HeapInv, NEW root, Release(root) PROVE HeapInv'
<1>1. PICK L : Well(heap, values, arenas, crossed, L)
  BY DEF HeapInv
<1>2. /\ root \in DOMAIN values /\ arenas' = arenas
      /\ heap' = FreeAll(heap, values[root])
      /\ values' = Kept(values, (DOMAIN values) \ {root})
      /\ crossed' = (crossed \/ Predates(values[root]))
  BY DEF Release
<1>3. PICK c2 : c2 = crossed'
  OBVIOUS
<1>4. ~c2 => ~crossed /\ \A x \in StartsOf(values[root]) : MarkOf(arenas) <= x
  <2> SUFFICES ASSUME ~c2 PROVE ~crossed /\ \A x \in StartsOf(values[root]) : MarkOf(arenas) <= x
    OBVIOUS
  <2>1. ~crossed /\ ~Predates(values[root])
    BY <1>2, <1>3
  <2>2. \A x \in StartsOf(values[root]) : ~(x < MarkOf(arenas))
    BY <2>1 DEF Predates, StartsOf, Mark, MarkOf
  <2>3. \A x \in StartsOf(values[root]) : x \in Nat
    <3>1. StartsOf(values[root]) \subseteq AllOf(values, arenas, L)
      BY <1>2 DEF AllOf, LiveOf
    <3>2. \A x \in AllOf(values, arenas, L) : x \in Nat
      BY <1>1, WellFacts
    <3> QED
      BY <3>1, <3>2
  <2>4. MarkOf(arenas) \in Nat
    <3>1. CASE arenas = <<>>
      BY <3>1 DEF MarkOf
    <3>2. CASE arenas # <<>>
      <4>1. arenas \in Seq(Arenas) /\ Len(arenas) \in Nat /\ \A k \in 1 .. Len(arenas) : arenas[k].mark \in Nat
        BY <1>1, WellFacts DEF Well
      <4>2. Len(arenas) # 0
        BY <3>2, <4>1, EmptySeq
      <4>3. Len(arenas) \in 1 .. Len(arenas)
        BY <4>1, <4>2
      <4> QED
        BY <3>2, <4>1, <4>3 DEF MarkOf
    <3> QED
      BY <3>1, <3>2
  <2> HIDE DEF MarkOf
  <2> QED
    BY <2>1, <2>2, <2>3, <2>4
<1>5. PICK l2 : Well(FreeAll(heap, values[root]), Kept(values, (DOMAIN values) \ {root}),
                     arenas, c2, Relisted(arenas, L, l2))
  BY <1>1, <1>2, <1>4, WellFrees
<1>6. Well(heap', values', arenas', crossed', Relisted(arenas, L, l2))
  BY <1>2, <1>3, <1>5
<1> QED
  BY <1>6 DEF HeapInv

(* beginWasmArena keeps the memory well.                                   *)
LEMMA BeginKeeps ==
    ASSUME HeapInv, NEW owner \in Tasks \cup {"scratch"}, Begin(owner), values' = values, crossed' = crossed
    PROVE  HeapInv'
<1>1. PICK L : Well(heap, values, arenas, crossed, L)
  BY DEF HeapInv
<1>2. PICK a : a = [owner |-> owner, mark |-> heap.top, saved |-> heap.head]
  OBVIOUS
<1>3. a \in Arenas /\ a.mark = heap.top /\ a.saved = heap.head
  <2>1. heap.top \in Addresses /\ heap.head \in Addresses
    BY <1>1 DEF Well, Mem, Heaps
  <2> QED
    BY <1>2, <2>1 DEF Arenas
<1>4. PICK h2 : h2 = [heap EXCEPT !.head = 0]
  OBVIOUS
<1>5. PICK s2 : s2 = Append(arenas, a)
  OBVIOUS
<1>6. Well(h2, values, s2, crossed, Deeper(arenas, L))
  BY <1>1, <1>3, <1>4, <1>5, WellOpens
<1>7. heap' = h2 /\ arenas' = s2
  BY <1>2, <1>4, <1>5 DEF Begin, Opened
<1>8. Well(heap', values', arenas', crossed', Deeper(arenas, L))
  BY <1>6, <1>7
<1> QED
  BY <1>8 DEF HeapInv

(* resetWasmArena keeps the memory well.                                   *)
LEMMA ResetKeeps == ASSUME HeapInv, arenas # <<>>, Reset, crossed' = crossed PROVE HeapInv'
<1>1. PICK L : Well(heap, values, arenas, crossed, L)
  BY DEF HeapInv
<1>2. PICK a : a = arenas[Len(arenas)]
  OBVIOUS
<1> DEFINE keys == (DOMAIN values) \ Above(a.mark)
<1>3. keys \subseteq DOMAIN values
  OBVIOUS
<1>4. \A r \in DOMAIN values : r \in keys <=> \A x \in StartsOf(values[r]) : ~(x >= a.mark)
  BY DEF Above, StartsOf
<1>5. heap' = ResetTo(heap, a) /\ values' = Kept(values, keys) /\ arenas' = SubSeq(arenas, 1, Len(arenas) - 1)
  BY <1>2 DEF Reset, Restored, ResetTo
<1> HIDE DEF keys
<1>6. Well(heap', values', arenas', crossed, L)
  BY <1>1, <1>2, <1>3, <1>4, <1>5, WellResets
<1>7. Well(heap', values', arenas', crossed', L)
  BY <1>6
<1> QED
  BY <1>7 DEF HeapInv

(* Every step keeps the memory well.                                       *)
LEMMA HeapSteps == HeapInv /\ [HeapNext]_heapVars => HeapInv'
<1> SUFFICES ASSUME HeapInv, [HeapNext]_heapVars PROVE HeapInv'
  OBVIOUS
<1>1. CASE \E request \in Requests : Encode(request)
  BY <1>1, EncodeKeeps
<1>2. CASE \E root \in DOMAIN values : Release(root)
  BY <1>2, ReleaseKeeps
<1>3. ASSUME NEW t \in Tasks, EnterTask(t) PROVE HeapInv'
  <2>1. Begin(t) /\ values' = values /\ crossed' = crossed
    BY <1>3 DEF EnterTask
  <2> QED
    BY <2>1, BeginKeeps
<1>4. ASSUME NEW t \in Tasks, ResetEarly(t) PROVE HeapInv'
  <2>1. arenas # <<>> /\ Reset /\ crossed' = crossed
    BY <1>4 DEF ResetEarly, Innermost
  <2> QED
    BY <2>1, ResetKeeps
<1>5. ASSUME NEW t \in Tasks, LeaveTask(t) PROVE HeapInv'
  <2>1. CASE Innermost(t)
    <3>1. arenas # <<>> /\ Reset /\ crossed' = crossed
      BY <1>5, <2>1 DEF LeaveTask, Innermost
    <3> QED
      BY <3>1, ResetKeeps
  <2>2. CASE ~Innermost(t)
    <3>1. heap' = heap /\ values' = values /\ arenas' = arenas /\ crossed' = crossed
      BY <1>5, <2>2 DEF LeaveTask
    <3> QED
      BY <3>1 DEF HeapInv
  <2> QED
    BY <2>1, <2>2
<1>6. CASE MarkScratch
  <2>1. Begin("scratch") /\ values' = values /\ crossed' = crossed
    BY <1>6 DEF MarkScratch
  <2> QED
    BY <2>1, BeginKeeps
<1>7. ASSUME NEW mark \in DOMAIN scratch, ResetScratch(mark) PROVE HeapInv'
  <2>1. arenas # <<>> /\ Reset /\ crossed' = crossed
    BY <1>7 DEF ResetScratch, Innermost
  <2> QED
    BY <2>1, ResetKeeps
<1>8. CASE UNCHANGED heapVars
  <2>1. heap' = heap /\ values' = values /\ arenas' = arenas /\ crossed' = crossed
    BY <1>8 DEF heapVars
  <2> QED
    BY <2>1 DEF HeapInv
<1> QED
  BY <1>1, <1>2, <1>3, <1>4, <1>5, <1>6, <1>7, <1>8 DEF HeapNext

(* The memory is always well.                                              *)
THEOREM HeapIsWell == HeapSpec => []HeapInv
<1>1. HeapInit => HeapInv
  BY HeapStarts
<1>2. HeapInv /\ [HeapNext]_heapVars => HeapInv'
  BY HeapSteps
<1> QED
  BY <1>1, <1>2, PTL DEF HeapSpec

-----------------------------------------------------------------------------
(* What a memory that is well shows.                                       *)

(* The free lists are those of the invariant.                              *)
LEMMA ListsAre ==
    ASSUME NEW L, Well(heap, values, arenas, crossed, L)
    PROVE  FreeLists = {L[k] : k \in 1 .. Len(arenas) + 1}
<1>1. heap \in Heaps /\ Len(arenas) \in Nat
  BY WellFacts
<1>2. Chain(heap, heap.head) = L[Len(arenas) + 1]
  BY <1>1, ChainIs DEF Well, Mem
<1>3. \A k \in 1 .. Len(arenas) : Chain(heap, arenas[k].saved) = L[k]
  BY <1>1, ChainIs DEF Well, SavedAre
<1>4. FreeLists = {L[Len(arenas) + 1]} \cup {L[k] : k \in 1 .. Len(arenas)}
  BY <1>2, <1>3 DEF FreeLists
<1>5. /\ Len(arenas) + 1 \in 1 .. Len(arenas) + 1
      /\ \A k \in 1 .. Len(arenas) + 1 : k \in 1 .. Len(arenas) \/ k = Len(arenas) + 1
      /\ \A k \in 1 .. Len(arenas) : k \in 1 .. Len(arenas) + 1
  BY <1>1
<1> HIDE DEF FreeLists
<1> QED
  BY <1>4, <1>5

(* The blocks, in use and free, are those that start at an address of the  *)
(* invariant, and their lengths are in their headers.                      *)
LEMMA BlocksAre ==
    ASSUME NEW L, Well(heap, values, arenas, crossed, L)
    PROVE  LiveBlocks \cup FreeBlocks = {Block(x, Size(heap, x)) : x \in AllOf(values, arenas, L)}
<1>1. LiveBlocks = {Block(x, Size(heap, x)) : x \in LiveOf(values)}
  <2>1. ASSUME NEW r \in DOMAIN values, NEW i \in 1 .. Len(values[r])
        PROVE  values[r][i].at \in LiveOf(values) /\ values[r][i] = Block(values[r][i].at, Size(heap, values[r][i].at))
    <3>1. Holds(heap, values[r])
      BY DEF Well, ValuesAre
    <3>2. values[r][i] \in HeapBlocks
      BY <3>1, ElementOfSeq DEF Holds
    <3>3. Size(heap, values[r][i].at) = values[r][i].len
      <4>1. heap.header[values[r][i].at] = UsedHeader(values[r][i].len)
        BY <3>1 DEF Holds
      <4> QED
        BY <4>1 DEF UsedHeader, Size
    <3>4. values[r][i].at \in LiveOf(values)
      BY DEF LiveOf, StartsOf
    <3>5. values[r][i] = [at |-> values[r][i].at, len |-> values[r][i].len]
      BY <3>2 DEF HeapBlocks
    <3> QED
      BY <3>3, <3>4, <3>5 DEF Block
  <2>2. ASSUME NEW x \in LiveOf(values)
        PROVE  \E r \in DOMAIN values : \E i \in 1 .. Len(values[r]) : x = values[r][i].at
    BY DEF LiveOf, StartsOf
  <2>3. \A b : b \in LiveBlocks <=> \E r \in DOMAIN values : \E i \in 1 .. Len(values[r]) : b = values[r][i]
    BY DEF LiveBlocks
  <2>4. \A b \in LiveBlocks : \E x \in LiveOf(values) : b = Block(x, Size(heap, x))
    BY <2>1, <2>3
  <2>5. ASSUME NEW x \in LiveOf(values) PROVE Block(x, Size(heap, x)) \in LiveBlocks
    <3>3. PICK r \in DOMAIN values : \E i \in 1 .. Len(values[r]) : x = values[r][i].at
      BY <2>2
    <3>1. PICK i \in 1 .. Len(values[r]) : x = values[r][i].at
      BY <3>3
    <3>2. values[r][i] = Block(x, Size(heap, x))
      BY <2>1, <3>1
    <3> QED
      BY <2>3, <3>2
  <2> HIDE DEF LiveBlocks
  <2> QED
    BY <2>4, <2>5
<1>2. FreeBlocks = {Block(x, Size(heap, x)) : x \in SavedOf(arenas, L) \cup CurrentOf(arenas, L)}
  <2>1. FreeLists = {L[k] : k \in 1 .. Len(arenas) + 1}
    BY ListsAre
  <2>2. \A b : b \in FreeBlocks <=> \E l \in FreeLists : \E i \in 1 .. Len(l) : b = Block(l[i], Size(heap, l[i]))
    BY DEF FreeBlocks, Size
  <2>3. \A b : b \in FreeBlocks <=>
                   \E k \in 1 .. Len(arenas) + 1 : \E x \in Members(L[k]) : b = Block(x, Size(heap, x))
    BY <2>1, <2>2 DEF Members
  <2>4. Len(arenas) \in Nat
    BY WellFacts
  <2>5. \A x : x \in SavedOf(arenas, L) \cup CurrentOf(arenas, L) <=> \E k \in 1 .. Len(arenas) + 1 : x \in Members(L[k])
    <3>1. Len(arenas) + 1 \in 1 .. Len(arenas) + 1
      BY <2>4
    <3>2. \A k \in 1 .. Len(arenas) + 1 : k \in 1 .. Len(arenas) \/ k = Len(arenas) + 1
      BY <2>4
    <3>3. \A k \in 1 .. Len(arenas) : k \in 1 .. Len(arenas) + 1
      BY <2>4
    <3> QED
      BY <3>1, <3>2, <3>3 DEF SavedOf, CurrentOf
  <2> HIDE DEF FreeBlocks
  <2> QED
    BY <2>3, <2>5
<1> HIDE DEF LiveBlocks, FreeBlocks
<1> QED
  BY <1>1, <1>2 DEF AllOf

(* Blocks of which none overlaps another.                                  *)
LEMMA WellIsDisjoint == HeapInv => BlocksAreDisjoint
<1> SUFFICES ASSUME NEW L, Well(heap, values, arenas, crossed, L) PROVE BlocksAreDisjoint
  BY DEF HeapInv
<1> DEFINE A == AllOf(values, arenas, L)
           blocks == LiveBlocks \cup FreeBlocks
<1>1. blocks = {Block(x, Size(heap, x)) : x \in A}
  BY BlocksAre
<1>2. /\ \A x \in A : x \in Nat /\ Size(heap, x) \in Nat /\ HeapStart <= x /\ x + Size(heap, x) <= heap.top
      /\ Spread(heap, A)
  BY WellFacts
<1> HIDE DEF A, blocks
<1>3. \A b \in blocks : \E x \in A : b = Block(x, Size(heap, x)) /\ b.at = x /\ b.len = Size(heap, x)
  BY <1>1 DEF Block
<1>4. \A b \in blocks : b.at >= HeapStart /\ b.at + b.len <= heap.top
  <2>1. \A x \in A : x >= HeapStart
    BY <1>2, AddressFacts
  <2> QED
    BY <1>2, <1>3, <2>1
<1>5. ASSUME NEW b1 \in blocks, NEW b2 \in blocks
      PROVE  b1 = b2 \/ b1.at + b1.len <= b2.at \/ b2.at + b2.len <= b1.at
  <2>1. PICK x \in A : b1 = Block(x, Size(heap, x)) /\ b1.at = x /\ b1.len = Size(heap, x)
    BY <1>3
  <2>2. PICK y \in A : b2 = Block(y, Size(heap, y)) /\ b2.at = y /\ b2.len = Size(heap, y)
    BY <1>3
  <2>3. x = y \/ x + Size(heap, x) <= y \/ y + Size(heap, y) <= x
    BY <1>2 DEF Spread
  <2> QED
    BY <2>1, <2>2, <2>3
<1> QED
  BY <1>4, <1>5 DEF BlocksAreDisjoint, blocks

(* Free lists whose blocks are intact, values whose blocks can be freed.   *)
LEMMA WellIsGuarded == HeapInv => GuardsNeverFire
<1> SUFFICES ASSUME NEW L, Well(heap, values, arenas, crossed, L) PROVE GuardsNeverFire
  BY DEF HeapInv
<1>1. ASSUME NEW k \in 1 .. Len(arenas) + 1, NEW i \in 1 .. Len(L[k]) PROVE Intact(heap, L[k][i])
  <2>1. Len(arenas) \in Nat
    BY WellFacts
  <2>2. CASE k \in 1 .. Len(arenas)
    BY <2>2 DEF Well, SavedAre, IsChain
  <2>3. CASE k = Len(arenas) + 1
    BY <2>3 DEF Well, Mem, IsChain
  <2> QED
    BY <2>1, <2>2, <2>3
<1>2. \A l \in FreeLists : \A i \in 1 .. Len(l) : Intact(heap, l[i])
  <2>1. FreeLists = {L[k] : k \in 1 .. Len(arenas) + 1}
    BY ListsAre
  <2> HIDE DEF FreeLists
  <2> QED
    BY <1>1, <2>1
<1>3. ASSUME NEW r \in DOMAIN values, NEW i \in 1 .. Len(values[r]) PROVE Freeable(heap, values[r][i])
  <2>1. heap.header[values[r][i].at] = UsedHeader(values[r][i].len)
    BY DEF Well, ValuesAre, Holds
  <2>2. values[r][i].at \in AllOf(values, arenas, L)
    BY DEF AllOf, LiveOf, StartsOf
  <2> DEFINE x == values[r][i].at
  <2>3. x \in Nat /\ HeapStart <= x /\ x + Size(heap, x) <= heap.top
    BY <2>2, WellFacts
  <2>4. Size(heap, x) = values[r][i].len /\ heap.header[x].len = values[r][i].len /\ heap.header[x].kind = "used"
    BY <2>1 DEF UsedHeader, Size
  <2>5. x >= HeapStart
    BY <2>3, AddressFacts
  <2> QED
    BY <2>3, <2>4, <2>5 DEF Freeable
<1> QED
  BY <1>2, <1>3 DEF GuardsNeverFire, FreeableAll

(* Blocks that fill the heap.                                              *)
LEMMA WellIsFull == HeapInv => NothingLeaks
<1> SUFFICES ASSUME NEW L, Well(heap, values, arenas, crossed, L), ~crossed
             PROVE  UNION {Cells(b) : b \in LiveBlocks \cup FreeBlocks} = Cells(Block(HeapStart, heap.top - HeapStart))
  BY DEF HeapInv, NothingLeaks
<1> DEFINE A == AllOf(values, arenas, L)
           blocks == LiveBlocks \cup FreeBlocks
<1>1. blocks = {Block(x, Size(heap, x)) : x \in A}
  BY BlocksAre
<1>2. /\ \A x \in A : x \in Nat /\ Size(heap, x) \in Nat /\ HeapStart <= x /\ x + Size(heap, x) <= heap.top
      /\ heap.top \in Nat
  BY WellFacts
<1>3. Fills(heap, A)
  BY DEF Well, IsWhole
<1> HIDE DEF A, blocks
<1>4. \A x, len : Cells(Block(x, len)) = {a \in Addresses : x <= a /\ a < x + len}
  BY DEF Cells, Block
<1> DEFINE whole == Cells(Block(HeapStart, heap.top - HeapStart))
<1>5. whole = {a \in Addresses : HeapStart <= a /\ a < heap.top}
  <2>1. HeapStart + (heap.top - HeapStart) = heap.top
    BY <1>2, AddressFacts
  <2> QED
    BY <1>4, <2>1
<1>6. ASSUME NEW a \in whole PROVE \E b \in blocks : a \in Cells(b)
  <2>1. PICK x \in A : x <= a /\ a < x + Size(heap, x)
    BY <1>3, <1>5 DEF Fills
  <2>2. a \in Cells(Block(x, Size(heap, x)))
    BY <1>4, <1>5, <2>1
  <2> QED
    BY <1>1, <2>2
<1>7. ASSUME NEW b \in blocks, NEW a \in Cells(b) PROVE a \in whole
  <2>1. PICK x \in A : b = Block(x, Size(heap, x))
    BY <1>1
  <2>2. a \in Addresses /\ x <= a /\ a < x + Size(heap, x)
    BY <1>4, <1>7, <2>1
  <2>3. a \in Nat
    BY <2>2, AddressFacts
  <2>4. HeapStart <= a /\ a < heap.top
    BY <1>2, <2>2, <2>3, AddressFacts
  <2> QED
    BY <1>5, <2>2, <2>4
<1> HIDE DEF whole
<1>8. UNION {Cells(b) : b \in blocks} = whole
  BY <1>6, <1>7
<1> QED
  BY <1>8 DEF blocks, whole

(* What the host holds never overlaps, with itself, with a free block or   *)
(* with what lies above the top, for every size of the memory.             *)
THEOREM HeapBlocksAreDisjoint == HeapSpec => []BlocksAreDisjoint
BY HeapIsWell, WellIsDisjoint, PTL

(* The guards of allocate and free never fire.                             *)
THEOREM HeapGuardsNeverFire == HeapSpec => []GuardsNeverFire
BY HeapIsWell, WellIsGuarded, PTL

(* The allocator and the arenas lose nothing.                              *)
THEOREM HeapNothingLeaks == HeapSpec => []NothingLeaks
BY HeapIsWell, WellIsFull, PTL

(* The states of the uses of withWasmArena.                                *)
TaskStates == task \in [Tasks -> {"idle", "running", "left", "overtaken"}]

(* A step moves a task among its states.                                   *)
LEMMA TasksMove == TaskStates /\ [HeapNext]_heapVars => TaskStates'
<1> SUFFICES ASSUME TaskStates, [HeapNext]_heapVars PROVE TaskStates'
  OBVIOUS
<1> USE DEF TaskStates
<1>1. CASE \E request \in Requests : Encode(request)
  BY <1>1 DEF Encode
<1>2. CASE \E root \in DOMAIN values : Release(root)
  BY <1>2 DEF Release
<1>3. ASSUME NEW t \in Tasks, EnterTask(t) PROVE TaskStates'
  BY <1>3 DEF EnterTask
<1>4. ASSUME NEW t \in Tasks, ResetEarly(t) PROVE TaskStates'
  BY <1>4 DEF ResetEarly
<1>5. ASSUME NEW t \in Tasks, LeaveTask(t) PROVE TaskStates'
  BY <1>5 DEF LeaveTask
<1>6. CASE MarkScratch
  BY <1>6 DEF MarkScratch
<1>7. ASSUME NEW mark \in DOMAIN scratch, ResetScratch(mark) PROVE TaskStates'
  BY <1>7 DEF ResetScratch
<1>8. CASE UNCHANGED heapVars
  BY <1>8 DEF heapVars
<1> QED
  BY <1>1, <1>2, <1>3, <1>4, <1>5, <1>6, <1>7, <1>8 DEF HeapNext

(* The types of a memory that is well.                                     *)
LEMMA WellIsTyped == HeapInv /\ TaskStates => HeapTypeOK
<1> SUFFICES ASSUME NEW L, Well(heap, values, arenas, crossed, L), TaskStates PROVE HeapTypeOK
  BY DEF HeapInv
<1>1. heap \in Heaps /\ HeapStart <= heap.top
  BY WellFacts
<1>2. heap.top \in Addresses /\ heap.head \in Addresses
  BY <1>1 DEF Heaps
<1>3. \A a \in Addresses : heap.header[a].len \in Nat /\ heap.header[a].next \in Addresses
  BY <1>1, HeapFacts DEF Size
<1>4. \A r \in DOMAIN values : values[r] # <<>> /\ Root(values[r]) = r
  BY DEF Well, ValuesAre
<1>5. arenas \in Seq(Arenas)
  BY DEF Well
<1> QED
  BY <1>1, <1>2, <1>3, <1>4, <1>5 DEF HeapTypeOK, TaskStates, Arenas

(* The types hold in every reachable state.                                *)
THEOREM HeapTypeCorrect == HeapSpec => []HeapTypeOK
<1>1. HeapInit => TaskStates
  BY DEF HeapInit, TaskStates
<1> QED
  BY <1>1, TasksMove, HeapIsWell, WellIsTyped, PTL DEF HeapSpec

=============================================================================
