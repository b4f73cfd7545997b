------------------------------ MODULE WasmHeap ------------------------------
(***************************************************************************)
(* The linear memory of a compiled program: the free-list allocator that   *)
(* is emitted into it (src/src/functional/wasm_runtime_binary.ts), the     *)
(* arenas a host opens over it (wasm_arena.ts) and the values the host     *)
(* encodes into it and releases (wasm_value_codec.ts).                     *)
(*                                                                         *)
(* All of it is synchronous except withWasmArena, whose body may await, so *)
(* the bodies of several tasks interleave over one instance.  Addresses    *)
(* are bytes; of the contents of memory only the headers are kept, and     *)
(* whoever receives a block may overwrite all the rest of it.              *)
(***************************************************************************)
EXTENDS Integers, Sequences, FiniteSets, Selections

CONSTANTS
    HeapStart,    \* first address behind the static data
    PageBytes,    \* bytes of a page of memory (65536)
    MaximumPages, \* pages after which memory.grow fails
    Requests,     \* sequences of the byte lengths one encoding asks for
    Tasks,        \* uses of withWasmArena
    MaxScratch    \* bound on the scratch marks in force

ASSUME HeapAssumption ==
    /\ HeapStart \in Nat \ {0} /\ HeapStart % 8 = 0
    /\ PageBytes \in Nat \ {0} /\ PageBytes % 8 = 0
    /\ MaximumPages \in Nat \ {0} /\ HeapStart <= MaximumPages * PageBytes
    /\ \A request \in Requests : request \in Seq(Nat) /\ request # <<>>

VARIABLES
    heap,    \* heapTop, freeListHead, HeapCapacityByteLength and the headers
    values,  \* allocationGroups: root -> its blocks, in order of allocation
    arenas,  \* arenaStacks: the active arenas of the instance
    task,    \* where each use of withWasmArena stands
    scratch, \* scratchArenas: mark -> how many of its arenas are in force
    crossed  \* something older than an arena was released inside it

heapVars == <<heap, values, arenas, task, scratch, crossed>>

Minimum == 16
Limit == MaximumPages * PageBytes
Addresses == {a \in 0 .. Limit : a % 8 = 0}
MaxBlocks == Cardinality(Addresses)

NoHeader == [kind |-> "none", len |-> 0, next |-> 0]

HeapInit ==
    /\ heap = [top |-> HeapStart, head |-> 0, capacity |-> PageBytes,
               header |-> [a \in Addresses |-> NoHeader]]
    /\ values = <<>>
    /\ arenas = <<>>
    /\ task = [t \in Tasks |-> "idle"]
    /\ scratch = <<>>
    /\ crossed = FALSE

-----------------------------------------------------------------------------
(* The allocator.                                                          *)
Normalize(bytes) ==
    LET aligned == ((bytes + 7) \div 8) * 8
    IN  IF aligned < Minimum THEN Minimum ELSE aligned

Block(x, len) == [at |-> x, len |-> len]
Cells(b) == {a \in Addresses : b.at <= a /\ a < b.at + b.len}

(* What emitFreeBlockGuard lets pass.                                      *)
Intact(h, x) ==
    /\ x \in Addresses /\ x >= HeapStart
    /\ h.header[x].kind = "free"
    /\ h.header[x].len >= Minimum /\ h.header[x].len % 8 = 0
    /\ x + h.header[x].len <= h.top

(* Along a free list: the addresses seen and the next one.                 *)
Follow(h, w) ==
    IF w.at = 0 THEN w
    ELSE [seen |-> Append(w.seen, w.at), at |-> IF Intact(h, w.at) THEN h.header[w.at].next ELSE 0]

(* The addresses on a free list, in order; it ends at 0, at a block that   *)
(* is not intact, or when it is longer than any list could be.             *)
Chain(h, first) ==
    LET walk[n \in 0 .. MaxBlocks] == IF n = 0 THEN [seen |-> <<>>, at |-> first] ELSE Follow(h, walk[n - 1])
    IN  walk[MaxBlocks].seen

MutantSuits(h, x, len) == h.header[x].len >= len

(* A block is used whole, or split when a block is left over.              *)
Suits(h, x, len) ==
    \/ h.header[x].len = len
    \/ h.header[x].len >= len + Minimum

(* What is written over a block that is handed out: its header, and        *)
(* anything at all where older headers were.                               *)
Initialized(header, b) ==
    [a \in Addresses |->
        IF a = b.at THEN [kind |-> "used", len |-> b.len, next |-> 0]
        ELSE IF a \in Cells(b) THEN NoHeader
        ELSE header[a]]

FreeHeader(len, next) == [kind |-> "free", len |-> len, next |-> next]

(* What takes the place of a block in its list: the block that is left     *)
(* over, or else the next one.                                             *)
Successor(h, x, len) == IF h.header[x].len = len THEN h.header[x].next ELSE x + len

(* The headers once the i-th free block is unlinked.                       *)
Unlinked(h, chain, i, len, rest) ==
    LET x == chain[i]
    IN  [a \in Addresses |->
            IF h.header[x].len # len /\ a = x + len THEN FreeHeader(rest, h.header[x].next)
            ELSE IF i > 1 /\ a = chain[i - 1] THEN FreeHeader(h.header[a].len, Successor(h, x, len))
            ELSE h.header[a]]

MutantTaken(h, i, len) ==
    LET chain == Chain(h, h.head)
        x == chain[i]
    IN  [h EXCEPT !.head = IF i = 1 THEN Successor(h, x, len) ELSE @,
                  !.header = Initialized(Unlinked(h, chain, i, len, h.header[x].len), Block(x, len))]

(* The i-th free block is unlinked; what is left over of it replaces it.   *)
Taken(h, i, len) ==
    LET chain == Chain(h, h.head)
        x == chain[i]
    IN  [h EXCEPT !.head = IF i = 1 THEN Successor(h, x, len) ELSE @,
                  !.header = Initialized(Unlinked(h, chain, i, len, h.header[x].len - len), Block(x, len))]

(* The pages that hold so many bytes.                                      *)
PagesFor(bytes) == ((bytes - 1) \div PageBytes) + 1

Bumped(h, len) ==
    [h EXCEPT !.top = @ + len,
              !.capacity = IF h.top + len > @ THEN PagesFor(h.top + len) * PageBytes ELSE @,
              !.header = Initialized(@, Block(h.top, len))]

(* The place in the list at which the search of allocate() stops.          *)
Fitting(h, chain, len) == {i \in 1 .. Len(chain) : Intact(h, chain[i]) /\ Suits(h, chain[i], len)}
FirstFit(h, chain, len) ==
    CHOOSE i \in Fitting(h, chain, len) : \A j \in Fitting(h, chain, len) : i <= j

(* allocate(bytes): the heap afterwards and the block, or a fault.         *)
Allocate(h, bytes) ==
    LET len == Normalize(bytes)
        chain == Chain(h, h.head)
        first == FirstFit(h, chain, len)
        bad == {i \in 1 .. Len(chain) : ~Intact(h, chain[i])}
    IN  IF Fitting(h, chain, len) # {} /\ \A j \in bad : j > first
        THEN [heap |-> Taken(h, first, len), block |-> Block(chain[first], len), fault |-> "none"]
        ELSE IF bad # {} THEN [heap |-> h, block |-> Block(0, 0), fault |-> "trap"]
        ELSE IF h.top + len <= Limit
        THEN [heap |-> Bumped(h, len), block |-> Block(h.top, len), fault |-> "none"]
        ELSE [heap |-> h, block |-> Block(0, 0), fault |-> "memory"]

(* free(pointer, bytes) of a block whose header still says what it is.     *)
Freeable(h, b) ==
    /\ b.at >= HeapStart /\ b.at + b.len <= h.top
    /\ h.header[b.at].kind = "used" /\ h.header[b.at].len = b.len

Free(h, b) ==
    [h EXCEPT !.header = [@ EXCEPT ![b.at] = FreeHeader(b.len, h.head)], !.head = b.at]

-----------------------------------------------------------------------------
(* Values of the host.                                                     *)
AllocateNext(a, bytes) ==
    LET next == Allocate(a.heap, bytes)
    IN  IF a.fault # "none" THEN a
        ELSE [heap |-> next.heap, fault |-> next.fault,
              blocks |-> IF next.fault = "none" THEN Append(a.blocks, next.block) ELSE a.blocks]

AllocateAll(h, request) ==
    LET after[n \in 0 .. Len(request)] ==
            IF n = 0 THEN [heap |-> h, fault |-> "none", blocks |-> <<>>]
            ELSE AllocateNext(after[n - 1], request[n])
    IN  after[Len(request)]

(* The blocks of a value are freed last first.                             *)
FreeAll(h, blocks) ==
    LET after[n \in 0 .. Len(blocks)] ==
            IF n = 0 THEN h ELSE Free(after[n - 1], blocks[Len(blocks) + 1 - n])
    IN  after[Len(blocks)]

FreeableAll(h, blocks) == \A i \in 1 .. Len(blocks) : Freeable(h, blocks[i])

(* The fields of a value are allocated before the object that holds them,  *)
(* whose address is the root the group is kept under.                      *)
Root(blocks) == blocks[Len(blocks)].at

Kept(f, keys) == [k \in (DOMAIN f) \cap keys |-> f[k]]

(* encodeWasmValue: an encoding that fails frees what it had allocated.    *)
Encode(request) ==
    LET a == AllocateAll(heap, request)
    IN  /\ IF a.fault = "none"
           THEN /\ heap' = a.heap
                /\ values' = [r \in (DOMAIN values) \cup {Root(a.blocks)} |->
                                 IF r = Root(a.blocks) THEN a.blocks ELSE values[r]]
           ELSE /\ heap' = FreeAll(a.heap, a.blocks)
                /\ values' = values
        /\ UNCHANGED <<arenas, task, scratch, crossed>>

Mark == IF arenas = <<>> THEN 0 ELSE arenas[Len(arenas)].mark

Predates(blocks) == \E i \in 1 .. Len(blocks) : blocks[i].at < Mark

(* releaseEncodedWasmValue.                                                *)
Release(root) ==
    /\ root \in DOMAIN values /\ FreeableAll(heap, values[root])
    /\ heap' = FreeAll(heap, values[root])
    /\ values' = Kept(values, (DOMAIN values) \ {root})
    /\ crossed' = (crossed \/ Predates(values[root]))
    /\ UNCHANGED <<arenas, task, scratch>>

-----------------------------------------------------------------------------
(* An arena starts with an empty free list: what was freed before it is    *)
(* set aside.                                                              *)
Opened == [heap EXCEPT !.head = 0]

(* beginWasmArena, for a task or for the scratch marks.                    *)
Begin(owner) ==
    /\ arenas' = Append(arenas, [owner |-> owner, mark |-> heap.top, saved |-> heap.head])
    /\ heap' = Opened

(* The values of which a part lies above the mark.                         *)
Above(mark) == {r \in DOMAIN values : \E i \in 1 .. Len(values[r]) : values[r][i].at >= mark}

(* What lies above the top is no longer anything.                          *)
Cleared(header, mark) == [a \in Addresses |-> IF a >= mark THEN NoHeader ELSE header[a]]

MutantRestored(a) == [heap EXCEPT !.top = a.mark, !.header = Cleared(@, a.mark)]

Restored(a) == [heap EXCEPT !.top = a.mark, !.head = a.saved, !.header = Cleared(@, a.mark)]

(* resetArena of the innermost arena; any other throws.                    *)
Innermost(owner) == arenas # <<>> /\ arenas[Len(arenas)].owner = owner
Open(owner) == \E i \in 1 .. Len(arenas) : arenas[i].owner = owner

Reset ==
    LET a == arenas[Len(arenas)]
    IN  /\ heap' = Restored(a)
        /\ values' = Kept(values, (DOMAIN values) \ Above(a.mark))
        /\ arenas' = SubSeq(arenas, 1, Len(arenas) - 1)

(* withWasmArena up to the await of its body.                              *)
EnterTask(t) ==
    /\ task[t] = "idle"
    /\ Begin(t)
    /\ task' = [task EXCEPT ![t] = "running"]
    /\ UNCHANGED <<values, scratch, crossed>>

(* The body resets its own arena early: it may, when it is the innermost.  *)
ResetEarly(t) ==
    /\ task[t] = "running" /\ Innermost(t)
    /\ Reset
    /\ UNCHANGED <<task, scratch, crossed>>

(* The finally block: an arena that is active is reset, which throws when  *)
(* an arena that was opened later is still active.                         *)
LeaveTask(t) ==
    /\ task[t] = "running"
    /\ IF Innermost(t)
       THEN Reset /\ task' = [task EXCEPT ![t] = "left"]
       ELSE /\ UNCHANGED <<heap, values, arenas>>
            /\ task' = [task EXCEPT ![t] = IF Open(t) THEN "overtaken" ELSE "left"]
    /\ UNCHANGED <<scratch, crossed>>

Marked(mark) == IF mark \in DOMAIN scratch THEN scratch[mark] ELSE 0

(* markWasmScratch.                                                        *)
MarkScratch ==
    /\ Cardinality({i \in 1 .. Len(arenas) : arenas[i].owner = "scratch"}) < MaxScratch
    /\ Begin("scratch")
    /\ scratch' = [m \in (DOMAIN scratch) \cup {heap.top} |->
                      IF m = heap.top THEN Marked(m) + 1 ELSE scratch[m]]
    /\ UNCHANGED <<values, task, crossed>>

(* resetWasmScratch(mark): the last arena of that mark; when that is not   *)
(* the innermost one, resetArena throws and nothing changes.               *)
ResetScratch(mark) ==
    /\ mark \in DOMAIN scratch
    /\ Innermost("scratch") /\ arenas[Len(arenas)].mark = mark
    /\ Reset
    /\ scratch' = IF scratch[mark] = 1 THEN Kept(scratch, (DOMAIN scratch) \ {mark})
                  ELSE [scratch EXCEPT ![mark] = @ - 1]
    /\ UNCHANGED <<task, crossed>>

HeapNext ==
    \/ \E request \in Requests : Encode(request)
    \/ \E root \in DOMAIN values : Release(root)
    \/ \E t \in Tasks : EnterTask(t) \/ ResetEarly(t) \/ LeaveTask(t)
    \/ MarkScratch
    \/ \E mark \in DOMAIN scratch : ResetScratch(mark)

HeapSpec == HeapInit /\ [][HeapNext]_heapVars

-----------------------------------------------------------------------------
(* The top and the links are addresses, a value is kept under the address  *)
(* of its object, arenas are marks within the memory.                      *)
HeapTypeOK ==
    /\ heap.top \in Addresses /\ HeapStart <= heap.top /\ heap.head \in Addresses
    /\ \A a \in Addresses : heap.header[a].len \in Nat /\ heap.header[a].next \in Addresses
    /\ \A r \in DOMAIN values : values[r] # <<>> /\ Root(values[r]) = r
    /\ arenas \in Seq([owner : Tasks \cup {"scratch"}, mark : Addresses, saved : Addresses])
    /\ task \in [Tasks -> {"idle", "running", "left", "overtaken"}]

LiveBlocks == UNION {{values[r][i] : i \in 1 .. Len(values[r])} : r \in DOMAIN values}

(* Every free list there is: the current one and those set aside.          *)
FreeLists == {Chain(heap, heap.head)} \cup {Chain(heap, arenas[i].saved) : i \in 1 .. Len(arenas)}
FreeBlocks == UNION {{Block(l[i], heap.header[l[i]].len) : i \in 1 .. Len(l)} : l \in FreeLists}

(* What the host holds never overlaps: with itself, with a free block, or  *)
(* with what lies above the top of the heap.                               *)
BlocksAreDisjoint ==
    LET blocks == LiveBlocks \cup FreeBlocks
    IN  /\ \A b \in blocks : b.at >= HeapStart /\ b.at + b.len <= heap.top
        /\ \A b1, b2 \in blocks : b1 = b2 \/ b1.at + b1.len <= b2.at \/ b2.at + b2.len <= b1.at

(* No free list, current or set aside, is ever damaged, and every value    *)
(* can be released: the guards of allocate and free never fire.            *)
GuardsNeverFire ==
    /\ \A l \in FreeLists : \A i \in 1 .. Len(l) : Intact(heap, l[i])
    /\ \A r \in DOMAIN values : FreeableAll(heap, values[r])

(* Unless something is released inside an arena that is older than it, all *)
(* of the heap is held by the host or free: splitting, failed encodings    *)
(* and resets lose nothing.                                                *)
NothingLeaks ==
    ~crossed =>
        UNION {Cells(b) : b \in LiveBlocks \cup FreeBlocks} = Cells(Block(HeapStart, heap.top - HeapStart))
=============================================================================
