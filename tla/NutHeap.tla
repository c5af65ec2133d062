------------------------------ MODULE NutHeap ------------------------------
(***************************************************************************)
(* The heap manager of os/heap.c.  Memory is counted in units of the       *)
(* alignment; a node is its address and its size (hn_size), the hn_next    *)
(* links of the free nodes are a sequence.  Blocks are named after their   *)
(* owners.  No call yields the CPU and interrupts do not use the heap, so  *)
(* a call is one action.  The guard words of debug builds, and with them   *)
(* the -2 of NutHeapRootFree, are left out.                                *)
(***************************************************************************)
EXTENDS Integers, Sequences, SequencesExt, FiniteSets

CONSTANTS
    Owner,     \* who may own one block each
    Region,    \* the memory regions that NutHeapRootAdd may be given
    OVERHEAD,  \* NUT_HEAP_OVERHEAD
    NODE,      \* sizeof(HEAPNODE), which is also NUTMEM_HEAPNODE_MIN
    MaxSize    \* bound on the sizes asked for

Node == [addr : Nat, size : Nat]
Cells(n) == n.addr .. (n.addr + n.size - 1)
Touches(n, m) == n.addr + n.size = m.addr

ASSUME HeapAssumption ==
    /\ Region \subseteq Node /\ IsFiniteSet(Region)
    /\ \A r \in Region : r.size >= NODE
    /\ \A r, s \in Region : r # s => Cells(r) \cap Cells(s) = {}
    /\ OVERHEAD \in Nat \ {0} /\ NODE \in Nat /\ NODE > OVERHEAD
    /\ MaxSize \in Nat

VARIABLES
    heapFreeList,  \* the free nodes in the order of their links
    block,         \* block[o]: the node owned by o, or a node of size 0
    region         \* history: the regions added so far

heap == <<heapFreeList, block, region>>

None == [addr |-> 0, size |-> 0]

HeapInit ==
    /\ heapFreeList = <<>>
    /\ block = [o \in Owner |-> None]
    /\ region = {}

-----------------------------------------------------------------------------
(* The algorithms on a free list s                                         *)

\* The bytes needed for a block of a given size.
Need(size) == IF size + OVERHEAD < NODE THEN NODE ELSE size + OVERHEAD

Fits(s, need) == {i \in 1..Len(s) : s[i].size >= need}

\* The first one of the smallest nodes that fit.
BestFit(s, need) ==
    CHOOSE i \in Fits(s, need) : \A j \in Fits(s, need) :
        s[i].size < s[j].size \/ (s[i].size = s[j].size /\ i <= j)

\* Is what need leaves of node n large enough for another node?
Splits(n, need) == n.size - need >= NODE

Rest(n, need) == [addr |-> n.addr + need, size |-> n.size - need]

\* Mutant: what is left of a node is cut off even if it is not kept.
Taken_Need(n, need) == [n EXCEPT !.size = need]

\* The part of node n that is handed out.
Taken(n, need) == IF Splits(n, need) THEN [n EXCEPT !.size = need] ELSE n

\* The free list after need was taken from its i-th node.
TakeFrom(s, i, need) ==
    IF Splits(s[i], need) THEN [s EXCEPT ![i] = Rest(s[i], need)] ELSE RemoveAt(s, i)

\* Where the walk of NutHeapRootFree stops: at a node that ends where f
\* starts, at the first one behind f, or at one that f lies in (f was free
\* already: the call returns -1 and changes nothing).
StopsAt(n, f) == Touches(n, f) \/ n.addr > f.addr \/ n.addr + n.size > f.addr

FreeStops(s, f) == {i \in 1..Len(s) : StopsAt(s[i], f)}
FreeStop(s, f) == CHOOSE i \in FreeStops(s, f) : \A j \in FreeStops(s, f) : i <= j

\* Mutant: a node merged with its predecessor is not merged with its successor.
Joined_OneSide(s, i) == s

\* Merge the i-th node with the next one if there is no gap between them.
Joined(s, i) ==
    IF i < Len(s) /\ Touches(s[i], s[i + 1])
      THEN RemoveAt([s EXCEPT ![i].size = @ + s[i + 1].size], i + 1)
      ELSE s

\* NutHeapRootFree on node f.
Released(s, f) ==
    IF FreeStops(s, f) = {} THEN Append(s, f)
    ELSE LET i == FreeStop(s, f)
         IN  IF Touches(s[i], f) THEN Joined([s EXCEPT ![i].size = @ + f.size], i)
             ELSE IF s[i].addr > f.addr THEN Joined(InsertAt(s, i, f), i)
             ELSE s

\* NutHeapRootAlloc: the node handed out and the free list it leaves.
Allocates(s, need) == Fits(s, need) # {}
Allocated(s, need) == Taken(s[BestFit(s, need)], need)
AllocLeaves(s, need) == TakeFrom(s, BestFit(s, need), need)

-----------------------------------------------------------------------------
(* The calls                                                               *)

\* NutHeapRootAdd: a region becomes a node that is released.
NutHeapRootAdd(r) ==
    /\ r \notin region
    /\ heapFreeList' = Released(heapFreeList, r)
    /\ region' = region \cup {r}
    /\ UNCHANGED block

\* A failing call returns NULL and changes nothing.
NutHeapRootAlloc(o, size) ==
    /\ block[o] = None
    /\ IF Allocates(heapFreeList, Need(size))
         THEN /\ block' = [block EXCEPT ![o] = Allocated(heapFreeList, Need(size))]
              /\ heapFreeList' = AllocLeaves(heapFreeList, Need(size))
         ELSE UNCHANGED <<block, heapFreeList>>
    /\ UNCHANGED region

NutHeapRootFree(o) ==
    /\ block[o] # None
    /\ heapFreeList' = Released(heapFreeList, block[o])
    /\ block' = [block EXCEPT ![o] = None]
    /\ UNCHANGED region

\* The first free node behind f, if it follows without a gap and is large
\* enough to add miss to f.
Follows(s, f, miss) ==
    {i \in 1..Len(s) : /\ s[i].addr >= f.addr
                       /\ \A j \in 1..(i - 1) : s[j].addr < f.addr
                       /\ s[i].size >= miss
                       /\ Touches(f, s[i])}

\* Expansion: into the node that follows, otherwise by relocation.  The call
\* of NutHeapRootAlloc adds the overhead to a size that includes it already.
Expand(o, size) ==
    LET f    == block[o]
        miss == size - f.size
        s    == heapFreeList
    IN  \/ \E i \in Follows(s, f, miss) :
             /\ block' = [block EXCEPT ![o].size = @ + Taken(s[i], miss).size]
             /\ heapFreeList' = TakeFrom(s, i, miss)
        \/ /\ Follows(s, f, miss) = {}
           /\ IF Allocates(s, Need(size))
                THEN /\ block' = [block EXCEPT ![o] = Allocated(s, Need(size))]
                     /\ heapFreeList' = Released(AllocLeaves(s, Need(size)), f)
                ELSE UNCHANGED <<block, heapFreeList>>

\* Reduction: the part behind size is released.
Reduce(o, size) ==
    LET f == block[o]
    IN  /\ block' = [block EXCEPT ![o].size = size]
        /\ heapFreeList' = Released(heapFreeList, Rest(f, size))

\* NutHeapRootRealloc with a block and a size that is not zero; without a block
\* it is NutHeapRootAlloc, with size zero NutHeapRootFree.
NutHeapRootRealloc(o, size) ==
    LET need == Need(size)
    IN  /\ block[o] # None
        /\ IF need > block[o].size THEN Expand(o, need)
           ELSE IF need < block[o].size - NODE THEN Reduce(o, need)
           ELSE UNCHANGED <<block, heapFreeList>>
        /\ UNCHANGED region

\* The calls made for the memory of the given owners.
HeapNext(owners) ==
    \/ \E r \in Region : NutHeapRootAdd(r)
    \/ \E o \in owners : \/ NutHeapRootFree(o)
                         \/ \E size \in 0..MaxSize : NutHeapRootAlloc(o, size)
                         \/ \E size \in 1..MaxSize : NutHeapRootRealloc(o, size)

HeapSpec == HeapInit /\ [][HeapNext(Owner)]_heap

-----------------------------------------------------------------------------
(* Properties                                                              *)

FreeNodes == Range(heapFreeList)
UsedNodes == {block[o] : o \in {p \in Owner : block[p] # None}}

\* The free nodes are linked in the order of their addresses, none overlaps
\* or touches the next one (NutHeapRootFree joins "adjacent free regions"), and
\* each is large enough for its own management information.
FreeListSound ==
    \A i \in 1..Len(heapFreeList) :
        /\ heapFreeList[i].size >= NODE
        /\ i < Len(heapFreeList) =>
             heapFreeList[i].addr + heapFreeList[i].size < heapFreeList[i + 1].addr

\* Memory is neither lost nor given away twice: every unit of the added regions
\* belongs to exactly one free node or to exactly one block.
MemoryPartitioned ==
    /\ UNION {Cells(r) : r \in region} = UNION {Cells(n) : n \in FreeNodes \cup UsedNodes}
    /\ \A o, p \in Owner : o # p => Cells(block[o]) \cap Cells(block[p]) = {}
    /\ \A n \in FreeNodes, m \in UsedNodes : Cells(n) \cap Cells(m) = {}
=============================================================================
