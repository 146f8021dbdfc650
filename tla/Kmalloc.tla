------------------------------- MODULE Kmalloc -------------------------------
(***************************************************************************)
(* The kernel heap: kmalloc and kfree (kernel/kmalloc.c) over heap_alloc   *)
(* (kernel/heap.c).  Freed blocks wait on four lists, by size; a request   *)
(* that finds none there carves a new block off the heap.                  *)
(*                                                                         *)
(* The lists are changed with interrupts off, so a search of a list and a  *)
(* kfree are one step each.  heap_alloc is called after interrupts are on  *)
(* again and nothing takes __kernel_kmalloc_heap_lock: Overlap says        *)
(* whether the timer may switch to a thread that calls heap_alloc while    *)
(* another one is in it.                                                   *)
(*                                                                         *)
(* A block is its address, that of struct KMALLOC_FREENODE.  No caller in  *)
(* the kernel asks for as much as 2^32 - 31 bytes, so the sums do not wrap.*)
(***************************************************************************)
EXTENDS Integers, Sequences, SequencesExt, FiniteSets

CONSTANTS
    Caller,               \* the threads that call kmalloc and kfree
    NoRequest,
    Requests,             \* the sizes they ask for
    HeapStart, HeapSize,  \* __kheap_kmalloc.start and .size
    PageSize,             \* 4096
    MaxHeld,              \* bound: blocks in use at the same time
    Overlap               \* can threads be in heap_alloc at the same time

ASSUME KmallocAssumption ==
    /\ Requests \subseteq Nat /\ NoRequest \notin Nat
    /\ HeapStart \in Nat /\ HeapSize \in Nat
    /\ PageSize \in Nat \ {0} /\ MaxHeld \in Nat
    /\ Overlap \in BOOLEAN

VARIABLES
    ptr,        \* __kheap_kmalloc.ptr
    pages,      \* the pages of the heap that mmu_mmap has marked on demand
    size,       \* node->size of every block carved so far
    free,       \* the free lists, first node first
    held,       \* the blocks given out, with the caller that got them
    want, pc,   \* each caller: its request and where it is
    mem         \* the local mem of heap_alloc

vars == <<ptr, pages, size, free, held, want, pc, mem>>

Header == 16
Lists == {"kmalloc_64", "kmalloc_512", "kmalloc_1024", "kmalloc_large"}

-----------------------------------------------------------------------------
\* A plausible slip: rounded down.
Rounded_Down(n) == ((n + Header) \div 16) * 16

\* (((size + 15 + 16) >> 4) << 4)
Rounded(n) == ((n + 15 + Header) \div 16) * 16

BlockSize(n) ==
    LET r == Rounded(n) IN
    IF r <= 64 THEN 64 ELSE IF r <= 512 THEN 512 ELSE IF r <= 1024 THEN 1024 ELSE r

\* A plausible slip: < for <=.
ListOf_Below(s) ==
    IF s < 64 THEN "kmalloc_64" ELSE IF s < 512 THEN "kmalloc_512"
    ELSE IF s < 1024 THEN "kmalloc_1024" ELSE "kmalloc_large"

ListOf(s) ==
    IF s <= 64 THEN "kmalloc_64" ELSE IF s <= 512 THEN "kmalloc_512"
    ELSE IF s <= 1024 THEN "kmalloc_1024" ELSE "kmalloc_large"

\* The entry of a list that answers a request for s bytes: the first one,
\* but on the list of large blocks the first one that is long enough.
Answers(list, s, i) ==
    /\ i \in DOMAIN list
    /\ \/ s <= 1024 /\ i = 1
       \/ /\ s > 1024
          /\ size[list[i]] >= s
          /\ \A j \in 1..(i - 1) : size[list[j]] < s

\* A plausible slip: the node handed out stays on its list.
Unlinked_Kept(list, i) == list

Unlinked(list, i) == RemoveAt(list, i)

\* A plausible slip: the last, partly used page is not marked.
PagesOf_Down(at, s) == (at \div PageSize)..((at + s) \div PageSize - 1)

\* The pages from the one with byte at to the one with byte at + s - 1.
PagesOf(at, s) == (at \div PageSize)..((at + s + PageSize - 1) \div PageSize - 1)

\* A plausible slip: the header is not counted.
Bumped_Payload(from, s) == from + s - Header

Bumped(from, s) == from + s

\* A plausible slip: node->size is not written.
Headed_Missing(node, s) == size

\* node->size = size
Headed(node, s) ==
    [a \in DOMAIN size \union {node} |-> IF a = node THEN s ELSE size[a]]

-----------------------------------------------------------------------------
\* kmalloc(n) is called.
Call(t, n) ==
    /\ pc[t] = "idle" /\ Cardinality(held) < MaxHeld
    /\ want' = [want EXCEPT ![t] = n]
    /\ pc' = [pc EXCEPT ![t] = "list"]
    /\ UNCHANGED <<ptr, pages, size, free, held, mem>>

\* The part of kmalloc with interrupts off.
SearchList(t) ==
    /\ pc[t] = "list"
    /\ LET s    == BlockSize(want[t])
           list == free[ListOf(s)]
       IN \/ \E i \in DOMAIN list :
               /\ Answers(list, s, i)
               /\ free' = [free EXCEPT ![ListOf(s)] = Unlinked(list, i)]
               /\ held' = held \union {[by |-> t, node |-> list[i]]}
               /\ want' = [want EXCEPT ![t] = NoRequest]
               /\ pc' = [pc EXCEPT ![t] = "idle"]
          \/ /\ \A i \in DOMAIN list : ~Answers(list, s, i)
             /\ pc' = [pc EXCEPT ![t] = "heap"]
             /\ UNCHANGED <<free, held, want>>
    /\ UNCHANGED <<ptr, pages, size, mem>>

\* heap_alloc up to and including mmu_mmap.  Marking pages commutes with
\* what other threads do, so the marks are set in the step that reads ptr.
HeapCheck(t) ==
    /\ pc[t] = "heap"
    /\ Overlap \/ \A u \in Caller : pc[u] \notin {"take", "bump"}
    /\ LET s == BlockSize(want[t]) IN
       IF ptr + s >= HeapSize
       THEN /\ want' = [want EXCEPT ![t] = NoRequest]      \* return NULL
            /\ pc' = [pc EXCEPT ![t] = "idle"]
            /\ UNCHANGED pages
       ELSE /\ pages' = pages \union PagesOf(HeapStart + ptr, s)
            /\ pc' = [pc EXCEPT ![t] = "take"]
            /\ UNCHANGED want
    /\ UNCHANGED <<ptr, size, free, held, mem>>

\* mem = heap->start + heap->ptr
HeapTake(t) ==
    /\ pc[t] = "take"
    /\ mem' = [mem EXCEPT ![t] = HeapStart + ptr]
    /\ pc' = [pc EXCEPT ![t] = "bump"]
    /\ UNCHANGED <<ptr, pages, size, free, held, want>>

\* heap->ptr += size, from the value just read or read again; then kmalloc
\* writes the header of the node, which only its caller knows.
HeapBump(t) ==
    /\ pc[t] = "bump"
    /\ LET s == BlockSize(want[t]) IN
       /\ \E from \in {mem[t] - HeapStart, ptr} : ptr' = Bumped(from, s)
       /\ size' = Headed(mem[t], s)
       /\ held' = held \union {[by |-> t, node |-> mem[t]]}
    /\ want' = [want EXCEPT ![t] = NoRequest]
    /\ pc' = [pc EXCEPT ![t] = "idle"]
    /\ mem' = [mem EXCEPT ![t] = HeapStart]        \* dead from here on
    /\ UNCHANGED <<pages, free>>

\* kfree, by any thread: the cleaner frees what kmain allocated.
kfree(h) ==
    /\ held' = held \ {h}
    /\ free' = [free EXCEPT ![ListOf(size[h.node])] = <<h.node>> \o @]
    /\ UNCHANGED <<ptr, pages, size, want, pc, mem>>

-----------------------------------------------------------------------------
Init ==
    /\ ptr = 0 /\ pages = {}
    /\ size = [a \in {} |-> 0]
    /\ free = [l \in Lists |-> <<>>]
    /\ held = {}
    /\ want = [t \in Caller |-> NoRequest]
    /\ pc = [t \in Caller |-> "idle"]
    /\ mem = [t \in Caller |-> HeapStart]

Next ==
    \/ \E t \in Caller, n \in Requests : Call(t, n)
    \/ \E t \in Caller : SearchList(t)
    \/ \E t \in Caller : HeapCheck(t)
    \/ \E t \in Caller : HeapTake(t)
    \/ \E t \in Caller : HeapBump(t)
    \/ \E h \in held : kfree(h)

Spec == Init /\ [][Next]_vars

-----------------------------------------------------------------------------
(* Properties *)

TypeOK ==
    /\ ptr \in Nat /\ pages \subseteq Int
    /\ DOMAIN size \subseteq Nat /\ size \in [DOMAIN size -> Nat]
    /\ free \in [Lists -> Seq(DOMAIN size)]
    /\ held \subseteq [by : Caller, node : DOMAIN size]
    /\ want \in [Caller -> Requests \union {NoRequest}]
    /\ pc \in [Caller -> {"idle", "list", "heap", "take", "bump"}]
    /\ \A t \in Caller : pc[t] = "idle" <=> want[t] = NoRequest
    /\ mem \in [Caller -> Nat]

Apart(a, b) == a + size[a] <= b \/ b + size[b] <= a

\* No two blocks share a byte, header included, whether they are in use or
\* wait on a free list: what one caller writes is never another's data and
\* never a link or a size of the allocator.
BlocksApart ==
    /\ \A g, h \in held : g # h => Apart(g.node, h.node)
    /\ \A h \in held, l \in Lists : \A i \in DOMAIN free[l] :
          Apart(h.node, free[l][i])
    /\ \A k, l \in Lists : \A i \in DOMAIN free[k], j \in DOMAIN free[l] :
          <<k, i>> # <<l, j>> => Apart(free[k][i], free[l][j])

RightSize(l, s) ==
    \/ l = "kmalloc_64" /\ s = 64
    \/ l = "kmalloc_512" /\ s = 512
    \/ l = "kmalloc_1024" /\ s = 1024
    \/ l = "kmalloc_large" /\ s > 1024

\* Every block waits on the list whose requests it can answer: the lists of
\* one size are popped without a look at the length.
OnRightList ==
    \A l \in Lists : \A i \in DOMAIN free[l] : RightSize(l, size[free[l][i]])

\* All of a block is memory the page fault handler will back: touching a
\* page that is not marked on demand halts the machine.
Backed ==
    \A a \in DOMAIN size :
        (a \div PageSize)..((a + size[a] - 1) \div PageSize) \subseteq pages

\* The blocks tile the used part of the heap, and none of them is lost: each
\* is in use or on a free list.
HeapTiled ==
    /\ \A a \in DOMAIN size : a + size[a] \in DOMAIN size \union {HeapStart + ptr}
    /\ DOMAIN size = {h.node : h \in held} \union UNION {ToSet(free[l]) : l \in Lists}

\* What the caller sees of a block: the bytes after the header.
Given == {[by |-> h.by, base |-> h.node + Header, len |-> size[h.node] - Header] :
             h \in held}

\* kmalloc and kfree are an allocator: what a caller gets is as long as it
\* asked for and nobody else's, wherever the block came from.
Contract == INSTANCE Allocator WITH held <- Given
Implements == Contract!Spec
=============================================================================
