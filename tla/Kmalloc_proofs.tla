--------------------------- MODULE Kmalloc_proofs ---------------------------
(***************************************************************************)
(* What MCKmalloc checks on a small heap, proved for every heap, page size *)
(* and number of callers as long as no two of them meet in heap_alloc.     *)
(***************************************************************************)
EXTENDS Kmalloc, QueueLemmas, TLAPS

-----------------------------------------------------------------------------
(* The inductive invariant *)

Carving == {"take", "bump"}
InUse   == {h.node : h \in held}

QueuesOK == free \in [Lists -> Queue(DOMAIN size)]

\* Blocks lie below ptr and do not overlap.
Carved ==
    /\ \A a \in DOMAIN size :
          /\ size[a] \in {64, 512, 1024} \/ size[a] > 1024
          /\ HeapStart <= a /\ a + size[a] <= HeapStart + ptr
    /\ \A a, b \in DOMAIN size : a # b => Apart(a, b)

\* A block is at home in one place: with one caller or on one list.
OneHome ==
    /\ \A g, h \in held : g.node = h.node => g = h
    /\ \A l \in Lists : InUse \intersect ToSet(free[l]) = {}
    /\ \A k, l \in Lists : k # l => ToSet(free[k]) \intersect ToSet(free[l]) = {}

RightHome ==
    \A l \in Lists : \A a \in ToSet(free[l]) : RightSize(l, size[a])

\* The one caller inside heap_alloc has its pages and reads the ptr it adds to.
InHeap ==
    /\ \A t, u \in Caller : pc[t] \in Carving /\ pc[u] \in Carving => t = u
    /\ \A t \in Caller : pc[t] \in Carving =>
          PagesOf(HeapStart + ptr, BlockSize(want[t])) \subseteq pages
    /\ \A t \in Caller : pc[t] = "bump" => mem[t] = HeapStart + ptr

IInv ==
    /\ TypeOK /\ QueuesOK
    /\ Carved /\ OneHome /\ RightHome
    /\ InHeap /\ Backed /\ HeapTiled

-----------------------------------------------------------------------------
(* Sizes and pages *)

\* Rounding never loses a byte: a block has room for the request and the
\* header, and is exactly 64, 512 or 1024 bytes or longer.
LEMMA BlockSizeFits ==
  ASSUME NEW n \in Nat
  PROVE  /\ BlockSize(n) \in Nat /\ BlockSize(n) >= n + Header
         /\ BlockSize(n) \in {64, 512, 1024} \/ BlockSize(n) > 1024
<1>1. Rounded(n) \in Nat /\ Rounded(n) >= n + 16
  BY DEF Rounded, Header
<1> QED BY <1>1 DEF BlockSize, Header

\* kfree and kmalloc agree on the list of a size.
LEMMA ListOfRight ==
  ASSUME NEW s \in Nat, s \in {64, 512, 1024} \/ s > 1024
  PROVE  /\ ListOf(s) \in Lists
         /\ \A l \in Lists : RightSize(l, s) <=> l = ListOf(s)
BY DEF ListOf, Lists, RightSize

\* The pages mmu_mmap is asked for hold the first and the last byte.
LEMMA PagesCover ==
  ASSUME NEW a \in Nat, NEW s \in Nat \ {0}, NEW P \in Nat \ {0}
  PROVE  /\ (a + s - 1) \div P \in Nat /\ a \div P \in Nat
         /\ (a + s - 1) \div P = (a + s + P - 1) \div P - 1
<1>1. /\ a + s - 1 \in Nat
      /\ a + s + P - 1 = (a + s - 1) + P
  OBVIOUS
<1> DEFINE x == a + s - 1
<1>2. x \in Nat /\ (x + P) \div P = x \div P + 1 /\ x \div P \in Nat
  OBVIOUS
<1>3. (a + s + P - 1) \div P = (x + P) \div P
  BY <1>1
<1>4. a \div P \in Nat
  OBVIOUS
<1> HIDE DEF x
<1>5. (a + s + P - 1) \div P - 1 = x \div P
  BY <1>2, <1>3
<1> QED BY <1>2, <1>4, <1>5 DEF x

LEMMA PagesOfBlock ==
  ASSUME NEW a \in Nat, NEW s \in Nat \ {0}
  PROVE  (a \div PageSize)..((a + s - 1) \div PageSize) = PagesOf(a, s)
BY PagesCover, KmallocAssumption DEF PagesOf

-----------------------------------------------------------------------------
LEMMA InitIInv == Init => IInv
<1> SUFFICES ASSUME Init PROVE IInv
  OBVIOUS
<1>1. <<>> \in Queue({}) /\ ToSet(<<>>) = {} /\ <<>> \in Seq({})
  BY DEF Queue, IsInjective, ToSet
<1>2. DOMAIN size = {} /\ size \in [{} -> Nat]
  BY DEF Init
<1>3. free \in [Lists -> Queue({})] /\ free \in [Lists -> Seq({})]
      /\ \A l \in Lists : free[l] = <<>>
  BY <1>1 DEF Init
<1>4. TypeOK
  BY <1>2, <1>3, KmallocAssumption DEF TypeOK, Init
<1>5. QueuesOK
  BY <1>2, <1>3 DEF QueuesOK
<1>6. Carved /\ Backed
  BY <1>2 DEF Carved, Backed
<1>7. OneHome /\ RightHome
  BY <1>1, <1>3 DEF OneHome, RightHome, InUse, Init
<1>8. InHeap
  BY DEF InHeap, Carving, Init
<1>9. HeapTiled
  BY <1>1, <1>2, <1>3 DEF HeapTiled, Init
<1> QED BY <1>4, <1>5, <1>6, <1>7, <1>8, <1>9 DEF IInv

-----------------------------------------------------------------------------
(* The steps that move no block: they change callers and pages only. *)

Quiet == UNCHANGED <<ptr, size, free, held>>

\* The invariant of the heap and the lists survives a quiet step.
LEMMA QuietStep ==
  ASSUME IInv, Quiet, pages \subseteq pages'
  PROVE  /\ QueuesOK' /\ Carved' /\ OneHome' /\ RightHome' /\ Backed' /\ HeapTiled'
         /\ (/\ ptr \in Nat /\ DOMAIN size \subseteq Nat
             /\ size \in [DOMAIN size -> Nat]
             /\ free \in [Lists -> Seq(DOMAIN size)]
             /\ held \subseteq [by : Caller, node : DOMAIN size])'
<1>1. QueuesOK' BY DEF IInv, QueuesOK, Quiet
<1>2. Carved' BY DEF IInv, Carved, Apart, Quiet
<1>3. OneHome' BY DEF IInv, OneHome, InUse, Quiet
<1>4. RightHome' BY DEF IInv, RightHome, Quiet
<1>5. Backed' BY DEF IInv, Backed, Quiet
<1>6. HeapTiled' BY DEF IInv, HeapTiled, Quiet
<1> QED BY <1>1, <1>2, <1>3, <1>4, <1>5, <1>6 DEF IInv, TypeOK, Quiet

LEMMA CallStep ==
  ASSUME IInv, NEW t \in Caller, NEW n \in Requests, Call(t, n)
  PROVE  IInv'
<1>1. Quiet /\ pages' = pages
  BY DEF Call, Quiet
<1>2. n \in Nat /\ n # NoRequest
  BY KmallocAssumption
<1>3. TypeOK'
  BY <1>1, <1>2, QuietStep DEF Call, IInv, TypeOK
<1>4. InHeap'
  BY DEF Call, IInv, InHeap, Carving, TypeOK
<1> QED BY <1>1, <1>3, <1>4, QuietStep DEF IInv

LEMMA HeapCheckStep ==
  ASSUME IInv, ~Overlap, NEW t \in Caller, HeapCheck(t)
  PROVE  IInv'
<1>1. Quiet /\ pages \subseteq pages'
  BY DEF HeapCheck, Quiet
<1>2. /\ want[t] # NoRequest /\ want[t] \in Nat
      /\ pages' \subseteq pages \union PagesOf(HeapStart + ptr, BlockSize(want[t]))
  BY KmallocAssumption DEF HeapCheck, IInv, TypeOK
<1>3. pages' \subseteq Int
  BY <1>2, KmallocAssumption DEF IInv, TypeOK, PagesOf
<1>4. TypeOK'
  BY <1>1, <1>3, QuietStep DEF HeapCheck, IInv, TypeOK
<1>5. InHeap'
  <2>1. CASE ptr + BlockSize(want[t]) >= HeapSize
    BY <2>1 DEF HeapCheck, IInv, InHeap, Carving, TypeOK
  <2>2. CASE ~(ptr + BlockSize(want[t]) >= HeapSize)
    <3>1. /\ pc' = [pc EXCEPT ![t] = "take"] /\ want' = want /\ ptr' = ptr
          /\ pages' = pages \union PagesOf(HeapStart + ptr, BlockSize(want[t]))
          /\ mem' = mem
          /\ \A u \in Caller : pc[u] \notin Carving
      BY <2>2 DEF HeapCheck, Carving
    <3>2. \A u \in Caller : pc'[u] \in Carving => u = t
      BY <3>1 DEF Carving, IInv, TypeOK
    <3>3. pc'[t] = "take"
      BY <3>1 DEF IInv, TypeOK
    <3> QED BY <3>1, <3>2, <3>3 DEF InHeap, Carving
  <2> QED BY <2>1, <2>2
<1> QED BY <1>1, <1>4, <1>5, QuietStep DEF IInv

LEMMA HeapTakeStep ==
  ASSUME IInv, NEW t \in Caller, HeapTake(t)
  PROVE  IInv'
<1>1. Quiet /\ pages' = pages
  BY DEF HeapTake, Quiet
<1>2. HeapStart + ptr \in Nat
  BY KmallocAssumption DEF IInv, TypeOK
<1>3. TypeOK'
  BY <1>1, <1>2, QuietStep DEF HeapTake, IInv, TypeOK
<1>4. InHeap'
  <2>1. /\ pc' = [pc EXCEPT ![t] = "bump"] /\ pc[t] \in Carving
        /\ want' = want /\ ptr' = ptr /\ pages' = pages
        /\ mem' = [mem EXCEPT ![t] = HeapStart + ptr]
    BY DEF HeapTake, Carving
  <2>2. \A u \in Caller : pc'[u] \in Carving => u = t
    BY <2>1 DEF Carving, IInv, InHeap, TypeOK
  <2>3. mem'[t] = HeapStart + ptr /\ pc'[t] = "bump"
    BY <2>1 DEF IInv, TypeOK
  <2> QED BY <2>1, <2>2, <2>3 DEF IInv, InHeap
<1> QED BY <1>1, <1>3, <1>4, QuietStep DEF IInv

-----------------------------------------------------------------------------
(* The steps that move a block *)

\* A search that finds nothing sends the caller to the heap.
LEMMA SearchMiss ==
  ASSUME IInv, NEW t \in Caller, Quiet, pages' = pages,
         UNCHANGED <<want, mem>>, pc[t] = "list", pc' = [pc EXCEPT ![t] = "heap"]
  PROVE  IInv'
<1>1. TypeOK'
  BY QuietStep DEF IInv, TypeOK
<1>2. InHeap'
  BY DEF IInv, InHeap, Carving, TypeOK, Quiet
<1> QED BY <1>1, <1>2, QuietStep DEF IInv

\* A block leaves its list for the caller.
LEMMA SearchHit ==
  ASSUME IInv, NEW t \in Caller, NEW l \in Lists, NEW i \in DOMAIN free[l],
         pc[t] = "list",
         free' = [free EXCEPT ![l] = RemoveAt(free[l], i)],
         held' = held \union {[by |-> t, node |-> free[l][i]]},
         want' = [want EXCEPT ![t] = NoRequest],
         pc' = [pc EXCEPT ![t] = "idle"],
         UNCHANGED <<ptr, pages, size, mem>>
  PROVE  IInv'
<1> DEFINE x == free[l][i]
           h == [by |-> t, node |-> x]
<1>1. free[l] \in Queue(DOMAIN size) /\ i \in 1..Len(free[l])
  BY LenProperties DEF IInv, QueuesOK, Queue
<1>2. /\ RemoveAt(free[l], i) \in Queue(DOMAIN size)
      /\ ToSet(RemoveAt(free[l], i)) = ToSet(free[l]) \ {x}
  BY <1>1, QueueRemove
<1>3. x \in ToSet(free[l]) /\ x \in DOMAIN size
  BY <1>1, Members DEF Queue
<1>4. /\ \A k \in Lists : ToSet(free'[k]) = ToSet(free[k]) \ (IF k = l THEN {x} ELSE {})
      /\ free' \in [Lists -> Queue(DOMAIN size)]
  BY <1>2 DEF IInv, QueuesOK
<1>5. QueuesOK'
  BY <1>4 DEF QueuesOK
<1>6. free' \in [Lists -> Seq(DOMAIN size)]
  BY <1>4 DEF Queue
<1>7. held' \subseteq [by : Caller, node : DOMAIN size]
  BY <1>3 DEF IInv, TypeOK
<1>8. TypeOK'
  BY <1>6, <1>7 DEF IInv, TypeOK
<1>9. Carved' /\ Backed'
  BY DEF IInv, Carved, Apart, Backed
<1>10. InUse' = InUse \union {x}
  <2>1. h.node = x /\ held' = held \union {h}
    OBVIOUS
  <2> HIDE DEF h, x
  <2>2. \A y : (\E g \in held' : y = g.node) <=> (\E g \in held : y = g.node) \/ y = x
    BY <2>1
  <2> QED BY <2>2 DEF InUse
<1>11. x \notin InUse /\ \A k \in Lists : k # l => x \notin ToSet(free[k])
  BY <1>3 DEF IInv, OneHome
<1>12. OneHome'
  <2>1. \A f, g \in held' : f.node = g.node => f = g
    BY <1>11 DEF IInv, OneHome, InUse
  <2>2. \A k \in Lists : InUse' \intersect ToSet(free'[k]) = {}
    BY <1>4, <1>10, <1>11 DEF IInv, OneHome
  <2>3. \A j, k \in Lists : j # k => ToSet(free'[j]) \intersect ToSet(free'[k]) = {}
    BY <1>4 DEF IInv, OneHome
  <2> QED BY <2>1, <2>2, <2>3 DEF OneHome
<1>13. RightHome'
  BY <1>4 DEF IInv, RightHome
<1>14. InHeap'
  BY DEF IInv, InHeap, Carving, TypeOK
<1>15. HeapTiled'
  <2> DEFINE OnLists == UNION {ToSet(free[k]) : k \in Lists}
  <2>1. UNION {ToSet(free'[k]) : k \in Lists} = OnLists \ {x}
    BY <1>4, <1>11
  <2>2. x \in OnLists
    BY <1>3
  <2>3. DOMAIN size = InUse \union OnLists
    BY DEF IInv, HeapTiled, InUse
  <2>4. DOMAIN size = InUse' \union UNION {ToSet(free'[k]) : k \in Lists}
    BY <2>1, <2>2, <2>3, <1>10
  <2> QED BY <2>4 DEF IInv, HeapTiled, InUse
<1> QED BY <1>5, <1>8, <1>9, <1>12, <1>13, <1>14, <1>15 DEF IInv

LEMMA SearchListStep ==
  ASSUME IInv, NEW t \in Caller, SearchList(t)
  PROVE  IInv'
<1> DEFINE s == BlockSize(want[t])
           l == ListOf(s)
<1>1. want[t] \in Nat
  BY KmallocAssumption DEF SearchList, IInv, TypeOK
<1>2. l \in Lists
  BY <1>1, BlockSizeFits, ListOfRight
<1>3. CASE \E i \in DOMAIN free[l] :
             /\ free' = [free EXCEPT ![l] = Unlinked(free[l], i)]
             /\ held' = held \union {[by |-> t, node |-> free[l][i]]}
             /\ want' = [want EXCEPT ![t] = NoRequest]
             /\ pc' = [pc EXCEPT ![t] = "idle"]
  BY <1>2, <1>3, SearchHit DEF SearchList, Unlinked
<1>4. CASE pc' = [pc EXCEPT ![t] = "heap"] /\ UNCHANGED <<free, held, want>>
  BY <1>4, SearchMiss DEF SearchList, Quiet
<1> QED BY <1>3, <1>4 DEF SearchList

LEMMA KfreeStep ==
  ASSUME IInv, NEW h \in held, kfree(h)
  PROVE  IInv'
<1> DEFINE x == h.node
           l == ListOf(size[x])
<1>1. x \in DOMAIN size /\ x \in InUse
  BY DEF IInv, TypeOK, InUse
<1>2. /\ l \in Lists
      /\ RightSize(l, size[x])
  BY <1>1, ListOfRight DEF IInv, TypeOK, Carved
<1>3. free[l] \in Queue(DOMAIN size) /\ x \notin ToSet(free[l])
  BY <1>1, <1>2 DEF IInv, QueuesOK, OneHome
<1>4. <<x>> \in Queue(DOMAIN size) /\ ToSet(<<x>>) = {x}
  BY <1>1, QueueSingle
<1>5. /\ <<x>> \o free[l] \in Queue(DOMAIN size)
      /\ ToSet(<<x>> \o free[l]) = {x} \union ToSet(free[l])
  BY <1>3, <1>4, QueueConcat
<1>6. /\ free' = [free EXCEPT ![l] = <<x>> \o free[l]]
      /\ held' = held \ {h}
      /\ UNCHANGED <<ptr, pages, size, want, pc, mem>>
  BY DEF kfree
<1>7. /\ \A k \in Lists : ToSet(free'[k]) = ToSet(free[k]) \union (IF k = l THEN {x} ELSE {})
      /\ free' \in [Lists -> Queue(DOMAIN size)]
  BY <1>2, <1>5, <1>6 DEF IInv, QueuesOK
<1>8. QueuesOK'
  BY <1>6, <1>7 DEF QueuesOK
<1>9. free' \in [Lists -> Seq(DOMAIN size)]
  BY <1>7 DEF Queue
<1>10. TypeOK'
  BY <1>6, <1>9 DEF IInv, TypeOK
<1>11. Carved' /\ Backed'
  BY <1>6 DEF IInv, Carved, Apart, Backed
<1>12. InUse' = InUse \ {x}
  BY <1>6 DEF InUse, IInv, OneHome
<1>13. \A k \in Lists : x \notin ToSet(free[k])
  BY <1>1 DEF IInv, OneHome
<1>14. OneHome'
  <2>1. \A f, g \in held' : f.node = g.node => f = g
    BY <1>6 DEF IInv, OneHome
  <2>2. \A k \in Lists : InUse' \intersect ToSet(free'[k]) = {}
    BY <1>7, <1>12 DEF IInv, OneHome
  <2>3. \A j, k \in Lists : j # k => ToSet(free'[j]) \intersect ToSet(free'[k]) = {}
    BY <1>7, <1>13 DEF IInv, OneHome
  <2> QED BY <2>1, <2>2, <2>3 DEF OneHome
<1>15. RightHome'
  BY <1>2, <1>6, <1>7 DEF IInv, RightHome
<1>16. InHeap'
  BY <1>6 DEF IInv, InHeap
<1>17. HeapTiled'
  <2> DEFINE OnLists == UNION {ToSet(free[k]) : k \in Lists}
  <2>1. UNION {ToSet(free'[k]) : k \in Lists} = OnLists \union {x}
    BY <1>2, <1>7
  <2>2. DOMAIN size = InUse \union OnLists
    BY DEF IInv, HeapTiled, InUse
  <2>3. DOMAIN size = InUse' \union UNION {ToSet(free'[k]) : k \in Lists}
    BY <2>1, <2>2, <1>1, <1>12
  <2> QED BY <2>3, <1>6 DEF IInv, HeapTiled, InUse
<1> QED BY <1>8, <1>10, <1>11, <1>14, <1>15, <1>16, <1>17 DEF IInv

\* The caller gets the chunk that starts at ptr, which no block reaches.
LEMMA HeapBumpStep ==
  ASSUME IInv, NEW t \in Caller, HeapBump(t)
  PROVE  IInv'
<1> DEFINE s == BlockSize(want[t])
           x == HeapStart + ptr
           h == [by |-> t, node |-> x]
<1>1. /\ pc[t] = "bump" /\ pc[t] \in Carving /\ want[t] \in Nat
      /\ mem[t] = x /\ ptr \in Nat /\ x \in Nat /\ HeapStart \in Nat
  BY KmallocAssumption DEF HeapBump, IInv, TypeOK, InHeap, Carving
<1>2. /\ s \in Nat /\ s >= Header
      /\ s \in {64, 512, 1024} \/ s > 1024
  BY <1>1, BlockSizeFits DEF Header
<1>3. s \in Nat \ {0}
  BY <1>2
<1>4. /\ ptr' = ptr + s
      /\ size' = [a \in DOMAIN size \union {x} |-> IF a = x THEN s ELSE size[a]]
      /\ held' = held \union {h}
      /\ want' = [want EXCEPT ![t] = NoRequest]
      /\ pc' = [pc EXCEPT ![t] = "idle"]
      /\ mem' = [mem EXCEPT ![t] = HeapStart]
      /\ UNCHANGED <<pages, free>>
  <2>1. mem[t] - HeapStart = ptr
    BY <1>1
  <2> QED BY <1>1, <2>1 DEF HeapBump, Bumped, Headed
<1>5. PagesOf(x, s) \subseteq pages
  BY <1>1 DEF IInv, InHeap
<1>6. \A u \in Caller : pc'[u] \notin Carving
  BY <1>1, <1>4 DEF IInv, InHeap, TypeOK, Carving
<1>7. \A a \in DOMAIN size :
         a \in Nat /\ size[a] \in Nat /\ size[a] >= 1 /\ a + size[a] <= x /\ HeapStart <= a
  <2> SUFFICES ASSUME NEW a \in DOMAIN size
               PROVE  a \in Nat /\ size[a] \in Nat /\ size[a] >= 1 /\ a + size[a] <= x
                      /\ HeapStart <= a
    OBVIOUS
  <2>1. a \in Nat /\ size[a] \in Nat
    BY DEF IInv, TypeOK
  <2>2. /\ size[a] \in {64, 512, 1024} \/ size[a] > 1024
        /\ HeapStart <= a /\ a + size[a] <= HeapStart + ptr
    BY DEF IInv, Carved
  <2> QED BY <2>1, <2>2
<1>8. x \notin DOMAIN size
  BY <1>1, <1>7
<1> HIDE DEF s, x
<1>9. /\ DOMAIN size' = DOMAIN size \union {x}
      /\ size'[x] = s
      /\ \A a \in DOMAIN size : size'[a] = size[a]
  BY <1>4, <1>8
<1>10. \A l \in Lists : free'[l] = free[l] /\ ToSet(free[l]) \subseteq DOMAIN size
  BY <1>4, Members DEF IInv, QueuesOK, Queue
<1>11. free \in [Lists -> Queue(DOMAIN size')] /\ free \in [Lists -> Seq(DOMAIN size')]
  <2>1. ASSUME NEW q \in Queue(DOMAIN size)
        PROVE  q \in Queue(DOMAIN size') /\ q \in Seq(DOMAIN size')
    BY <1>9 DEF Queue
  <2> QED BY <2>1 DEF IInv, QueuesOK
<1>12. QueuesOK'
  BY <1>4, <1>11 DEF QueuesOK
<1>13. held' \subseteq [by : Caller, node : DOMAIN size']
  BY <1>4, <1>9 DEF IInv, TypeOK
<1>14. size' \in [DOMAIN size' -> Nat] /\ DOMAIN size' \subseteq Nat
  BY <1>1, <1>3, <1>4, <1>7, <1>9
<1>15. TypeOK'
  BY <1>1, <1>3, <1>4, <1>11, <1>13, <1>14 DEF IInv, TypeOK
<1>16. HeapStart + ptr' = x + s
  BY <1>1, <1>3, <1>4 DEF x
<1>17. Carved'
  <2>1. \A a \in DOMAIN size' :
           /\ size'[a] \in {64, 512, 1024} \/ size'[a] > 1024
           /\ HeapStart <= a /\ a + size'[a] <= x + s
    <3>1. HeapStart <= x
      BY <1>1 DEF x
    <3> QED BY <3>1, <1>1, <1>2, <1>3, <1>7, <1>9 DEF IInv, Carved
  <2>2. ASSUME NEW a \in DOMAIN size', NEW b \in DOMAIN size', a # b
        PROVE  a + size'[a] <= b \/ b + size'[b] <= a
    BY <2>2, <1>7, <1>9 DEF IInv, Carved, Apart
  <2>3. \A a \in DOMAIN size' :
           /\ size'[a] \in {64, 512, 1024} \/ size'[a] > 1024
           /\ HeapStart <= a /\ a + size'[a] <= HeapStart + ptr'
    BY <2>1, <1>16
  <2> QED BY <2>2, <2>3 DEF Carved, Apart
<1>18. InUse' = InUse \union {x} /\ InUse \subseteq DOMAIN size
  <2>1. h.node = x
    OBVIOUS
  <2> HIDE DEF h
  <2>2. \A y : (\E g \in held' : y = g.node) <=> (\E g \in held : y = g.node) \/ y = x
    BY <2>1, <1>4
  <2>3. InUse \subseteq DOMAIN size
    BY DEF InUse, IInv, TypeOK
  <2>4. InUse' = InUse \union {x}
    BY <2>2 DEF InUse
  <2> QED BY <2>3, <2>4
<1>19. OneHome'
  <2>1. \A f, g \in held' : f.node = g.node => f = g
    BY <1>4, <1>8, <1>18 DEF IInv, OneHome, InUse
  <2>2. \A k \in Lists : InUse' \intersect ToSet(free'[k]) = {}
    BY <1>8, <1>10, <1>18 DEF IInv, OneHome
  <2> QED BY <2>1, <2>2, <1>10 DEF IInv, OneHome
<1>20. RightHome'
  BY <1>9, <1>10 DEF IInv, RightHome
<1>21. InHeap'
  BY <1>6 DEF InHeap, Carving
<1>22. Backed'
  <2>1. (x \div PageSize)..((x + s - 1) \div PageSize) \subseteq pages
    BY <1>1, <1>3, <1>5, PagesOfBlock
  <2> QED BY <2>1, <1>4, <1>9 DEF IInv, Backed
<1>23. HeapTiled'
  <2>1. \A a \in DOMAIN size' : a + size'[a] \in DOMAIN size' \union {x + s}
    BY <1>9 DEF IInv, HeapTiled, x
  <2> DEFINE OnLists == UNION {ToSet(free[k]) : k \in Lists}
  <2>2. UNION {ToSet(free'[k]) : k \in Lists} = OnLists
    BY <1>10
  <2>3. DOMAIN size' = InUse' \union UNION {ToSet(free'[k]) : k \in Lists}
    BY <2>2, <1>9, <1>18 DEF IInv, HeapTiled, InUse
  <2> QED BY <2>1, <2>3, <1>16 DEF HeapTiled, InUse
<1> QED BY <1>12, <1>15, <1>17, <1>19, <1>20, <1>21, <1>22, <1>23 DEF IInv

LEMMA StepIInv ==
  ASSUME IInv, ~Overlap, [Next]_vars
  PROVE  IInv'
<1>1. CASE \E t \in Caller, n \in Requests : Call(t, n)
  BY <1>1, CallStep
<1>2. CASE \E t \in Caller : SearchList(t)
  BY <1>2, SearchListStep
<1>3. CASE \E t \in Caller : HeapCheck(t)
  BY <1>3, HeapCheckStep
<1>4. CASE \E t \in Caller : HeapTake(t)
  BY <1>4, HeapTakeStep
<1>5. CASE \E t \in Caller : HeapBump(t)
  BY <1>5, HeapBumpStep
<1>6. CASE \E h \in held : kfree(h)
  BY <1>6, KfreeStep
<1>7. CASE UNCHANGED vars
  <2>1. Quiet /\ pages' = pages
    BY <1>7 DEF vars, Quiet
  <2>2. TypeOK' /\ InHeap'
    BY <1>7 DEF vars, IInv, TypeOK, InHeap
  <2> QED BY <2>1, <2>2, QuietStep DEF IInv
<1> QED BY <1>1, <1>2, <1>3, <1>4, <1>5, <1>6, <1>7 DEF Next

-----------------------------------------------------------------------------
\* The inductive invariant holds in every reachable state, if callers do not
\* meet inside heap_alloc (kmalloc.c calls it without the lock).
THEOREM HeapInvariance ==
  ASSUME ~Overlap
  PROVE  Spec => []IInv
<1>1. Init => IInv
  BY InitIInv
<1>2. IInv /\ [Next]_vars => IInv'
  BY StepIInv
<1>3. Spec => []IInv
  BY <1>1, <1>2, PTL DEF Spec
<1> QED BY <1>3

\* Every variable of the allocator keeps its type; lists and callers only
\* ever refer to blocks that were carved.
THEOREM HeapTyped ==
  ASSUME ~Overlap
  PROVE  Spec => []TypeOK
<1>1. IInv => TypeOK
  BY DEF IInv
<1> QED BY <1>1, HeapInvariance, PTL

\* kmalloc never hands out or keeps on a list two blocks with a common byte.
THEOREM HeapApart ==
  ASSUME ~Overlap
  PROVE  Spec => []BlocksApart
<1>1. ASSUME IInv PROVE BlocksApart
  <2>1. \A a, b \in DOMAIN size : a # b => Apart(a, b)
    BY <1>1 DEF IInv, Carved
  <2>2. \A h \in held : h.node \in DOMAIN size
    BY <1>1 DEF IInv, TypeOK
  <2>3. \A l \in Lists : /\ \A i \in DOMAIN free[l] :
                               free[l][i] \in ToSet(free[l]) /\ free[l][i] \in DOMAIN size
                         /\ \A i, j \in DOMAIN free[l] : free[l][i] = free[l][j] => i = j
    <3> SUFFICES ASSUME NEW l \in Lists
                 PROVE  /\ \A i \in DOMAIN free[l] :
                              free[l][i] \in ToSet(free[l]) /\ free[l][i] \in DOMAIN size
                        /\ \A i, j \in DOMAIN free[l] : free[l][i] = free[l][j] => i = j
      OBVIOUS
    <3>1. free[l] \in Queue(DOMAIN size)
      BY <1>1 DEF IInv, QueuesOK
    <3>2. free[l] \in Seq(DOMAIN size) /\ DOMAIN free[l] = 1..Len(free[l])
          /\ IsInjective(free[l])
      BY <3>1, LenProperties DEF Queue
    <3> QED BY <3>2, Members DEF IsInjective
  <2>4. \A g, h \in held : g # h => Apart(g.node, h.node)
    BY <1>1, <2>1, <2>2 DEF IInv, OneHome
  <2>5. \A h \in held, l \in Lists : \A i \in DOMAIN free[l] : Apart(h.node, free[l][i])
    <3>1. \A h \in held, l \in Lists : h.node \notin ToSet(free[l])
      BY <1>1 DEF IInv, OneHome, InUse
    <3> QED BY <3>1, <2>1, <2>2, <2>3
  <2>6. ASSUME NEW k \in Lists, NEW l \in Lists,
               NEW i \in DOMAIN free[k], NEW j \in DOMAIN free[l], <<k, i>> # <<l, j>>
        PROVE  Apart(free[k][i], free[l][j])
    <3>1. free[k][i] # free[l][j]
      BY <1>1, <2>3, <2>6 DEF IInv, OneHome
    <3> QED BY <3>1, <2>1, <2>3
  <2> QED BY <2>4, <2>5, <2>6 DEF BlocksApart
<1> QED BY <1>1, HeapInvariance, PTL

\* A block on a free list has the size the list stands for.
THEOREM HeapSorted ==
  ASSUME ~Overlap
  PROVE  Spec => []OnRightList
<1>1. ASSUME IInv PROVE OnRightList
  <2> SUFFICES ASSUME NEW l \in Lists, NEW i \in DOMAIN free[l]
               PROVE  RightSize(l, size[free[l][i]])
    BY DEF OnRightList
  <2>1. free[l] \in Seq(DOMAIN size) /\ i \in 1..Len(free[l])
    BY <1>1, LenProperties DEF IInv, QueuesOK, Queue
  <2>2. free[l][i] \in ToSet(free[l])
    BY <2>1, Members
  <2> QED BY <1>1, <2>2 DEF IInv, RightHome
<1> QED BY <1>1, HeapInvariance, PTL

\* Every byte of every block lies in a page that mmu_mmap has marked.
THEOREM HeapBacked ==
  ASSUME ~Overlap
  PROVE  Spec => []Backed
<1>1. IInv => Backed
  BY DEF IInv
<1> QED BY <1>1, HeapInvariance, PTL

\* The blocks tile the heap up to ptr, and each is in use or on a list.
THEOREM HeapConserved ==
  ASSUME ~Overlap
  PROVE  Spec => []HeapTiled
<1>1. IInv => HeapTiled
  BY DEF IInv
<1> QED BY <1>1, HeapInvariance, PTL

-----------------------------------------------------------------------------
(* Kmalloc implements Allocator *)

Payload(h) == [by |-> h.by, base |-> h.node + Header, len |-> size[h.node] - Header]

\* The list that answers a request holds only blocks that are long enough.
LEMMA AnswerFits ==
  ASSUME IInv, NEW n \in Nat,
         NEW i \in DOMAIN free[ListOf(BlockSize(n))],
         Answers(free[ListOf(BlockSize(n))], BlockSize(n), i)
  PROVE  size[free[ListOf(BlockSize(n))][i]] >= n + Header
<1> DEFINE s == BlockSize(n)
           l == ListOf(s)
<1>1. /\ s \in Nat /\ s >= n + Header /\ n + Header \in Nat
      /\ s \in {64, 512, 1024} \/ s > 1024
  BY BlockSizeFits DEF Header
<1>2. l \in Lists /\ \A k \in Lists : RightSize(k, s) <=> k = l
  BY <1>1, ListOfRight
<1>3. free[l] \in Seq(DOMAIN size) /\ i \in 1..Len(free[l])
  BY <1>2, LenProperties DEF IInv, QueuesOK, Queue
<1>4. /\ free[l][i] \in DOMAIN size /\ size[free[l][i]] \in Nat
      /\ RightSize(l, size[free[l][i]])
  <2>1. free[l][i] \in DOMAIN size
    BY <1>3
  <2>2. free[l][i] \in ToSet(free[l])
    BY <1>3, Members
  <2>3. RightSize(l, size[free[l][i]])
    BY <1>2, <2>2 DEF IInv, RightHome
  <2>4. size[free[l][i]] \in Nat
    BY <2>1 DEF IInv, TypeOK
  <2> QED BY <2>1, <2>3, <2>4
<1>5. CASE s > 1024
  BY <1>1, <1>4, <1>5 DEF Answers
<1>6. CASE s <= 1024
  <2>1. s \in {64, 512, 1024}
    BY <1>1, <1>6
  <2>2. RightSize(l, s)
    BY <1>2
  <2>3. size[free[l][i]] = s
    BY <2>1, <2>2, <1>4 DEF RightSize
  <2> QED BY <2>3, <1>1
<1> QED BY <1>1, <1>5, <1>6

\* A block that nobody holds and that is apart from the others may be granted.
LEMMA GrantStep ==
  ASSUME IInv, IInv', NEW t \in Caller, NEW x, NEW n \in Nat,
         want[t] = n, n # NoRequest,
         want' = [want EXCEPT ![t] = NoRequest],
         held' = held \union {[by |-> t, node |-> x]},
         \A a \in DOMAIN size : size'[a] = size[a],
         x \notin InUse, size'[x] >= n + Header
  PROVE  Contract!Grant(t)
<1> DEFINE h == [by |-> t, node |-> x]
           b == Payload(h)'
<1>1. h \in held' /\ h.node = x /\ h.by = t
  OBVIOUS
<1>2. \A g \in held : g \in held' /\ g.node \in DOMAIN size /\ g.node # x
  BY DEF IInv, TypeOK, InUse
<1>3. \A g \in held' : g.node \in DOMAIN size' /\ g.node \in Nat /\ size'[g.node] \in Nat
  BY DEF IInv, TypeOK
<1>4. b = [by |-> t, base |-> x + Header, len |-> size'[x] - Header]
  BY <1>1 DEF Payload
<1>5. \A g \in held : Payload(g)' = Payload(g)
  BY <1>2 DEF Payload
<1>6. Given = {Payload(g) : g \in held} /\ Given' = {Payload(g)' : g \in held'}
  BY DEF Given, Payload
<1>7. Given' = Given \union {b}
  <2> HIDE DEF b, h
  <2>1. held' = held \union {h}
    BY DEF h
  <2>2. \A y : (\E g \in held' : y = Payload(g)') <=> (\E g \in held : y = Payload(g)) \/ y = b
    BY <1>5, <2>1 DEF b
  <2> QED BY <2>2, <1>6
<1>8. b.by = t /\ b.len >= want[t]
  BY <1>1, <1>3, <1>4 DEF Header
<1>9. \A g \in held : /\ Contract!Disjoint(b, Payload(g))
                      /\ Payload(g) # b
  <2> SUFFICES ASSUME NEW g \in held
               PROVE  Contract!Disjoint(b, Payload(g)) /\ Payload(g) # b
    OBVIOUS
  <2> DEFINE y == g.node
  <2>1. /\ y \in Nat /\ y # x /\ size[y] \in Nat /\ size'[y] = size[y]
        /\ x \in Nat /\ size'[x] \in Nat
    BY <1>1, <1>2, <1>3
  <2>2. x + size'[x] <= y \/ y + size'[y] <= x
    <3>1. Carved'
      BY DEF IInv
    <3>2. \A a, c \in DOMAIN size' : a # c => a + size'[a] <= c \/ c + size'[c] <= a
      BY <3>1 DEF Carved, Apart
    <3>3. x \in DOMAIN size' /\ y \in DOMAIN size'
      BY <1>1, <1>2, <1>3
    <3> QED BY <2>1, <3>2, <3>3
  <2>3. Payload(g).base = y + Header /\ Payload(g).len = size[y] - Header
    BY DEF Payload
  <2>4. b.base = x + Header /\ b.len = size'[x] - Header
    BY <1>4
  <2> HIDE DEF b, y
  <2>5. Payload(g) # b
    BY <2>1, <2>3, <2>4 DEF Header
  <2>6. Contract!Disjoint(b, Payload(g))
    BY <2>1, <2>2, <2>3, <2>4 DEF Contract!Disjoint, Header
  <2> QED BY <2>5, <2>6
<1>10. b \notin Given /\ \A c \in Given : Contract!Disjoint(b, c)
  BY <1>6, <1>9
<1> HIDE DEF b
<1>11. want[t] # NoRequest
  OBVIOUS
<1>12. b \in Given' \ Given
  BY <1>7, <1>10
<1> QED BY <1>7, <1>8, <1>10, <1>11, <1>12 DEF Contract!Grant

LEMMA StepImplements ==
  ASSUME IInv, IInv', ~Overlap, [Next]_vars
  PROVE  [Contract!Next]_<<want, Given>>
<1>1. ASSUME UNCHANGED <<size, held>> PROVE Given' = Given
  BY <1>1 DEF Given
<1>2. CASE UNCHANGED vars
  BY <1>1, <1>2 DEF vars
<1>3. ASSUME NEW t \in Caller, NEW n \in Requests, Call(t, n)
      PROVE  Contract!Request(t)
  BY <1>1, <1>3 DEF Call, Contract!Request, IInv, TypeOK
<1>4. ASSUME NEW t \in Caller, SearchList(t)
      PROVE  [Contract!Grant(t)]_<<want, Given>>
  <2> DEFINE s == BlockSize(want[t])
             l == ListOf(s)
  <2>1. want[t] \in Nat /\ want[t] # NoRequest
    BY <1>4, KmallocAssumption DEF SearchList, IInv, TypeOK
  <2>2. l \in Lists
    BY <2>1, BlockSizeFits, ListOfRight
  <2>3. ASSUME NEW i \in DOMAIN free[l], Answers(free[l], s, i),
               held' = held \union {[by |-> t, node |-> free[l][i]]},
               want' = [want EXCEPT ![t] = NoRequest]
        PROVE  Contract!Grant(t)
    <3>1. size' = size
      BY <1>4 DEF SearchList
    <3>2. size[free[l][i]] >= want[t] + Header
      BY <2>1, <2>3, AnswerFits
    <3>3. free[l][i] \in ToSet(free[l])
      BY <2>2, Members, LenProperties DEF IInv, QueuesOK, Queue
    <3>4. free[l][i] \notin InUse
      BY <2>2, <3>3 DEF IInv, OneHome
    <3> QED BY <2>1, <2>3, <3>1, <3>2, <3>4, GrantStep
  <2>4. CASE UNCHANGED <<free, held, want>>
    BY <1>1, <1>4, <2>4 DEF SearchList
  <2> QED BY <1>4, <2>3, <2>4 DEF SearchList
<1>5. ASSUME NEW t \in Caller, HeapCheck(t)
      PROVE  [Contract!Refuse(t)]_<<want, Given>>
  BY <1>1, <1>5 DEF HeapCheck, Contract!Refuse, IInv, TypeOK
<1>6. ASSUME NEW t \in Caller, HeapTake(t)
      PROVE  UNCHANGED <<want, Given>>
  BY <1>1, <1>6 DEF HeapTake
<1>7. ASSUME NEW t \in Caller, HeapBump(t)
      PROVE  Contract!Grant(t)
  <2> DEFINE s == BlockSize(want[t])
             x == mem[t]
  <2>1. want[t] \in Nat /\ want[t] # NoRequest
    BY <1>7, KmallocAssumption DEF HeapBump, IInv, TypeOK
  <2>2. x = HeapStart + ptr
    BY <1>7 DEF HeapBump, IInv, InHeap
  <2>3. x \notin DOMAIN size
    <3> SUFFICES ASSUME x \in DOMAIN size PROVE FALSE
      OBVIOUS
    <3>1. x \in Nat /\ size[x] \in Nat
      BY DEF IInv, TypeOK
    <3>2. /\ size[x] \in {64, 512, 1024} \/ size[x] > 1024
          /\ x + size[x] <= HeapStart + ptr
      BY DEF IInv, Carved
    <3> QED BY <2>2, <3>1, <3>2
  <2>4. x \notin InUse
    BY <2>3 DEF IInv, TypeOK, InUse
  <2>5. size' = [a \in DOMAIN size \union {x} |-> IF a = x THEN s ELSE size[a]]
    BY <1>7 DEF HeapBump, Headed
  <2>6. size'[x] >= want[t] + Header /\ \A a \in DOMAIN size : size'[a] = size[a]
    BY <2>1, <2>3, <2>5, BlockSizeFits
  <2>7. /\ held' = held \union {[by |-> t, node |-> x]}
        /\ want' = [want EXCEPT ![t] = NoRequest]
    BY <1>7 DEF HeapBump
  <2> HIDE DEF x
  <2> QED BY <2>1, <2>4, <2>6, <2>7, GrantStep
<1>8. ASSUME NEW h \in held, kfree(h)
      PROVE  Contract!Release
  <2>1. held' = held \ {h} /\ size' = size /\ want' = want
    BY <1>8 DEF kfree
  <2>2. \A g \in held : g # h => Payload(g) # Payload(h)
    <3>1. \A g \in held : g.node \in Nat
      BY DEF IInv, TypeOK
    <3>2. \A g \in held : g # h => g.node # h.node
      BY DEF IInv, OneHome
    <3> QED BY <3>1, <3>2 DEF Payload, Header
  <2>3. Given = {Payload(g) : g \in held} /\ Given' = {Payload(g) : g \in held'}
    BY <2>1 DEF Given, Payload
  <2>4. Given' = Given \ {Payload(h)} /\ Payload(h) \in Given
    BY <2>1, <2>2, <2>3
  <2> QED BY <2>1, <2>4 DEF Contract!Release
<1> QED
  BY <1>2, <1>3, <1>4, <1>5, <1>6, <1>7, <1>8 DEF Next, Contract!Next

\* kmalloc and kfree keep the promise of Allocator: a request is refused or
\* answered with a long enough block that overlaps no block in use.
THEOREM HeapImplements ==
  ASSUME ~Overlap
  PROVE  Spec => Implements
<1>1. Init => Contract!Init
  BY DEF Init, Contract!Init, Given
<1>2. IInv /\ IInv' /\ [Next]_vars => [Contract!Next]_<<want, Given>>
  BY StepImplements
<1> QED BY <1>1, <1>2, HeapInvariance, PTL DEF Spec, Implements, Contract!Spec
=============================================================================
