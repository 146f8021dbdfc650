------------------------- MODULE AddressSpace_proofs -------------------------
(***************************************************************************)
(* What MCAddressSpace checks with two processes and three pages, proved   *)
(* for any number of processes, pages, slots and frames, as long as the    *)
(* kernel heap stays in the slot that boot.s gives a table.                *)
(***************************************************************************)
EXTENDS AddressSpace, FiniteSetTheorems, SequenceTheorems, TLAPS

\* The kernel heap has not outgrown the first table (see KernelGrows.cfg).
BootHeap == \A v \in KernelPage : slot[v] = BootSlot

-----------------------------------------------------------------------------
(* The inductive invariant *)

Memory == [free |-> free, dir |-> dir, table |-> table]

Mapped == KernelPage \union UserPage

Typed(m) ==
    /\ m.free \in Seq(Frame)
    /\ MMU_PD \in DOMAIN m.dir /\ DOMAIN m.dir \subseteq Frame
    /\ m.dir \in [DOMAIN m.dir -> [Slot -> Entry]]
    /\ DOMAIN m.table \subseteq Frame
    /\ m.table \in [DOMAIN m.table -> [Page -> Entry]]

\* OneUse frame by frame; c is the frame of a clone that is being made.
Apart(m, c) ==
    /\ IsInjective(m.free)
    /\ \A f \in ToSet(m.free) : f \notin DOMAIN m.dir /\ f \notin DOMAIN m.table /\ f # c
    /\ DOMAIN m.dir \intersect DOMAIN m.table = {} /\ c \notin DOMAIN m.table
    /\ \A t \in DOMAIN m.table : \A v \in Mapped : m.table[t][v] \in Frame =>
          LET f == m.table[t][v] IN
          /\ f \notin ToSet(m.free) /\ f \notin DOMAIN m.dir /\ f \notin DOMAIN m.table
          /\ f # c
          /\ \A u \in DOMAIN m.table : \A w \in Mapped : m.table[u][w] = f => t = u /\ v = w

\* What the directories know: the tables of the kernel are those of MMU_PD,
\* and the one of the clone is there before the first clone is.
Linked(m) ==
    /\ \A d \in DOMAIN m.dir : \A s \in Slot \ {Rec} :
          m.dir[d][s] = NoEntry \/ m.dir[d][s] \in DOMAIN m.table
    /\ \A d, e \in DOMAIN m.dir : \A r, s \in Slot \ {Rec} :
          m.dir[d][r] = m.dir[e][s] /\ m.dir[d][r] \in DOMAIN m.table =>
              r = s /\ (s \in UserSlot => d = e)
    /\ \A d \in DOMAIN m.dir : \A s \in KernelSlot : m.dir[d][s] = m.dir[MMU_PD][s]
    /\ m.dir[MMU_PD][BootSlot] \in DOMAIN m.table
    /\ m.dir[MMU_PD][slot[ClonePage]] \in DOMAIN m.table \/ DOMAIN m.dir = {MMU_PD}

\* Every directory reaches itself, MMU_PD as long as it is loaded.
Rooted ==
    /\ \A d \in DOMAIN dir \ {MMU_PD} : dir[d][Rec] = d
    /\ cr3 = MMU_PD => dir[MMU_PD][Rec] = MMU_PD
    /\ cr3 \in DOMAIN dir
    /\ current \in Process => cr3 = pagedir[current] /\ cr3 # MMU_PD
    /\ \A p \in Process : pagedir[p] # MMU_PD

CloneEntry == table[dir[MMU_PD][slot[ClonePage]]][ClonePage]

\* Where kmain is in mmu_clone_pagedir.
Cloning ==
    /\ clone \in Frame \union {NoEntry} /\ cpc \in {"none", "map", "copy", "unmap"}
    /\ cpc = "none" <=> clone = NoEntry
    /\ cpc \in {"map", "copy"} => clone \notin DOMAIN dir
    /\ cpc = "unmap" => clone \in DOMAIN dir \ {MMU_PD}
    /\ cpc \in {"copy", "unmap"} =>
          /\ dir[MMU_PD][slot[ClonePage]] \in DOMAIN table
          /\ CloneEntry = clone
          /\ ClonePage \in DOMAIN tlb => tlb[ClonePage] = clone
    /\ cpc # "none" => marking[Main] = NoPage

Threads ==
    /\ DOMAIN tlb \subseteq Page /\ tlb \in [DOMAIN tlb -> Frame]
    /\ current \in Thread
    /\ pagedir \in [Process -> DOMAIN dir \union {NoEntry}]
    /\ marking \in [Thread -> KernelPage \union {NoPage}]
    /\ kmem \subseteq KernelPage /\ umem \in [Process -> SUBSET UserPage]

Kept ==
    \A v \in kmem : table[dir[MMU_PD][BootSlot]][v] # NoEntry

IInv ==
    /\ Typed(Memory) /\ Apart(Memory, clone) /\ Linked(Memory)
    /\ Rooted /\ Cloning /\ Threads /\ Kept

\* What is cached is mapped, but for the page of the clone and a page that
\* mmu_mark has put on demand again.
Fresh ==
    \A v \in DOMAIN tlb :
        \/ Walk(v) = tlb[v]
        \/ v = ClonePage /\ Walk(v) = NoEntry
        \/ v \in KernelPage /\ Walk(v) = OnDemand

-----------------------------------------------------------------------------
(* Constants, and the frame stack *)

LEMMA Constants ==
  /\ MMU_PD \in Frame /\ MMU_PT \in Frame /\ MMU_PD # MMU_PT
  /\ NoEntry \notin Frame /\ OnDemand \notin Frame /\ NoEntry # OnDemand
  /\ Rec \in Slot /\ Rec \notin KernelSlot /\ Rec \notin UserSlot
  /\ KernelSlot \intersect UserSlot = {} /\ BootSlot \in KernelSlot
  /\ \A v \in Page : slot[v] \in Slot \ {Rec}
  /\ \A v \in UserPage : slot[v] \in UserSlot
  /\ \A v \in KernelPage \union {ClonePage} : slot[v] \in KernelSlot
  /\ ClonePage \notin Mapped /\ KernelPage \intersect UserPage = {}
  /\ NoPage \notin Page /\ Main \notin Process
<1>1. \A v \in Page : slot[v] \in KernelSlot \union UserSlot
  BY AddressSpaceAssumption
<1> QED BY <1>1, AddressSpaceAssumption DEF Frame, Slot, Page, Mapped

\* The free frames as mmu_init leaves them.
LEMMA PoolIs ==
  /\ Pool \in Seq(Frame) /\ IsInjective(Pool)
  /\ MMU_PD \notin ToSet(Pool) /\ MMU_PT \notin ToSet(Pool)
<1>1. Pool \in Seq(ToSet(Pool)) /\ ToSet(Pool) \subseteq Frame
  BY AddressSpaceAssumption DEF Frame
<1>2. Pool \in Seq(Frame)
  <2>1. \A i \in 1..Len(Pool) : Pool[i] \in Frame
    BY <1>1, ElementOfSeq
  <2> QED BY <1>1, <2>1, LenProperties, SeqDef
<1> QED BY <1>2, AddressSpaceAssumption

\* mmu_alloc takes the frame on top and leaves the others.
LEMMA Popping ==
  ASSUME NEW s \in Seq(Frame), s # <<>>, IsInjective(s)
  PROVE  /\ Front(s) \in Seq(Frame) /\ IsInjective(Front(s))
         /\ Last(s) \in Frame /\ Last(s) \in ToSet(s)
         /\ \A f : f \in ToSet(Front(s)) => f \in ToSet(s) /\ f # Last(s)
<1>1. Len(s) \in Nat /\ Len(s) # 0 /\ DOMAIN s = 1..Len(s)
  BY LenProperties, EmptySeq
<1>2. Len(s) \in 1..Len(s) /\ Len(s) - 1 \in Nat
  BY <1>1
<1>3. Last(s) = s[Len(s)] /\ Last(s) \in Frame /\ Last(s) \in ToSet(s)
  BY <1>1, <1>2, ElementOfSeq DEF Last, ToSet
<1>4. /\ Front(s) \in Seq(Frame) /\ DOMAIN Front(s) = 1..Len(s) - 1
      /\ \A i \in 1..Len(s) - 1 : Front(s)[i] = s[i] /\ i \in 1..Len(s) /\ i # Len(s)
  <2>1. \A i \in 1..Len(s) - 1 : s[i] \in Frame
    BY <1>1, ElementOfSeq
  <2>2. /\ SubSeq(s, 1, Len(s) - 1) \in Seq(Frame)
        /\ Len(SubSeq(s, 1, Len(s) - 1)) = Len(s) - 1
        /\ \A i \in 1..Len(s) - 1 : SubSeq(s, 1, Len(s) - 1)[i] = s[i]
    BY <1>1, <1>2, <2>1, SubSeqProperties
  <2>3. \A i \in 1..Len(s) - 1 : i \in 1..Len(s) /\ i # Len(s)
    <3>1. \A n \in Nat : \A i \in 1..n - 1 : i \in 1..n /\ i # n
      OBVIOUS
    <3> QED BY <1>1, <3>1
  <2>4. DOMAIN SubSeq(s, 1, Len(s) - 1) = 1..Len(s) - 1
    BY <2>2, LenProperties
  <2> QED BY <2>2, <2>3, <2>4 DEF Front
<1>5. IsInjective(Front(s))
  BY <1>1, <1>4 DEF IsInjective
<1>6. \A f : f \in ToSet(Front(s)) => f \in ToSet(s) /\ f # Last(s)
  BY <1>1, <1>2, <1>3, <1>4 DEF ToSet, IsInjective
<1> QED BY <1>3, <1>4, <1>5, <1>6

-----------------------------------------------------------------------------
(* What may happen to memory *)

Sound(m, c) == Typed(m) /\ Apart(m, c) /\ Linked(m)

\* The directory entries lead to tables, never to a frame that is still free.
LEMMA FreshTable ==
  ASSUME NEW m, NEW c, Sound(m, c), m.free # <<>>
  PROVE  /\ Last(m.free) \in Frame
         /\ Last(m.free) \notin DOMAIN m.table /\ Last(m.free) \notin DOMAIN m.dir
         /\ Last(m.free) # c
         /\ \A d \in DOMAIN m.dir : \A s \in Slot \ {Rec} : m.dir[d][s] # Last(m.free)
         /\ \A t \in DOMAIN m.table : \A v \in Mapped : m.table[t][v] # Last(m.free)
<1>1. Last(m.free) \in Frame /\ Last(m.free) \in ToSet(m.free)
  BY Popping DEF Sound, Typed, Apart
<1>2. Last(m.free) # NoEntry
  BY <1>1, Constants
<1>3. /\ Last(m.free) \notin DOMAIN m.table /\ Last(m.free) \notin DOMAIN m.dir
      /\ Last(m.free) # c
  BY <1>1 DEF Sound, Apart
<1>4. \A d \in DOMAIN m.dir : \A s \in Slot \ {Rec} : m.dir[d][s] # Last(m.free)
  BY <1>2, <1>3 DEF Sound, Linked
<1>5. \A t \in DOMAIN m.table : \A v \in Mapped : m.table[t][v] # Last(m.free)
  BY <1>1 DEF Sound, Apart
<1> QED BY <1>1, <1>3, <1>4, <1>5

\* INT_0E makes a table for slot s of directory d: one of a process, or the
\* one of the clone while there is no other directory.
TableFor(m, d, s, M) ==
    /\ m.free # <<>> /\ M.free = Front(m.free)
    /\ m.dir[d][s] \notin DOMAIN m.table
    /\ s \in KernelSlot => DOMAIN m.dir = {MMU_PD}
    /\ M.dir \in [DOMAIN m.dir -> [Slot -> Entry]]
    /\ \A e \in DOMAIN m.dir : \A q \in Slot \ {Rec} :
          M.dir[e][q] = IF e = d /\ q = s THEN Last(m.free) ELSE m.dir[e][q]
    /\ M.table \in [DOMAIN m.table \union {Last(m.free)} -> [Page -> Entry]]
    /\ \A t \in DOMAIN m.table : M.table[t] = m.table[t]
    /\ \A v \in Page : M.table[Last(m.free)][v] = NoEntry

LEMMA TableMade ==
  ASSUME NEW m, NEW c, Sound(m, c), NEW M,
         NEW d \in DOMAIN m.dir, NEW s \in Slot \ {Rec}, TableFor(m, d, s, M)
  PROVE  Sound(M, c)
<1> USE DEF TableFor
<1> DEFINE new == Last(m.free)
<1>1. /\ new \in Frame /\ new \notin DOMAIN m.table /\ new \notin DOMAIN m.dir /\ new # c
      /\ \A e \in DOMAIN m.dir : \A q \in Slot \ {Rec} : m.dir[e][q] # new
      /\ \A t \in DOMAIN m.table : \A v \in Mapped : m.table[t][v] # new
  BY FreshTable
<1>2. /\ Front(m.free) \in Seq(Frame) /\ IsInjective(Front(m.free))
      /\ \A f : f \in ToSet(Front(m.free)) => f \in ToSet(m.free) /\ f # new
  BY Popping DEF Sound, Typed, Apart
<1> HIDE DEF new
<1>3. /\ MMU_PD \in DOMAIN m.dir /\ m.dir \in [DOMAIN m.dir -> [Slot -> Entry]]
      /\ m.table \in [DOMAIN m.table -> [Page -> Entry]]
      /\ DOMAIN m.dir \subseteq Frame /\ DOMAIN m.table \subseteq Frame
  BY DEF Sound, Typed
<1>4. /\ DOMAIN M.dir = DOMAIN m.dir /\ M.dir \in [DOMAIN m.dir -> [Slot -> Entry]]
      /\ M.dir[d][s] = new
      /\ \A e \in DOMAIN m.dir : \A q \in Slot \ {Rec} :
            M.dir[e][q] = IF e = d /\ q = s THEN new ELSE m.dir[e][q]
  BY DEF new
<1>5. /\ DOMAIN M.table = DOMAIN m.table \union {new}
      /\ M.table \in [DOMAIN m.table \union {new} -> [Page -> Entry]]
      /\ \A t \in DOMAIN m.table : M.table[t] = m.table[t]
      /\ \A v \in Page : M.table[new][v] = NoEntry
  BY DEF new
<1>6. M.free = Front(m.free)
  OBVIOUS
<1>7. Typed(M)
  BY <1>1, <1>2, <1>3, <1>4, <1>5, <1>6 DEF Typed
<1>8. Apart(M, c)
  <2>1. /\ \A f \in ToSet(M.free) : f \notin DOMAIN M.dir /\ f \notin DOMAIN M.table /\ f # c
        /\ DOMAIN M.dir \intersect DOMAIN M.table = {} /\ c \notin DOMAIN M.table
    BY <1>1, <1>2, <1>4, <1>5, <1>6 DEF Sound, Apart
  <2>2. ASSUME NEW t \in DOMAIN M.table, NEW v \in Mapped, M.table[t][v] \in Frame
        PROVE  t \in DOMAIN m.table /\ M.table[t][v] = m.table[t][v]
    <3>1. v \in Page /\ NoEntry \notin Frame
      BY Constants DEF Mapped, Page
    <3>2. t # new
      BY <1>5, <2>2, <3>1
    <3> QED BY <1>5, <3>2
  <2>3. ASSUME NEW t \in DOMAIN M.table, NEW v \in Mapped, M.table[t][v] \in Frame
        PROVE  LET f == M.table[t][v] IN
               /\ f \notin ToSet(M.free) /\ f \notin DOMAIN M.dir /\ f \notin DOMAIN M.table
               /\ f # c
               /\ \A u \in DOMAIN M.table : \A w \in Mapped : M.table[u][w] = f => t = u /\ v = w
    <3> DEFINE f == M.table[t][v]
    <3>1. t \in DOMAIN m.table /\ f = m.table[t][v] /\ f \in Frame
      BY <2>2, <2>3
    <3>2. /\ f \notin ToSet(m.free) /\ f \notin DOMAIN m.dir /\ f \notin DOMAIN m.table
          /\ f # c /\ f # new
          /\ \A u \in DOMAIN m.table : \A w \in Mapped : m.table[u][w] = f => t = u /\ v = w
      BY <1>1, <3>1 DEF Sound, Apart
    <3>3. ASSUME NEW u \in DOMAIN M.table, NEW w \in Mapped, M.table[u][w] = f
          PROVE  t = u /\ v = w
      <4>1. u \in DOMAIN m.table /\ m.table[u][w] = f
        BY <2>2, <3>1, <3>3
      <4> QED BY <3>2, <4>1
    <3> HIDE DEF f
    <3> QED BY <1>2, <1>4, <1>5, <1>6, <3>2, <3>3 DEF f
  <2> QED BY <1>2, <1>6, <2>1, <2>3 DEF Apart
<1>9. Linked(M)
  <2>1. /\ \A e \in DOMAIN m.dir : \A q \in Slot \ {Rec} :
              m.dir[e][q] = NoEntry \/ m.dir[e][q] \in DOMAIN m.table
        /\ \A e, g \in DOMAIN m.dir : \A q, p \in Slot \ {Rec} :
              m.dir[e][q] = m.dir[g][p] /\ m.dir[e][q] \in DOMAIN m.table =>
                  q = p /\ (p \in UserSlot => e = g)
        /\ \A e \in DOMAIN m.dir : \A q \in KernelSlot : m.dir[e][q] = m.dir[MMU_PD][q]
        /\ m.dir[MMU_PD][BootSlot] \in DOMAIN m.table
        /\ m.dir[MMU_PD][slot[ClonePage]] \in DOMAIN m.table \/ DOMAIN m.dir = {MMU_PD}
    BY DEF Sound, Linked
  <2>2. slot[ClonePage] \in KernelSlot /\ BootSlot \in KernelSlot /\ KernelSlot \subseteq Slot \ {Rec}
    BY Constants DEF Slot
  <2>3. \A e \in DOMAIN M.dir : \A q \in Slot \ {Rec} :
           M.dir[e][q] = NoEntry \/ M.dir[e][q] \in DOMAIN M.table
    BY <1>4, <1>5, <2>1
  <2>4. ASSUME NEW e \in DOMAIN M.dir, NEW g \in DOMAIN M.dir,
               NEW q \in Slot \ {Rec}, NEW p \in Slot \ {Rec},
               M.dir[e][q] = M.dir[g][p], M.dir[e][q] \in DOMAIN M.table
        PROVE  q = p /\ (p \in UserSlot => e = g)
    <3>1. CASE e = d /\ q = s
      BY <1>1, <1>4, <2>4, <3>1
    <3>2. CASE ~(e = d /\ q = s)
      <4>1. e \in DOMAIN m.dir /\ g \in DOMAIN m.dir
        BY <1>4
      <4>2. M.dir[e][q] = m.dir[e][q] /\ m.dir[e][q] # new
        BY <1>1, <1>4, <3>2, <4>1
      <4>3. M.dir[g][p] = m.dir[g][p] /\ m.dir[e][q] \in DOMAIN m.table
        BY <1>4, <1>5, <2>4, <4>1, <4>2
      <4>4. m.dir[e][q] = m.dir[g][p]
        BY <2>4, <4>2, <4>3
      <4> QED BY <2>1, <4>1, <4>3, <4>4, Zenon
    <3> QED BY <3>1, <3>2
  <2>5. \A e \in DOMAIN M.dir : \A q \in KernelSlot : M.dir[e][q] = M.dir[MMU_PD][q]
    BY <1>3, <1>4, <2>1, <2>2
  <2>6. M.dir[MMU_PD][BootSlot] \in DOMAIN M.table
    BY <1>3, <1>4, <1>5, <2>1, <2>2
  <2>7. M.dir[MMU_PD][slot[ClonePage]] \in DOMAIN M.table \/ DOMAIN M.dir = {MMU_PD}
    BY <1>3, <1>4, <1>5, <2>1, <2>2
  <2>8. \A e, g \in DOMAIN M.dir : \A q, p \in Slot \ {Rec} :
           M.dir[e][q] = M.dir[g][p] /\ M.dir[e][q] \in DOMAIN M.table =>
               q = p /\ (p \in UserSlot => e = g)
    BY <2>4
  <2> QED BY <2>3, <2>5, <2>6, <2>7, <2>8, Zenon DEF Linked
<1> QED BY <1>7, <1>8, <1>9 DEF Sound

\* A write to a table that gives no page of memory a frame.
LEMMA EntryWritten ==
  ASSUME NEW m, NEW c, Sound(m, c),
         NEW t \in DOMAIN m.table, NEW v \in Page, NEW e \in Entry, e \notin Frame \/ v = ClonePage,
         NEW M, M.free = m.free, M.dir = m.dir, M.table = [m.table EXCEPT ![t][v] = e]
  PROVE  Sound(M, c)
<1>1. m.table \in [DOMAIN m.table -> [Page -> Entry]]
  BY DEF Sound, Typed
<1>2. /\ DOMAIN M.table = DOMAIN m.table /\ M.table \in [DOMAIN m.table -> [Page -> Entry]]
      /\ \A u \in DOMAIN m.table : \A w \in Page :
            M.table[u][w] = IF u = t /\ w = v THEN e ELSE m.table[u][w]
  BY <1>1
<1>3. Typed(M)
  BY <1>2 DEF Sound, Typed
<1>4. \A u \in DOMAIN m.table : \A w \in Mapped :
         M.table[u][w] \in Frame => M.table[u][w] = m.table[u][w]
  BY <1>2, Constants DEF Mapped, Page
<1>5. Apart(M, c)
  BY <1>2, <1>4 DEF Sound, Apart
<1>6. Linked(M)
  BY <1>2 DEF Sound, Linked
<1> QED BY <1>3, <1>5, <1>6 DEF Sound

\* A page of memory gets the frame on top of the stack.
LEMMA FrameGiven ==
  ASSUME NEW m, NEW c, Sound(m, c), m.free # <<>>,
         NEW t \in DOMAIN m.table, NEW v \in Mapped,
         NEW M, M.free = Front(m.free), M.dir = m.dir,
         M.table = [m.table EXCEPT ![t][v] = Last(m.free)]
  PROVE  Sound(M, c)
<1> DEFINE new == Last(m.free)
<1>1. /\ new \in Frame /\ new \notin DOMAIN m.table /\ new \notin DOMAIN m.dir /\ new # c
      /\ \A u \in DOMAIN m.table : \A w \in Mapped : m.table[u][w] # new
  BY FreshTable
<1>2. /\ Front(m.free) \in Seq(Frame) /\ IsInjective(Front(m.free))
      /\ \A f : f \in ToSet(Front(m.free)) => f \in ToSet(m.free) /\ f # new
  BY Popping DEF Sound, Typed, Apart
<1>3. M.table = [m.table EXCEPT ![t][v] = new] /\ v \in Page /\ new \in Entry
  BY <1>1 DEF Mapped, Page, Entry
<1> HIDE DEF new
<1>4. m.table \in [DOMAIN m.table -> [Page -> Entry]]
  BY DEF Sound, Typed
<1>5. /\ DOMAIN M.table = DOMAIN m.table /\ M.table \in [DOMAIN m.table -> [Page -> Entry]]
      /\ \A u \in DOMAIN m.table : \A w \in Page :
            M.table[u][w] = IF u = t /\ w = v THEN new ELSE m.table[u][w]
  BY <1>3, <1>4
<1>6. Typed(M)
  BY <1>2, <1>5 DEF Sound, Typed
<1>7. Apart(M, c)
  <2>1. /\ \A f \in ToSet(M.free) : f \notin DOMAIN M.dir /\ f \notin DOMAIN M.table /\ f # c
        /\ DOMAIN M.dir \intersect DOMAIN M.table = {} /\ c \notin DOMAIN M.table
    BY <1>2, <1>5 DEF Sound, Apart
  <2>2. ASSUME NEW u \in DOMAIN M.table, NEW w \in Mapped, M.table[u][w] \in Frame
        PROVE  LET f == M.table[u][w] IN
               /\ f \notin ToSet(M.free) /\ f \notin DOMAIN M.dir /\ f \notin DOMAIN M.table
               /\ f # c
               /\ \A x \in DOMAIN M.table : \A y \in Mapped : M.table[x][y] = f => u = x /\ w = y
    <3>1. w \in Page /\ Mapped \subseteq Page
      BY DEF Mapped, Page
    <3>2. CASE u = t /\ w = v
      BY <1>1, <1>2, <1>5, <3>1, <3>2
    <3>3. CASE ~(u = t /\ w = v)
      <4>1. M.table[u][w] = m.table[u][w] /\ u \in DOMAIN m.table
        BY <1>5, <3>1, <3>3
      <4> QED BY <1>1, <1>2, <1>5, <2>2, <3>1, <4>1 DEF Sound, Apart
    <3> QED BY <3>2, <3>3
  <2> QED BY <1>2, <2>1, <2>2 DEF Apart
<1>8. Linked(M)
  BY <1>5 DEF Sound, Linked
<1> QED BY <1>6, <1>7, <1>8 DEF Sound

-----------------------------------------------------------------------------
(* mmu_mark *)

\* The recursive mapping leads to the loaded directory.
LEMMA Recursive ==
  ASSUME IInv
  PROVE  /\ Dir = cr3 /\ cr3 \in DOMAIN dir
         /\ dir \in [DOMAIN dir -> [Slot -> Entry]] /\ MMU_PD \in DOMAIN dir
         /\ table \in [DOMAIN table -> [Page -> Entry]]
         /\ DOMAIN dir \subseteq Frame /\ DOMAIN table \subseteq Frame
<1>1. Dir = cr3 /\ cr3 \in DOMAIN dir
  BY DEF IInv, Rooted, Dir
<1> QED BY <1>1 DEF IInv, Sound, Typed, Memory

LEMMA HeapTable ==
  ASSUME BootHeap, IInv, NEW v \in KernelPage, NEW d \in DOMAIN dir
  PROVE  /\ slot[v] = BootSlot /\ dir[d][slot[v]] = dir[MMU_PD][BootSlot]
         /\ dir[d][slot[v]] \in DOMAIN table
<1>1. BootSlot \in KernelSlot /\ slot[v] = BootSlot
  BY Constants DEF BootHeap
<1> QED BY <1>1 DEF IInv, Linked, Memory

\* The table of page v is there after mmu_mark has looked for it, all others
\* are as they were, and no translation has changed.
LEMMA TabledIs ==
  ASSUME BootHeap, IInv, NEW v \in Page, v \in UserPage => current \in Process, Enough(v)
  PROVE  /\ Sound(Tabled(v), clone)
         /\ DOMAIN Tabled(v).dir = DOMAIN dir
         /\ Tabled(v).dir[cr3][slot[v]] \in DOMAIN Tabled(v).table
         /\ \A d \in DOMAIN dir : d # MMU_PD => Tabled(v).dir[d][Rec] = dir[d][Rec]
         /\ cr3 = MMU_PD => Tabled(v).dir[MMU_PD][Rec] = MMU_PD
         /\ \A t \in DOMAIN table : t \in DOMAIN Tabled(v).table /\ Tabled(v).table[t] = table[t]
         /\ \A t \in DOMAIN Tabled(v).table \ DOMAIN table : \A w \in Page : Tabled(v).table[t][w] = NoEntry
         /\ \A d \in DOMAIN dir : \A s \in Slot \ {Rec} :
               dir[d][s] \in DOMAIN table => Tabled(v).dir[d][s] = dir[d][s]
         /\ \A w \in Page :
               Walk(w) = IF Tabled(v).dir[cr3][slot[w]] \in DOMAIN Tabled(v).table
                         THEN Tabled(v).table[Tabled(v).dir[cr3][slot[w]]][w] ELSE NoEntry
<1> DEFINE m == Tabled(v)
<1>1. /\ Dir = cr3 /\ cr3 \in DOMAIN dir /\ MMU_PD \in DOMAIN dir
      /\ dir \in [DOMAIN dir -> [Slot -> Entry]] /\ DOMAIN dir \subseteq Frame
      /\ \A w \in Page : slot[w] \in Slot \ {Rec}
  BY Recursive, Constants
<1>2. Sound(Memory, clone) /\ (cr3 = MMU_PD => dir[MMU_PD][Rec] = MMU_PD)
  BY DEF IInv, Sound, Rooted
<1>3. CASE dir[cr3][slot[v]] \in DOMAIN table
  <2>1. m = Memory
    BY <1>1, <1>3 DEF Tabled, Memory
  <2>2. m.dir = dir /\ m.table = table
    BY <2>1 DEF Memory
  <2> HIDE DEF m
  <2> QED BY <1>1, <1>2, <1>3, <2>1, <2>2 DEF m, Walk
<1>4. CASE dir[cr3][slot[v]] \notin DOMAIN table
  <2>1. /\ free # <<>> /\ m.free = Front(free)
        /\ m.dir = [[dir EXCEPT ![cr3][slot[v]] = Last(free)] EXCEPT ![MMU_PD][Rec] = dir[cr3][Rec]]
        /\ m.table = [t \in DOMAIN table \union {Last(free)} |->
                         IF t = Last(free) THEN Unmapped ELSE table[t]]
    BY <1>1, <1>4 DEF Tabled, Enough, Popped
  <2>2. /\ Last(free) \in Frame /\ Last(free) \notin DOMAIN table
        /\ \A d \in DOMAIN dir : \A s \in Slot \ {Rec} : dir[d][s] # Last(free)
    BY <1>2, <2>1, FreshTable DEF Memory
  <2> DEFINE new == Last(free)
             r == dir[cr3][Rec]
             s == slot[v]
             first == [dir EXCEPT ![cr3][s] = new]
  <2>3. new \in Entry /\ r \in Entry /\ s \in Slot \ {Rec} /\ r = cr3 /\ Rec \in Slot
    BY <1>1, <2>2, Constants DEF Entry, Dir
  <2> HIDE DEF new, r, s, m
  <2>4. /\ first \in [DOMAIN dir -> [Slot -> Entry]]
        /\ \A d \in DOMAIN dir : \A q \in Slot :
              first[d][q] = IF d = cr3 /\ q = s THEN new ELSE dir[d][q]
    BY <1>1, <2>3
  <2>5. m.dir = [first EXCEPT ![MMU_PD][Rec] = r]
    BY <2>1 DEF new, r, s
  <2> HIDE DEF first
  <2>6. /\ m.dir \in [DOMAIN dir -> [Slot -> Entry]] /\ DOMAIN m.dir = DOMAIN dir
        /\ \A d \in DOMAIN dir : \A q \in Slot :
              m.dir[d][q] = IF d = MMU_PD /\ q = Rec THEN r ELSE first[d][q]
    BY <1>1, <2>3, <2>4, <2>5
  <2>7. \A d \in DOMAIN dir : \A q \in Slot \ {Rec} :
           m.dir[d][q] = IF d = cr3 /\ q = s THEN new ELSE dir[d][q]
    BY <2>4, <2>6
  <2>8. s \in KernelSlot => DOMAIN dir = {MMU_PD}
    <3>1. v \notin KernelPage
      BY <1>1, <1>4, HeapTable
    <3>2. s \in KernelSlot => v = ClonePage
      BY <3>1, Constants DEF Page, s
    <3>3. dir[cr3][slot[ClonePage]] = dir[MMU_PD][slot[ClonePage]]
      BY <1>1, <1>2, Constants DEF Sound, Linked, Memory
    <3> QED BY <1>2, <1>4, <3>2, <3>3 DEF Sound, Linked, Memory
  <2>9. Memory.free = free /\ Memory.dir = dir /\ Memory.table = table
    BY DEF Memory
  <2>10. /\ DOMAIN m.table = DOMAIN table \union {new}
         /\ m.table \in [DOMAIN table \union {new} -> [Page -> Entry]]
         /\ \A t \in DOMAIN table : m.table[t] = table[t]
         /\ \A w \in Page : m.table[new][w] = NoEntry
    <3>1. Unmapped \in [Page -> Entry] /\ \A w \in Page : Unmapped[w] = NoEntry
      BY DEF Unmapped, Entry
    <3>2. table \in [DOMAIN table -> [Page -> Entry]]
      BY Recursive
    <3> QED BY <2>1, <2>2, <3>1, <3>2 DEF new
  <2>11. Sound(m, clone)
    <3>1. TableFor(Memory, cr3, s, m)
      <4>1. /\ free # <<>> /\ m.free = Front(free) /\ dir[cr3][s] \notin DOMAIN table
            /\ s \in KernelSlot => DOMAIN dir = {MMU_PD}
            /\ m.dir \in [DOMAIN dir -> [Slot -> Entry]]
        BY <1>4, <2>1, <2>6, <2>8 DEF s
      <4> QED BY <2>7, <2>9, <2>10, <4>1 DEF TableFor, new
    <3> QED BY <1>1, <1>2, <2>3, <2>9, <3>1, TableMade
  <2>12. m.dir[cr3][s] = new
    BY <1>1, <2>3, <2>7
  <2>13. /\ \A d \in DOMAIN dir : d # MMU_PD => m.dir[d][Rec] = dir[d][Rec]
         /\ cr3 = MMU_PD => m.dir[MMU_PD][Rec] = MMU_PD
    BY <1>1, <2>3, <2>4, <2>6
  <2>14. \A d \in DOMAIN dir : \A q \in Slot \ {Rec} :
            dir[d][q] \in DOMAIN table => m.dir[d][q] = dir[d][q]
    BY <1>4, <2>7 DEF s
  <2>15. ASSUME NEW w \in Page
         PROVE  Walk(w) = IF m.dir[cr3][slot[w]] \in DOMAIN m.table
                          THEN m.table[m.dir[cr3][slot[w]]][w] ELSE NoEntry
    <3>1. slot[w] \in Slot \ {Rec} /\ dir[cr3][slot[w]] # new
      BY <1>1, <2>2 DEF new
    <3>2. CASE slot[w] = s
      BY <1>4, <2>10, <2>12, <3>2 DEF Walk, s
    <3>3. CASE slot[w] # s
      <4>1. m.dir[cr3][slot[w]] = dir[cr3][slot[w]]
        BY <1>1, <2>7, <3>1, <3>3
      <4> QED BY <2>10, <3>1, <4>1 DEF Walk
    <3> QED BY <3>2, <3>3
  <2> QED BY <2>6, <2>11, <2>10, <2>12, <2>13, <2>14, <2>15 DEF m, s
<1> QED BY <1>3, <1>4

\* What looking for the table of page v, and writing OnDemand there, does to
\* memory, to the directories and to kmain in the middle of a clone.
Marked(v) ==
    LET m == Tabled(v) IN
    /\ v \in Mapped /\ Enough(v) /\ (v \in UserPage => current \in Process)
    /\ free' = m.free /\ dir' = m.dir
    /\ table' = m.table \/ table' = WithEntry(m, v, OnDemand)
    /\ UNCHANGED <<cr3, tlb, current, pagedir, clone, cpc>>
    /\ cpc # "none" => marking'[Main] = NoPage

LEMMA MarkedMemory ==
  ASSUME BootHeap, IInv, NEW v, Marked(v)
  PROVE  /\ Sound(Memory, clone)' /\ Rooted' /\ Cloning' /\ DOMAIN dir' = DOMAIN dir
         /\ \A w \in Page : Walk(w)' = Walk(w) \/ (w = v /\ Walk(w)' = OnDemand)
         /\ \A t \in DOMAIN table : t \in DOMAIN table' /\ \A w \in Page :
               table'[t][w] = table[t][w] \/
               (w = v /\ table'[t][w] = OnDemand /\ t = dir'[cr3][slot[v]])
         /\ dir'[cr3][slot[v]] \in DOMAIN table'
         /\ table' = Tabled(v).table \/ table'[dir'[cr3][slot[v]]][v] = OnDemand
         /\ dir'[MMU_PD][BootSlot] = dir[MMU_PD][BootSlot]
<1> DEFINE m == Tabled(v)
           t0 == m.dir[cr3][slot[v]]
<1>1. /\ v \in Page /\ v \in Mapped /\ v # ClonePage
      /\ OnDemand \in Entry /\ OnDemand \notin Frame
      /\ Dir = cr3 /\ cr3 \in DOMAIN dir
  BY Recursive, Constants DEF Marked, Mapped, Page, Entry
<1>2. /\ Sound(m, clone) /\ DOMAIN m.dir = DOMAIN dir /\ t0 \in DOMAIN m.table
      /\ \A d \in DOMAIN dir : d # MMU_PD => m.dir[d][Rec] = dir[d][Rec]
      /\ cr3 = MMU_PD => m.dir[MMU_PD][Rec] = MMU_PD
      /\ \A t \in DOMAIN table : t \in DOMAIN m.table /\ m.table[t] = table[t]
      /\ \A d \in DOMAIN dir : \A s \in Slot \ {Rec} :
            dir[d][s] \in DOMAIN table => m.dir[d][s] = dir[d][s]
      /\ \A w \in Page :
            Walk(w) = IF m.dir[cr3][slot[w]] \in DOMAIN m.table
                      THEN m.table[m.dir[cr3][slot[w]]][w] ELSE NoEntry
  BY <1>1, TabledIs DEF Marked
<1>3. /\ free' = m.free /\ dir' = m.dir
      /\ table' = m.table \/ table' = WithEntry(m, v, OnDemand)
      /\ UNCHANGED <<cr3, tlb, current, pagedir, clone, cpc>>
      /\ cpc # "none" => marking'[Main] = NoPage
  BY DEF Marked
<1>4. WithEntry(m, v, OnDemand) = [m.table EXCEPT ![t0][v] = OnDemand]
  BY <1>1 DEF WithEntry
<1>5. m.table \in [DOMAIN m.table -> [Page -> Entry]]
  BY <1>2 DEF Sound, Typed
<1> HIDE DEF m, t0
<1>6. /\ DOMAIN table' = DOMAIN m.table
      /\ \A t \in DOMAIN m.table : \A w \in Page :
            table'[t][w] = m.table[t][w] \/ (t = t0 /\ w = v /\ table'[t][w] = OnDemand)
      /\ table' = m.table \/ table'[t0][v] = OnDemand
  BY <1>1, <1>2, <1>3, <1>4, <1>5
<1>7. Sound(Memory, clone)'
  <2>1. Memory'.free = m.free /\ Memory'.dir = m.dir /\ Memory'.table = table' /\ clone' = clone
    BY <1>3 DEF Memory
  <2>2. CASE table' = m.table
    BY <1>2, <2>1, <2>2 DEF Sound, Typed, Apart, Linked
  <2>3. CASE table' = WithEntry(m, v, OnDemand)
    <3>1. Memory'.table = [m.table EXCEPT ![t0][v] = OnDemand]
      BY <1>4, <2>1, <2>3
    <3> QED BY <1>1, <1>2, <2>1, <3>1, EntryWritten
  <2> QED BY <1>3, <2>2, <2>3
<1>8. Rooted'
  BY <1>2, <1>3 DEF IInv, Rooted
<1>9. /\ slot[ClonePage] \in Slot \ {Rec} /\ BootSlot \in Slot \ {Rec} /\ ClonePage \in Page
      /\ MMU_PD \in DOMAIN dir /\ dir[MMU_PD][BootSlot] \in DOMAIN table
  BY Constants, Recursive DEF Slot, Page, IInv, Linked, Memory
<1>10. Cloning'
  <2>1. ASSUME cpc \in {"copy", "unmap"}
        PROVE  /\ dir'[MMU_PD][slot[ClonePage]] \in DOMAIN table'
               /\ CloneEntry' = clone
    <3>1. dir[MMU_PD][slot[ClonePage]] \in DOMAIN table /\ CloneEntry = clone
      BY <2>1 DEF IInv, Cloning
    <3>2. dir'[MMU_PD][slot[ClonePage]] = dir[MMU_PD][slot[ClonePage]]
      BY <1>2, <1>3, <1>9, <3>1
    <3> QED BY <1>1, <1>2, <1>6, <1>9, <3>1, <3>2 DEF CloneEntry
  <2>2. DOMAIN dir' = DOMAIN dir
    BY <1>2, <1>3
  <2> QED BY <1>3, <2>1, <2>2 DEF IInv, Cloning
<1>11. \A w \in Page : Walk(w)' = Walk(w) \/ (w = v /\ Walk(w)' = OnDemand)
  BY <1>2, <1>3, <1>6 DEF Walk
<1> QED BY <1>2, <1>3, <1>6, <1>7, <1>8, <1>9, <1>10, <1>11 DEF m, t0

\* The running thread stores the entry of page w, which it has tested.
Stores(w) == w = marking[current] /\ marking'[current] = NoPage

LeavesKept == \A l \in Leaf : table'[l[1]][l[2]] = table[l[1]][l[2]] \/ Stores(l[2])

Tested ==
    \A t \in Thread, v \in KernelPage :
        marking[t] # v /\ marking'[t] = v => Walk(v)' \notin Frame

LEMMA KeptByEntry ==
  ASSUME \A t \in DOMAIN table : \A w \in Mapped :
            table[t][w] \in Frame => table'[t][w] = table[t][w] \/ Stores(w)
  PROVE  LeavesKept
BY DEF LeavesKept, Leaf, Mapped

\* A page that is not present was not in use, and was not cached unless it
\* had been put on demand before.
LEMMA MarkedPages ==
  ASSUME BootHeap, IInv, NEW v, Marked(v),
         \/ IsPresent(EntryIn(Tabled(v), v)) => table' = Tabled(v).table
         \/ v \in KernelPage /\ Stores(v)
  PROVE  (Fresh => Fresh') /\ LeavesKept
<1>1. /\ v \in Page /\ v \in Mapped /\ v # ClonePage /\ OnDemand \notin Frame /\ Mapped \subseteq Page
      /\ Dir = cr3 /\ cr3 \in DOMAIN dir
  BY Recursive, Constants DEF Marked, Mapped, Page
<1>2. /\ Tabled(v).dir[cr3][slot[v]] \in DOMAIN Tabled(v).table
      /\ \A t \in DOMAIN table : t \in DOMAIN Tabled(v).table /\ Tabled(v).table[t] = table[t]
      /\ \A w \in Page :
            Walk(w) = IF Tabled(v).dir[cr3][slot[w]] \in DOMAIN Tabled(v).table
                      THEN Tabled(v).table[Tabled(v).dir[cr3][slot[w]]][w] ELSE NoEntry
  BY <1>1, TabledIs DEF Marked
<1>3. EntryIn(Tabled(v), v) = Walk(v)
  BY <1>1, <1>2 DEF EntryIn
<1>4. /\ dir' = Tabled(v).dir /\ cr3' = cr3 /\ tlb' = tlb
      /\ table' = Tabled(v).table \/ table' = WithEntry(Tabled(v), v, OnDemand)
  BY DEF Marked
<1>5. /\ \A w \in Page : Walk(w)' = Walk(w) \/ (w = v /\ Walk(w)' = OnDemand)
      /\ \A t \in DOMAIN table : \A w \in Page :
            table'[t][w] = table[t][w] \/
            (w = v /\ table'[t][w] = OnDemand /\ t = dir'[cr3][slot[v]])
  BY MarkedMemory
<1>6. CASE table' = Tabled(v).table
  <2>1. \A w \in Page : Walk(w)' = Walk(w)
    BY <1>2, <1>4, <1>6 DEF Walk
  <2>2. Fresh => Fresh'
    BY <1>4, <2>1 DEF Fresh, IInv, Threads
  <2>3. LeavesKept
    BY <1>1, <1>2, <1>6, KeptByEntry
  <2> QED BY <2>2, <2>3
<1>7. CASE Walk(v) \notin Frame
  <2>1. Fresh => Fresh'
    <3> SUFFICES ASSUME Fresh, NEW w \in DOMAIN tlb
                 PROVE  \/ Walk(w)' = tlb[w]
                        \/ w = ClonePage /\ Walk(w)' = NoEntry
                        \/ w \in KernelPage /\ Walk(w)' = OnDemand
      BY <1>4 DEF Fresh
    <3>1. w \in Page /\ tlb[w] \in Frame
      BY DEF IInv, Threads
    <3>2. w = v => w \in KernelPage
      BY <1>1, <1>7, <3>1 DEF Fresh
    <3> QED BY <1>5, <3>1, <3>2 DEF Fresh
  <2>2. LeavesKept
    <3>1. ASSUME NEW t \in DOMAIN table, NEW w \in Mapped, table[t][w] \in Frame
          PROVE  table'[t][w] = table[t][w]
      <4>1. SUFFICES ASSUME w = v, t = dir'[cr3][slot[v]] PROVE FALSE
        BY <1>1, <1>5
      <4>2. Walk(v) = table[t][v]
        BY <1>1, <1>2, <1>4, <4>1
      <4> QED BY <1>7, <3>1, <4>1, <4>2
    <3> QED BY <3>1, KeptByEntry
  <2> QED BY <2>1, <2>2
<1>8. CASE v \in KernelPage /\ Stores(v)
  <2>1. Fresh => Fresh'
    BY <1>4, <1>5, <1>8 DEF Fresh, IInv, Threads
  <2>2. LeavesKept
    BY <1>1, <1>5, <1>8, KeptByEntry
  <2> QED BY <2>1, <2>2
<1> QED BY <1>3, <1>4, <1>6, <1>7, <1>8 DEF IsPresent

-----------------------------------------------------------------------------
(* One step of each kind *)

Kernel == IInv /\ Fresh

Stepped == Kernel' /\ LeavesKept /\ Tested

LEMMA MarkTestStep ==
  ASSUME BootHeap, Kernel, NEW v \in KernelPage, MarkTest(v)
  PROVE  Stepped
<1>1. /\ v \in Mapped /\ v \notin UserPage /\ v \in Page /\ IInv /\ v # NoPage
      /\ MMU_PD \in DOMAIN dir /\ cr3 \in DOMAIN dir /\ Dir = cr3
      /\ slot[v] = BootSlot /\ dir[MMU_PD][BootSlot] \in DOMAIN table
      /\ dir[cr3][slot[v]] = dir[MMU_PD][BootSlot] /\ NoEntry \notin Frame
  BY Recursive, HeapTable, Constants DEF Kernel, Mapped, Page
<1>2. /\ current \in Thread /\ Main \in Thread /\ marking \in [Thread -> KernelPage \union {NoPage}]
      /\ marking[current] = NoPage /\ (current = Main => cpc = "none")
      /\ cpc # "none" => marking[Main] = NoPage
  BY <1>1 DEF IInv, Threads, Cloning, MarkTest, Running, Thread
<1>3. Marked(v) /\ table' = Tabled(v).table
  BY <1>1, <1>2 DEF MarkTest, Marked
<1>4. /\ Sound(Memory, clone)' /\ Rooted' /\ Cloning' /\ DOMAIN dir' = DOMAIN dir
      /\ dir'[MMU_PD][BootSlot] = dir[MMU_PD][BootSlot]
  BY <1>1, <1>3, MarkedMemory
<1>5. /\ \A t \in DOMAIN table : t \in DOMAIN table' /\ table'[t] = table[t]
      /\ dir'[cr3][slot[v]] = dir[cr3][slot[v]]
  BY <1>1, <1>3, TabledIs, Constants DEF Marked, Slot
<1>6. EntryIn(Tabled(v), v) = table[dir[MMU_PD][BootSlot]][v]
  BY <1>1, <1>3, <1>5 DEF EntryIn, Marked
<1>7. Threads'
  BY <1>1, <1>2, <1>4 DEF IInv, Threads, MarkTest
<1>8. Kept'
  BY <1>1, <1>4, <1>5, <1>6 DEF IInv, Kept, MarkTest, IsPresent
<1>9. (Fresh => Fresh') /\ LeavesKept
  BY <1>1, <1>3, MarkedPages
<1>10. Tested
  <2>1. cr3' = cr3 /\ DOMAIN table' = DOMAIN Tabled(v).table /\ table'[dir'[cr3][slot[v]]][v] = EntryIn(Tabled(v), v)
    BY <1>1, <1>3, <1>5, <1>6 DEF Marked
  <2>2. Walk(v)' = EntryIn(Tabled(v), v)
    BY <1>1, <1>5, <2>1 DEF Walk
  <2>3. marking' = marking \/ (marking' = [marking EXCEPT ![current] = v] /\ Walk(v)' \notin Frame)
    BY <2>2 DEF MarkTest, IsPresent
  <2> QED BY <1>2, <2>3 DEF Tested
<1> QED BY <1>4, <1>7, <1>8, <1>9, <1>10 DEF Kernel, Stepped, IInv, Sound

LEMMA MarkStoreStep ==
  ASSUME BootHeap, Kernel, MarkStore
  PROVE  Stepped
<1> DEFINE v == marking[current]
<1>1. /\ current \in Thread /\ Main \in Thread /\ marking \in [Thread -> KernelPage \union {NoPage}]
      /\ v # NoPage /\ v \in KernelPage /\ IInv
      /\ cpc # "none" => marking[Main] = NoPage
      /\ NoEntry # OnDemand
  BY Constants DEF Kernel, IInv, Threads, Cloning, MarkStore, Thread
<1> HIDE DEF v
<1>2. /\ v \in Mapped /\ v \notin UserPage /\ v \in Page
      /\ MMU_PD \in DOMAIN dir /\ cr3 \in DOMAIN dir /\ Dir = cr3
      /\ slot[v] = BootSlot /\ dir[MMU_PD][BootSlot] \in DOMAIN table
      /\ dir[cr3][slot[v]] = dir[MMU_PD][BootSlot]
  BY <1>1, Recursive, HeapTable, Constants DEF Mapped, Page
<1>3. /\ Marked(v) /\ table' = WithEntry(Tabled(v), v, OnDemand)
      /\ marking' = [marking EXCEPT ![current] = NoPage]
      /\ kmem' = kmem \union {v} /\ UNCHANGED umem
  BY <1>1, <1>2 DEF MarkStore, Marked, v
<1>4. /\ Sound(Memory, clone)' /\ Rooted' /\ Cloning' /\ DOMAIN dir' = DOMAIN dir
      /\ dir'[MMU_PD][BootSlot] = dir[MMU_PD][BootSlot]
      /\ \A t \in DOMAIN table : t \in DOMAIN table' /\ \A w \in Page :
            table'[t][w] = table[t][w] \/ (w = v /\ table'[t][w] = OnDemand)
  BY <1>1, <1>3, MarkedMemory
<1>5. /\ dir'[cr3][slot[v]] = dir[MMU_PD][BootSlot] /\ dir' = Tabled(v).dir
      /\ Tabled(v).table[dir[MMU_PD][BootSlot]] = table[dir[MMU_PD][BootSlot]]
  BY <1>1, <1>2, <1>3, TabledIs, Constants DEF Marked, Slot
<1>6. table'[dir[MMU_PD][BootSlot]][v] # NoEntry
  <2>1. Sound(Tabled(v), clone) /\ Tabled(v).dir[cr3][slot[v]] \in DOMAIN Tabled(v).table
    BY <1>1, <1>2, <1>3, TabledIs DEF Marked
  <2>2. Tabled(v).table \in [DOMAIN Tabled(v).table -> [Page -> Entry]]
    BY <2>1 DEF Sound, Typed
  <2> QED BY <1>1, <1>2, <1>3, <1>5, <2>1, <2>2 DEF WithEntry
<1>7. Threads'
  BY <1>1, <1>3, <1>4 DEF IInv, Threads, Marked
<1>8. Kept'
  BY <1>1, <1>2, <1>3, <1>4, <1>6, Constants DEF IInv, Kept, Threads, Page
<1>9. Stores(v)
  BY <1>1, <1>3 DEF Stores, v
<1>10. (Fresh => Fresh') /\ LeavesKept
  BY <1>1, <1>3, <1>9, MarkedPages
<1>11. Tested
  BY <1>1, <1>3, Constants DEF Tested, Page
<1> QED BY <1>4, <1>7, <1>8, <1>10, <1>11 DEF Kernel, Stepped, IInv, Sound

LEMMA MarkUserStep ==
  ASSUME BootHeap, Kernel, NEW v \in UserPage, MarkUser(v)
  PROVE  Stepped
<1>1. /\ v \in Mapped /\ v \in Page /\ v \notin KernelPage /\ IInv /\ current \in Process
      /\ Enough(v)
  BY Constants DEF Kernel, Mapped, Page, MarkUser
<1>2. /\ Marked(v)
      /\ IsPresent(EntryIn(Tabled(v), v)) => table' = Tabled(v).table
      /\ umem' = [umem EXCEPT ![current] = @ \union {v}] /\ UNCHANGED <<marking, kmem>>
  <2>1. cpc # "none" => marking[Main] = NoPage
    BY <1>1 DEF IInv, Cloning
  <2> QED BY <1>1, <2>1 DEF MarkUser, Marked
<1>3. /\ Sound(Memory, clone)' /\ Rooted' /\ Cloning' /\ DOMAIN dir' = DOMAIN dir
      /\ dir'[MMU_PD][BootSlot] = dir[MMU_PD][BootSlot]
      /\ \A t \in DOMAIN table : t \in DOMAIN table' /\ \A w \in Page :
            table'[t][w] = table[t][w] \/ (w = v /\ table'[t][w] = OnDemand)
  BY <1>1, <1>2, MarkedMemory
<1>4. Threads'
  BY <1>1, <1>2, <1>3 DEF IInv, Threads, Marked
<1>5. \A w \in KernelPage : table'[dir'[MMU_PD][BootSlot]][w] = table[dir[MMU_PD][BootSlot]][w]
  BY <1>1, <1>3 DEF IInv, Linked, Memory, Page
<1>6. Kept'
  BY <1>1, <1>2, <1>5 DEF IInv, Kept, Threads
<1>7. (Fresh => Fresh') /\ LeavesKept
  BY <1>1, <1>2, MarkedPages
<1>8. Tested
  BY <1>2 DEF Tested
<1> QED BY <1>3, <1>4, <1>6, <1>7, <1>8 DEF Kernel, Stepped, IInv, Sound

LEMMA SwitchStep ==
  ASSUME BootHeap, Kernel, NEW t \in Thread, Switch(t)
  PROVE  Stepped
<1>1. /\ t # current /\ (t \in Process => pagedir[t] # NoEntry)
      /\ current' = t /\ cr3' = IF t = Main THEN cr3 ELSE pagedir[t]
      /\ tlb' = IF t = Main THEN tlb ELSE [v \in {} |-> NoEntry]
      /\ UNCHANGED <<free, dir, table, pagedir, marking, kmem, umem, clone, cpc>>
      /\ IInv /\ Main \notin Process /\ (t # Main => t \in Process)
  BY Constants DEF Switch, Loaded, Kernel, Thread
<1>2. Sound(Memory, clone)' /\ Kept'
  BY <1>1 DEF IInv, Sound, Memory, Kept, Typed, Apart, Linked
<1>3. Rooted'
  BY <1>1 DEF IInv, Rooted, Threads
<1>4. Cloning'
  BY <1>1 DEF IInv, Cloning, CloneEntry
<1>5. Threads'
  BY <1>1 DEF IInv, Threads
<1>6. Fresh => Fresh'
  BY <1>1 DEF Fresh, Walk
<1>7. LeavesKept /\ Tested
  BY <1>1 DEF LeavesKept, Tested
<1> QED BY <1>2, <1>3, <1>4, <1>5, <1>6, <1>7 DEF Kernel, Stepped, IInv, Sound

\* What a thread may touch is a page of memory, never that of the clone.
LEMMA AllocatedIs ==
  ASSUME IInv
  PROVE  Allocated \subseteq Mapped /\ (current \notin Process => Allocated \subseteq KernelPage)
BY Constants DEF Allocated, Mapped, IInv, Threads, Thread

LEMMA FillStep ==
  ASSUME BootHeap, Kernel, NEW v \in Page, Fill(v)
  PROVE  Stepped
<1>1. /\ v \in Mapped /\ v # ClonePage /\ Walk(v) \in Frame /\ v \notin DOMAIN tlb
      /\ tlb' = [w \in DOMAIN tlb \union {v} |-> IF w = v THEN Walk(v) ELSE tlb[w]]
      /\ UNCHANGED <<free, dir, table, cr3, current, pagedir, marking, kmem, umem, clone, cpc>>
      /\ IInv
  BY AllocatedIs, Constants DEF Fill, Cached, Kernel
<1>2. Sound(Memory, clone)' /\ Kept' /\ Rooted'
  BY <1>1 DEF IInv, Sound, Memory, Kept, Typed, Apart, Linked, Rooted
<1>3. Cloning'
  BY <1>1 DEF IInv, Cloning, CloneEntry
<1>4. Threads'
  BY <1>1 DEF IInv, Threads
<1>5. Fresh => Fresh'
  <2>1. \A w : Walk(w)' = Walk(w)
    BY <1>1 DEF Walk
  <2> QED BY <1>1, <2>1 DEF Fresh
<1>6. LeavesKept /\ Tested
  BY <1>1 DEF LeavesKept, Tested
<1> QED BY <1>2, <1>3, <1>4, <1>5, <1>6 DEF Kernel, Stepped, IInv, Sound

LEMMA FaultStep ==
  ASSUME BootHeap, Kernel, NEW v \in Page, Fault(v)
  PROVE  Stepped
<1> DEFINE t == dir[cr3][slot[v]]
<1>1. /\ v \in Mapped /\ v # ClonePage /\ Walk(v) = OnDemand /\ v \notin DOMAIN tlb
      /\ free # <<>> /\ marking[current] = NoPage
      /\ table' = [table EXCEPT ![t][v] = Last(free)]
      /\ free' = Front(free)
      /\ tlb' = [w \in DOMAIN tlb \union {v} |-> IF w = v THEN Last(free) ELSE tlb[w]]
      /\ dir' = IF slot[v] \in KernelSlot THEN [dir EXCEPT ![MMU_PD][slot[v]] = t] ELSE dir
      /\ UNCHANGED <<cr3, current, pagedir, marking, kmem, umem, clone, cpc>>
      /\ IInv
  BY AllocatedIs, Recursive, Constants DEF Fault, Cached, Kernel, Popped
<1>2. /\ cr3 \in DOMAIN dir /\ dir \in [DOMAIN dir -> [Slot -> Entry]] /\ MMU_PD \in DOMAIN dir
      /\ table \in [DOMAIN table -> [Page -> Entry]] /\ Mapped \subseteq Page
      /\ OnDemand # NoEntry /\ OnDemand \notin Frame /\ slot[v] \in Slot
      /\ NoEntry \notin Frame
  BY <1>1, Recursive, Constants DEF Mapped, Page
<1>3. t \in DOMAIN table /\ table[t][v] = OnDemand
  BY <1>1, <1>2 DEF Walk
<1>4. dir' = dir
  <2>1. slot[v] \in KernelSlot => t = dir[MMU_PD][slot[v]]
    BY <1>1, <1>2 DEF IInv, Linked, Memory
  <2> QED BY <1>1, <1>2, <2>1
<1> HIDE DEF t
<1>5. Sound(Memory, clone)'
  <2>1. /\ Memory.free = free /\ Memory.dir = dir /\ Memory.table = table
        /\ Memory'.free = Front(free) /\ Memory'.dir = dir /\ Memory'.table = table'
        /\ clone' = clone /\ Sound(Memory, clone)
    BY <1>1, <1>4 DEF Memory, IInv, Sound
  <2>2. Memory'.table = [Memory.table EXCEPT ![t][v] = Last(Memory.free)]
    BY <1>1, <2>1
  <2>3. /\ Memory.free # <<>> /\ t \in DOMAIN Memory.table
        /\ Memory'.free = Front(Memory.free) /\ Memory'.dir = Memory.dir
    BY <1>1, <1>3, <2>1
  <2>4. Sound(Memory', clone)
    BY <1>1, <2>1, <2>2, <2>3, FrameGiven
  <2> QED BY <2>1, <2>4
<1>6. Last(free) \in Frame
  BY <1>1, Popping DEF IInv, Typed, Apart, Memory
<1>7. /\ DOMAIN table' = DOMAIN table
      /\ \A u \in DOMAIN table : \A w \in Page :
            table'[u][w] = IF u = t /\ w = v THEN Last(free) ELSE table[u][w]
  BY <1>1, <1>2
<1>8. Rooted' /\ Threads'
  BY <1>1, <1>4, <1>6 DEF IInv, Rooted, Threads
<1>9. Kept'
  BY <1>1, <1>2, <1>4, <1>6, <1>7 DEF IInv, Kept, Threads, Linked, Memory, Page
<1>10. Cloning'
  <2>1. ClonePage \in Page
    BY DEF Page
  <2> QED BY <1>1, <1>4, <1>7, <2>1 DEF IInv, Cloning, CloneEntry
<1>11. LeavesKept /\ Tested
  BY <1>1, <1>2, <1>3, <1>7, KeptByEntry DEF Tested
<1>12. Fresh => Fresh'
  <2>1. \A w \in Page : w # v => Walk(w)' = Walk(w)
    BY <1>1, <1>4, <1>7 DEF Walk
  <2>2. Walk(v)' = Last(free)
    BY <1>1, <1>3, <1>4, <1>7 DEF Walk, t
  <2> QED BY <1>1, <2>1, <2>2 DEF Fresh, IInv, Threads
<1> QED BY <1>5, <1>8, <1>9, <1>10, <1>11, <1>12 DEF Kernel, Stepped, IInv, Sound

-----------------------------------------------------------------------------
(* mmu_clone_pagedir *)

\* Without a clone under way kmain is not in mmu_mark either.
LEMMA CloneAllocStep ==
  ASSUME BootHeap, Kernel, CloneAlloc
  PROVE  Stepped
<1>1. /\ current = Main /\ cpc = "none" /\ marking[Main] = NoPage /\ free # <<>>
      /\ clone' = Last(free) /\ free' = Front(free) /\ cpc' = "map"
      /\ UNCHANGED <<dir, table, cr3, tlb, current, pagedir, marking, kmem, umem>>
      /\ IInv
  BY DEF CloneAlloc, Running, Kernel, Popped
<1>2. Sound(Memory, clone) /\ Memory.free = free /\ Memory.dir = dir /\ Memory.table = table
  BY <1>1 DEF IInv, Sound, Memory
<1>3. /\ Last(free) \in Frame /\ Last(free) \in ToSet(free)
      /\ Last(free) \notin DOMAIN table /\ Last(free) \notin DOMAIN dir
      /\ \A t \in DOMAIN table : \A v \in Mapped : table[t][v] # Last(free)
      /\ Front(free) \in Seq(Frame) /\ IsInjective(Front(free))
      /\ \A f : f \in ToSet(Front(free)) => f \in ToSet(free) /\ f # Last(free)
      /\ Last(free) # NoEntry
  <2>1. free \in Seq(Frame) /\ IsInjective(free)
    BY <1>2 DEF Sound, Typed, Apart
  <2>2. Last(free) \in Frame /\ Last(free) # NoEntry
    BY <1>1, <2>1, Popping, Constants
  <2> QED BY <1>1, <1>2, <2>1, <2>2, Popping, FreshTable
<1>4. Memory'.free = Front(free) /\ Memory'.dir = dir /\ Memory'.table = table
  BY <1>1 DEF Memory
<1>5. Typed(Memory') /\ Linked(Memory')
  BY <1>2, <1>3, <1>4 DEF Sound, Typed, Linked
<1>6. Apart(Memory', clone')
  BY <1>1, <1>2, <1>3, <1>4 DEF Sound, Apart
<1>7. Cloning' /\ Rooted' /\ Threads' /\ Kept'
  BY <1>1, <1>3 DEF IInv, Cloning, Rooted, Threads, Kept
<1>8. (Fresh => Fresh') /\ LeavesKept /\ Tested
  BY <1>1 DEF Fresh, Walk, LeavesKept, Tested
<1> QED BY <1>5, <1>6, <1>7, <1>8 DEF Kernel, Stepped, IInv

LEMMA CloneMapStep ==
  ASSUME BootHeap, Kernel, CloneMap
  PROVE  Stepped
<1> DEFINE c == ClonePage
           m == Tabled(c)
           t0 == m.dir[cr3][slot[c]]
<1>1. /\ current = Main /\ cpc = "map" /\ Enough(c) /\ free' = m.free /\ dir' = m.dir
      /\ table' = WithEntry(m, c, clone) /\ cpc' = "copy"
      /\ tlb' = [w \in DOMAIN tlb \ {c} |-> tlb[w]]
      /\ UNCHANGED <<cr3, current, pagedir, marking, kmem, umem, clone>>
      /\ IInv
  BY DEF CloneMap, Kernel, Invalidated
<1>2. /\ c \in Page /\ c \notin UserPage /\ c \notin Mapped /\ slot[c] \in KernelSlot
      /\ slot[c] \in Slot \ {Rec} /\ BootSlot \in Slot \ {Rec} /\ Mapped \subseteq Page
      /\ Dir = cr3 /\ cr3 \in DOMAIN dir /\ MMU_PD \in DOMAIN dir /\ IInv
      /\ \A w \in Page : slot[w] \in Slot \ {Rec}
  BY <1>1, Recursive, Constants DEF Mapped, Page, Slot
<1>3. /\ Sound(m, clone) /\ DOMAIN m.dir = DOMAIN dir /\ t0 \in DOMAIN m.table
      /\ \A d \in DOMAIN dir : d # MMU_PD => m.dir[d][Rec] = dir[d][Rec]
      /\ cr3 = MMU_PD => m.dir[MMU_PD][Rec] = MMU_PD
      /\ \A t \in DOMAIN table : t \in DOMAIN m.table /\ m.table[t] = table[t]
      /\ \A d \in DOMAIN dir : \A s \in Slot \ {Rec} :
            dir[d][s] \in DOMAIN table => m.dir[d][s] = dir[d][s]
      /\ \A w \in Page :
            Walk(w) = IF m.dir[cr3][slot[w]] \in DOMAIN m.table
                      THEN m.table[m.dir[cr3][slot[w]]][w] ELSE NoEntry
  BY <1>1, <1>2, TabledIs
<1>4. WithEntry(m, c, clone) = [m.table EXCEPT ![t0][c] = clone]
  BY <1>2 DEF WithEntry
<1>5. m.table \in [DOMAIN m.table -> [Page -> Entry]]
  BY <1>3 DEF Sound, Typed
<1>6. t0 = m.dir[MMU_PD][slot[c]]
  BY <1>2, <1>3 DEF Sound, Linked
<1> HIDE DEF m, t0
<1>7. clone \in Frame /\ clone \notin DOMAIN dir /\ clone # NoEntry /\ clone \in Entry
  BY <1>1, Constants DEF IInv, Cloning, Entry
<1>8. /\ DOMAIN table' = DOMAIN m.table
      /\ \A t \in DOMAIN m.table : \A w \in Page :
            table'[t][w] = IF t = t0 /\ w = c THEN clone ELSE m.table[t][w]
  BY <1>1, <1>2, <1>3, <1>4, <1>5
<1>9. Sound(Memory, clone)'
  <2>1. /\ Memory'.free = m.free /\ Memory'.dir = m.dir
        /\ Memory'.table = [m.table EXCEPT ![t0][c] = clone] /\ clone' = clone
    BY <1>1, <1>4 DEF Memory
  <2>2. Sound(Memory', clone)
    BY <1>2, <1>3, <1>7, <2>1, EntryWritten
  <2> QED BY <2>1, <2>2
<1>10. Rooted' /\ Threads'
  BY <1>1, <1>2, <1>3 DEF IInv, Rooted, Threads
<1>11. Cloning'
  <2>1. dir'[MMU_PD][slot[c]] = t0 /\ t0 \in DOMAIN table' /\ CloneEntry' = clone
    BY <1>1, <1>2, <1>3, <1>6, <1>8 DEF CloneEntry
  <2> QED BY <1>1, <1>2, <1>3, <2>1 DEF IInv, Cloning
<1>12. /\ dir'[MMU_PD][BootSlot] = dir[MMU_PD][BootSlot]
       /\ \A t \in DOMAIN table : t \in DOMAIN table' /\ \A w \in Mapped : table'[t][w] = table[t][w]
       /\ dir[MMU_PD][BootSlot] \in DOMAIN table
  BY <1>1, <1>2, <1>3, <1>8 DEF IInv, Linked, Memory
<1>13. Kept' /\ LeavesKept /\ Tested
  BY <1>1, <1>12, KeptByEntry DEF IInv, Kept, Threads, Mapped, Tested
<1>14. Fresh => Fresh'
  <2>1. \A w \in Page : w # c => Walk(w)' = Walk(w)
    BY <1>1, <1>3, <1>8 DEF Walk
  <2> QED BY <1>1, <2>1 DEF Fresh, IInv, Threads
<1> QED BY <1>1, <1>9, <1>10, <1>11, <1>13, <1>14 DEF Kernel, Stepped, IInv, Sound

LEMMA CloneCopyStep ==
  ASSUME BootHeap, Kernel, CloneCopy
  PROVE  Stepped
<1> DEFINE c == ClonePage
<1>1. /\ current = Main /\ cpc = "copy" /\ cpc' = "unmap"
      /\ dir' = [d \in DOMAIN dir \union {Reached(c)} |->
                    IF d = Reached(c) THEN [s \in Slot |-> Copied(s)] ELSE dir[d]]
      /\ tlb' = Cached(c, Reached(c))
      /\ UNCHANGED <<free, table, cr3, current, pagedir, marking, kmem, umem, clone>>
      /\ IInv
  BY DEF CloneCopy, Kernel
<1>2. /\ cr3 \in DOMAIN dir /\ MMU_PD \in DOMAIN dir /\ DOMAIN dir \subseteq Frame
      /\ dir \in [DOMAIN dir -> [Slot -> Entry]]
      /\ c \in Page /\ c \notin Mapped /\ slot[c] \in KernelSlot /\ Rec \in Slot
      /\ Rec \notin KernelSlot /\ KernelSlot \intersect UserSlot = {} /\ BootSlot \in KernelSlot
      /\ KernelSlot \subseteq Slot \ {Rec} /\ NoEntry \notin Frame /\ DOMAIN table \subseteq Frame
      /\ \A s \in Slot \ {Rec} : s \notin KernelSlot => s \in UserSlot
  BY <1>1, Recursive, Constants DEF Page, Slot
<1>3. /\ clone \in Frame /\ clone \notin DOMAIN dir /\ clone # NoEntry /\ clone # MMU_PD
      /\ dir[MMU_PD][slot[c]] \in DOMAIN table /\ CloneEntry = clone
      /\ c \in DOMAIN tlb => tlb[c] = clone
  BY <1>1, <1>2 DEF IInv, Cloning
<1>4. Sound(Memory, clone) /\ Memory.free = free /\ Memory.dir = dir /\ Memory.table = table
  BY <1>1 DEF IInv, Sound, Memory
<1>5. Reached(c) = clone
  <2>1. dir[cr3][slot[c]] = dir[MMU_PD][slot[c]]
    BY <1>2, <1>4 DEF Sound, Linked
  <2> QED BY <1>3, <2>1 DEF Reached, Walk, CloneEntry
<1>6. /\ dir' = [d \in DOMAIN dir \union {clone} |->
                    IF d = clone THEN [s \in Slot |-> Copied(s)] ELSE dir[d]]
      /\ tlb' = [w \in DOMAIN tlb \union {c} |-> IF w = c THEN clone ELSE tlb[w]]
  BY <1>1, <1>5 DEF Cached
<1>7. /\ DOMAIN dir' = DOMAIN dir \union {clone}
      /\ dir' \in [DOMAIN dir \union {clone} -> [Slot -> Entry]]
      /\ \A d \in DOMAIN dir : dir'[d] = dir[d]
      /\ dir'[clone][Rec] = clone
      /\ \A s \in KernelSlot : dir'[clone][s] = dir[MMU_PD][s]
      /\ \A s \in Slot \ {Rec} : s \notin KernelSlot => dir'[clone][s] = NoEntry
  <2>1. \A s \in Slot : Copied(s) \in Entry
    BY <1>2, <1>3 DEF Copied, Entry
  <2>2. [s \in Slot |-> Copied(s)] \in [Slot -> Entry]
    BY <2>1
  <2>3. /\ Copied(Rec) = clone /\ \A s \in KernelSlot : Copied(s) = dir[MMU_PD][s]
        /\ \A s \in Slot \ {Rec} : s \notin KernelSlot => Copied(s) = NoEntry
    BY <1>2 DEF Copied
  <2>4. /\ DOMAIN dir' = DOMAIN dir \union {clone}
        /\ dir'[clone] = [s \in Slot |-> Copied(s)] /\ \A d \in DOMAIN dir : dir'[d] = dir[d]
    BY <1>3, <1>6
  <2>5. dir' \in [DOMAIN dir \union {clone} -> [Slot -> Entry]]
    BY <1>2, <1>6, <2>2
  <2> QED BY <1>2, <2>3, <2>4, <2>5
<1>8. Memory'.free = free /\ Memory'.dir = dir' /\ Memory'.table = table /\ clone' = clone
  BY <1>1 DEF Memory
<1>9. Typed(Memory')
  BY <1>2, <1>3, <1>4, <1>7, <1>8 DEF Sound, Typed
<1>10. Apart(Memory', clone)
  BY <1>3, <1>4, <1>7, <1>8 DEF Sound, Apart
<1>11. Linked(Memory')
  <2>1. /\ \A d \in DOMAIN dir : \A s \in Slot \ {Rec} :
              dir[d][s] = NoEntry \/ dir[d][s] \in DOMAIN table
        /\ \A d, e \in DOMAIN dir : \A r, s \in Slot \ {Rec} :
              dir[d][r] = dir[e][s] /\ dir[d][r] \in DOMAIN table =>
                  r = s /\ (s \in UserSlot => d = e)
        /\ \A d \in DOMAIN dir : \A s \in KernelSlot : dir[d][s] = dir[MMU_PD][s]
        /\ dir[MMU_PD][BootSlot] \in DOMAIN table
    BY <1>4 DEF Sound, Linked
  <2>2. \A d \in DOMAIN dir' : \A s \in Slot \ {Rec} :
           dir'[d][s] = NoEntry \/ dir'[d][s] \in DOMAIN table
    BY <1>2, <1>7, <2>1
  <2>3. ASSUME NEW d \in DOMAIN dir', NEW e \in DOMAIN dir', NEW r \in Slot \ {Rec}, NEW s \in Slot \ {Rec},
               dir'[d][r] = dir'[e][s], dir'[d][r] \in DOMAIN table
        PROVE  r = s /\ (s \in UserSlot => d = e)
    <3>1. NoEntry \notin DOMAIN table
      BY <1>2
    <3>2. CASE d \in DOMAIN dir /\ e \in DOMAIN dir
      BY <1>7, <2>1, <2>3, <3>2
    <3>3. CASE d = clone
      <4>1. r \in KernelSlot /\ dir'[d][r] = dir[MMU_PD][r]
        BY <1>7, <2>3, <3>1, <3>3
      <4>2. CASE e = clone
        <5>1. s \in KernelSlot /\ dir'[e][s] = dir[MMU_PD][s]
          BY <1>7, <2>3, <3>1, <4>2
        <5> QED BY <1>2, <2>1, <2>3, <3>3, <4>1, <4>2, <5>1
      <4>3. CASE e \in DOMAIN dir
        <5>1. dir'[e][s] = dir[e][s]
          BY <1>7, <4>3
        <5>2. r = s
          <6>1. dir[MMU_PD][r] = dir[e][s] /\ dir[MMU_PD][r] \in DOMAIN table
            BY <2>3, <4>1, <5>1
          <6> QED BY <1>2, <2>1, <4>3, <6>1
        <5> QED BY <1>2, <4>1, <5>2
      <4> QED BY <1>7, <4>2, <4>3
    <3>4. CASE d \in DOMAIN dir /\ e = clone
      <4>1. s \in KernelSlot /\ dir'[e][s] = dir[MMU_PD][s] /\ dir'[d][r] = dir[d][r]
        BY <1>7, <2>3, <3>1, <3>4
      <4>2. r = s
        BY <1>2, <2>1, <2>3, <3>4, <4>1
      <4> QED BY <1>2, <4>1, <4>2
    <3> QED BY <1>7, <3>2, <3>3, <3>4
  <2>4. \A d \in DOMAIN dir' : \A s \in KernelSlot : dir'[d][s] = dir'[MMU_PD][s]
    BY <1>2, <1>7, <2>1
  <2>5. dir'[MMU_PD][BootSlot] \in DOMAIN table /\ dir'[MMU_PD][slot[ClonePage]] \in DOMAIN table
    BY <1>2, <1>3, <1>7, <2>1
  <2>6. \A d, e \in DOMAIN dir' : \A r, s \in Slot \ {Rec} :
           dir'[d][r] = dir'[e][s] /\ dir'[d][r] \in DOMAIN table =>
               r = s /\ (s \in UserSlot => d = e)
    BY <2>3
  <2> DEFINE M == Memory'
  <2>7. M.dir = dir' /\ M.table = table
    BY <1>8
  <2> HIDE DEF M
  <2>8. Linked(M)
    BY <2>2, <2>4, <2>5, <2>6, <2>7 DEF Linked
  <2> QED BY <2>8 DEF M
<1>12. Rooted' /\ Threads'
  BY <1>1, <1>2, <1>3, <1>6, <1>7 DEF IInv, Rooted, Threads
<1>13. Cloning'
  BY <1>1, <1>2, <1>3, <1>6, <1>7 DEF IInv, Cloning, CloneEntry
<1>14. Kept' /\ LeavesKept /\ Tested
  BY <1>1, <1>2, <1>7 DEF IInv, Kept, LeavesKept, Tested
<1>15. Fresh => Fresh'
  <2>1. \A w : Walk(w)' = Walk(w)
    BY <1>1, <1>2, <1>7 DEF Walk
  <2>2. Walk(c) = clone
    BY <1>2, <1>3, <1>4 DEF Walk, CloneEntry, Sound, Linked
  <2> QED BY <1>1, <1>2, <1>6, <1>7, <2>1, <2>2 DEF Fresh
<1> QED BY <1>8, <1>9, <1>10, <1>11, <1>12, <1>13, <1>14, <1>15 DEF Kernel, Stepped, IInv, Sound

\* The page of the clone is unmapped; what is cached for it stays, unused.
LEMMA CloneDoneStep ==
  ASSUME BootHeap, Kernel, NEW p \in Process, CloneDone(p)
  PROVE  Stepped
<1> DEFINE c == ClonePage
           t == dir[cr3][slot[c]]
<1>1. /\ current = Main /\ cpc = "unmap" /\ cpc' = "none" /\ clone' = NoEntry
      /\ table' = [table EXCEPT ![t][c] = NoEntry] /\ t \in DOMAIN table
      /\ pagedir' = [pagedir EXCEPT ![p] = clone]
      /\ UNCHANGED <<free, dir, cr3, tlb, current, marking, kmem, umem>>
      /\ IInv
  BY Recursive DEF CloneDone, Kernel
<1>2. /\ cr3 \in DOMAIN dir /\ MMU_PD \in DOMAIN dir /\ DOMAIN table \subseteq Frame
      /\ table \in [DOMAIN table -> [Page -> Entry]]
      /\ c \in Page /\ c \notin Mapped /\ Mapped \subseteq Page /\ NoEntry \notin Frame
      /\ NoEntry \in Entry /\ Main \notin Process /\ KernelPage \subseteq Mapped
  BY <1>1, Recursive, Constants DEF Mapped, Page, Entry
<1>3. clone \in DOMAIN dir \ {MMU_PD}
  BY <1>1 DEF IInv, Cloning
<1> HIDE DEF t
<1>4. /\ DOMAIN table' = DOMAIN table
      /\ \A u \in DOMAIN table : \A w \in Page :
            table'[u][w] = IF u = t /\ w = c THEN NoEntry ELSE table[u][w]
  BY <1>1, <1>2
<1>5. Sound(Memory, clone) /\ Memory.free = free /\ Memory.dir = dir /\ Memory.table = table
  BY <1>1 DEF IInv, Sound, Memory
<1> DEFINE M == Memory'
<1>6. M.free = free /\ M.dir = dir /\ M.table = table'
  BY <1>1 DEF Memory
<1> HIDE DEF M
<1>7. Sound(M, clone)
  <2>1. M.free = Memory.free /\ M.dir = Memory.dir /\ M.table = [Memory.table EXCEPT ![t][c] = NoEntry]
    BY <1>1, <1>5, <1>6
  <2>2. t \in DOMAIN Memory.table /\ Sound(Memory, clone)
    BY <1>1, <1>5
  <2> QED BY <1>2, <2>1, <2>2, EntryWritten
<1>8. Apart(M, NoEntry)
  <2>1. M.free \in Seq(Frame) /\ DOMAIN M.table \subseteq Frame
    BY <1>7 DEF Sound, Typed
  <2>2. \A f \in ToSet(M.free) : f # NoEntry
    <3>1. \A f \in ToSet(M.free) : f \in Frame
      <4>1. \A i \in DOMAIN M.free : M.free[i] \in Frame
        BY <2>1, ElementOfSeq, LenProperties
      <4> QED BY <4>1 DEF ToSet
    <3> QED BY <1>2, <3>1
  <2> QED BY <1>2, <1>7, <2>1, <2>2 DEF Sound, Apart
<1>9. Typed(M) /\ Linked(M)
  BY <1>7 DEF Sound
<1>10. Rooted' /\ Threads'
  BY <1>1, <1>2, <1>3 DEF IInv, Rooted, Threads
<1>11. Cloning'
  BY <1>1 DEF IInv, Cloning
<1>12. Kept'
  BY <1>1, <1>2, <1>4 DEF IInv, Kept, Threads, Linked, Memory
<1>13. LeavesKept /\ Tested
  BY <1>1, <1>2, <1>4, KeptByEntry DEF Tested
<1>14. ASSUME Fresh PROVE Fresh'
  <2>1. \A w \in Page : w # c => Walk(w)' = Walk(w)
    BY <1>1, <1>4 DEF Walk
  <2>2. Walk(c)' = NoEntry
    BY <1>1, <1>2, <1>4 DEF Walk, t
  <2> QED BY <1>1, <1>14, <2>1, <2>2 DEF Fresh, IInv, Threads
<1> QED BY <1>1, <1>8, <1>9, <1>10, <1>11, <1>12, <1>13, <1>14 DEF Kernel, Stepped, IInv, M

-----------------------------------------------------------------------------
(* The theorems *)

LEMMA InitKernel ==
  ASSUME Init
  PROVE  Kernel
<1> DEFINE M == Memory
<1>1. /\ free = Pool /\ DOMAIN dir = {MMU_PD} /\ DOMAIN table = {MMU_PT}
      /\ dir[MMU_PD] = [s \in Slot |-> IF s = Rec THEN MMU_PD
                                       ELSE IF s = BootSlot THEN MMU_PT ELSE NoEntry]
      /\ table[MMU_PT] = [v \in Page |-> NoEntry]
      /\ cr3 = MMU_PD /\ DOMAIN tlb = {} /\ current = Main
      /\ pagedir = [p \in Process |-> NoEntry] /\ marking = [t \in Thread |-> NoPage]
      /\ kmem = {} /\ umem = [p \in Process |-> {}] /\ clone = NoEntry /\ cpc = "none"
      /\ dir = [d \in {MMU_PD} |-> dir[MMU_PD]] /\ table = [t \in {MMU_PT} |-> table[MMU_PT]]
      /\ tlb = [v \in {} |-> NoEntry]
  BY DEF Init, Unmapped
<1>2. /\ MMU_PD \in Frame /\ MMU_PT \in Frame /\ MMU_PD # MMU_PT
      /\ NoEntry \notin Frame /\ Rec \in Slot /\ BootSlot \in Slot \ {Rec} /\ NoEntry \in Entry
      /\ Frame \subseteq Entry /\ Mapped \subseteq Page /\ KernelSlot \intersect UserSlot = {}
      /\ BootSlot \in KernelSlot /\ Rec \notin KernelSlot /\ Main \notin Process
      /\ slot[ClonePage] \in Slot
  BY Constants DEF Slot, Entry, Mapped, Page
<1>3. /\ dir[MMU_PD] \in [Slot -> Entry] /\ table[MMU_PT] \in [Page -> Entry]
      /\ dir[MMU_PD][Rec] = MMU_PD
      /\ \A s \in Slot \ {Rec} : dir[MMU_PD][s] = IF s = BootSlot THEN MMU_PT ELSE NoEntry
      /\ \A v \in Page : table[MMU_PT][v] = NoEntry
  BY <1>1, <1>2
<1>4. M.free = Pool /\ M.dir = dir /\ M.table = table
  BY <1>1 DEF Memory
<1> HIDE DEF M
<1>5. /\ Pool \in Seq(Frame) /\ IsInjective(Pool)
      /\ MMU_PD \notin ToSet(Pool) /\ MMU_PT \notin ToSet(Pool) /\ NoEntry \notin ToSet(Pool)
  <2>1. \A i \in DOMAIN Pool : Pool[i] \in Frame
    BY PoolIs, ElementOfSeq, LenProperties
  <2> QED BY <1>2, <2>1, PoolIs DEF ToSet
<1>6. Typed(M)
  <2>1. dir \in [DOMAIN dir -> [Slot -> Entry]] /\ table \in [DOMAIN table -> [Page -> Entry]]
    BY <1>1, <1>3
  <2> QED BY <1>1, <1>2, <1>4, <1>5, <2>1 DEF Typed
<1>7. Apart(M, NoEntry)
  BY <1>1, <1>2, <1>3, <1>4, <1>5 DEF Apart
<1>8. Linked(M)
  BY <1>1, <1>2, <1>3, <1>4 DEF Linked
<1>9. Rooted /\ Cloning /\ Kept
  BY <1>1, <1>2, <1>3 DEF Rooted, Cloning, Kept
<1>10. Threads
  BY <1>1 DEF Threads, Thread
<1>11. Fresh
  BY <1>1 DEF Fresh
<1> QED BY <1>1, <1>6, <1>7, <1>8, <1>9, <1>10, <1>11 DEF Kernel, IInv, M

LEMMA KernelStep ==
  ASSUME BootHeap, Kernel, [Next]_vars
  PROVE  Stepped
<1>1. CASE \E t \in Thread : Switch(t)
  BY <1>1, SwitchStep
<1>2. CASE \E v \in KernelPage : MarkTest(v)
  BY <1>2, MarkTestStep
<1>3. CASE MarkStore
  BY <1>3, MarkStoreStep
<1>4. CASE \E v \in UserPage : MarkUser(v)
  BY <1>4, MarkUserStep
<1>5. CASE \E v \in Page : Fill(v) \/ Fault(v)
  BY <1>5, FillStep, FaultStep
<1>6. CASE CloneAlloc \/ CloneMap \/ CloneCopy
  BY <1>6, CloneAllocStep, CloneMapStep, CloneCopyStep
<1>7. CASE \E p \in Process : CloneDone(p)
  BY <1>7, CloneDoneStep
<1>8. CASE UNCHANGED vars
  <2>1. Kernel'
    BY <1>8 DEF vars, Kernel, IInv, Memory, Typed, Apart, Linked, Rooted, Cloning, CloneEntry,
                Threads, Kept, Fresh, Walk
  <2>2. LeavesKept /\ Tested
    BY <1>8 DEF vars, LeavesKept, Tested
  <2> QED BY <2>1, <2>2 DEF Stepped
<1> QED BY <1>1, <1>2, <1>3, <1>4, <1>5, <1>6, <1>7, <1>8 DEF Next

LEMMA KernelInvariant ==
  ASSUME BootHeap
  PROVE  Spec => []Kernel
<1>1. Init => Kernel
  BY InitKernel
<1>2. Kernel /\ [Next]_vars => Kernel'
  BY KernelStep DEF Stepped
<1> QED BY <1>1, <1>2, PTL DEF Spec

LEMMA KernelParts ==
  ASSUME Kernel
  PROVE  /\ Typed(Memory) /\ Apart(Memory, clone) /\ Linked(Memory)
         /\ Rooted /\ Cloning /\ Threads /\ Kept
         /\ Memory.free = free /\ Memory.dir = dir /\ Memory.table = table
BY DEF Kernel, IInv, Memory

\* Directories, tables, translations and threads are of their types, and
\* kmain is between two steps of mmu_clone_pagedir, in every state.
THEOREM AddressSpaceTyped ==
  ASSUME BootHeap
  PROVE  Spec => []TypeOK
<1>1. Kernel => TypeOK
  BY KernelParts DEF Typed, Rooted, Cloning, Threads, TypeOK
<1> QED BY <1>1, KernelInvariant, PTL

\* mmu_alloc, the fault handler and mmu_clone_pagedir never give a frame a
\* second use, interrupted or not, and a table that serves a process is in
\* no other directory.
THEOREM FramesHaveOneUse ==
  ASSUME BootHeap
  PROVE  Spec => []OneUse
<1>1. ASSUME Kernel PROVE OneUse
  <2> DEFINE mem == {table[l[1]][l[2]] : l \in Leaf}
             new == {clone} \ (DOMAIN dir \union {NoEntry})
  <2>1. /\ IsInjective(free)
        /\ \A f \in ToSet(free) : f \notin DOMAIN dir /\ f \notin DOMAIN table /\ f # clone
        /\ DOMAIN dir \intersect DOMAIN table = {} /\ clone \notin DOMAIN table
    BY <1>1, KernelParts DEF Apart
  <2>2. ASSUME NEW l \in Leaf
        PROVE  /\ l[1] \in DOMAIN table /\ l[2] \in Mapped
               /\ l = <<l[1], l[2]>> /\ table[l[1]][l[2]] \in Frame
    BY DEF Leaf, Mapped
  <2>3. ASSUME NEW l \in Leaf
        PROVE  LET f == table[l[1]][l[2]] IN
               /\ f \notin ToSet(free) /\ f \notin DOMAIN dir /\ f \notin DOMAIN table /\ f # clone
               /\ \A u \in DOMAIN table : \A w \in Mapped : table[u][w] = f => l[1] = u /\ l[2] = w
    BY <1>1, <2>2, KernelParts DEF Apart
  <2>4. \A k, l \in Leaf : table[k[1]][k[2]] = table[l[1]][l[2]] => k = l
    <3> SUFFICES ASSUME NEW k \in Leaf, NEW l \in Leaf, table[k[1]][k[2]] = table[l[1]][l[2]]
                 PROVE  k = l
      OBVIOUS
    <3>1. k[1] = l[1] /\ k[2] = l[2]
      BY <2>2, <2>3
    <3> QED BY <2>2, <3>1
  <2>5. \A f \in mem : f \notin ToSet(free) /\ f \notin DOMAIN dir /\ f \notin DOMAIN table /\ f # clone
    BY <2>3
  <2>6. \A d, e \in DOMAIN dir : \A r, s \in Slot \ {Rec} :
           dir[d][r] = dir[e][s] /\ dir[d][r] \in DOMAIN table =>
               r = s /\ (s \in UserSlot => d = e)
    BY <1>1, KernelParts DEF Linked
  <2>7. \A f \in new : f = clone
    OBVIOUS
  <2> HIDE DEF mem, new
  <2>8. /\ ToSet(free) \intersect (DOMAIN dir \union DOMAIN table \union mem \union new) = {}
        /\ DOMAIN dir \intersect (DOMAIN table \union mem) = {}
        /\ DOMAIN table \intersect mem = {}
        /\ new \intersect (DOMAIN table \union mem) = {}
    BY <2>1, <2>5, <2>7
  <2> QED BY <2>1, <2>4, <2>6, <2>8 DEF OneUse, mem, new
<1> QED BY <1>1, KernelInvariant, PTL

\* A page that kmalloc has given out is mapped or on demand, through one
\* table, in every directory: the thread that runs may use it, whichever
\* directory the switch has left in cr3.
THEOREM KernelMemoryShared ==
  ASSUME BootHeap
  PROVE  Spec => []KernelShared
<1>1. ASSUME Kernel PROVE KernelShared
  <2> SUFFICES ASSUME NEW v \in kmem, NEW d \in DOMAIN dir
               PROVE  /\ dir[d][slot[v]] = dir[MMU_PD][slot[v]]
                      /\ dir[d][slot[v]] \in DOMAIN table
                      /\ table[dir[d][slot[v]]][v] # NoEntry
    BY DEF KernelShared
  <2>1. v \in KernelPage
    BY <1>1, KernelParts DEF Threads
  <2>2. /\ slot[v] = BootSlot /\ dir[d][slot[v]] = dir[MMU_PD][BootSlot]
        /\ dir[d][slot[v]] \in DOMAIN table
    BY <1>1, <2>1, HeapTable DEF Kernel
  <2> QED BY <1>1, <2>2, KernelParts DEF Kept
<1> QED BY <1>1, KernelInvariant, PTL

\* No access of the kernel or of a process goes through a translation that
\* the tables of the loaded directory do not give, unless a timer interrupt
\* in mmu_mark has let it put a page of the kernel on demand a second time.
THEOREM TranslationsFresh ==
  ASSUME BootHeap
  PROVE  Spec => []TlbFresh
<1>1. ASSUME Kernel PROVE TlbFresh
  <2>1. /\ Dir = cr3 /\ cr3 \in DOMAIN dir
        /\ dir[cr3][slot[ClonePage]] = dir[MMU_PD][slot[ClonePage]]
    BY <1>1, KernelParts, Recursive, Constants DEF Kernel, Linked
  <2>2. Fresh
    BY <1>1 DEF Kernel
  <2>3. ASSUME cpc \in {"copy", "unmap"} PROVE Reached(ClonePage) = clone
    BY <1>1, <2>1, <2>3, KernelParts DEF Cloning, CloneEntry, Reached, Walk
  <2> QED BY <2>1, <2>2, <2>3 DEF TlbFresh, Fresh
<1> QED BY <1>1, KernelInvariant, PTL

\* A page of memory that has a frame keeps it in every step, wherever the
\* timer strikes, but for the store of mmu_mark at the page it has tested;
\* and what it has tested had no frame at the test.
THEOREM PagesKeptOutsideMark ==
  ASSUME BootHeap
  PROVE  Spec => KeptOutsideMark
<1> DEFINE Same ==
       /\ \A l \in Leaf :
             \/ table'[l[1]][l[2]] = table[l[1]][l[2]]
             \/ l[2] = marking[current] /\ marking'[current] = NoPage
       /\ \A t \in Thread, v \in KernelPage :
             marking[t] # v /\ marking'[t] = v => Walk(v)' \notin Frame
<1>1. Kernel /\ [Next]_vars => [Same]_vars
  BY KernelStep DEF Stepped, LeavesKept, Stores, Tested
<1> HIDE DEF Same
<1>2. Spec => [][Same]_vars
  BY <1>1, KernelInvariant, PTL DEF Spec
<1> QED BY <1>2 DEF KeptOutsideMark, Same

=============================================================================
