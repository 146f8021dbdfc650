----------------------------- MODULE AddressSpace -----------------------------
(***************************************************************************)
(* Page directories and page tables (arch/i686/mmu.c) as the threads use   *)
(* them: kernel memory that kmalloc marks for demand allocation, the page  *)
(* fault that backs it, the page directory made for each process, and the  *)
(* switch between them (arch/i686/scheduler.s).                            *)
(*                                                                         *)
(* A directory is a frame; its last entry Rec maps the tables of the       *)
(* directory that is loaded.  kmain has no directory of its own, it runs   *)
(* in the one that the last process left in CR3.  The half of a directory  *)
(* that is the kernel's is copied from MMU_PD when the directory is made.  *)
(*                                                                         *)
(* Faults, system calls and the frame stack (see Frames) run with          *)
(* interrupts off.  kmalloc and mmu_clone_pagedir run with interrupts on:  *)
(* the timer may switch threads between the steps of the clone, and inside *)
(* mmu_mark between its test and its store.  Memory does not run out: a    *)
(* step that would find no frame left is not taken.                        *)
(***************************************************************************)
EXTENDS Integers, Sequences, SequencesExt, FiniteSets

CONSTANTS
    Main, Process,          \* kmain and the threads of processes
    KernelPage, UserPage,   \* pages of the kernel heap, of a process
    ClonePage,              \* KADDR_CLONDPD
    slot,                   \* MMU_PD_INDEX of a page
    KernelSlot, UserSlot, Rec,
    BootSlot,               \* the slots that boot.s gives a table
    MMU_PD, MMU_PT,         \* the frames of the kernel's bss for those
    Pool,                   \* the free frames after mmu_init, last one on top
    NoEntry, OnDemand,      \* 0 and MMU_PAGE_ONDEMAND
    NoPage

Thread == {Main} \union Process
Page   == KernelPage \union UserPage \union {ClonePage}
Slot   == KernelSlot \union UserSlot \union {Rec}
Frame  == ToSet(Pool) \union {MMU_PD, MMU_PT}

ASSUME AddressSpaceAssumption ==
    /\ Main \notin Process /\ NoPage \notin Page
    /\ KernelPage \intersect UserPage = {}
    /\ ClonePage \notin KernelPage \union UserPage
    /\ slot \in [Page -> KernelSlot \union UserSlot]
    /\ \A v \in Page : slot[v] \in UserSlot <=> v \in UserPage
    /\ KernelSlot \intersect UserSlot = {} /\ Rec \notin KernelSlot \union UserSlot
    /\ BootSlot \in KernelSlot
    /\ Pool \in Seq(ToSet(Pool)) /\ IsInjective(Pool) /\ MMU_PD # MMU_PT
    /\ {MMU_PD, MMU_PT} \intersect ToSet(Pool) = {}
    /\ {NoEntry, OnDemand} \intersect Frame = {} /\ NoEntry # OnDemand

VARIABLES
    free,        \* the frame stack
    dir, table,  \* the contents of every directory and table
    cr3, tlb,    \* the loaded directory, the translations cached for it
    current,     \* the running thread
    pagedir,     \* tcb->context.pagedir of a process, NoEntry before it exists
    marking,     \* per thread: the page mmu_mark has found not present
    kmem, umem,  \* pages that were allocated in the kernel, by a process
    clone, cpc   \* mmu_clone_pagedir: clonepd_pma and where kmain is

vars == <<free, dir, table, cr3, tlb, current, pagedir, marking, kmem, umem,
          clone, cpc>>

-----------------------------------------------------------------------------
\* The directory that MMU_PD_PTR and MMU_PT_PTR reach.
Dir == dir[cr3][Rec]

Unmapped == [v \in Page |-> NoEntry]

\* What the processor finds in the loaded directory.
Walk(v) ==
    IF dir[cr3][slot[v]] \in DOMAIN table THEN table[dir[cr3][slot[v]]][v]
    ELSE NoEntry

\* The frame that an access to page v reaches.
Reached(v) == IF v \in DOMAIN tlb THEN tlb[v] ELSE Walk(v)

\* A plausible slip: no _INVLPG.
Invalidated_Not(v) == tlb

Invalidated(v) == [w \in DOMAIN tlb \ {v} |-> tlb[w]]

Cached(v, f) == [w \in DOMAIN tlb \union {v} |-> IF w = v THEN f ELSE tlb[w]]

\* A plausible slip: the entry behind the one on top.
Popped_Below == free[Len(free) - 1]

Popped == Last(free)

\* mmu_mark makes the directory entry on demand if there is none and reads
\* the table through the recursive mapping.  That access faults when there
\* is no table: INT_0E takes a frame for it and, since the address is in
\* the kernel's half, copies the entry of the faulting slot, which is Rec,
\* to MMU_PD.
Tabled(v) ==
    IF dir[Dir][slot[v]] \in DOMAIN table
    THEN [free |-> free, dir |-> dir, table |-> table]
    ELSE [free  |-> Front(free),
          dir   |-> [[dir EXCEPT ![Dir][slot[v]] = Popped]
                         EXCEPT ![MMU_PD][Rec] = dir[Dir][Rec]],
          table |-> [t \in DOMAIN table \union {Popped} |->
                        IF t = Popped THEN Unmapped ELSE table[t]]]

EntryIn(m, v) == m.table[m.dir[Dir][slot[v]]][v]

WithEntry(m, v, e) == [m.table EXCEPT ![m.dir[Dir][slot[v]]][v] = e]

\* Memory does not run out.
Enough(v) == dir[Dir][slot[v]] \in DOMAIN table \/ free # <<>>

\* A plausible slip: the entry is written whatever it was.
IsPresent_Ignored(e) == FALSE

IsPresent(e) == e \in Frame

-----------------------------------------------------------------------------
(* Threads *)

\* A plausible slip: no test for a thread without a directory.
Loaded_Untested(t) == IF t = Main THEN NoEntry ELSE pagedir[t]

\* or ebx, ebx; jz .skip_pagedir; mov cr3, ebx
Loaded(t) == IF t = Main THEN cr3 ELSE pagedir[t]

Switch(t) ==
    /\ t # current /\ (t \in Process => pagedir[t] # NoEntry)
    /\ current' = t
    /\ cr3' = Loaded(t)
    /\ tlb' = IF t = Main THEN tlb ELSE [v \in {} |-> NoEntry]
    /\ UNCHANGED <<free, dir, table, pagedir, marking, kmem, umem, clone, cpc>>

Running == marking[current] = NoPage /\ (current = Main => cpc = "none")

\* kmalloc, heap_alloc, mmu_mmap, and mmu_mark up to the test of the entry.
\* A page that is present stays as it is.
MarkTest(v) ==
    LET m == Tabled(v) IN
    /\ Running /\ Enough(v)
    /\ free' = m.free /\ dir' = m.dir /\ table' = m.table
    /\ \/ /\ IsPresent(EntryIn(m, v))
          /\ kmem' = kmem \union {v}
          /\ UNCHANGED marking
       \/ /\ ~IsPresent(EntryIn(m, v))
          /\ marking' = [marking EXCEPT ![current] = v]
          /\ UNCHANGED kmem
    /\ UNCHANGED <<cr3, tlb, current, pagedir, umem, clone, cpc>>

\* pt[pt_index] = MMU_PAGE_ONDEMAND | ...
MarkStore ==
    LET v == marking[current] IN
    /\ v # NoPage /\ Enough(v)
    /\ free' = Tabled(v).free /\ dir' = Tabled(v).dir
    /\ table' = WithEntry(Tabled(v), v, OnDemand)
    /\ marking' = [marking EXCEPT ![current] = NoPage]
    /\ kmem' = kmem \union {v}
    /\ UNCHANGED <<cr3, tlb, current, pagedir, umem, clone, cpc>>

\* The stack, the segments and the heap of a process.  Nobody else marks or
\* touches these pages in its directory, so mmu_mark is one step.
MarkUser(v) ==
    LET m == Tabled(v) IN
    /\ current \in Process /\ Running /\ Enough(v)
    /\ free' = m.free /\ dir' = m.dir
    /\ table' = IF IsPresent(EntryIn(m, v)) THEN m.table ELSE WithEntry(m, v, OnDemand)
    /\ umem' = [umem EXCEPT ![current] = @ \union {v}]
    /\ UNCHANGED <<cr3, tlb, current, pagedir, marking, kmem, clone, cpc>>

Allocated == kmem \union (IF current = Main THEN {} ELSE umem[current])

\* The first access to a page since the directory was loaded.
Fill(v) ==
    /\ marking[current] = NoPage /\ v \in Allocated \ DOMAIN tlb
    /\ Walk(v) \in Frame
    /\ tlb' = Cached(v, Walk(v))
    /\ UNCHANGED <<free, dir, table, cr3, current, pagedir, marking, kmem, umem,
                   clone, cpc>>

\* INT_0E: a page on demand gets a frame, and MMU_PD learns of its table.
\* Any other page, or no table, would be answered with cli; hlt.
Fault(v) ==
    /\ marking[current] = NoPage /\ v \in Allocated \ DOMAIN tlb
    /\ Walk(v) = OnDemand /\ free # <<>>
    /\ table' = [table EXCEPT ![dir[Dir][slot[v]]][v] = Popped]
    /\ free' = Front(free)
    /\ tlb' = Cached(v, Popped)
    /\ dir' = IF slot[v] \in KernelSlot
              THEN [dir EXCEPT ![MMU_PD][slot[v]] = dir[Dir][slot[v]]] ELSE dir
    /\ UNCHANGED <<cr3, current, pagedir, marking, kmem, umem, clone, cpc>>

-----------------------------------------------------------------------------
(* mmu_clone_pagedir, called by kmain through process_create *)

CloneAlloc ==
    /\ current = Main /\ Running /\ free # <<>>
    /\ \E p \in Process : pagedir[p] = NoEntry
    /\ clone' = Popped /\ free' = Front(free)
    /\ cpc' = "map"
    /\ UNCHANGED <<dir, table, cr3, tlb, current, pagedir, marking, kmem, umem>>

\* mmu_mmap(clonepd_vma, clonepd_pma, 4096, MMU_PAGE_NOALLOC): the entry
\* must not be present.
CloneMap ==
    LET m == Tabled(ClonePage) IN
    /\ current = Main /\ cpc = "map" /\ Enough(ClonePage)
    /\ ~IsPresent(EntryIn(m, ClonePage))
    /\ free' = m.free /\ dir' = m.dir
    /\ table' = WithEntry(m, ClonePage, clone)
    /\ tlb' = Invalidated(ClonePage)
    /\ cpc' = "copy"
    /\ UNCHANGED <<cr3, current, pagedir, marking, kmem, umem, clone>>

\* A plausible slip: 512 bytes are copied instead of 512 entries.
Copied_Bytes(s) == IF s = Rec THEN clone ELSE NoEntry

\* memset; memcpy from MMU_PD; clonepd_vma[MMU_RECURSIVE_SLOT] = clonepd_pma
Copied(s) ==
    IF s = Rec THEN clone ELSE IF s \in KernelSlot THEN dir[MMU_PD][s] ELSE NoEntry

CloneCopy ==
    LET f == Reached(ClonePage) IN
    /\ current = Main /\ cpc = "copy" /\ f \in Frame
    /\ dir' = [d \in DOMAIN dir \union {f} |->
                  IF d = f THEN [s \in Slot |-> Copied(s)] ELSE dir[d]]
    /\ tlb' = Cached(ClonePage, f)
    /\ cpc' = "unmap"
    /\ UNCHANGED <<free, table, cr3, current, pagedir, marking, kmem, umem, clone>>

\* mmu_munmap(..., MMU_MUNMAP_NORELEASE), which leaves the TLB alone, and the
\* rest of process_create up to scheduler_run.  Without the table the access
\* through MMU_PT_PTR would fault.
CloneDone(p) ==
    /\ current = Main /\ cpc = "unmap" /\ pagedir[p] = NoEntry
    /\ dir[Dir][slot[ClonePage]] \in DOMAIN table
    /\ table' = [table EXCEPT ![dir[Dir][slot[ClonePage]]][ClonePage] = NoEntry]
    /\ pagedir' = [pagedir EXCEPT ![p] = clone]
    /\ clone' = NoEntry /\ cpc' = "none"
    /\ UNCHANGED <<free, dir, cr3, tlb, current, marking, kmem, umem>>

-----------------------------------------------------------------------------
Init ==
    /\ free = Pool
    /\ dir = [d \in {MMU_PD} |->
                [s \in Slot |-> IF s = Rec THEN MMU_PD
                                ELSE IF s = BootSlot THEN MMU_PT ELSE NoEntry]]
    /\ table = [t \in {MMU_PT} |-> Unmapped]
    /\ cr3 = MMU_PD /\ tlb = [v \in {} |-> NoEntry]
    /\ current = Main /\ pagedir = [p \in Process |-> NoEntry]
    /\ marking = [t \in Thread |-> NoPage]
    /\ kmem = {} /\ umem = [p \in Process |-> {}]
    /\ clone = NoEntry /\ cpc = "none"

Next ==
    \/ \E t \in Thread : Switch(t)
    \/ \E v \in KernelPage : MarkTest(v)
    \/ MarkStore
    \/ \E v \in UserPage : MarkUser(v)
    \/ \E v \in Page : Fill(v) \/ Fault(v)
    \/ CloneAlloc \/ CloneMap \/ CloneCopy
    \/ \E p \in Process : CloneDone(p)

Spec == Init /\ [][Next]_vars

-----------------------------------------------------------------------------
(* Properties *)

Entry == Frame \union {NoEntry, OnDemand}

TypeOK ==
    /\ free \in Seq(Frame)
    /\ MMU_PD \in DOMAIN dir /\ DOMAIN dir \subseteq Frame
    /\ dir \in [DOMAIN dir -> [Slot -> Entry]]
    /\ DOMAIN table \subseteq Frame
    /\ table \in [DOMAIN table -> [Page -> Entry]]
    /\ cr3 \in DOMAIN dir
    /\ DOMAIN tlb \subseteq Page /\ tlb \in [DOMAIN tlb -> Frame]
    /\ current \in Thread
    /\ pagedir \in [Process -> DOMAIN dir \union {NoEntry}]
    /\ marking \in [Thread -> KernelPage \union {NoPage}]
    /\ kmem \subseteq KernelPage /\ umem \in [Process -> SUBSET UserPage]
    /\ clone \in Frame \union {NoEntry}
    /\ cpc \in {"none", "map", "copy", "unmap"}

\* The uses of frames as memory: a table and the page it maps.
Leaf == {l \in (DOMAIN table) \X (KernelPage \union UserPage) :
            table[l[1]][l[2]] \in Frame}

\* A frame has one use: free, a directory, a table or one page of memory.
\* A table serves one slot, and a table of a process one directory: no
\* process reaches the memory of another.
OneUse ==
    LET mem == {table[l[1]][l[2]] : l \in Leaf}
        new == {clone} \ (DOMAIN dir \union {NoEntry})
    IN /\ IsInjective(free)
       /\ ToSet(free) \intersect (DOMAIN dir \union DOMAIN table \union mem \union new) = {}
       /\ DOMAIN dir \intersect (DOMAIN table \union mem) = {}
       /\ DOMAIN table \intersect mem = {}
       /\ new \intersect (DOMAIN table \union mem) = {}
       /\ \A k, l \in Leaf : table[k[1]][k[2]] = table[l[1]][l[2]] => k = l
       /\ \A d, e \in DOMAIN dir : \A r, s \in Slot \ {Rec} :
             dir[d][r] = dir[e][s] /\ dir[d][r] \in DOMAIN table =>
                 r = s /\ (s \in UserSlot => d = e)

\* Kernel memory is the same in every address space: it has one table, which
\* every directory knows, and a page that was given out is mapped there or
\* on demand.  A thread may use it whatever directory is loaded.
KernelShared ==
    \A v \in kmem : \A d \in DOMAIN dir :
        /\ dir[d][slot[v]] = dir[MMU_PD][slot[v]]
        /\ dir[d][slot[v]] \in DOMAIN table
        /\ table[dir[d][slot[v]]][v] # NoEntry

\* No access goes through an old translation or one of somebody else: the
\* recursive mapping of the loaded directory leads to that directory, and
\* what is cached is mapped.  Unmapped may be only the page of the clone,
\* which nobody touches between two clones, and a page of the kernel that
\* was put on demand again by a thread that the timer stopped in mmu_mark.
TlbFresh ==
    /\ Dir = cr3
    /\ \A v \in DOMAIN tlb :
          \/ Walk(v) = tlb[v]
          \/ v = ClonePage /\ Walk(v) = NoEntry
          \/ v \in KernelPage /\ Walk(v) = OnDemand
    /\ cpc \in {"copy", "unmap"} => Reached(ClonePage) = clone

\* Clones, faults, switches and the marking of other pages never take a
\* frame away from a page that has one, and never from a process.  The store
\* of mmu_mark may, at the page it has tested, and only at one that had no
\* frame when it was tested: somebody else has touched the page since.
KeptOutsideMark ==
    [][/\ \A l \in Leaf :
             \/ table'[l[1]][l[2]] = table[l[1]][l[2]]
             \/ l[2] = marking[current] /\ marking'[current] = NoPage
       /\ \A t \in Thread, v \in KernelPage :
             marking[t] # v /\ marking'[t] = v => Walk(v)' \notin Frame]_vars

\* Memory that has been touched keeps its frame, and so its contents: a page
\* is mapped when it is needed and stays so.  Does not hold of the code.
PageKept ==
    [][\A l \in Leaf : table'[l[1]][l[2]] = table[l[1]][l[2]]]_vars
=============================================================================
