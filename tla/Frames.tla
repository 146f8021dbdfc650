-------------------------------- MODULE Frames --------------------------------
(***************************************************************************)
(* The stack of free page frames (arch/i686/mmu.c): mmu_init builds it     *)
(* from the memory map of the boot loader, mmu_alloc pops, mmu_free pushes.*)
(*                                                                         *)
(* The stack is an array in virtual memory whose pages, but for the first, *)
(* are themselves frames of the stack.  mmu_init reads the first entry of  *)
(* a new page before it writes it: the read faults, and the fault handler  *)
(* pops the frame for the page, so MMU_frames_index is smaller when the    *)
(* write computes its address.                                             *)
(*                                                                         *)
(* Boot runs with interrupts off, mmu_alloc and mmu_free clear the flag:   *)
(* the order of the steps of boot is fixed, pops and pushes are one step.  *)
(***************************************************************************)
EXTENDS Integers, Sequences, FiniteSets

CONSTANTS
    Map,          \* the entries of the memory map
    Available,    \* type 1 of an entry
    PageSize,     \* 4096
    PerPage,      \* entries of the stack per page: 1024
    KEnd,         \* kend: frames below it hold the kernel
    Top,          \* 4 GiB
    FirstPage     \* MMU_FRAMEPOOL_FIRSTPAGE, a page of the kernel's bss

Entry == DOMAIN Map

ASSUME FramesAssumption ==
    /\ Map \in Seq([type : Nat, addr : Nat, len : Nat])
    /\ PageSize \in Nat \ {0} /\ PerPage \in Nat \ {0}
    /\ KEnd \in Nat /\ Top \in Nat
    /\ FirstPage \in Nat /\ FirstPage < KEnd
    /\ \A j, k \in Entry : j # k =>
          \/ Map[j].addr + Map[j].len <= Map[k].addr
          \/ Map[k].addr + Map[k].len <= Map[j].addr

VARIABLES
    frames,     \* MMU_frames, the entries written so far
    index,      \* MMU_frames_index
    ondemand,   \* pages of the stack that mmu_mark has marked
    backing,    \* pages of the stack that are present, with their frames
    pt_index,   \* the local pt_index of mmu_init
    entry, start, pc,    \* where mmu_init is
    out         \* frames that mmu_alloc has handed out

vars == <<frames, index, ondemand, backing, pt_index, entry, start, pc, out>>

-----------------------------------------------------------------------------
\* start and end of the loop over an entry, both rounded to whole pages.
First(j) == ((Map[j].addr + PageSize - 1) \div PageSize) * PageSize
Past(j)  == ((Map[j].addr + Map[j].len) \div PageSize) * PageSize

\* if (start < kend) continue; if (start >= 0x100000000) continue;
Wanted(f) == f >= KEnd /\ f < Top

PageOf(k) == k \div PerPage

Written(k, f) == [j \in DOMAIN frames \union {k} |-> IF j = k THEN f ELSE frames[j]]

-----------------------------------------------------------------------------
(* mmu_init *)

NextEntry ==
    /\ pc = "scan" /\ entry \in Entry
    /\ Map[entry].type # Available \/ start >= Past(entry)
    /\ entry' = entry + 1
    /\ start' = IF entry + 1 \in Entry THEN First(entry + 1) ELSE start
    /\ UNCHANGED <<frames, index, ondemand, backing, pt_index, pc, out>>

AtFrame ==
    /\ pc = "scan" /\ entry \in Entry
    /\ Map[entry].type = Available /\ start < Past(entry)

SkipFrame ==
    /\ AtFrame /\ ~Wanted(start)
    /\ start' = start + PageSize
    /\ UNCHANGED <<frames, index, ondemand, backing, pt_index, entry, pc, out>>

\* A plausible slip: the new page is not marked.
Grow_Unmarked ==
    /\ AtFrame /\ Wanted(start) /\ pt_index # PageOf(index)
    /\ pt_index' = PageOf(index)
    /\ pc' = "read"
    /\ UNCHANGED <<frames, index, ondemand, backing, entry, start, out>>

\* The stack grows into a new page: mmu_mark(..., MMU_PAGE_ONDEMAND).
Grow ==
    /\ AtFrame /\ Wanted(start) /\ pt_index # PageOf(index)
    /\ pt_index' = PageOf(index)
    /\ ondemand' = ondemand \union {PageOf(index)}
    /\ pc' = "read"
    /\ UNCHANGED <<frames, index, backing, entry, start, out>>

\* A plausible slip: no read.  The write faults, and when it is retried at
\* the address it had, the frame popped meanwhile stays on the stack.
ReadNewPage_WriteFirst ==
    /\ pc = "read" /\ index > 0
    /\ backing' = [k \in DOMAIN backing \union {PageOf(index)} |->
                     IF k = PageOf(index) THEN frames[index - 1] ELSE backing[k]]
    /\ frames' = Written(index, start)
    /\ start' = start + PageSize
    /\ pc' = "scan"
    /\ UNCHANGED <<index, ondemand, pt_index, entry, out>>

\* (void)*ptr: the page fault; INT_0E takes the frame for the page with
\* mmu_alloc.  A page that is not marked would halt the machine.
ReadNewPage ==
    /\ pc = "read" /\ PageOf(index) \in ondemand /\ index > 0
    /\ index' = index - 1
    /\ backing' = [k \in DOMAIN backing \union {PageOf(index)} |->
                     IF k = PageOf(index) THEN frames[index - 1] ELSE backing[k]]
    /\ pc' = "store"
    /\ UNCHANGED <<frames, ondemand, pt_index, entry, start, out>>

\* MMU_frames[MMU_frames_index] = start; MMU_frames_index++;
\* Writing to a page that is not present would halt the machine.
Store ==
    /\ \/ pc = "store"
       \/ AtFrame /\ Wanted(start) /\ pt_index = PageOf(index)
    /\ PageOf(index) \in DOMAIN backing
    /\ frames' = Written(index, start)
    /\ index' = index + 1
    /\ start' = start + PageSize
    /\ pc' = "scan"
    /\ UNCHANGED <<ondemand, backing, pt_index, entry, out>>

InitDone ==
    /\ pc = "scan" /\ entry \notin Entry
    /\ pc' = "up"
    /\ UNCHANGED <<frames, index, ondemand, backing, pt_index, entry, start, out>>

-----------------------------------------------------------------------------
(* After boot.  With index 0 mmu_alloc returns 0 and changes nothing. *)

\* A plausible slip: no test for the empty stack.
mmu_alloc_Unchecked ==
    /\ pc = "up"
    /\ index' = index - 1
    /\ out' = out \union {IF index > 0 THEN frames[index - 1] ELSE 0}
    /\ UNCHANGED <<frames, ondemand, backing, pt_index, entry, start, pc>>

mmu_alloc ==
    /\ pc = "up" /\ index > 0
    /\ PageOf(index - 1) \in DOMAIN backing
    /\ index' = index - 1
    /\ out' = out \union {frames[index - 1]}
    /\ UNCHANGED <<frames, ondemand, backing, pt_index, entry, start, pc>>

\* The page that is written may be the one above the last entry.
mmu_free(f) ==
    /\ pc = "up"
    /\ PageOf(index) \in DOMAIN backing
    /\ frames' = Written(index, f)
    /\ index' = index + 1
    /\ out' = out \ {f}
    /\ UNCHANGED <<ondemand, backing, pt_index, entry, start, pc>>

-----------------------------------------------------------------------------
Init ==
    /\ frames = [k \in {} |-> 0] /\ index = 0
    /\ ondemand = {} /\ backing = [k \in {0} |-> FirstPage]
    /\ pt_index = 0
    /\ entry = 1 /\ start = IF 1 \in Entry THEN First(1) ELSE 0
    /\ pc = "scan" /\ out = {}

Next ==
    \/ NextEntry \/ SkipFrame \/ Grow \/ ReadNewPage \/ Store \/ InitDone
    \/ mmu_alloc
    \/ \E f \in out : mmu_free(f)

Spec == Init /\ [][Next]_vars

-----------------------------------------------------------------------------
(* Properties *)

\* Whole frames of available memory outside the kernel, below 4 GiB.
Usable(j) ==
    {f \in Map[j].addr..(Map[j].addr + Map[j].len - 1) :
        /\ Map[j].type = Available
        /\ (f \div PageSize) * PageSize = f
        /\ f + PageSize <= Map[j].addr + Map[j].len
        /\ f >= KEnd /\ f < Top}

\* Those that mmu_init has come across.
Scanned ==
    (UNION {Usable(j) : j \in {k \in Entry : k < entry}}) \union
    (IF entry \in Entry THEN {f \in Usable(entry) : f < start} ELSE {})

TypeOK ==
    /\ DOMAIN frames \subseteq Nat /\ \A k \in DOMAIN frames : frames[k] \in Nat
    /\ index \in Nat /\ 0..(index - 1) \subseteq DOMAIN frames
    /\ ondemand \subseteq Nat
    /\ DOMAIN backing \subseteq Nat /\ \A k \in DOMAIN backing : backing[k] \in Nat
    /\ pt_index \in Nat /\ start \in Nat /\ out \subseteq Nat
    /\ entry \in 1..(Len(Map) + 1)
    /\ pc \in {"scan", "read", "store", "up"}

\* A frame has one use: it is free, and then on the stack once, or it backs
\* a page of the stack, or it is handed out; and none is lost.  Nothing but
\* whole available frames outside the kernel comes into play.
OneUse ==
    LET stacked == {frames[k] : k \in 0..(index - 1)}
        own     == {backing[k] : k \in DOMAIN backing \ {0}}
    IN /\ \A j, k \in 0..(index - 1) : j # k => frames[j] # frames[k]
       /\ \A j, k \in DOMAIN backing : j # k => backing[j] # backing[k]
       /\ stacked \intersect own = {} /\ stacked \intersect out = {}
       /\ own \intersect out = {}
       /\ stacked \union own \union out = Scanned

\* Every entry that is written or read lies in a page that is present, also
\* when all frames come back through mmu_free: another page fault there
\* would be answered with cli; hlt.
StackPresent ==
    /\ pc = "store" => PageOf(index) \in DOMAIN backing
    /\ (AtFrame /\ Wanted(start) /\ pt_index = PageOf(index)) =>
           PageOf(index) \in DOMAIN backing
    /\ pc = "read" => PageOf(index) \in ondemand /\ index > 0
    /\ pc = "up" => \A k \in 0..(index + Cardinality(out) - 1) :
                        PageOf(k) \in DOMAIN backing
=============================================================================
