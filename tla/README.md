# A specification of the osdev-course kernel

TLA+ modules for the kernel under `src/src/kernel`, model-checked with TLC on
small instances and proved with TLAPS where a statement should hold for every
number of threads, every priority, every heap and every program. File and line
numbers below refer to `src/src/kernel` unless they start with `doc/` (`src/doc`),
`drivers/` (`src/src/drivers`) or `user_crt/` (`src/src/user_crt`).

## 1. The system

The kernel runs on one i686 processor. A timer interrupt (18.2 per second)
preempts threads; every gate is an interrupt gate, so handlers and system calls
(`int 0x80`) run with interrupts off, and kernel threads and the start of a
process run with interrupts on.

| Part | State | Operations | Interacts with |
|---|---|---|---|
| Scheduler: `scheduler.c`, `arch/i686/scheduler.s`, `tcb.c` | `g_scheduler` (elapsed, quantum, current, four active lists, delta queue of sleepers, stack of zombies), TCB fields | `scheduler_run`, `_tick`, `_yield`, `_pick`, `_sleep`, `_exitthread`, `_cleanzombie` | timer interrupt, kmain, system calls, kfree |
| Kernel threads: `main.cpp` | program counters | kmain starts threads and then talks to the serial port; idle halts; the cleaner frees zombies | scheduler, heap |
| Kernel heap: `kmalloc.c`, `heap.c` | heap pointer, four free lists, a header per block | `kmalloc`, `kfree`, `heap_alloc` | every part that allocates; `mmu_mmap` |
| Page frames and tables: `arch/i686/mmu.c` | stack of free frames, page directories, page tables | `mmu_init`, `mmu_alloc`, `mmu_free`, `mmu_mmap`, `mmu_munmap`, `mmu_clone_pagedir`, page fault | heap, processes, loader, initrd |
| Processes: `process.cpp`, `ring3.s` | `struct PROCESS`, page directory, user heap | `process_create`, start function, `exit` | heap, page tables, loader, scheduler |
| System calls: `syscall.s`, `syscall_service.c` | table | exit, write, getpid, fstat, sbrk, usleep; the others return -1 | scheduler, process heap |
| User runtime: `user_crt/i686/crt0.s`, `libgloss.s`, `testapp` | tables of constructors and destructors | `_start`, one stub per system call | system calls |
| Loader: `ld.cpp`, `kvector.h` | segments, symbols | `load_program`, `relocate`, address translation | file system, heap, page tables |
| File system: `vfs.cpp`, `drivers/tarfs`, `drivers/ramdisk` | mount table, disk image | `mount`, `find`, `fstat`, `read` | loader |
| Serial console, PIC/PIT, IDT, PCI, display | device registers | port I/O | timer drives the scheduler |

What is hard here:

* **Preemption of kernel code.** The timer may switch threads between any two
  instructions of kmain, of the cleaner and of a starting process. Lists are
  safe where the code clears the interrupt flag and nowhere else.
* **The delta queue.** Each sleeper stores its delay relative to the one before
  it; insertion splits a delay, waking consumes the time of the last slice.
* **Life of a thread.** A zombie leaves the processor for good before the
  cleaner frees its stack; the cleaner itself sleeps and is preempted.
* **Memory.** Frames, demand paging and the page directories refer to each
  other; `mmu_init` grows its own data structure by a nested page fault.
* **Failures half way.** `process_create` allocates four blocks and a directory
  and tests one of them; `load_program` has six ways out; results are ignored by
  the callers.
* **Agreement by hand.** The numbers in libgloss, the bound in `syscall.s` and the
  order of the service table; the layout of an archive and the steps of the walk
  over it.

What makes each part correct: a scheduler loses no thread, runs the best one in
arrival order, bounds slices, wakes sleepers neither early nor late, and reaps
every zombie; an allocator hands out blocks that are long enough and nobody
else's; a frame has one use; a kernel address means the same in every process;
a process owns its blocks for as long as it can run and its heap is memory of its
own; a program gets the service it has asked for; a loader leaves in memory what
the ELF file says; a file system reads the bytes of the named file and no others.
`PROJECT.json` lists the hazards line by line.

## 2. Modules

| Module | Models | Kind |
|---|---|---|
| `Scheduler` | the scheduler and all its callers, lists as sequences | specification, properties |
| `SchedLists` | the same with the linked lists, and `scheduler_add` as separate stores | refines `Scheduler` |
| `SchedLists_proofs` | the inductive invariant of `SchedLists`, the refinement | proofs |
| `QueueLemmas` | sequences: their members without repetition, their entries by position, least numbers | proofs |
| `Scheduler_proofs` | the inductive invariants of `Scheduler`: places, arrival order, the delta queue | proofs |
| `Allocator` | what kmalloc and kfree promise | abstract specification |
| `Kmalloc` | kmalloc, kfree, heap_alloc | refines `Allocator` |
| `Kmalloc_proofs` | the inductive invariant of `Kmalloc`, the refinement | proofs |
| `Frames` | the stack of free frames: mmu_init, mmu_alloc, mmu_free | specification, properties |
| `Frames_proofs` | the inductive invariant of `Frames` | proofs |
| `AddressSpace` | page directories, tables and the TLB: mmu_mark, page fault, mmu_clone_pagedir, switch | specification, properties |
| `AddressSpace_proofs` | the inductive invariant of `AddressSpace` | proofs |
| `Files` | mount table, tar archive and RAM disk: every call of the VFS | specification, properties |
| `Loader` | load_program on top of `Files` (EXTENDS it): segments, relocation, symbols | specification, properties |
| `Loader_proofs` | the inductive invariants of `Files` and, on top of it, of `Loader` | proofs |
| `Process` | process_create, the start of a process, crt0, system calls, the heap of sbrk, what an exit leaves | specification, properties |
| `Process_proofs` | the inductive invariants of `Process`: blocks, breaks, answers, crt0 | proofs |
| `MCScheduler`, `MCSchedLists`, `MCKmalloc`, `MCFrames`, `MCAddressSpace`, `MCLoader`, `MCProcess` | instances for TLC | |

### Scheduler

One step is what happens between two points where the timer can interrupt:

* `scheduler_tick` is IRQ0: it counts, and if the quantum is used up it is also
  the whole `scheduler_pick`. `usleep` and `exit` are system calls of a process,
  with interrupts off from the gate to the pick.
* `SetSleepTick`, `SetSleptFlag` and `CleanerYield` are the three parts of
  `scheduler_sleep(10)` in the cleaner, a kernel thread that the timer can stop
  between them. `PopZombie` is the part of `scheduler_cleanzombie` between `cli`
  and `sti`, `FreeZombie` the rest.
* `scheduler_run` is one step here; `SchedLists` says what that leaves out.
* `scheduler_pick` is composed as the code is: `Park` puts the current thread on
  the zombie stack, into the delta queue or on its active list; `Wakes`,
  `Charged` and `Unflagged` are the wake loop; `Dispatch` takes the head of the
  first non-empty list.

The four lists `active[]` are one sequence `ready` in order of arrival; the head
of the first non-empty list is its first entry of best priority (`IsTarget`).
The walk along the delta queue is described by the sequence of remainders it
computes (`Walks`), of which there is exactly one; this keeps the module free of
recursion, as the prover requires. Integers do not wrap: slices are at most 30
ticks and sleeps at most 4294 ticks. `due` is a history variable, the ticks each
sleeper still has to wait, independent of the delta queue. A NULL target, which
the code would dereference, leaves `current = NoThread`; `TypeOK` excludes it.

### SchedLists

`mem` holds `next` and `prev` of every TCB and list head and the `tail` of every
active list (the tails of `slept` and `zombie` are never used by the code).
`RunBegin`, `RunLink` and `RunTail` are the stores of `scheduler_add` in kmain;
`list->tail` in line 30 may be the value read in line 29 or a new one. The
constant `Interruptible` says whether the timer may come between them. With
`FALSE` the module implements `Scheduler` under the mapping "slept and zombie are
the chains from their heads, ready is the history of linking". With `TRUE`, which
is what the code allows, a thread is lost (section 4). The loops of the code are
`Walked` and `Woken`: functions that give the state after each turn of the loop, for
`Turns` turns, which no list is long enough to use up; the walk stays where it has
stopped. `Chain` follows `next` from a head in the same way.

### Allocator and Kmalloc

`Allocator` has requests, grants and refusals, and blocks in use. In `Kmalloc` a
call of `kmalloc` is `Call`, `SearchList` (interrupts off), and if nothing was
found `HeapCheck`, `HeapTake` and `HeapBump`: the accesses of `heap_alloc` to
`ptr`, each in a step of its own because interrupts are on again. `kfree` is one
step. A block is the address of its header; `size` is the header. Freed blocks
keep their size. `pages` are the pages `mmu_mmap` marked on demand. `Overlap`
says whether two threads may be in `heap_alloc` at once.

### Frames

`mmu_init` is a loop over the memory map. `NextEntry`, `SkipFrame` and `Store`
are its turns. When the stack reaches a new page, `Grow` marks it and
`ReadNewPage` is the read of line 105: it faults, and the fault handler takes the
frame for the page off the stack that is being built, so `Store` afterwards
writes one entry lower. `backing` are the frames of the stack's own pages, page 0
being part of the kernel image. Boot has interrupts off, and `mmu_alloc` and
`mmu_free` clear the flag; each is one step. `out` are the frames handed out;
`mmu_free` is only called with one of those. `mmu_alloc` on an empty stack
returns 0 and changes nothing; that is left to the callers.

### AddressSpace

A directory and a table are the contents of a frame (`dir`, `table`), an entry is
a frame, `OnDemand` or `NoEntry`; protection bits are left out. The last slot,
`Rec`, is the recursive mapping: `Dir` is the directory that `MMU_PD_PTR` and
`MMU_PT_PTR` reach, which is whatever `cr3` holds. kmain has no directory of its
own: `scheduler_yield` leaves CR3 alone when it dispatches a kernel thread, so
kmain marks, touches and clones in the directory of the last process (`Loaded`).

* `MarkTest` and `MarkStore` are the halves of `mmu_mark` (lines 57 and 59),
  `Tabled` the nested fault when the slot has no table. Interrupts are on, so the
  timer may come between them, in every run. `MarkUser` is the same in one step,
  since nobody else edits the user half of a process.
* `Fault` is `INT_0E` with the copy of the directory entry into `MMU_PD`. `Fill`
  is an access that needs no fault; it caches the translation. The TLB never
  evicts, which makes the stalest behaviour the one that is checked.
* `CloneAlloc`, `CloneMap`, `CloneCopy` and `CloneDone` are the steps of
  `mmu_clone_pagedir` and the rest of `process_create`; the timer may switch
  threads between any two.

A step that would find no frame left is not taken (`Enough`): the instance has one
frame fewer than all directories, tables and pages take together, and which of them
goes without is open. A process that has ended keeps its directory as in the code,
where nothing ever releases one, and the pages of the initrd and of devices are left
out.

### Files

`mounts` is the array of `VFS::_entries`, `find` takes the first entry that is a
prefix of a path, `Copied` is `kstrncpy` into the path of an entry (`PathSize`, 256 in
the code), and there are `MaxEntries` entries (64). The
content of a disk does not change, so it is a constant: `archive` are the members
of a device, `at` the blocks of their headers, and `Cell` is any cell of the disk.
`Header` is what the code sees if it takes a block for a header: the name and the
octal length if it is one, an empty name in the zero blocks that tar writes behind
the last member, and nothing useful anywhere else.

`Begin` is `VFS::fstat`, `read` or `write` up to the driver; `write` ends there
with -1. `WalkOn`, `WalkFound` and `WalkEnd` are the turns of the loop that
`tarfs_fstat` and `tarfs_read` share: pass a file, find it, reach the end of the
disk. `Clipped` is the test of a range against a length, in 64 bits (`Wrap`), as
`tarfs_read` makes it against the file and `ramdisk_read` against the disk.
`Client` makes one call on each table of mounts: an answer changes nothing, so a
second call meets no state that a first one does not.

### Loader

One thread runs `load_program`, with `phase` and `i` as its program counter. The
structures of `elf.h` are laid over the buffer without a look at its length, so the
constant `elf` gives with a file the set of what may be found there: a header that is
`valid` or not, an entry point, program headers and sections. It is one finding if
all of them lie inside the file (`whole`) and any of several if they reach behind the
buffer; `Read` chooses, and `image` is what it found. From there on everything is
computed. The loop over the section headers is `Table`: the last section of a type is
the one that counts.

Memory is made of cells (bytes), and `WORD` of them are a number (`WordAt`,
`CellsOf`), so that a relocation may have its number across two pages, the second of
them not there. `LoadSegment` appends to the `kvector`, marks pages with `Pages`, which
is the loop of `mmu_mmap`, and copies and zeroes memory. Where a header says that the
file has more than the buffer, it copies what the heap has there (`Stale`), or
`OverRead` comes to a page that the heap does not have. A page that is not there ends in
`phase = "fault"`, the `cli; hlt` of the page fault handler. `AppendFails` is a
`kmalloc` that returns NULL inside `append`. Relocation goes through the three types of
the code; `RelocateGivesUp` is every early `return false`, whose result `load_program`
drops. `LoaderAssumption` says only that a segment with its pages ends below the end of
memory.

What a linker guarantees besides is `IsLinked`: the program is all in its file, its
segments share no address, it has one table of each type, its relocations lie in its
segments and share no address, their types and symbols are known, and a PC-relative one
has the addend -4 of a call. The array of a `kvector` is a sequence here: that a 13th
pointer is written behind its block (`kvector.h:33`) is not modelled.

### Process

The threads are kmain, the cleaner and the processes, and any of them may be
switched to whenever interrupts are on, that is, anywhere but inside a system
call; who is next is the question of `Scheduler`, so here it is anyone. `SwitchTo`
keeps `cr3` for a thread without a page directory, as `scheduler_yield` does.

* `process_create` is one action per allocation: `Allocate` for PROCESS, its start
  data and its TCB, `Clone` for `mmu_clone_pagedir`, `tcb_init` for the stack. A
  block is [kind, of]. Each may fail. `CreateFails` is the only failure the code
  handles; a failed `kmalloc` before it is written to at once, which is taken to
  stop the machine; a failed `Clone` is not noticed. What it frees are three blocks:
  the frame of the page directory that was cloned is lost, so a directory is a block
  too. `TakePid` is the atomic counter, `Start` is `scheduler_run`.
* `StartFunc`, `LoadProgram` and `enter_ring3` are the new thread in the kernel.
  `marks` are the pages marked in each directory, always in the one `cr3` holds.
  `LoadProgram` stands for `Loader`: it leaves an entry point or none.
* `Ctor`, `MainReturns` and `Dtor` are crt0. A function of the program runs
  (`InProgram`) in `main` and after the call of a constructor or destructor; `Touch` is
  its access to stack or heap that finds the page not marked.
* `Service` is `int 0x80` from the stub to the answer in eax: the number the stub
  loads (`libgloss`), the bound and the table (`Dispatched`), the service
  (`Answer`, `Sbrk`, `SleepTicks`), all modulo `W`. A program makes any call in any of
  its functions. `Exit` is the call `_exit`, by crt0 at its end or by the program
  anywhere.
* `PopZombie` and `FreeZombie` are the cleaner; `_process_exitfunc`, which would
  free PROCESS and its start data, is never reached, because `enter_ring3` does
  not return and exits go through the system call.

`oom` is a history variable: something ran out or did not load.

## 3. Runs

| Run | Question | Bounds |
|---|---|---|
| `scheduler` | is no thread lost, late, overtaken or never run? | 3 kernel threads, 2 processes, quanta 1 and 2, naps 3 and 0..2, 2 sleeps per process: 31 thousand states |
| `sleeps_full_time` | does a sleep last as long as asked for? no | as `scheduler` |
| `scheduler_lists` | the linked lists implement `Scheduler` | 2 priorities, 2 sleeps of 0..2 ticks: 114 thousand states |
| `interrupted_add` | are the lists whole if the timer hits `scheduler_add`? no | as above |
| `kmalloc` | kmalloc implements `Allocator` | 2 callers, 3 blocks in use, 4 request sizes, a heap that runs out: 765 thousand states |
| `overlapping_heap_alloc` | are blocks apart if threads meet in `heap_alloc`? no | as above |
| `frames` | has each frame one use, is the stack always present? | a map of 4 entries, pages of 4, 2 stack entries per page: 176 thousand states |
| `address_space` | is kernel memory shared, process memory not, no translation stale, and no frame lost outside the store of `mmu_mark`? | kmain and 2 processes, 2 kernel pages and 1 user page, 8 frames, the timer anywhere: 856 thousand states |
| `kernel_grows` | is kernel memory shared when it needs a new table? no | a kernel page in a slot that boot gives no table |
| `preempted_mark` | does touched memory keep its frame if the timer hits `mmu_mark`? no | as `address_space` |
| `programs` | do lookups answer as the archive says, is a linked program in memory as its file says, does every way out free the buffer? | 2 archives, 2 mounts of 3 paths, 9 paths, 4 offsets and sizes, 7 programs: 13 thousand states |
| `process` | who owns what from process_create to the cleaner, what system calls answer, what stops the machine, with `_exit` from anywhere | 2 processes, a heap of 4 pages, 3 calls in all with arguments 0, 9 and 62 of 64: 1.27 million states |

The bounds. Two processes are what kmain starts; together with kmain, the idle
thread and the cleaner up to four threads are on one list, and the delta queue
holds three sleepers, which is enough for an insertion in front, in the middle
and at the end. Quanta of 1 and 2 make turns end by preemption, by a sleep
within the slice and exactly at its end; the code's 4, 10 and 30 only stretch
them. The cleaner sleeps 3 ticks for the code's 10, longer than a slice. In
`kmalloc` the sizes are 49 (the first request that does not fit 64 bytes), 1008
and 1009 (the last that fits 1024, the first that is large) and 1300 (so that the
first large block is not always the answer); the page is 1024 bytes and the heap
starts inside one. `MaxHeld`, `Rounds`, `MaxNap`, `CleanerNap` and `MaxCalls` are bounds of
the instances and appear as constants; nothing else is cut off. Deadlock is
checked in every run but two: `programs` ends when its program is loaded, and in
`process` a machine that halts, or whose processes have all been reaped, has
stopped. The memory map of `frames` has an entry that begins and one
that ends inside a page, one that is not available, one below the end of the
kernel and one across the upper limit, out of order; with 2 entries per page the
stack grows three times, and the loop must find each frame just once while it
pops some. In `address_space` each process makes its tables in its own directory
and kmain clones the second process in the directory of the first.

In `programs` one archive ends with a zero block, as tar writes it, the other with
its disk; names occur twice, files are empty, fill their last block or spill over
it, mounts are prefixes of each other, and offsets and sizes reach past files,
disks and, with 63, past 2^w. The programs are one with every type of
relocation, one of them across two pages, and a note header between its segments; one
that does not start on a page; one whose second header is refused; one that is no ELF
file, which the memory behind it may or may not make look like one; one that says more
than it holds and has two tables of relocations; one with a function that is not
defined; and one with a relocation across its end. In `process` 62 is the -2 of a 6-bit
word: sbrk moves back and wraps, 9 crosses a page of 4, and two calls of the three
reach the end of the heap of 16. The two processes are symmetric, and no property
tells them apart.

Properties of `Scheduler`: `OnePlace` (no thread is lost, on two lists, or freed
while it can still run), `FlagsMatch` (flags agree with lists in spite of the
interruptible sleep of the cleaner), `SliceBound` (the counter never wraps, turns
stay within the quantum), `NoInversion`, `WakesOnTime` (nobody is asleep after a
pick that comes after his time), `NoOvertaking`, `EveryProcessReaped`,
`EveryThreadRuns`. Of `SchedLists`: `ChainsWhole`, `LinksMatch` (tails
and back links agree with the chains), `Refines`. Of `Kmalloc`: `BlocksApart`,
`OnRightList`, `Backed`, `HeapTiled`, `Implements`. Of `Frames`: `OneUse` (a frame
is free, backs the stack or is handed out, exactly one of these, and the frames in
play are the usable ones scanned so far), `StackPresent`. Of `AddressSpace`:
`OneUse` (of directories, tables and pages, and no process reaches another's
memory), `KernelShared`, `TlbFresh` (a thread edits the tables it runs on and uses
no stale translation, up to a page that was put on demand again), `KeptOutsideMark` (no
step takes a frame from touched memory but the store of `mmu_mark`, and that only at a
page without one at the test), and in `preempted_mark` alone `PageKept` (no step does).

Of `Files`: `CursorAtHeader` (the walk takes nothing for a header but headers),
`LookupRight` (answers compared with the archive), `MountsStable` (a mount does
not change where a path leads that led somewhere), `LookupEnds`. Of `Loader`:
`ImageRight` (every relocation in the file of a linked program is compared with the
comments in `relocate`, S + A, S + A - P and B + A, and the rest of memory with the
file), `FaultsExplained` (only a segment on more pages than its size takes, a
relocation not inside a segment, or a file that says more than it holds stop the
machine), `LoadEnds` (with `LookupEnds`: every load ends, and a load
that returns has freed its buffer). Of `Process`: `BlocksAccounted`, `BreakBacked`
(the break stays in the heap and below it the process's own pages are marked),
`Answered` (from the stub to the answer, by the name of the service: pids are
distinct, a sleep is never longer than asked for), `CrtOrder` (constructors, main and
destructors in order, up to where the program calls `_exit`), `HaltsExplained`
(no program that uses its stack and heap stops the machine before something has
run out).

**Fairness.** `FairSpec` assumes that the timer keeps ticking (weak fairness of
`scheduler_tick`) and that a thread which gets the processor again and again
makes its next call (strong fairness, because each tick may take the processor
away): kmain has finitely many threads to start before its endless loop, the
cleaner is a loop, testapp a bounded loop of `usleep` followed by `exit`. The
number of sleeps per process is bounded by `Rounds` as it is in testapp (10); a
process that never ends would starve the idle priority, by design. In `programs`
the fairness is that code which runs goes on: weak fairness of the walk and of the
loader, none of the callers, and an allocation that fails is as fair as one that
does not.

## 4. What the runs found

* **Sleeps end early** (`scheduler.c:79`). `doc/lesson-09.md:56`: "Re-active
  thread after time passed." `scheduler_pick` inserts the new sleeper and then
  charges the ticks of the slice that just ended to the head of the delta queue,
  so a thread that sleeps late in its slice loses those ticks; sleepers woken in
  one loop are each compared with the full elapsed time. `SleepsFullTime` fails;
  `WakesOnTime`, the other direction, holds.
* **A thread can be lost when it is started** (`scheduler.c:30`).
  `doc/lesson-09.md:22` clears the interrupt flag "to prevent re-entrance" of the
  pick; `scheduler_run` does not. A tick between `list->tail->next = tcb` and
  `list->tail = tcb` parks kmain on the same list over the new thread.
* **Two callers can get one block** (`kmalloc.c:66`). `doc/lesson-05.md:77`: "get
  a new chunk from heap". `heap_alloc` runs outside the section with interrupts
  off and `__kernel_kmalloc_heap_lock` is never taken.
* **A process can miss kernel memory** (`arch/i686/mmu.c:167`).
  `doc/lesson-10.md:12`: "The tricks is to maintain consistent for certain part of
  the paging region across different process." A directory gets the kernel's
  entries when it is made. A table that the kernel heap needs later is entered in
  the loaded directory and in `MMU_PD`, never in those of living processes.
  With tables that exist from the start (`address_space`) all is well: the heap
  begins in the slot that `boot.s` maps and reaches the next after 4 MB.

* **A page can lose its frame** (`arch/i686/mmu.c:57`). `doc/lesson-05.md:70`:
  "Reserve virtual address range and map physical memory when needed". `mmu_mark`
  stores after it has tested that the entry is not present, with interrupts on. If
  another thread touches that page in between (the page in which the block before
  ends, say), its frame and what was written there are gone with the store. `PageKept`
  fails; `KeptOutsideMark` holds, so this is the only way to lose one.

Three more have no run. `append` of `kvector` writes its 13th pointer behind its block
(`kvector.h:33`), where the models do not look. `relocate` applies only the last
SHT_REL section (`ld.cpp:117`). And the comment at `ld.cpp:137` has R_386_PC32 as
"base + S + A - p", while lines 148-149 store S - (P + 4) whatever A is: the two agree
for the addend -4 that a call has, and `IsLinked` asks for it. A linked program with
any other PC-relative addend is relocated against the comment.

## 5. Proofs

**Scheduler** (`Scheduler_proofs`, for any set of processes, any priorities with
processes not worse than kmain, any positive quanta). The safety properties are
not inductive. The invariant `IInv` adds: only processes and the cleaner are in
the delta queue (so kmain or the idle thread can always be dispatched, which is
why `TypeOK` holds), the cleaner holds a popped zombie just while it is about to
free it, threads not yet started carry no flags, and kmain counts as started.
Each part of
`scheduler_pick` has its lemma (parking, waking, dispatching), each action one
step lemma; `Invariance` is `Spec => []IInv`, and `TypeCorrect`, `NoThreadLost`,
`FlagsAgree`, `SlicesBounded` and `PriorityRespected` follow from it.
`QueueLemmas` has the facts about sequences without repetition.

`ArrivalOrder` is an action property (`NoOvertaking`), proved for every step: parking
and waking append behind everyone who waits (`ConcatAt`), and dispatching removes the
first entry of best priority, so that a waiting thread keeps all that were before it
(`RemovedAt`). `SleepersWake` (`WakesOnTime`) needs an invariant of the delta queue,
`OnTime`: there are partial sums of its delays such that none exceeds, by more than the
ticks counted since the last pick, what that sleeper still has to wait (`due`), and
the first delay is positive. The insertion of a sleeper splits the
delay behind it and leaves all other sums as they are (`InTimeInsert`); the wake loop
takes sleepers off the front and charges one elapsed time to the next, which makes
sums smaller and never larger (`InTimeWake`). The partial sums are quantified
as a function, and where the walk and the sums are compared a least
counterexample (`LeastNat`) takes the place of induction.

**SchedLists** (`SchedLists_proofs`, for any finite set of processes, any number of
priorities, any quanta, under the hypothesis `~Interruptible` that is stated in every
theorem: the timer does not hit kmain inside `scheduler_add`. The code does not
guarantee that, and `interrupted_add` shows `ChainsWhole` fail without it). The
invariant `IInv` says that there are two queues without repetition, `s` and `z`, such
that (`ListsOK`) every active list runs forward and backward through the ready
threads of its priority in order of arrival, the delta queue through `s`, the zombies
forward through `z`, and the three are disjoint (`Shape`); that the tails are the last
nodes, except that between the last two stores of `scheduler_run` the one of the
new thread is one behind (`TailsBehind`); that (`MembersOK`) whoever is on a list was
started and is not running; and that (`AddingOK`) kmain is inside `scheduler_run` only
with a new thread whose links are set. The chain of a list is thus never computed: the
invariant relates pointers to an order, `Forward` and `Backward` say what first and last
in that order are, and an insertion behind a node and the removal of the first are
proved once for any order (`ForwardInsert`, `BackwardInsert`, `ForwardRemove`,
`BackwardRemove`) and used for all lists.

The loops are recursive functions of the turn. That such a function exists, that the
walk of an insertion stops at the place that `Scheduler` gives the sleeper
(`WalkFinds`), that the wake loop takes exactly the sleepers that are due
(`WakeStops`) and that `Chain` of a head is the queue (`ChainIs`) is shown by taking
the least turn at which it would fail (`LeastNat`). `PickFacts` puts parking, waking
and taking the target together. From `Invariance` follow `ListsWhole` (`ChainsWhole`)
and `TailsAndPrevMatch` (`LinksMatch`). `ListsImplement` is `Refines`: every step is
the step of the same name in `Scheduler`, the store that links a new thread is
`scheduler_run`, the stores before and after it are stutters. What is proved of
`Scheduler` thereby holds of the linked lists.

**Kmalloc** (`Kmalloc_proofs`, for any heap, page size, requests and callers,
under the hypothesis `~Overlap` that is stated in every theorem). The invariant
says that carved blocks lie below `ptr` and are pairwise apart, that each is at
home in one place, that lists hold the right sizes, and that the one caller in
`heap_alloc` has its pages marked and adds to the `ptr` it has read. From it:
`HeapApart`, `HeapSorted`, `HeapBacked`, `HeapConserved`, and `HeapImplements`,
the refinement of `Allocator` (grants are searches that hit and bumps, refusals
are failed checks, the rest stutters).

**Frames** (`Frames_proofs`, for every memory map of disjoint entries, every page
size and number of entries per page). The invariant `IInv` adds where the loop is
(an aligned address of an entry, wanted if a store is pending) and how far the
stack has grown: its pages are 0 to `pt_index`, the index lies on the last page or
just behind it, and frames on the stack and out together do not exceed the pages.
Lemmas on multiples of the page size say that the loop comes to each usable frame
once. From it: `FramesTyped`, `FrameOneUse`, `StackAlwaysPresent`.

**AddressSpace** (`AddressSpace_proofs`, for any number of processes, kernel and user
pages and frames). One hypothesis is stated in every theorem: `BootHeap`, the kernel
heap lies in the slot that `boot.s` gives a table; `KernelGrows.cfg` shows what
happens otherwise. The timer may strike anywhere, inside `mmu_mark` too. The
invariant `IInv` has seven parts: types; no frame is two of free, directory, table, page
and clone to be (`Apart`); the entries of a directory lead to tables, those for the
kernel to the same ones as in `MMU_PD`, those for the user to its own (`Linked`); every
directory reaches itself in its last slot, and a running process has its own in
`cr3` (`Rooted`); where kmain is in `mmu_clone_pagedir` (`Cloning`); the ranges of what
threads hold (`Threads`); kernel memory given out has an entry (`Kept`). `Fresh` says
besides that what the TLB holds is mapped, but for the clone page and pages that were
put on demand again. From them come `AddressSpaceTyped`, `FramesHaveOneUse`,
`KernelMemoryShared`, `TranslationsFresh` and, as an action property,
`PagesKeptOutsideMark`.

**Process** (`Process_proofs`, for any number of processes, any word, page and heap
size, any stack pages, any tables of constructors and destructors, any arguments; the
assumptions are `ProcessAssumption`: the heap starts on a page and ends a page below
the end of the address space). Neither safety property is inductive. `BlocksInv` gives
the blocks of each process as a function of where it is in its life (`Owned`) and
`DirectoryInv` when it has a directory; they say that the thread on the processor is
not a zombie and the cleaner's victim is off every list; `BlocksConserved` follows.
`AddressInv` says that a thread with a page directory runs in it, that the heap below
its break and its stack are marked there, and that a thread without one, an unset
entry point or a halt come after `oom`. The step that matters is sbrk: `SbrkPages`
shows, from lemmas on division, that the old pages and the ones it marks cover the new
break, also when the sum wraps. From it `BreaksBacked` and `OnlyExplainedHalts`.

`CallsAnswered` (`Answered`) has one more hypothesis, `FewProcesses`: fewer than `W`
processes are ever made. The counter of pids wraps in 32 bits and nothing in the code
looks for a pid that is still in use, so with more processes it is false. `PidInv` says
that pids taken so far are distinct and not above the counter, and counts them (each process
that has one has taken a value of its own, so the counter is below `W`); `CallInv` says of
the last call what its answer meant when it was given, and that the break of that
process has not moved since. `SbrkAnswer` and `SleepNotLonger` are the arithmetic.
`CrtInOrder` (`CrtOrder`, with `_exit` from anywhere) rests on `CrtInv`: what a program has run is what its tables
call up to the entry where its loop stands (`RanTo`). `Called` is a recursive
function of the position; since induction over data is out of reach, that this
function exists and has its equation is shown by taking the least position at which
it would not (`CalledExists`, `CalledIs`).

**Files** (`Loader_proofs`, first half, for any archives as tar lays them out, on any disks they
fit on, any paths, mounts, offsets and sizes; `FilesAssumption` and
`LayoutAssumption`). The invariant says of the lookup under way that it is on a
header or behind the last one, that no member it has passed has the name, and that
a search for the mount point itself, whose name is empty, stops at the end. That
the walk keeps to headers is arithmetic of padded blocks (`PaddedCovers`,
`MembersApart`); that what is read is the data of the member and nothing of its
neighbours is `CellIs`, then `ReadIs`; that offset and size are cut at the end of
the file is `WantedIs`, for sums that do not wrap. `LeastElement` stands in for
induction over the members: finite sets are well founded by inclusion. From it
`FilesTyped`, `CursorStaysOnHeaders`, `LookupsRight` and, because `find` takes the
first of a table that only grows at its end, `MountsStay`.

**Loader** (`Loader_proofs`, second half, for any files and programs, any word, page and block
size; `LoaderAssumption` besides). `QuestionInv` follows the two lookups of
load_program: the second asks the same path for as much as the first has said, so
that `ret.buf` is the whole file (`WholeFileRead`). `FaultInv` says that the headers
passed so far are on marked pages; `FittingIsBacked` shows it for the loop of
`mmu_mmap` over a segment that does not spread over more pages than its size takes.
`ImageInv` says what memory holds in each phase: the segments of the headers passed so
far and zeroes elsewhere, then the expected numbers at the relocations passed so far
and what the file says elsewhere. Fields share no address, so a number stays once it
is stored, and the next addend is still the one of the file (`SameWord`, `WordStored`,
`PatchedNext`); that -4 is the addend for which the code's PC-relative number and that
of the comment agree is `ModShift`; a linked program never makes `relocate` give up
(`LinkedRelocation`). From them `LoaderTyped`, `LoaderIsAnswered`, `FaultsHaveReasons`
and `ProgramsLoadRight`. What the loader makes of a program that is not linked like
this is only in the run.

**Only model-checked.** The liveness properties `EveryProcessReaped`,
`EveryThreadRuns` and `LoadEnds` (which includes `LookupEnds`): fairness is out of the prover's reach.
Every other property that a run checks to hold is a theorem. Some theorems need a
hypothesis that the code does not guarantee, and section 4 shows what the code does
without it: `~Interruptible` for the linked lists, `~Overlap` for the heap and
`BootHeap` for the address space. `FewProcesses` holds for any kernel that does
not run for 2^32 processes.

## 6. Not modelled, and what is left

Left out of the modelled parts: an entry point that was never set and happens to
hit code (`enter_ring3`); what follows once the frames run out, since the fault
handler then maps physical page 0 and every statement about uses of frames is
void; the frames of the initrd, which `mmu_init` leaves on the stack; archives that
are cut short, and paths with characters that `kstrcmp` treats differently; the array
of a `kvector` behind its 13th element; segments that wrap around the end of memory;
what is right for a program with two tables of relocations or another PC-relative
addend (the loader does what the code does, `ImageRight` says nothing); what offsets and
sizes that wrap 64 bits should read; sleeps that are too short because `usec * 18`
wraps; registers across a context switch.

Not modelled at all: device I/O (PIC, PIT, UART, PCI, display) has no state that
the properties depend on, and text mixing on the serial line harms nothing but
text; boot code runs once before any of this exists, and what it leaves is the
initial state of `AddressSpace`; the formatting of `kdebug` only produces text;
`vma_alloc.c` and the directory functions of the VFS have no caller.

Next: a theorem that `LookupRight` and `ImageRight` compose with `Process` (the load
is one step there), and the two hazards that have no property because they begin
where the models end: a fault with no frame left, and frames of the initrd that are
on the stack.
