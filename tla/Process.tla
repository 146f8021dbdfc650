------------------------------- MODULE Process -------------------------------
(***************************************************************************)
(* Processes from process_create to what an exit leaves behind:            *)
(* process.cpp, tcb.c and ring3.s in the kernel, crt0.s and the stubs of   *)
(* libgloss.s in the program, and the system calls between them            *)
(* (syscall.s, syscall_service.c) with the heap that sbrk grows (heap.c).  *)
(*                                                                         *)
(* Threads are switched whenever interrupts are on, which is everywhere    *)
(* but in a system call.  Scheduler says who runs next; here it is anyone. *)
(* kmalloc and the page directories may run out at any time.  Sizes and    *)
(* addresses are numbers modulo 2^w.                                       *)
(***************************************************************************)
EXTENDS Integers, Sequences, SequencesExt, FiniteSets

CONSTANTS
    Main, Cleaner, Child,       \* kmain, the zombie cleaner, new processes
    NoDir, NoChild,
    W, PAGE,                    \* 2^32, 4096
    HeapStart, HeapSize,        \* KADDR_APP_HEAP and 32 MB
    Stack,                      \* the pages below KADDR_APP_STACK
    Ticks, Second,              \* 18 ticks are 1000 * 1000 microseconds
    ctors, dtors, main,         \* the tables and main of the program
    Argument, MaxCalls          \* what programs ask of sbrk and usleep; calls in all

None == 0
Minus1 == W - 1

ASSUME ProcessAssumption ==
    /\ Main # Cleaner /\ {Main, Cleaner} \intersect Child = {}
    /\ NoDir \notin Child /\ NoChild \notin Child
    /\ W \in Nat /\ PAGE \in Nat \ {0} /\ HeapStart \in Nat \ {0} /\ HeapSize \in Nat
    /\ HeapStart % PAGE = 0 /\ HeapStart + HeapSize + PAGE < W
    /\ Ticks \in Nat /\ Second \in Nat \ {0}
    /\ Argument \subseteq 0..W - 1 /\ MaxCalls \in Nat
    /\ ctors \in Seq(Int) /\ dtors \in Seq(Int)

Thread == {Main, Cleaner} \union Child

VARIABLES
    pc, making,                 \* where process_create is, and with whom
    blocks,                     \* of the kernel heap, and page directories, [kind, of]
    pagedir, pid,               \* fields of PROCESS and TCB
    next_process_id,
    state,                      \* of the thread of a process
    current, cr3,
    marks,                      \* pages marked in a page directory
    victim,                     \* the zombie the cleaner is at
    oom, halted,                \* something ran out or did not load; cli; hlt
    at, k, ran,                 \* the program: where it is, what was called
    ptr, calls, last            \* the heap, system calls made, the last one

kernel == <<pc, making, blocks, pagedir, pid, next_process_id, state, victim>>
cpu == <<current, cr3, marks, oom, halted>>
user == <<at, k, ran, ptr, calls, last>>
vars == <<kernel, cpu, user>>

NoCall == [of |-> NoChild]

-----------------------------------------------------------------------------
(* Threads *)

\* A plausible slip: the page directory of the thread is not loaded.
Loaded_Kept(t) == cr3

\* or ebx, ebx; jz .skip_pagedir; mov cr3, ebx
Loaded(t) == IF t \in Child /\ pagedir[t] # NoDir THEN pagedir[t] ELSE cr3

Runs(t) == ~halted /\ current = t

SwitchTo(t) ==
    /\ current' = t /\ cr3' = Loaded(t)

Switch(t) ==
    /\ ~halted /\ t # current /\ (t \in Child => state[t] = "ready")
    /\ SwitchTo(t) /\ last' = NoCall
    /\ UNCHANGED <<kernel, marks, oom, halted, at, k, ran, ptr, calls>>

Halt == halted' = TRUE /\ UNCHANGED <<current, cr3, marks>>

-----------------------------------------------------------------------------
(* process_create, called by kmain *)

\* kmalloc for making, which is written to whatever it returns.
Allocate(kind, from, to) ==
    /\ Runs(Main) /\ pc = from
    /\ \/ /\ blocks' = blocks \union {[kind |-> kind, of |-> making]}
          /\ pc' = to
          /\ UNCHANGED cpu
       \/ oom' = TRUE /\ Halt /\ UNCHANGED <<blocks, pc>>
    /\ UNCHANGED <<making, pagedir, pid, next_process_id, state, victim, user>>

process_create(p) ==
    /\ Runs(Main) /\ pc = "idle" /\ state[p] = "none"
    /\ pc' = "process" /\ making' = p
    /\ UNCHANGED <<blocks, pagedir, pid, next_process_id, state, victim, cpu, user>>

\* mmu_clone_pagedir returns 0 when there is no frame, and nobody looks.
Clone ==
    /\ Runs(Main) /\ pc = "clone"
    /\ \/ /\ pagedir' = [pagedir EXCEPT ![making] = making]
          /\ blocks' = blocks \union {[kind |-> "pagedir", of |-> making]}
          /\ UNCHANGED oom
       \/ oom' = TRUE /\ UNCHANGED <<pagedir, blocks>>
    /\ pc' = "psd"
    /\ UNCHANGED <<making, pid, next_process_id, state, victim,
                   current, cr3, marks, halted, user>>

\* The kernel stack, with startfunc, exitfunc and psd on it.
tcb_init ==
    /\ Runs(Main) /\ pc = "kstack"
    /\ blocks' = blocks \union {[kind |-> "kstack", of |-> making]}
    /\ pc' = "pid"
    /\ UNCHANGED <<making, pagedir, pid, next_process_id, state, victim, cpu, user>>

\* A plausible slip: psd is left behind.
Refused_PsdKept == {[kind |-> "psd", of |-> making]}

\* kfree of tcb, psd and process
Refused == {}

\* tcb_init has no kernel stack.  Nobody gives back the page directory.
CreateFails ==
    /\ Runs(Main) /\ pc = "kstack"
    /\ blocks' = {b \in blocks : b.of # making \/ b.kind = "pagedir"} \union Refused
    /\ state' = [state EXCEPT ![making] = "failed"]
    /\ pc' = "idle" /\ making' = NoChild /\ oom' = TRUE
    /\ UNCHANGED <<pagedir, pid, next_process_id, victim, current, cr3, marks, halted, user>>

NextPid == (next_process_id + 1) % W

\* __sync_fetch_and_add
TakePid ==
    /\ Runs(Main) /\ pc = "pid"
    /\ pid' = [pid EXCEPT ![making] = next_process_id]
    /\ next_process_id' = NextPid
    /\ pc' = "run"
    /\ UNCHANGED <<making, blocks, pagedir, state, victim, cpu, user>>

\* scheduler_run
Start ==
    /\ Runs(Main) /\ pc = "run"
    /\ state' = [state EXCEPT ![making] = "ready"]
    /\ pc' = "idle" /\ making' = NoChild
    /\ UNCHANGED <<blocks, pagedir, pid, next_process_id, victim, cpu, user>>

Create ==
    \/ \E p \in Child : process_create(p)
    \/ Allocate("process", "process", "clone")
    \/ Clone
    \/ Allocate("psd", "psd", "tcb")
    \/ Allocate("tcb", "tcb", "kstack")
    \/ tcb_init
    \/ CreateFails
    \/ TakePid
    \/ Start

-----------------------------------------------------------------------------
(* The thread of a process in the kernel: _process_startfunc *)

\* heap_create, and mmu_mmap of the stack.
StartFunc(p) ==
    /\ Runs(p) /\ at[p] = "start"
    /\ ptr' = [ptr EXCEPT ![p] = 0]
    /\ marks' = marks \union ({cr3} \X Stack)
    /\ at' = [at EXCEPT ![p] = "load"]
    /\ UNCHANGED <<kernel, current, cr3, oom, halted, k, ran, calls, last>>

\* load_program, see Loader.  Its result is ignored.
LoadProgram(p) ==
    /\ Runs(p) /\ at[p] = "load"
    /\ \/ at' = [at EXCEPT ![p] = "enter"] /\ UNCHANGED oom
       \/ at' = [at EXCEPT ![p] = "unset"] /\ oom' = TRUE
    /\ UNCHANGED <<kernel, current, cr3, marks, halted, k, ran, ptr, calls, last>>

\* To the entry point.  One that was never set faults on the first fetch;
\* that it hits code instead is left out.
enter_ring3(p) ==
    /\ Runs(p)
    /\ \/ /\ at[p] = "enter"
          /\ at' = [at EXCEPT ![p] = "ctors"] /\ k' = [k EXCEPT ![p] = 1]
          /\ UNCHANGED cpu
       \/ at[p] = "unset" /\ Halt /\ UNCHANGED <<at, k, oom>>
    /\ UNCHANGED <<kernel, ran, ptr, calls, last>>

-----------------------------------------------------------------------------
(* The program: crt0.s *)

IsMarker(f) == f \in {0, -1}

\* A plausible slip: the destructors run like the constructors.
DtorAt_Up(n) == dtors[Len(dtors) + 1 - n]

DtorAt(n) == dtors[n]

\* One entry of a table; 0 and -1 are skipped.
CallEntry(p, f) == ran' = IF IsMarker(f) THEN ran ELSE [ran EXCEPT ![p] = Append(@, f)]

Ctor(p) ==
    /\ Runs(p) /\ at[p] = "ctors"
    /\ IF k[p] <= Len(ctors)
       THEN CallEntry(p, ctors[k[p]]) /\ k' = [k EXCEPT ![p] = @ + 1] /\ UNCHANGED at
       ELSE /\ ran' = [ran EXCEPT ![p] = Append(@, main)]
            /\ at' = [at EXCEPT ![p] = "main"] /\ UNCHANGED k
    /\ UNCHANGED <<kernel, cpu, ptr, calls, last>>

MainReturns(p) ==
    /\ Runs(p) /\ at[p] = "main"
    /\ at' = [at EXCEPT ![p] = "dtors"] /\ k' = [k EXCEPT ![p] = Len(dtors)]
    /\ UNCHANGED <<kernel, cpu, ran, ptr, calls, last>>

Dtor(p) ==
    /\ Runs(p) /\ at[p] = "dtors"
    /\ IF k[p] >= 1
       THEN CallEntry(p, DtorAt(k[p])) /\ k' = [k EXCEPT ![p] = @ - 1] /\ UNCHANGED at
       ELSE at' = [at EXCEPT ![p] = "_exit"] /\ UNCHANGED <<k, ran>>
    /\ UNCHANGED <<kernel, cpu, ptr, calls, last>>

\* A function of the program runs: main, or the entry crt0 has just called.
InProgram(p) ==
    \/ at[p] = "main"
    \/ at[p] = "ctors" /\ k[p] > 1 /\ ~IsMarker(ctors[k[p] - 1])
    \/ at[p] = "dtors" /\ k[p] < Len(dtors) /\ ~IsMarker(DtorAt(k[p] + 1))

\* The program uses its stack, and its heap up to the break.
Used(p) == Stack \union (HeapStart \div PAGE..(HeapStart + ptr[p] - 1) \div PAGE)

\* An access to a page that is not marked is answered with cli; hlt.
Touch(p) ==
    /\ Runs(p) /\ InProgram(p)
    /\ \E v \in Used(p) : <<cr3, v>> \notin marks
    /\ Halt
    /\ UNCHANGED <<kernel, user, oom>>

-----------------------------------------------------------------------------
(* System calls: libgloss.s, syscall.s, syscall_service.c *)

\* mov eax, ...
libgloss == [_exit |-> 1, open |-> 2, close |-> 3, read |-> 4, write |-> 5,
             lseek |-> 6, unlink |-> 7, getpid |-> 8, kill |-> 9, fstat |-> 10,
             sbrk |-> 11, usleep |-> 12]

\* A plausible slip: a service is left out of the table.
syscall_table_Short ==
    <<"null", "exit", "open", "close", "read", "write", "unlink",
      "getpid", "kill", "fstat", "sbrk", "usleep", "usleep">>

syscall_table ==
    <<"null", "exit", "open", "close", "read", "write", "lseek", "unlink",
      "getpid", "kill", "fstat", "sbrk", "usleep">>

\* cmp eax, 12; ja .fault
Dispatched(n) == IF n > 12 THEN "fault" ELSE syscall_table[n + 1]

\* A plausible slip: the end is not rounded up to a page.
HeapEnd_Down(p, size) == ((HeapStart + ptr[p] + size) % W) \div PAGE

HeapEnd(p, size) == ((HeapStart + ptr[p] + size + PAGE - 1) % W) \div PAGE

HeapFull(p, size) == (ptr[p] + size) % W >= HeapSize

\* A plausible slip: a sum that does not wrap.
Moved_Wide(p, size) == ptr[p] + size

Moved(p, size) == (ptr[p] + size) % W

\* heap_alloc
Sbrk(p, size) ==
    IF HeapFull(p, size) THEN UNCHANGED <<ptr, marks>>
    ELSE /\ ptr' = [ptr EXCEPT ![p] = Moved(p, size)]
         /\ marks' = marks \union
               ({cr3} \X ((HeapStart + ptr[p]) \div PAGE..HeapEnd(p, size) - 1))

\* usec * 18 / 1000 / 1000 in 32 bits
SleepTicks(usec) == ((usec * Ticks) % W) \div Second

\* What a service answers in eax.
Answer(p, service, arg) ==
    CASE service = "getpid" -> pid[p]
      [] service = "write"  -> arg
      [] service = "fstat"  -> IF arg = None THEN Minus1 ELSE 0
      [] service = "usleep" -> 0
      [] service = "sbrk"   -> IF HeapFull(p, arg) THEN None ELSE HeapStart + ptr[p]
      [] OTHER              -> Minus1

\* int 0x80 with number n.  usleep gives the processor away.
Service(p, name, n, arg) ==
    LET service == Dispatched(n) IN
    /\ Runs(p) /\ InProgram(p) /\ calls < MaxCalls
    /\ calls' = calls + 1
    /\ last' = [of |-> p, name |-> name, arg |-> arg, answer |-> Answer(p, service, arg),
                slept |-> IF service = "usleep" THEN SleepTicks(arg) ELSE 0]
    /\ IF service = "sbrk" THEN Sbrk(p, arg) ELSE UNCHANGED <<ptr, marks>>
    /\ UNCHANGED <<kernel, current, cr3, oom, halted, at, k, ran>>

Syscall(p) ==
    \E arg \in Argument :
        \/ \E name \in DOMAIN libgloss \ {"_exit"} : Service(p, name, libgloss[name], arg)
        \/ \E n \in {0, 13} : Service(p, "other", n, arg)

\* _exit, called by crt0 at its end or by the program anywhere:
\* scheduler_exitthread, and on to any other thread.
Exit(p) ==
    /\ Runs(p) /\ (at[p] = "_exit" \/ InProgram(p))
    /\ Dispatched(libgloss["_exit"]) = "exit"
    /\ state' = [state EXCEPT ![p] = "zombie"]
    /\ \E t \in {Main, Cleaner} \union {q \in Child \ {p} : state[q] = "ready"} : SwitchTo(t)
    /\ last' = NoCall
    /\ UNCHANGED <<pc, making, blocks, pagedir, pid, next_process_id, victim,
                   marks, oom, halted, at, k, ran, ptr, calls>>

-----------------------------------------------------------------------------
(* The zombie cleaner *)

PopZombie(p) ==
    /\ Runs(Cleaner) /\ victim = NoChild /\ state[p] = "zombie"
    /\ victim' = p /\ state' = [state EXCEPT ![p] = "freed"]
    /\ UNCHANGED <<pc, making, blocks, pagedir, pid, next_process_id, cpu, user>>

FreeZombie ==
    /\ Runs(Cleaner) /\ victim # NoChild
    /\ blocks' = {b \in blocks : b.of = victim => b.kind \notin {"kstack", "tcb"}}
    /\ victim' = NoChild
    /\ UNCHANGED <<pc, making, pagedir, pid, next_process_id, state, cpu, user>>

-----------------------------------------------------------------------------
Init ==
    /\ pc = "idle" /\ making = NoChild /\ blocks = {}
    /\ pagedir = [p \in Child |-> NoDir] /\ pid = [p \in Child |-> 0]
    /\ next_process_id = 1
    /\ state = [p \in Child |-> "none"] /\ victim = NoChild
    /\ current = Main /\ cr3 = NoDir /\ marks = {}
    /\ oom = FALSE /\ halted = FALSE
    /\ at = [p \in Child |-> "start"] /\ k = [p \in Child |-> 0]
    /\ ran = [p \in Child |-> <<>>] /\ ptr = [p \in Child |-> 0]
    /\ calls = 0 /\ last = NoCall

Program(p) == Ctor(p) \/ MainReturns(p) \/ Dtor(p) \/ Touch(p) \/ Syscall(p) \/ Exit(p)

Next ==
    \/ \E t \in Thread : Switch(t)
    \/ Create
    \/ \E p \in Child : StartFunc(p) \/ LoadProgram(p) \/ enter_ring3(p) \/ Program(p)
    \/ \E p \in Child : PopZombie(p)
    \/ FreeZombie

Spec == Init /\ [][Next]_vars

-----------------------------------------------------------------------------
(* Properties *)

TypeOK ==
    /\ pc \in {"idle", "process", "clone", "psd", "tcb", "kstack", "pid", "run"}
    /\ making \in Child \union {NoChild} /\ (pc = "idle" <=> making = NoChild)
    /\ blocks \subseteq [kind : {"process", "pagedir", "psd", "tcb", "kstack"}, of : Child]
    /\ pagedir \in [Child -> Child \union {NoDir}]
    /\ pid \in [Child -> 0..W - 1] /\ next_process_id \in 0..W - 1
    /\ state \in [Child -> {"none", "ready", "zombie", "freed", "failed"}]
    /\ victim \in Child \union {NoChild}
    /\ current \in Thread /\ cr3 \in Child \union {NoDir}
    /\ oom \in BOOLEAN /\ halted \in BOOLEAN
    /\ at \in [Child -> {"start", "load", "enter", "unset", "ctors", "main", "dtors", "_exit"}]
    /\ k \in [Child -> Nat] /\ ptr \in [Child -> 0..W - 1]
    /\ calls \in 0..MaxCalls

BlocksOf(p) == {b.kind : b \in {c \in blocks : c.of = p}}

\* mmu_clone_pagedir may have failed.
DirectoryOf(p) == IF pagedir[p] = NoDir THEN {} ELSE {"pagedir"}

\* The kernel's memory across a life: a thread has its blocks for as long as
\* it may run or be switched from, a creation that fails takes none along but
\* loses the page directory, and of a reaped process exactly that, PROCESS and
\* PROCESS_START_DATA are left, which only the exitfunc that no process
\* reaches would free.
BlocksAccounted ==
    \A p \in Child :
        /\ state[p] \in {"ready", "zombie"} =>
              BlocksOf(p) = {"process", "psd", "tcb", "kstack"} \union DirectoryOf(p)
        /\ state[p] = "freed" =>
              BlocksOf(p) = {"process", "psd"} \union DirectoryOf(p)
                               \union (IF victim = p THEN {"tcb", "kstack"} ELSE {})
        /\ state[p] = "failed" => BlocksOf(p) = DirectoryOf(p)
        /\ state[p] = "none" /\ making # p => BlocksOf(p) = {}

\* The break stays inside the heap whatever sbrk is asked for, negative
\* numbers included, and the memory below it may be touched in the page
\* directory of the process, whoever ran before it.
BreakBacked ==
    \A p \in Child :
        /\ ptr[p] < HeapSize \/ ptr[p] = 0
        /\ pagedir[p] # NoDir =>
              \A v \in HeapStart \div PAGE..(HeapStart + ptr[p] - 1) \div PAGE : <<p, v>> \in marks

\* A program gets from a stub of libgloss what the service of that name
\* promises, through the number, the table and the registers in between: a
\* pid that no other process has, the memory before the break it moves, a
\* sleep that is never longer than asked for.
Answered ==
    LET p == last.of IN
    last # NoCall =>
        CASE last.name = "getpid" ->
                /\ last.answer = pid[p] /\ pid[p] # 0
                /\ \A q \in Child \ {p} : state[q] = "ready" => pid[q] # pid[p]
          [] last.name = "sbrk"   ->
                last.answer # None => (last.answer + last.arg) % W = HeapStart + ptr[p]
          [] last.name = "write"  -> last.answer = last.arg
          [] last.name = "usleep" ->
                last.answer = 0 /\ last.slept * Second <= last.arg * Ticks
          [] last.name = "fstat"  -> last.answer \in {0, Minus1}
          [] OTHER                -> last.answer = Minus1

\* What is called of the first i entries of a table.
Called(table) ==
    LET upto[i \in 0..Len(table)] ==
            IF i = 0 THEN <<>>
            ELSE IF IsMarker(table[i]) THEN upto[i - 1] ELSE Append(upto[i - 1], table[i])
    IN upto

\* A program calls every constructor in order, then main, then every
\* destructor in the opposite order, and none of the markers, up to where it
\* calls _exit; the _exit of crt0 comes when all have been called.
CrtOrder ==
    LET order(table) == Called(table)[Len(table)]
        whole == order(ctors) \o <<main>> \o order(Reverse(dtors))
    IN \A p \in Child :
          /\ IsPrefix(ran[p], whole)
          /\ at[p] = "_exit" => ran[p] = whole

\* The machine stops only after an allocation or a load has failed: no
\* program that uses its stack and its heap stops it.
HaltsExplained == halted => oom
=============================================================================
