--------------------------- MODULE Process_proofs ---------------------------
(***************************************************************************)
(* What MCProcess checks for two processes and a heap of four pages,       *)
(* proved for every number of processes, every heap and page size, every   *)
(* program and every argument of a system call.                            *)
(***************************************************************************)
EXTENDS Process, QueueLemmas, FiniteSetTheorems

-----------------------------------------------------------------------------
(* Types *)

Where == {"start", "load", "enter", "unset", "ctors", "main", "dtors", "_exit"}

\* W is a positive number: the heap lies below it.
LEMMA Words == W \in Nat /\ W > 0 /\ \A n \in Int : n % W \in 0..W - 1
<1>1. W \in Nat /\ W > 0
  BY ProcessAssumption
<1> QED BY <1>1

LEMMA Names == /\ NoChild \notin Child /\ NoDir \notin Child
               /\ Main \notin Child /\ Cleaner \notin Child /\ Main # Cleaner
BY ProcessAssumption

LEMMA InitType == Init => TypeOK
<1>1. W \in Nat /\ W > 1 /\ MaxCalls \in Nat
  BY ProcessAssumption
<1>2. 1 \in 0..W - 1 /\ 0 \in 0..W - 1 /\ 0 \in 0..MaxCalls
  BY <1>1
<1> SUFFICES ASSUME Init PROVE TypeOK
  OBVIOUS
<1>3. oom \in BOOLEAN /\ halted \in BOOLEAN
  BY DEF Init
<1>4. current \in Thread
  BY DEF Init, Thread
<1>5. calls \in 0..MaxCalls /\ pid \in [Child -> 0..W - 1] /\ ptr \in [Child -> 0..W - 1]
  BY <1>2 DEF Init
<1> QED BY <1>2, <1>3, <1>4, <1>5 DEF Init, TypeOK

\* Dispatching a thread loads a page directory that exists.
LEMMA SwitchType ==
  ASSUME TypeOK, NEW t \in Thread, SwitchTo(t)
  PROVE  current' \in Thread /\ cr3' \in Child \union {NoDir}
BY DEF TypeOK, SwitchTo, Loaded

LEMMA CreateType ==
  ASSUME TypeOK, Create
  PROVE  TypeOK'
<1> USE DEF TypeOK
<1>1. ASSUME NEW p \in Child, process_create(p) PROVE TypeOK'
  BY <1>1, Names DEF process_create, cpu, user
<1>2. ASSUME NEW kind \in {"process", "psd", "tcb"}, NEW from, NEW to \in {"clone", "tcb", "kstack"},
             from # "idle", Allocate(kind, from, to)
      PROVE  TypeOK'
  <2>1. making \in Child
    BY <1>2 DEF Allocate
  <2>2. CASE UNCHANGED cpu
    BY <1>2, <2>1, <2>2, Names DEF Allocate, Halt, cpu, user
  <2>3. CASE oom' = TRUE /\ Halt /\ UNCHANGED <<blocks, pc>>
    <3>1. oom' \in BOOLEAN /\ halted' \in BOOLEAN
      BY <2>3 DEF Halt
    <3> QED BY <1>2, <2>3, <3>1 DEF Allocate, Halt, user
  <2> QED BY <1>2, <2>2, <2>3 DEF Allocate
<1>3. CASE Clone
  <2>1. making \in Child
    BY <1>3 DEF Clone
  <2>2. blocks' \subseteq [kind : {"process", "pagedir", "psd", "tcb", "kstack"}, of : Child]
    BY <1>3, <2>1 DEF Clone
  <2>3. pagedir' \in [Child -> Child \union {NoDir}] /\ oom' \in BOOLEAN
    BY <1>3, <2>1 DEF Clone
  <2> QED BY <1>3, <2>1, <2>2, <2>3, Names DEF Clone, user
<1>4. CASE tcb_init
  <2>1. making \in Child
    BY <1>4 DEF tcb_init
  <2> QED BY <1>4, <2>1, Names DEF tcb_init, cpu, user
<1>5. CASE CreateFails
  BY <1>5 DEF CreateFails, Refused, user
<1>6. CASE TakePid
  BY <1>6, Words DEF TakePid, NextPid, cpu, user
<1>7. CASE Start
  BY <1>7 DEF Start, cpu, user
<1> QED BY <1>1, <1>2, <1>3, <1>4, <1>5, <1>6, <1>7 DEF Create

\* Where a program may touch memory and make system calls.
LEMMA InProgramAt ==
  ASSUME NEW p, InProgram(p)
  PROVE  at[p] \in {"ctors", "main", "dtors"}
BY DEF InProgram

LEMMA ServiceType ==
  ASSUME TypeOK, NEW p \in Child, NEW name, NEW n, NEW arg \in Argument, Service(p, name, n, arg)
  PROVE  TypeOK'
<1>1. ptr' \in [Child -> 0..W - 1]
  <2>1. ptr' = ptr \/ ptr' = [ptr EXCEPT ![p] = Moved(p, arg)]
    BY DEF Service, Sbrk
  <2>2. Moved(p, arg) \in 0..W - 1
    <3>1. ptr[p] \in Int /\ arg \in Int
      BY Words, ProcessAssumption DEF TypeOK
    <3> QED BY <3>1, Words DEF Moved
  <2> QED BY <2>1, <2>2 DEF TypeOK
<1>2. calls' \in 0..MaxCalls
  BY ProcessAssumption DEF Service, TypeOK
<1> QED BY <1>1, <1>2 DEF Service, TypeOK, kernel

LEMMA ProgramType ==
  ASSUME TypeOK, NEW p \in Child, Program(p)
  PROVE  TypeOK'
<1>1. CASE Ctor(p)
  <2>1. k \in [Child -> Nat] /\ at \in [Child -> Where]
    BY DEF TypeOK, Where
  <2>2. \/ k' = [k EXCEPT ![p] = @ + 1] /\ at' = at
        \/ k' = k /\ at' = [at EXCEPT ![p] = "main"]
    BY <1>1 DEF Ctor
  <2>3. k' \in [Child -> Nat] /\ at' \in [Child -> Where]
    BY <2>1, <2>2 DEF Where
  <2> QED BY <1>1, <2>3 DEF Ctor, TypeOK, Where, kernel, cpu
<1>2. CASE MainReturns(p)
  BY <1>2, ProcessAssumption DEF MainReturns, TypeOK, kernel, cpu
<1>3. CASE Dtor(p)
  <2>1. k \in [Child -> Nat] /\ at \in [Child -> Where]
    BY DEF TypeOK, Where
  <2>2. \/ k[p] >= 1 /\ k' = [k EXCEPT ![p] = @ - 1] /\ at' = at
        \/ k' = k /\ at' = [at EXCEPT ![p] = "_exit"]
    BY <1>3 DEF Dtor
  <2>3. k' \in [Child -> Nat] /\ at' \in [Child -> Where]
    BY <2>1, <2>2 DEF Where
  <2> QED BY <1>3, <2>3 DEF Dtor, TypeOK, Where, kernel, cpu
<1>4. CASE Touch(p)
  BY <1>4 DEF Touch, Halt, TypeOK, kernel, user
<1>5. CASE Syscall(p)
  BY <1>5, ServiceType DEF Syscall
<1>6. CASE Exit(p)
  <2>1. PICK t \in Thread : SwitchTo(t)
    BY <1>6 DEF Exit, Thread
  <2> QED BY <1>6, <2>1, SwitchType DEF Exit, TypeOK
<1> QED BY <1>1, <1>2, <1>3, <1>4, <1>5, <1>6 DEF Program

LEMMA StepType == TypeOK /\ [Next]_vars => TypeOK'
<1> SUFFICES ASSUME TypeOK, [Next]_vars PROVE TypeOK'
  OBVIOUS
<1>1. ASSUME NEW t \in Thread, Switch(t) PROVE TypeOK'
  BY <1>1, SwitchType DEF Switch, TypeOK, kernel
<1>2. CASE Create
  BY <1>2, CreateType
<1>3. ASSUME NEW p \in Child, StartFunc(p) PROVE TypeOK'
  BY <1>3, Words DEF StartFunc, TypeOK, kernel
<1>4. ASSUME NEW p \in Child, LoadProgram(p) PROVE TypeOK'
  BY <1>4 DEF LoadProgram, TypeOK, kernel
<1>5. ASSUME NEW p \in Child, enter_ring3(p) PROVE TypeOK'
  <2>1. k' \in [Child -> Nat] /\ at' \in [Child -> Where]
    BY <1>5 DEF enter_ring3, TypeOK, Where
  <2>2. halted' \in BOOLEAN
    <3>1. halted' = TRUE \/ halted' = halted
      BY <1>5 DEF enter_ring3, Halt, cpu
    <3> QED BY <3>1 DEF TypeOK
  <2>3. UNCHANGED <<current, cr3, oom>>
    BY <1>5 DEF enter_ring3, Halt, cpu
  <2> QED BY <1>5, <2>1, <2>2, <2>3 DEF enter_ring3, TypeOK, Where, kernel
<1>6. ASSUME NEW p \in Child, Program(p) PROVE TypeOK'
  BY <1>6, ProgramType
<1>7. ASSUME NEW p \in Child, PopZombie(p) PROVE TypeOK'
  BY <1>7, ProcessAssumption DEF PopZombie, TypeOK, cpu, user
<1>8. CASE FreeZombie
  BY <1>8, ProcessAssumption DEF FreeZombie, TypeOK, cpu, user
<1>9. CASE UNCHANGED vars
  BY <1>9 DEF TypeOK, vars, kernel, cpu, user
<1> QED BY <1>1, <1>2, <1>3, <1>4, <1>5, <1>6, <1>7, <1>8, <1>9 DEF Next

\* Every field keeps its range, whatever the arguments of system calls.
THEOREM TypeCorrect == Spec => []TypeOK
BY InitType, StepType, PTL DEF Spec

-----------------------------------------------------------------------------
(* Blocks of the kernel heap *)

Kinds == {"process", "psd", "tcb", "kstack"}

\* What process_create has allocated by the time it gets to a statement.
Built ==
    CASE pc = "process"           -> {}
      [] pc \in {"clone", "psd"}  -> {"process"}
      [] pc = "tcb"               -> {"process", "psd"}
      [] pc = "kstack"            -> {"process", "psd", "tcb"}
      [] OTHER                    -> Kinds

\* The blocks of a process follow from where it is in its life.
Owned(p) ==
    IF p = making THEN Built
    ELSE IF state[p] \in {"none", "failed"} THEN {}
    ELSE IF state[p] = "freed" /\ p # victim THEN {"process", "psd"}
    ELSE Kinds

Block(kind, p) == [kind |-> kind, of |-> p]

BlocksInv ==
    /\ making # NoChild => state[making] = "none"
    /\ victim # NoChild => state[victim] = "freed"
    /\ current \in Child => state[current] = "ready"
    /\ \A p \in Child, kind \in Kinds : Block(kind, p) \in blocks <=> kind \in Owned(p)

\* process_create has not come to mmu_clone_pagedir.
Unmapped(p) == state[p] = "none" /\ (making # p \/ pc \in {"process", "clone"})

\* A page directory is there once it is cloned, and nothing gives it back.
DirectoryInv ==
    \A p \in Child : /\ Block("pagedir", p) \in blocks <=> pagedir[p] # NoDir
                     /\ Unmapped(p) => pagedir[p] = NoDir

LEMMA BlocksOfOwned ==
  TypeOK /\ BlocksInv /\ DirectoryInv =>
     \A p \in Child : BlocksOf(p) = Owned(p) \union DirectoryOf(p)
<1> SUFFICES ASSUME TypeOK, BlocksInv, DirectoryInv, NEW p \in Child
             PROVE  BlocksOf(p) = Owned(p) \union DirectoryOf(p)
  OBVIOUS
<1>1. Owned(p) \subseteq Kinds
  BY DEF Owned, Built, Kinds
<1>2. \A b \in blocks : b.kind \in Kinds \union {"pagedir"} /\ b = Block(b.kind, b.of)
  BY DEF TypeOK, Kinds, Block
<1>3. \A kind \in Kinds \union {"pagedir"} : Block(kind, p).kind = kind /\ Block(kind, p).of = p
  BY DEF Block
<1>4. \A kind : kind \in BlocksOf(p) <=> kind \in Kinds \union {"pagedir"} /\ Block(kind, p) \in blocks
  BY <1>2, <1>3 DEF BlocksOf
<1>5. "pagedir" \notin Kinds
  BY DEF Kinds
<1> QED BY <1>1, <1>4, <1>5 DEF BlocksInv, DirectoryInv, DirectoryOf

LEMMA BlocksAsSaid == TypeOK /\ BlocksInv /\ DirectoryInv => BlocksAccounted
<1> SUFFICES ASSUME TypeOK, BlocksInv, DirectoryInv, NEW p \in Child
             PROVE  /\ state[p] \in {"ready", "zombie"} => Owned(p) = Kinds
                    /\ state[p] = "freed" =>
                          Owned(p) = {"process", "psd"} \union (IF victim = p THEN {"tcb", "kstack"} ELSE {})
                    /\ state[p] = "failed" => Owned(p) = {}
                    /\ state[p] = "none" /\ making # p => Owned(p) = {} /\ pagedir[p] = NoDir
  BY BlocksOfOwned DEF BlocksAccounted, Kinds, DirectoryOf
<1>1. p = making => state[p] = "none"
  BY Names DEF BlocksInv
<1> QED BY <1>1 DEF Owned, Kinds, DirectoryInv, Unmapped

LEMMA InitBlocks == Init => BlocksInv /\ DirectoryInv
BY Names DEF Init, BlocksInv, DirectoryInv, Owned, Kinds

\* Most steps leave blocks alone and nobody's life goes on.
LEMMA BlocksQuiet ==
  ASSUME BlocksInv, UNCHANGED <<pc, making, blocks, state, victim>>,
         current' \in Child => state[current'] = "ready"
  PROVE  BlocksInv'
BY DEF BlocksInv, Owned, Built

\* One block more for the process that is being created.
LEMMA BlocksGrow ==
  ASSUME TypeOK, BlocksInv, Runs(Main), making \in Child, NEW kind \in Kinds,
         blocks' = blocks \union {Block(kind, making)},
         Built' = Built \union {kind},
         UNCHANGED <<making, state, victim, current>>
  PROVE  BlocksInv'
<1>1. \A p \in Child, c \in Kinds :
         Block(c, p) \in blocks' <=> Block(c, p) \in blocks \/ (c = kind /\ p = making)
  BY DEF Block
<1>2. \A p \in Child : Owned(p)' = IF p = making THEN Owned(p) \union {kind} ELSE Owned(p)
  BY DEF Owned
<1> QED BY <1>1, <1>2 DEF BlocksInv

LEMMA CreateBlocks ==
  ASSUME TypeOK, BlocksInv, Create
  PROVE  BlocksInv'
<1>0. Runs(Main) /\ current = Main
  BY DEF Create, process_create, Allocate, Clone, tcb_init, CreateFails, TakePid, Start, Runs
<1>1. ASSUME NEW p \in Child, process_create(p) PROVE BlocksInv'
  <2>1. making = NoChild /\ making' = p /\ pc' = "process" /\ state[p] = "none"
        /\ UNCHANGED <<blocks, state, victim, current>>
    BY <1>1 DEF process_create, TypeOK, cpu
  <2>2. \A q \in Child : Owned(q)' = Owned(q)
    BY <2>1, Names DEF Owned, Built
  <2> QED BY <2>1, <2>2 DEF BlocksInv
<1>2. ASSUME NEW kind \in {"process", "psd", "tcb"}, NEW from, NEW to,
             <<kind, from, to>> \in {<<"process", "process", "clone">>, <<"psd", "psd", "tcb">>,
                                     <<"tcb", "tcb", "kstack">>},
             Allocate(kind, from, to)
      PROVE  BlocksInv'
  <2>1. making \in Child
    BY <1>2 DEF Allocate, TypeOK
  <2>2. CASE blocks' = blocks \union {Block(kind, making)} /\ pc' = to
    <3>1. Built' = Built \union {kind}
      BY <1>2, <2>2 DEF Built, Allocate
    <3> QED BY <1>0, <1>2, <2>1, <2>2, <3>1, BlocksGrow DEF Allocate, cpu, Halt, Kinds
  <2>3. CASE UNCHANGED <<blocks, pc>>
    BY <1>0, <1>2, <2>3, BlocksQuiet, Names DEF Allocate, cpu, Halt
  <2> QED BY <1>2, <2>2, <2>3 DEF Allocate, Block
<1>3. CASE Clone \/ TakePid
  <2>1. Built' = Built /\ UNCHANGED <<making, state, victim, current>>
    BY <1>3 DEF Clone, TakePid, Built, cpu
  <2>2. \A p \in Child, c \in Kinds : Block(c, p) \in blocks' <=> Block(c, p) \in blocks
    BY <1>3 DEF Clone, TakePid, Block, Kinds
  <2> QED BY <2>1, <2>2 DEF BlocksInv, Owned
<1>4. CASE tcb_init
  <2>1. making \in Child /\ blocks' = blocks \union {Block("kstack", making)}
    BY <1>4 DEF tcb_init, TypeOK, Block
  <2>2. Built' = Built \union {"kstack"}
    BY <1>4 DEF tcb_init, Built, Kinds
  <2> QED BY <1>0, <1>4, <2>1, <2>2, BlocksGrow DEF tcb_init, cpu, Kinds
<1>5. CASE CreateFails
  <2>1. making \in Child /\ making' = NoChild /\ UNCHANGED <<victim, current>>
        /\ state' = [state EXCEPT ![making] = "failed"]
        /\ blocks' = {b \in blocks : b.of # making \/ b.kind = "pagedir"}
    BY <1>5 DEF CreateFails, Refused, TypeOK
  <2>2. \A p \in Child, c \in Kinds :
           Block(c, p) \in blocks' <=> Block(c, p) \in blocks /\ p # making
    BY <2>1 DEF Block, Kinds
  <2>3. state \in [Child -> {"none", "ready", "zombie", "freed", "failed"}] /\ state[making] = "none"
    BY <2>1, Names DEF TypeOK, BlocksInv
  <2>4. \A p \in Child : Owned(p)' = IF p = making THEN {} ELSE Owned(p)
    BY <2>1, <2>3, Names DEF Owned
  <2>5. /\ making' # NoChild => FALSE
        /\ victim' # NoChild => state'[victim'] = "freed"
        /\ current' \notin Child
    BY <1>0, <2>1, <2>3, Names DEF BlocksInv, TypeOK
  <2> QED BY <2>2, <2>4, <2>5 DEF BlocksInv
<1>6. CASE Start
  <2>1. making \in Child /\ making' = NoChild /\ UNCHANGED <<victim, current, blocks>>
        /\ state' = [state EXCEPT ![making] = "ready"] /\ pc = "run"
    BY <1>6 DEF Start, TypeOK, cpu
  <2>3. state \in [Child -> {"none", "ready", "zombie", "freed", "failed"}] /\ state[making] = "none"
    BY <2>1, Names DEF TypeOK, BlocksInv
  <2>4. \A p \in Child : Owned(p)' = Owned(p)
    BY <2>1, <2>3, Names DEF Owned, Built
  <2>5. /\ making' # NoChild => FALSE
        /\ victim' # NoChild => state'[victim'] = "freed"
        /\ current' \notin Child
    BY <1>0, <2>1, <2>3, Names DEF BlocksInv, TypeOK
  <2> QED BY <2>1, <2>4, <2>5 DEF BlocksInv
<1> QED BY <1>1, <1>2, <1>3, <1>4, <1>5, <1>6 DEF Create

\* An exit leaves the blocks to the cleaner, which takes two of the four.
LEMMA LifeBlocks ==
  ASSUME TypeOK, BlocksInv, NEW p \in Child, Exit(p) \/ PopZombie(p) \/ FreeZombie
  PROVE  BlocksInv'
<1>0. state \in [Child -> {"none", "ready", "zombie", "freed", "failed"}]
  BY DEF TypeOK
<1>1. CASE Exit(p)
  <2>1. PICK t \in {Main, Cleaner} \union {q \in Child \ {p} : state[q] = "ready"} : current' = t
    BY <1>1 DEF Exit, SwitchTo
  <2>2. state[p] = "ready" /\ state' = [state EXCEPT ![p] = "zombie"]
        /\ UNCHANGED <<pc, making, blocks, victim>>
    BY <1>1 DEF Exit, Runs, BlocksInv
  <2>3. \A q \in Child : Owned(q)' = Owned(q)
    BY <1>0, <2>2 DEF Owned, Built
  <2>4. current' \in Child => state'[current'] = "ready"
    BY <1>0, <2>1, <2>2, Names
  <2> QED BY <1>0, <2>2, <2>3, <2>4, Names DEF BlocksInv, TypeOK
<1>2. CASE PopZombie(p)
  <2>1. /\ current = Cleaner /\ victim = NoChild /\ state[p] = "zombie" /\ victim' = p
        /\ state' = [state EXCEPT ![p] = "freed"]
        /\ UNCHANGED <<pc, making, blocks, current>>
    BY <1>2 DEF PopZombie, Runs, cpu
  <2>2. \A q \in Child : Owned(q)' = Owned(q)
    BY <1>0, <2>1, Names DEF Owned, Built
  <2> QED BY <1>0, <2>1, <2>2, Names DEF BlocksInv, TypeOK
<1>3. CASE FreeZombie
  <2>1. /\ current = Cleaner /\ victim \in Child /\ victim' = NoChild
        /\ blocks' = {b \in blocks : b.of = victim => b.kind \notin {"kstack", "tcb"}}
        /\ UNCHANGED <<pc, making, state, current>>
    BY <1>3 DEF FreeZombie, Runs, cpu, TypeOK
  <2>2. state[victim] = "freed" /\ victim # making
    BY <2>1, Names DEF BlocksInv
  <2>3. \A q \in Child : Owned(q)' = IF q = victim THEN {"process", "psd"} ELSE Owned(q)
    BY <2>1, <2>2, Names DEF Owned, Built
  <2>4. \A q \in Child, c \in Kinds : Block(c, q) \in blocks' <=>
           Block(c, q) \in blocks /\ (q = victim => c \notin {"kstack", "tcb"})
    BY <2>1 DEF Block
  <2>5. Owned(victim) = Kinds
    BY <2>2 DEF Owned
  <2> QED BY <2>1, <2>3, <2>4, <2>5, Names DEF BlocksInv, Kinds
<1> QED BY <1>1, <1>2, <1>3

LEMMA StepBlocks == TypeOK /\ BlocksInv /\ [Next]_vars => BlocksInv'
<1> SUFFICES ASSUME TypeOK, BlocksInv, [Next]_vars PROVE BlocksInv'
  OBVIOUS
<1>0. UNCHANGED <<kernel, current>> => BlocksInv'
  BY BlocksQuiet DEF BlocksInv, kernel
<1>1. ASSUME NEW t \in Thread, Switch(t) PROVE BlocksInv'
  BY <1>1, BlocksQuiet DEF Switch, SwitchTo, kernel
<1>2. CASE Create
  BY <1>2, CreateBlocks
<1>3. ASSUME NEW p \in Child, StartFunc(p) \/ LoadProgram(p) \/ enter_ring3(p) PROVE BlocksInv'
  BY <1>0, <1>3 DEF StartFunc, LoadProgram, enter_ring3, Halt, cpu
<1>4. ASSUME NEW p \in Child, Ctor(p) \/ MainReturns(p) \/ Dtor(p) \/ Touch(p) \/ Syscall(p)
      PROVE  BlocksInv'
  BY <1>0, <1>4 DEF Ctor, MainReturns, Dtor, Touch, Syscall, Service, Halt, cpu
<1>5. ASSUME NEW p \in Child, Exit(p) \/ PopZombie(p) PROVE BlocksInv'
  BY <1>5, LifeBlocks
<1>6. CASE FreeZombie
  <2>1. victim \in Child
    BY <1>6 DEF FreeZombie, TypeOK
  <2> QED BY <1>6, <2>1, LifeBlocks
<1>7. CASE UNCHANGED vars
  BY <1>0, <1>7 DEF vars, kernel, cpu
<1> QED BY <1>1, <1>2, <1>3, <1>4, <1>5, <1>6, <1>7 DEF Next, Program

\* Most steps leave the page directories alone.
LEMMA DirectoryQuiet ==
  ASSUME DirectoryInv, UNCHANGED pagedir,
         \A p \in Child : Block("pagedir", p) \in blocks' <=> Block("pagedir", p) \in blocks,
         \A p \in Child : Unmapped(p)' => Unmapped(p)
  PROVE  DirectoryInv'
BY DEF DirectoryInv

LEMMA StepDirectory == TypeOK /\ BlocksInv /\ DirectoryInv /\ [Next]_vars => DirectoryInv'
<1> SUFFICES ASSUME TypeOK, BlocksInv, DirectoryInv, [Next]_vars PROVE DirectoryInv'
  OBVIOUS
<1>0. UNCHANGED kernel => DirectoryInv'
  BY DEF DirectoryInv, Unmapped, kernel
<1>1. CASE Clone
  <2>1. /\ making \in Child /\ making' = making /\ pc' = "psd" /\ state' = state
        /\ pc = "clone" /\ pagedir \in [Child -> Child \union {NoDir}]
    BY <1>1 DEF Clone, TypeOK
  <2>2. \A p \in Child : Unmapped(p)' => Unmapped(p) /\ p # making
    BY <2>1 DEF Unmapped
  <2>3. CASE /\ pagedir' = [pagedir EXCEPT ![making] = making]
             /\ blocks' = blocks \union {Block("pagedir", making)}
    <3>1. \A p \in Child :
             Block("pagedir", p) \in blocks' <=> Block("pagedir", p) \in blocks \/ p = making
      BY <2>3 DEF Block
    <3> QED BY <2>1, <2>2, <2>3, <3>1, Names DEF DirectoryInv
  <2>4. CASE UNCHANGED <<pagedir, blocks>>
    BY <2>2, <2>4, DirectoryQuiet
  <2> QED BY <1>1, <2>3, <2>4 DEF Clone, Block
<1>2. CASE Create /\ ~Clone
  <2>1. UNCHANGED pagedir
    BY <1>2 DEF Create, process_create, Allocate, tcb_init, CreateFails, TakePid, Start
  <2>2. \A p \in Child : Block("pagedir", p) \in blocks' <=> Block("pagedir", p) \in blocks
    BY <1>2 DEF Create, process_create, Allocate, tcb_init, CreateFails, TakePid, Start,
                Refused, Block
  <2>3. \A p \in Child : Unmapped(p)' => Unmapped(p)
    <3>1. ASSUME NEW q \in Child, process_create(q)
          PROVE  \A p \in Child : Unmapped(p)' => Unmapped(p)
      BY <3>1, Names DEF process_create, Unmapped, TypeOK
    <3>2. ASSUME CreateFails \/ Start
          PROVE  \A p \in Child : Unmapped(p)' => Unmapped(p)
      BY <3>2, Names DEF CreateFails, Start, Unmapped, TypeOK
    <3>3. ASSUME tcb_init \/ TakePid
          PROVE  \A p \in Child : Unmapped(p)' => Unmapped(p)
      BY <3>3 DEF tcb_init, TakePid, Unmapped
    <3>4. ASSUME \/ Allocate("process", "process", "clone")
                 \/ Allocate("psd", "psd", "tcb")
                 \/ Allocate("tcb", "tcb", "kstack")
          PROVE  \A p \in Child : Unmapped(p)' => Unmapped(p)
      BY <3>4 DEF Allocate, Unmapped
    <3> QED BY <1>2, <3>1, <3>2, <3>3, <3>4 DEF Create
  <2> QED BY <2>1, <2>2, <2>3, DirectoryQuiet
<1>3. ASSUME NEW p \in Child, Exit(p) \/ PopZombie(p) PROVE DirectoryInv'
  <2>1. \A q \in Child : Unmapped(q)' => Unmapped(q)
    BY <1>3 DEF Exit, PopZombie, Unmapped, TypeOK
  <2> QED BY <1>3, <2>1, DirectoryQuiet DEF Exit, PopZombie
<1>4. CASE FreeZombie
  <2>1. \A q \in Child : Unmapped(q)' => Unmapped(q)
    BY <1>4 DEF FreeZombie, Unmapped
  <2>2. \A q \in Child : Block("pagedir", q) \in blocks' <=> Block("pagedir", q) \in blocks
    BY <1>4 DEF FreeZombie, Block
  <2> QED BY <1>4, <2>1, <2>2, DirectoryQuiet DEF FreeZombie
<1>5. ASSUME NEW t \in Thread, Switch(t) PROVE DirectoryInv'
  BY <1>0, <1>5 DEF Switch
<1>6. ASSUME NEW p \in Child,
             \/ StartFunc(p) \/ LoadProgram(p) \/ enter_ring3(p)
             \/ Ctor(p) \/ MainReturns(p) \/ Dtor(p) \/ Touch(p) \/ Syscall(p)
      PROVE  DirectoryInv'
  BY <1>0, <1>6 DEF StartFunc, LoadProgram, enter_ring3, Ctor, MainReturns, Dtor, Touch,
                    Syscall, Service
<1>7. CASE UNCHANGED vars
  BY <1>0, <1>7 DEF vars
<1> QED BY <1>1, <1>2, <1>3, <1>4, <1>5, <1>6, <1>7 DEF Next, Program

\* At any time the kernel heap holds for each process just the blocks that its
\* life so far accounts for, whichever allocation of process_create failed,
\* and its page directory is there from when it is cloned to the end.
THEOREM BlocksConserved == Spec => []BlocksAccounted
<1>1. Spec => [](TypeOK /\ BlocksInv /\ DirectoryInv)
  BY InitType, InitBlocks, StepType, StepBlocks, StepDirectory, PTL DEF Spec
<1> QED BY <1>1, BlocksAsSaid, PTL

-----------------------------------------------------------------------------
(* Pages of the heap of a process *)

LEMMA DivMonotone ==
  ASSUME NEW a \in Nat, NEW b \in Nat, a <= b, NEW P \in Nat \ {0}
  PROVE  a \div P \in Nat /\ b \div P \in Nat /\ a \div P <= b \div P
<1>1. a \div P \in Nat /\ P * (a \div P) <= a
  OBVIOUS
<1>2. b \div P \in Nat /\ b < P * (b \div P) + P
  OBVIOUS
<1>3. P * (a \div P) < P * (b \div P) + P
  BY <1>1, <1>2
<1>4. a \div P > b \div P => P * (a \div P) >= P * (b \div P) + P
  <2> DEFINE m == a \div P
             n == b \div P
  <2>1. m \in Nat /\ n \in Nat
    BY <1>1, <1>2
  <2> HIDE DEF m, n
  <2>2. m > n => P * m >= P * (n + 1)
    BY <2>1
  <2>3. P * (n + 1) = P * n + P
    BY <2>1
  <2>4. m > n => P * m >= P * n + P
    BY <2>2, <2>3
  <2> QED BY <2>4 DEF m, n
<1>5. P * (b \div P) \in Nat /\ P * (a \div P) \in Nat
  OBVIOUS
<1> QED BY <1>1, <1>2, <1>3, <1>4, <1>5

LEMMA DivNext ==
  ASSUME NEW a \in Nat, NEW P \in Nat \ {0}
  PROVE  (a + P) \div P = a \div P + 1
OBVIOUS

\* The pages of the first n bytes of a heap.
HeapPages(n) == HeapStart \div PAGE..(HeapStart + n - 1) \div PAGE

LEMMA Layout ==
  /\ W \in Nat /\ PAGE \in Nat \ {0} /\ HeapStart \in Nat \ {0} /\ HeapSize \in Nat
  /\ HeapStart % PAGE = 0 /\ HeapStart + HeapSize + PAGE < W
BY ProcessAssumption

\* An empty heap has no page: it starts at the beginning of one.
LEMMA NoPages == HeapPages(0) = {}
<1> DEFINE q == HeapStart \div PAGE
<1>1. HeapStart = PAGE * q /\ q \in Nat
  BY Layout
<1>2. (HeapStart - 1) \div PAGE < q
  <2>1. HeapStart - 1 \in Nat /\ HeapStart - 1 < PAGE * q
    BY <1>1, Layout
  <2>2. PAGE * ((HeapStart - 1) \div PAGE) <= HeapStart - 1 /\ (HeapStart - 1) \div PAGE \in Nat
    BY <2>1, Layout
  <2> DEFINE r == (HeapStart - 1) \div PAGE
  <2>3. PAGE * r < PAGE * q /\ r \in Nat
    BY <1>1, <2>1, <2>2, Layout
  <2> HIDE DEF r, q
  <2>4. r >= q => PAGE * r >= PAGE * q
    BY <1>1, <2>3, Layout
  <2>5. PAGE * r \in Nat /\ PAGE * q \in Nat
    BY <1>1, <2>3, Layout
  <2>6. r < q
    BY <1>1, <2>3, <2>4, <2>5
  <2> QED BY <2>6 DEF r
<1>3. (HeapStart - 1) \div PAGE \in Int
  BY Layout
<1> QED BY <1>1, <1>2, <1>3, Layout DEF HeapPages

\* What heap_alloc marks, and what was marked before, are the pages up to the
\* new break, also when a negative size has moved it back.
LEMMA SbrkPages ==
  ASSUME NEW r \in 0..W - 1, r < HeapSize \/ r = 0, NEW size \in 0..W - 1,
         (r + size) % W < HeapSize
  PROVE  HeapPages((r + size) % W) \subseteq
           HeapPages(r) \union
             ((HeapStart + r) \div PAGE..((HeapStart + r + size + PAGE - 1) % W) \div PAGE - 1)
<1> USE Layout
<1>0. r \in Nat /\ size \in Nat /\ r <= HeapSize
  OBVIOUS
<1>1. CASE r + size < W
  <2> DEFINE n == r + size
             x == HeapStart + n - 1
  <2>1. (r + size) % W = n /\ n \in Nat /\ n < HeapSize
    BY <1>0, <1>1
  <2>2. x \in Nat /\ HeapStart + r + size + PAGE - 1 = x + PAGE /\ x + PAGE < W
    BY <1>0, <2>1
  <2>3. (HeapStart + r + size + PAGE - 1) % W = x + PAGE
    <3> HIDE DEF x
    <3>1. (x + PAGE) % W = x + PAGE
      BY <2>2
    <3> QED BY <2>2, <3>1
  <2>4. (x + PAGE) \div PAGE = x \div PAGE + 1 /\ x \div PAGE \in Nat
    <3> HIDE DEF x
    <3>1. x \in Nat /\ x <= x
      BY <2>2
    <3> QED BY <3>1, DivNext, DivMonotone
  <2>5. (HeapStart + r) \div PAGE <= (HeapStart + r - 1) \div PAGE + 1
        /\ (HeapStart + r) \div PAGE \in Nat /\ (HeapStart + r - 1) \div PAGE \in Nat
    <3> DEFINE y == HeapStart + r - 1
    <3>1. y \in Nat /\ y + 1 <= y + PAGE /\ HeapStart + r = y + 1
      BY <1>0
    <3> HIDE DEF y
    <3>2. (y + PAGE) \div PAGE = y \div PAGE + 1
      BY <3>1, DivNext
    <3>3. (y + 1) \div PAGE <= (y + PAGE) \div PAGE /\ (y + 1) \div PAGE \in Nat
      BY <3>1, DivMonotone
    <3>4. y \div PAGE \in Nat
      BY <3>1, DivMonotone
    <3> QED BY <3>1, <3>2, <3>3, <3>4 DEF y
  <2>6. HeapStart \div PAGE \in Nat
    BY DivMonotone
  <2> SUFFICES ASSUME NEW v \in HeapStart \div PAGE..x \div PAGE, v > (HeapStart + r - 1) \div PAGE
               PROVE  v \in (HeapStart + r) \div PAGE..(x + PAGE) \div PAGE - 1
    BY <2>1, <2>3, <2>5, <2>6, <2>4 DEF HeapPages
  <2> HIDE DEF x, n
  <2> QED BY <2>4, <2>5, <2>6
<1>2. CASE r + size >= W
  <2> DEFINE n == r + size - W
  <2>1. (r + size) % W = n /\ n \in Nat /\ n < r
    BY <1>0, <1>2
  <2>2. (HeapStart + n - 1) \div PAGE <= (HeapStart + r - 1) \div PAGE
        /\ (HeapStart + n - 1) \div PAGE \in Nat /\ (HeapStart + r - 1) \div PAGE \in Nat
    <3>1. HeapStart + n - 1 \in Nat /\ HeapStart + r - 1 \in Nat /\ HeapStart + n - 1 <= HeapStart + r - 1
      BY <1>0, <2>1
    <3> QED BY <3>1, DivMonotone
  <2>3. HeapStart \div PAGE \in Nat
    BY DivMonotone
  <2> HIDE DEF n
  <2> QED BY <2>1, <2>2, <2>3 DEF HeapPages
<1> QED BY <1>0, <1>1, <1>2

-----------------------------------------------------------------------------
(* Address spaces *)

HasDir(p) == pagedir[p] # NoDir
HeapMarked(p) == \A v \in HeapPages(ptr[p]) : <<p, v>> \in marks
StackMarked(p) == \A v \in Stack : <<p, v>> \in marks

\* process_create has passed mmu_clone_pagedir.
Cloned(p) ==
    \/ state[p] \in {"ready", "zombie", "freed"}
    \/ making = p /\ pc \in {"psd", "tcb", "kstack", "pid", "run"}

\* A thread with a page directory runs in it, has its stack and its heap marked
\* there, and only something that ran out or did not load makes it halt.
AddressInv ==
    /\ \A p \in Child : pagedir[p] \in {p, NoDir}
    /\ current \in Child /\ HasDir(current) => cr3 = current
    /\ \A p \in Child : state[p] \in {"none", "failed"} => at[p] = "start"
    /\ \A p \in Child : at[p] = "start" => ptr[p] = 0
    /\ \A p \in Child : ptr[p] < HeapSize \/ ptr[p] = 0
    /\ \A p \in Child : HasDir(p) => HeapMarked(p)
    /\ \A p \in Child : HasDir(p) /\ at[p] # "start" => StackMarked(p)
    /\ \A p \in Child : Cloned(p) /\ ~HasDir(p) => oom
    /\ \A p \in Child : at[p] = "unset" => oom
    /\ halted => oom

LEMMA AddressAsSaid == TypeOK /\ AddressInv => BreakBacked /\ HaltsExplained
BY DEF TypeOK, AddressInv, BreakBacked, HaltsExplained, HasDir, HeapMarked, HeapPages

LEMMA InitAddress == Init => AddressInv
BY Names DEF Init, AddressInv, HasDir, Cloned, Thread

\* The program goes on, and nothing else changes.
LEMMA AddressQuiet ==
  ASSUME AddressInv, BlocksInv, NEW p \in Child, Runs(p), at[p] \notin {"start", "unset"},
         UNCHANGED <<pagedir, state, making, pc, cpu, ptr>>,
         at' = at \/ \E x \in Where \ {"start", "unset"} : at' = [at EXCEPT ![p] = x],
         at \in [Child -> Where]
  PROVE  AddressInv'
<1>1. state[p] = "ready"
  BY DEF Runs, BlocksInv
<1>2. \A q \in Child : at'[q] = at[q] \/ (q = p /\ at'[q] \notin {"start", "unset"})
  OBVIOUS
<1> QED BY <1>1, <1>2 DEF AddressInv, HasDir, HeapMarked, StackMarked, Cloned, cpu, Runs

\* A switch loads the page directory of the thread, if it has one.
LEMMA AddressSwitch ==
  ASSUME TypeOK, AddressInv, NEW t \in Thread, SwitchTo(t),
         UNCHANGED <<pagedir, making, pc, marks, oom, halted, at, ptr>>,
         \A q \in Child : state'[q] = state[q] \/ (state[q] = "ready" /\ state'[q] = "zombie")
  PROVE  AddressInv'
<1>1. current' \in Child /\ HasDir(current)' => cr3' = current'
  BY DEF SwitchTo, Loaded, AddressInv, HasDir, TypeOK
<1>2. \A q \in Child : /\ Cloned(q)' <=> Cloned(q)
                       /\ state'[q] \in {"none", "failed"} <=> state[q] \in {"none", "failed"}
  BY DEF Cloned
<1> QED BY <1>1, <1>2 DEF AddressInv, HasDir, HeapMarked, StackMarked

LEMMA CreateAddress ==
  ASSUME TypeOK, BlocksInv, AddressInv, Create
  PROVE  AddressInv'
<1>0. current = Main /\ current' = Main /\ UNCHANGED <<marks, at, ptr, cr3>>
  BY DEF Create, process_create, Allocate, Clone, tcb_init, CreateFails, TakePid, Start,
         Runs, Halt, cpu, user
<1>1. (oom => oom') /\ (halted' => halted \/ oom')
  BY DEF Create, process_create, Allocate, Clone, tcb_init, CreateFails, TakePid, Start, Halt, cpu
<1> SUFFICES /\ \A p \in Child : pagedir'[p] \in {p, NoDir}
             /\ \A p \in Child : state'[p] \in {"none", "failed"} => at[p] = "start"
             /\ \A p \in Child : HasDir(p)' => HeapMarked(p)
             /\ \A p \in Child : HasDir(p)' /\ at[p] # "start" => StackMarked(p)
             /\ \A p \in Child : Cloned(p)' /\ ~HasDir(p)' => oom'
  BY <1>0, <1>1, Names DEF AddressInv, HeapMarked, StackMarked
<1>2. CASE Clone
  <2>1. making \in Child /\ state' = state /\ making' = making /\ pc' = "psd" /\ pc = "clone"
    BY <1>2 DEF Clone, TypeOK
  <2>2. at[making] = "start" /\ ptr[making] = 0
    BY <2>1, Names DEF AddressInv, BlocksInv
  <2>3. HeapMarked(making)
    BY <2>2, NoPages DEF HeapMarked
  <2>4. CASE pagedir' = [pagedir EXCEPT ![making] = making] /\ UNCHANGED oom
    BY <2>1, <2>2, <2>3, <2>4, Names DEF AddressInv, HasDir, Cloned, TypeOK
  <2>5. CASE oom' = TRUE /\ UNCHANGED pagedir
    BY <2>1, <2>5 DEF AddressInv, HasDir
  <2> QED BY <1>2, <2>4, <2>5 DEF Clone
<1>3. CASE CreateFails
  <2>1. /\ making \in Child /\ making' = NoChild /\ pagedir' = pagedir /\ oom' = TRUE
        /\ state' = [state EXCEPT ![making] = "failed"]
    BY <1>3 DEF CreateFails, TypeOK
  <2>2. at[making] = "start"
    BY <2>1, Names DEF AddressInv, BlocksInv
  <2> QED BY <2>1, <2>2 DEF AddressInv, HasDir, TypeOK
<1>4. CASE Start
  <2>1. /\ making \in Child /\ making' = NoChild /\ pagedir' = pagedir /\ oom' = oom /\ pc = "run"
        /\ state' = [state EXCEPT ![making] = "ready"]
    BY <1>4 DEF Start, TypeOK, cpu
  <2>2. \A p \in Child : Cloned(p)' => Cloned(p)
    BY <2>1, Names DEF Cloned, TypeOK
  <2> QED BY <2>1, <2>2 DEF AddressInv, HasDir, TypeOK
<1>5. CASE \E p \in Child : process_create(p)
  <2>1. pagedir' = pagedir /\ state' = state /\ oom' = oom /\ pc = "idle" /\ pc' = "process"
    BY <1>5 DEF process_create, cpu
  <2>2. \A q \in Child : Cloned(q)' => Cloned(q)
    BY <2>1 DEF Cloned
  <2> QED BY <2>1, <2>2 DEF AddressInv, HasDir
<1>6. CASE Allocate("process", "process", "clone") \/ Allocate("psd", "psd", "tcb")
           \/ Allocate("tcb", "tcb", "kstack") \/ tcb_init \/ TakePid
  <2>1. pagedir' = pagedir /\ state' = state /\ making' = making
    BY <1>6 DEF Allocate, tcb_init, TakePid
  <2>2. \A q \in Child : Cloned(q)' => Cloned(q)
    <3>1. pc' \in {"psd", "tcb", "kstack", "pid", "run"} => pc \in {"psd", "tcb", "kstack", "pid", "run"}
      BY <1>6 DEF Allocate, tcb_init, TakePid
    <3> QED BY <2>1, <3>1 DEF Cloned
  <2> QED BY <1>0, <1>1, <2>1, <2>2 DEF AddressInv, HasDir
<1> QED BY <1>2, <1>3, <1>4, <1>5, <1>6 DEF Create

\* sbrk by the process that runs: what it marks, it marks for itself.
LEMMA ServiceAddress ==
  ASSUME TypeOK, BlocksInv, AddressInv,
         NEW p \in Child, NEW name, NEW n, NEW arg \in Argument, Service(p, name, n, arg)
  PROVE  AddressInv'
<1>1. /\ current = p /\ at[p] \notin {"start", "unset"} /\ state[p] = "ready"
      /\ UNCHANGED <<kernel, current, cr3, oom, halted, at>>
  BY InProgramAt DEF Service, Runs, BlocksInv
<1>2. CASE UNCHANGED <<ptr, marks>>
  BY <1>1, <1>2 DEF AddressInv, HasDir, HeapMarked, StackMarked, Cloned, kernel
<1>3. CASE Sbrk(p, arg) /\ ~HeapFull(p, arg)
  <2> DEFINE new == (HeapStart + ptr[p]) \div PAGE..HeapEnd(p, arg) - 1
  <2>1. /\ ptr' = [ptr EXCEPT ![p] = (ptr[p] + arg) % W]
        /\ marks' = marks \union ({cr3} \X new)
    BY <1>3 DEF Sbrk, Moved
  <2>2. ptr \in [Child -> 0..W - 1] /\ arg \in 0..W - 1
    BY ProcessAssumption DEF TypeOK
  <2>3. (ptr[p] + arg) % W < HeapSize
    <3>1. (ptr[p] + arg) % W \in Int
      BY <2>2, Words
    <3> QED BY <1>3, <3>1, Layout DEF HeapFull
  <2>4. HeapPages((ptr[p] + arg) % W) \subseteq HeapPages(ptr[p]) \union new
    <3>1. ptr[p] < HeapSize \/ ptr[p] = 0
      BY DEF AddressInv
    <3> QED BY <2>2, <2>3, <3>1, SbrkPages DEF HeapEnd
  <2> HIDE DEF new
  <2>5. \A q \in Child : ptr'[q] = IF q = p THEN (ptr[p] + arg) % W ELSE ptr[q]
    BY <2>1, <2>2
  <2>6. \A q \in Child : HasDir(q)' => HeapMarked(q)'
    <3> SUFFICES ASSUME NEW q \in Child, HasDir(q), NEW v \in HeapPages(ptr'[q])
                 PROVE  <<q, v>> \in marks'
      BY <1>1 DEF HasDir, HeapMarked, HeapPages, kernel
    <3>1. CASE q = p
      <4>1. cr3 = p
        BY <1>1, <3>1 DEF AddressInv
      <4>2. v \in HeapPages(ptr[p]) \/ v \in new
        BY <2>4, <2>5, <3>1
      <4> QED BY <2>1, <3>1, <4>1, <4>2 DEF AddressInv, HeapMarked
    <3>2. CASE q # p
      BY <2>1, <2>5, <3>2 DEF AddressInv, HeapMarked
    <3> QED BY <3>1, <3>2
  <2>7. \A q \in Child : StackMarked(q) => StackMarked(q)'
    BY <2>1 DEF StackMarked
  <2>8. \A q \in Child : /\ ptr'[q] < HeapSize \/ ptr'[q] = 0
                         /\ at[q] = "start" => ptr'[q] = 0
    BY <1>1, <2>3, <2>5 DEF AddressInv
  <2> QED BY <1>1, <2>6, <2>7, <2>8 DEF AddressInv, HasDir, Cloned, kernel
<1> QED BY <1>2, <1>3 DEF Service, Sbrk

LEMMA ThreadAddress ==
  ASSUME TypeOK, BlocksInv, AddressInv, NEW p \in Child,
         StartFunc(p) \/ LoadProgram(p) \/ enter_ring3(p)
  PROVE  AddressInv'
<1>0. at \in [Child -> Where] /\ ptr \in [Child -> 0..W - 1]
  BY DEF TypeOK, Where
<1>1. /\ current = p /\ state[p] = "ready" /\ UNCHANGED <<kernel, current, cr3>>
  BY DEF StartFunc, LoadProgram, enter_ring3, Runs, BlocksInv, Halt, cpu
<1>2. \A q \in Child : Cloned(q)' <=> Cloned(q)
  BY <1>1 DEF Cloned, kernel
<1>3. CASE StartFunc(p)
  <2>1. /\ ptr' = [ptr EXCEPT ![p] = 0] /\ at' = [at EXCEPT ![p] = "load"]
        /\ marks' = marks \union ({cr3} \X Stack) /\ UNCHANGED <<oom, halted>>
    BY <1>3 DEF StartFunc
  <2>2. ptr' = ptr
    <3>1. ptr[p] = 0
      BY <1>3 DEF StartFunc, AddressInv
    <3> QED BY <1>0, <2>1, <3>1
  <2>3. \A q \in Child : HeapMarked(q) => HeapMarked(q)'
    BY <2>1, <2>2 DEF HeapMarked, HeapPages
  <2>4. \A q \in Child : StackMarked(q) => StackMarked(q)'
    BY <2>1 DEF StackMarked
  <2>5. HasDir(p) => StackMarked(p)'
    BY <1>1, <2>1 DEF AddressInv, StackMarked
  <2>6. \A q \in Child : at'[q] = IF q = p THEN "load" ELSE at[q]
    BY <1>0, <2>1
  <2> QED BY <1>1, <1>2, <2>1, <2>2, <2>3, <2>4, <2>5, <2>6 DEF AddressInv, HasDir, kernel
<1>4. CASE LoadProgram(p) \/ enter_ring3(p)
  <2>1. /\ UNCHANGED <<ptr, marks>> /\ at[p] # "start"
        /\ \/ at' = at
           \/ at' = [at EXCEPT ![p] = "enter"]
           \/ at' = [at EXCEPT ![p] = "ctors"]
           \/ at' = [at EXCEPT ![p] = "unset"] /\ oom' = TRUE
    BY <1>4 DEF LoadProgram, enter_ring3, Halt, cpu
  <2>2. (oom => oom') /\ (halted' => halted \/ (at[p] = "unset" /\ oom' = oom))
    BY <1>4 DEF LoadProgram, enter_ring3, Halt, cpu
  <2>3. \A q \in Child : \/ at'[q] = at[q]
                         \/ q = p /\ at'[q] \notin {"start", "unset"}
                         \/ q = p /\ at'[q] = "unset" /\ oom'
    BY <1>0, <2>1
  <2>4. /\ \A q \in Child : at'[q] = "start" <=> at[q] = "start"
        /\ \A q \in Child : at'[q] = "unset" => oom'
        /\ halted' => oom'
    BY <2>1, <2>2, <2>3 DEF AddressInv
  <2> QED BY <1>1, <1>2, <2>1, <2>2, <2>4
          DEF AddressInv, HasDir, HeapMarked, StackMarked, kernel
<1> QED BY <1>3, <1>4

LEMMA TouchAddress ==
  ASSUME TypeOK, BlocksInv, AddressInv, NEW p \in Child, Touch(p)
  PROVE  AddressInv'
<1>1. /\ current = p /\ at[p] \notin {"start", "unset"} /\ state[p] = "ready"
      /\ UNCHANGED <<kernel, user, current, cr3, marks, oom>>
  BY InProgramAt DEF Touch, Runs, BlocksInv, Halt
<1>2. oom
  <2>1. CASE HasDir(p)
    <3>1. cr3 = p /\ HeapMarked(p) /\ StackMarked(p)
      BY <1>1, <2>1 DEF AddressInv
    <3>2. PICK v \in Used(p) : <<cr3, v>> \notin marks
      BY DEF Touch
    <3> QED BY <3>1, <3>2 DEF HeapMarked, StackMarked, Used, HeapPages
  <2>2. CASE ~HasDir(p)
    BY <1>1, <2>2 DEF AddressInv, Cloned
  <2> QED BY <2>1, <2>2
<1> QED BY <1>1, <1>2 DEF AddressInv, HasDir, HeapMarked, StackMarked, Cloned, kernel, user

LEMMA StepAddress == TypeOK /\ BlocksInv /\ AddressInv /\ [Next]_vars => AddressInv'
<1> SUFFICES ASSUME TypeOK, BlocksInv, AddressInv, [Next]_vars PROVE AddressInv'
  OBVIOUS
<1>0. at \in [Child -> Where] /\ state \in [Child -> {"none", "ready", "zombie", "freed", "failed"}]
  BY DEF TypeOK, Where
<1>1. ASSUME NEW t \in Thread, Switch(t) PROVE AddressInv'
  BY <1>1, AddressSwitch DEF Switch, kernel
<1>2. CASE Create
  BY <1>2, CreateAddress
<1>3. ASSUME NEW p \in Child, StartFunc(p) \/ LoadProgram(p) \/ enter_ring3(p) PROVE AddressInv'
  BY <1>3, ThreadAddress
<1>4. ASSUME NEW p \in Child, Ctor(p) \/ MainReturns(p) \/ Dtor(p) PROVE AddressInv'
  <2>1. /\ Runs(p) /\ at[p] \notin {"start", "unset"}
        /\ UNCHANGED <<pagedir, state, making, pc, cpu, ptr>>
    BY <1>4 DEF Ctor, MainReturns, Dtor, kernel
  <2>2. at' = at \/ \E x \in Where \ {"start", "unset"} : at' = [at EXCEPT ![p] = x]
    BY <1>4 DEF Ctor, MainReturns, Dtor, Where
  <2> QED BY <1>0, <2>1, <2>2, AddressQuiet
<1>5. ASSUME NEW p \in Child, Touch(p) PROVE AddressInv'
  BY <1>5, TouchAddress
<1>6. ASSUME NEW p \in Child, Syscall(p) PROVE AddressInv'
  BY <1>6, ServiceAddress DEF Syscall
<1>7. ASSUME NEW p \in Child, Exit(p) PROVE AddressInv'
  <2>1. PICK t \in Thread : SwitchTo(t)
    BY <1>7 DEF Exit, Thread
  <2>2. state[p] = "ready" /\ state' = [state EXCEPT ![p] = "zombie"]
    BY <1>7 DEF Exit, Runs, BlocksInv
  <2>3. \A q \in Child : state'[q] = state[q] \/ (state[q] = "ready" /\ state'[q] = "zombie")
    BY <1>0, <2>2
  <2> QED BY <1>7, <2>1, <2>3, AddressSwitch DEF Exit
<1>8. ASSUME NEW p \in Child, PopZombie(p) \/ FreeZombie PROVE AddressInv'
  <2>1. /\ state' = state \/ (state[p] = "zombie" /\ state' = [state EXCEPT ![p] = "freed"])
        /\ UNCHANGED <<pc, making, pagedir, cpu, user>>
    BY <1>8 DEF PopZombie, FreeZombie
  <2>2. \A q \in Child : /\ Cloned(q)' <=> Cloned(q)
                         /\ state'[q] \in {"none", "failed"} <=> state[q] \in {"none", "failed"}
    BY <1>0, <2>1 DEF Cloned
  <2> QED BY <2>1, <2>2 DEF AddressInv, HasDir, HeapMarked, StackMarked, cpu, user
<1>9. CASE UNCHANGED vars
  BY <1>9 DEF AddressInv, HasDir, HeapMarked, StackMarked, Cloned, vars, kernel, cpu, user
<1>10. FreeZombie => \E p \in Child : p = victim
  BY DEF FreeZombie, TypeOK
<1> QED BY <1>1, <1>2, <1>3, <1>4, <1>5, <1>6, <1>7, <1>8, <1>9, <1>10 DEF Next, Program

LEMMA AddressInvariance == Spec => [](TypeOK /\ BlocksInv /\ AddressInv)
BY InitType, InitBlocks, InitAddress, StepType, StepBlocks, StepAddress, PTL DEF Spec

\* Whatever programs ask of sbrk, a break stays inside its heap, and what is
\* below it is marked in the page directory of the process.
THEOREM BreaksBacked == Spec => []BreakBacked
BY AddressInvariance, AddressAsSaid, PTL

\* No program that uses its stack and its heap stops the machine, unless an
\* allocation or a load has failed before.
THEOREM OnlyExplainedHalts == Spec => []HaltsExplained
BY AddressInvariance, AddressAsSaid, PTL

-----------------------------------------------------------------------------
(* Process ids *)

Taken == {p \in Child : pid[p] # 0}

\* A process that was started has an id, another than everybody else, and the
\* next id is the number of those before it: it comes round to 0 only after
\* every process has got one.
PidInv ==
    /\ \A p \in Child : (pid[p] # 0 <=> \/ state[p] \in {"ready", "zombie", "freed"}
                                        \/ (making = p /\ pc = "run"))
    /\ \A p, q \in Child : p # q /\ pid[p] = pid[q] => pid[p] = 0
    /\ \A p \in Child : pid[p] <= Cardinality(Taken)
    /\ Taken # Child => next_process_id = Cardinality(Taken) + 1

FewProcesses == IsFiniteSet(Child) /\ Cardinality(Child) < W

LEMMA TakenSize ==
  ASSUME FewProcesses
  PROVE  /\ IsFiniteSet(Taken) /\ Cardinality(Taken) \in Nat /\ Cardinality(Child) \in Nat
         /\ Taken # Child => Cardinality(Taken) < Cardinality(Child)
<1>1. IsFiniteSet(Child) /\ Taken \subseteq Child
  BY DEF FewProcesses, Taken
<1>2. /\ IsFiniteSet(Taken)
      /\ Cardinality(Taken) <= Cardinality(Child)
      /\ Cardinality(Taken) = Cardinality(Child) => Taken = Child
  BY <1>1, FS_Subset
<1>3. Cardinality(Taken) \in Nat /\ Cardinality(Child) \in Nat
  BY <1>1, <1>2, FS_CardinalityType
<1> QED BY <1>2, <1>3

LEMMA InitPid == Init /\ FewProcesses => PidInv
<1> SUFFICES ASSUME Init, FewProcesses PROVE PidInv
  OBVIOUS
<1>1. Taken = {} /\ \A p \in Child : pid[p] = 0
  BY DEF Init, Taken
<1>2. Cardinality(Taken) = 0
  BY <1>1, FS_EmptySet
<1>3. \A p \in Child : state[p] = "none" /\ making # p
  BY Names DEF Init
<1>4. next_process_id = 1
  BY DEF Init
<1> QED BY <1>1, <1>2, <1>3, <1>4 DEF PidInv

\* Nobody gets an id, and nobody is started who has none.
LEMMA PidQuiet ==
  ASSUME PidInv, UNCHANGED <<pid, next_process_id>>,
         \A p \in Child : (\/ state'[p] \in {"ready", "zombie", "freed"}
                           \/ (making' = p /\ pc' = "run"))
                       <=> (\/ state[p] \in {"ready", "zombie", "freed"}
                            \/ (making = p /\ pc = "run"))
  PROVE  PidInv'
<1>1. Taken' = Taken
  BY DEF Taken
<1> QED BY <1>1 DEF PidInv

LEMMA TakePidInv ==
  ASSUME FewProcesses, TypeOK, BlocksInv, PidInv, TakePid
  PROVE  PidInv'
<1> DEFINE c == Cardinality(Taken)
           new == next_process_id
<1>1. /\ making \in Child /\ pc = "pid" /\ pc' = "run" /\ UNCHANGED <<making, state>>
      /\ pid' = [pid EXCEPT ![making] = new] /\ next_process_id' = (new + 1) % W
      /\ state[making] = "none" /\ pid \in [Child -> 0..W - 1]
  BY Names DEF TakePid, NextPid, TypeOK, BlocksInv
<1>2. pid[making] = 0 /\ making \notin Taken /\ Taken # Child
  BY <1>1 DEF PidInv, Taken
<1>3. /\ new = c + 1 /\ c \in Nat /\ IsFiniteSet(Taken) /\ c < Cardinality(Child)
      /\ Cardinality(Child) \in Nat /\ W \in Nat /\ Cardinality(Child) < W
  BY <1>2, TakenSize, Words DEF PidInv, FewProcesses
<1>4. \A p \in Child : pid'[p] = IF p = making THEN c + 1 ELSE pid[p]
  BY <1>1, <1>3
<1>5. \A p \in Child : pid[p] \in Nat /\ pid[p] <= c
  <2>1. \A p \in Child : pid[p] \in 0..W - 1
    BY <1>1
  <2> QED BY <1>3, <2>1 DEF PidInv
<1>6. Taken' = Taken \union {making}
  <2>1. \A p \in Child : pid'[p] # 0 <=> (p = making \/ pid[p] # 0)
    BY <1>3, <1>4
  <2> QED BY <1>1, <2>1 DEF Taken
<1>7. Cardinality(Taken') = c + 1
  BY <1>2, <1>3, <1>6, FS_AddElement
<1>8. (\A p \in Child : (pid'[p] # 0 <=> \/ state'[p] \in {"ready", "zombie", "freed"}
                                         \/ (making' = p /\ pc' = "run")))
  <2>1. \A p \in Child : pid'[p] # 0 <=> (p = making \/ pid[p] # 0)
    BY <1>3, <1>4
  <2> QED BY <1>1, <2>1 DEF PidInv
<1>9. ASSUME NEW p \in Child, NEW q \in Child, p # q, pid'[p] = pid'[q] PROVE pid'[p] = 0
  <2>1. pid[p] \in Nat /\ pid[p] <= c /\ pid[q] \in Nat /\ pid[q] <= c
    BY <1>5
  <2> HIDE DEF c
  <2>2. p # making /\ q # making
    BY <1>3, <1>4, <1>9, <2>1
  <2> QED BY <1>4, <1>9, <2>2 DEF PidInv
<1>10. \A p \in Child : pid'[p] <= c + 1
  <2> HIDE DEF c
  <2> QED BY <1>3, <1>4, <1>5
<1>11. ASSUME Taken' # Child PROVE next_process_id' = (c + 1) + 1
  <2>1. IsFiniteSet(Taken') /\ Taken' \subseteq Child /\ IsFiniteSet(Child)
    <3>1. Taken \subseteq Child /\ IsFiniteSet(Child)
      BY DEF Taken, FewProcesses
    <3> QED BY <1>1, <1>6, <3>1, FS_Subset
  <2>2. /\ Cardinality(Taken') <= Cardinality(Child)
        /\ Cardinality(Taken') = Cardinality(Child) => Taken' = Child
    BY <2>1, FS_Subset
  <2>3. c + 1 < Cardinality(Child)
    BY <1>3, <1>7, <1>11, <2>2
  <2> HIDE DEF c, new
  <2>4. new + 1 \in 0..W - 1
    BY <1>3, <2>3
  <2>5. (new + 1) % W = new + 1
    BY <1>3, <2>4
  <2> QED BY <1>1, <1>3, <2>5
<1> QED BY <1>7, <1>8, <1>9, <1>10, <1>11 DEF PidInv

LEMMA StepPid ==
  ASSUME FewProcesses, TypeOK, BlocksInv, PidInv, [Next]_vars
  PROVE  PidInv'
<1>0. state \in [Child -> {"none", "ready", "zombie", "freed", "failed"}]
  BY DEF TypeOK
<1>1. CASE TakePid
  BY <1>1, TakePidInv
<1>2. ASSUME NEW p \in Child, process_create(p) PROVE PidInv'
  BY <1>2, PidQuiet, Names DEF process_create, TypeOK
<1>3. CASE Allocate("process", "process", "clone") \/ Clone \/ Allocate("psd", "psd", "tcb")
           \/ Allocate("tcb", "tcb", "kstack") \/ tcb_init
  <2>1. UNCHANGED <<pid, next_process_id, state, making>> /\ pc # "run" /\ pc' # "run"
    BY <1>3 DEF Allocate, Clone, tcb_init
  <2> QED BY <2>1, PidQuiet
<1>4. CASE CreateFails
  <2>1. /\ making \in Child /\ state' = [state EXCEPT ![making] = "failed"] /\ making' = NoChild
        /\ UNCHANGED <<pid, next_process_id>> /\ pc = "kstack" /\ pc' = "idle"
    BY <1>4 DEF CreateFails, TypeOK
  <2>2. state[making] = "none"
    BY <2>1, Names DEF BlocksInv
  <2> QED BY <1>0, <2>1, <2>2, PidQuiet
<1>5. CASE Start
  <2>1. /\ making \in Child /\ state' = [state EXCEPT ![making] = "ready"] /\ making' = NoChild
        /\ UNCHANGED <<pid, next_process_id>> /\ pc = "run" /\ pc' = "idle"
    BY <1>5 DEF Start, TypeOK
  <2> QED BY <1>0, <2>1, PidQuiet
<1>6. ASSUME NEW p \in Child, Exit(p) PROVE PidInv'
  <2>1. /\ state[p] = "ready" /\ state' = [state EXCEPT ![p] = "zombie"]
        /\ UNCHANGED <<pid, next_process_id, making, pc>>
    BY <1>6 DEF Exit, Runs, BlocksInv
  <2> QED BY <1>0, <2>1, PidQuiet
<1>7. ASSUME NEW p \in Child, PopZombie(p) PROVE PidInv'
  <2>1. /\ state[p] = "zombie" /\ state' = [state EXCEPT ![p] = "freed"]
        /\ UNCHANGED <<pid, next_process_id, making, pc>>
    BY <1>7 DEF PopZombie
  <2> QED BY <1>0, <2>1, PidQuiet
<1>8. ASSUME UNCHANGED <<pid, next_process_id, state, making, pc>> PROVE PidInv'
  BY <1>8, PidQuiet
<1>9. ASSUME NEW t \in Thread, Switch(t) PROVE PidInv'
  BY <1>8, <1>9 DEF Switch, kernel
<1>10. ASSUME NEW p \in Child,
              \/ StartFunc(p) \/ LoadProgram(p) \/ enter_ring3(p)
              \/ Ctor(p) \/ MainReturns(p) \/ Dtor(p) \/ Touch(p) \/ Syscall(p)
       PROVE  PidInv'
  BY <1>8, <1>10 DEF StartFunc, LoadProgram, enter_ring3, Ctor, MainReturns, Dtor, Touch,
                     Syscall, Service, kernel
<1>11. CASE FreeZombie \/ UNCHANGED vars
  BY <1>8, <1>11 DEF FreeZombie, vars, kernel
<1> QED BY <1>1, <1>2, <1>3, <1>4, <1>5, <1>6, <1>7, <1>9, <1>10, <1>11
        DEF Next, Create, Program

-----------------------------------------------------------------------------
(* What system calls answer *)

\* The number that a stub loads finds its own service in the table.
LEMMA Dispatching ==
  /\ \A name \in DOMAIN libgloss \ {"_exit"} :
        /\ Dispatched(libgloss[name]) = name
        /\ name \in {"open", "close", "read", "write", "lseek", "unlink", "getpid", "kill",
                     "fstat", "sbrk", "usleep"}
  /\ Dispatched(0) = "null" /\ Dispatched(13) = "fault"
<1>1. DOMAIN libgloss = {"_exit", "open", "close", "read", "write", "lseek", "unlink", "getpid", "kill",
                         "fstat", "sbrk", "usleep"}
  BY DEF libgloss
<1>2. /\ libgloss["open"] = 2 /\ libgloss["close"] = 3 /\ libgloss["read"] = 4
      /\ libgloss["write"] = 5 /\ libgloss["lseek"] = 6 /\ libgloss["unlink"] = 7
      /\ libgloss["getpid"] = 8 /\ libgloss["kill"] = 9 /\ libgloss["fstat"] = 10
      /\ libgloss["sbrk"] = 11 /\ libgloss["usleep"] = 12
  BY DEF libgloss
<1>3. /\ syscall_table[1] = "null" /\ syscall_table[3] = "open" /\ syscall_table[4] = "close"
      /\ syscall_table[5] = "read" /\ syscall_table[6] = "write" /\ syscall_table[7] = "lseek"
      /\ syscall_table[8] = "unlink" /\ syscall_table[9] = "getpid"
      /\ syscall_table[10] = "kill" /\ syscall_table[11] = "fstat"
      /\ syscall_table[12] = "sbrk" /\ syscall_table[13] = "usleep"
  BY DEF syscall_table
<1>4. /\ Dispatched(0) = "null" /\ Dispatched(13) = "fault"
      /\ Dispatched(2) = "open" /\ Dispatched(3) = "close" /\ Dispatched(4) = "read"
      /\ Dispatched(5) = "write" /\ Dispatched(6) = "lseek" /\ Dispatched(7) = "unlink"
      /\ Dispatched(8) = "getpid" /\ Dispatched(9) = "kill" /\ Dispatched(10) = "fstat"
      /\ Dispatched(11) = "sbrk" /\ Dispatched(12) = "usleep"
  BY <1>3 DEF Dispatched
<1> QED BY <1>1, <1>2, <1>4

\* What a service has done for its caller, whose program is past the call.
Answer1 ==
    CASE last.name = "getpid" -> last.answer = pid[last.of]
      [] last.name = "sbrk"   ->
            last.answer # None => (last.answer + last.arg) % W = HeapStart + ptr[last.of]
      [] last.name = "write"  -> last.answer = last.arg
      [] last.name = "usleep" -> last.answer = 0 /\ last.slept * Second <= last.arg * Ticks
      [] last.name = "fstat"  -> last.answer \in {0, Minus1}
      [] OTHER                -> last.answer = Minus1

CallInv ==
    last # NoCall =>
        /\ last.of \in Child /\ current = last.of
        /\ at[last.of] \in {"ctors", "main", "dtors", "_exit"}
        /\ Answer1

\* sbrk answers the break that it moves, also when the sum wraps.
LEMMA SbrkAnswer ==
  ASSUME NEW r \in 0..W - 1, NEW size \in 0..W - 1, (r + size) % W < HeapSize
  PROVE  ((HeapStart + r) + size) % W = HeapStart + ((r + size) % W)
<1>0. HeapStart \in Nat /\ HeapSize \in Nat /\ HeapStart + HeapSize < W /\ W \in Nat
      /\ r \in Nat /\ size \in Nat
  BY Layout
<1>1. CASE r + size < W
  <2>1. (r + size) % W = r + size
    BY <1>0, <1>1
  <2>2. (HeapStart + r) + size \in 0..W - 1
    BY <1>0, <2>1
  <2>3. ((HeapStart + r) + size) % W = (HeapStart + r) + size
    BY <1>0, <2>2
  <2> QED BY <1>0, <2>1, <2>3
<1>2. CASE r + size >= W
  <2> DEFINE n == (r + size) - W
  <2>1. n \in 0..W - 1 /\ r + size = n + W
    BY <1>0, <1>2
  <2>2. (r + size) % W = n
    BY <1>0, <2>1
  <2>3. HeapStart + n \in 0..W - 1 /\ (HeapStart + r) + size = (HeapStart + n) + W
    BY <1>0, <2>1, <2>2
  <2> HIDE DEF n
  <2> DEFINE x == HeapStart + n
  <2>4. x \in 0..W - 1 /\ W \in Nat
    BY <1>0, <2>3
  <2> HIDE DEF x
  <2>5. (x + W) % W = x
    BY <2>4
  <2> QED BY <2>2, <2>3, <2>5 DEF x
<1> QED BY <1>0, <1>1, <1>2

\* The ticks of a sleep are never more than was asked for: the product may
\* lose its upper part, and the division rounds down.
LEMMA SleepNotLonger ==
  ASSUME NEW usec \in 0..W - 1
  PROVE  SleepTicks(usec) * Second <= usec * Ticks
<1> DEFINE x == usec * Ticks
           y == x % W
<1>0. W \in Nat \ {0} /\ Second \in Nat \ {0} /\ Ticks \in Nat /\ usec \in Nat
  BY Words, ProcessAssumption
<1>1. x \in Nat
  BY <1>0
<1> HIDE DEF x
<1>2. y \in Nat /\ y <= x
  <2> SUFFICES ASSUME NEW a \in Nat, NEW b \in Nat \ {0} PROVE a % b \in Nat /\ a % b <= a
    BY <1>0, <1>1
  <2>1. a % b \in Nat /\ a = b * (a \div b) + (a % b)
    OBVIOUS
  <2>2. b * (a \div b) \in Nat
    OBVIOUS
  <2> QED BY <2>1, <2>2
<1> HIDE DEF y
<1>3. (y \div Second) * Second <= y
  BY <1>0, <1>2
<1>4. (y \div Second) * Second \in Int
  BY <1>0, <1>2
<1> QED BY <1>1, <1>2, <1>3, <1>4 DEF SleepTicks, x, y

\* A call records what it has done.
LEMMA ServiceCall ==
  ASSUME TypeOK, BlocksInv, AddressInv, NEW p \in Child, NEW arg \in Argument,
         NEW name, NEW n,
         \/ name \in DOMAIN libgloss \ {"_exit"} /\ n = libgloss[name]
         \/ name = "other" /\ n \in {0, 13},
         Service(p, name, n, arg)
  PROVE  CallInv'
<1> DEFINE service == Dispatched(n)
           answer == Answer(p, service, arg)
<1>1. /\ service = name \/ (name = "other" /\ service \in {"null", "fault"})
      /\ name \in {"open", "close", "read", "write", "lseek", "unlink", "getpid", "kill",
                   "fstat", "sbrk", "usleep", "other"}
  BY Dispatching
<1> HIDE DEF service
<1>2. /\ last' = [of |-> p, name |-> name, arg |-> arg, answer |-> answer,
                  slept |-> IF service = "usleep" THEN SleepTicks(arg) ELSE 0]
      /\ current' = p /\ at' = at /\ at[p] \in {"ctors", "main", "dtors"} /\ pid' = pid
      /\ IF service = "sbrk" THEN Sbrk(p, arg) ELSE UNCHANGED <<ptr, marks>>
  BY InProgramAt DEF Service, Runs, kernel, service
<1>3. /\ last'.of = p /\ last'.name = name /\ last'.arg = arg /\ last'.answer = answer
      /\ last'.slept = IF service = "usleep" THEN SleepTicks(arg) ELSE 0
  BY <1>2
<1>4. arg \in 0..W - 1 /\ ptr \in [Child -> 0..W - 1]
  BY ProcessAssumption DEF TypeOK
<1>5. ASSUME name = "getpid" PROVE answer = pid[p]
  BY <1>1, <1>5 DEF Answer
<1>6. ASSUME name = "sbrk", answer # None PROVE (answer + arg) % W = HeapStart + ptr'[p]
  <2>1. service = "sbrk" /\ ~HeapFull(p, arg) /\ answer = HeapStart + ptr[p]
    BY <1>1, <1>6 DEF Answer
  <2>2. ptr'[p] = (ptr[p] + arg) % W
    BY <1>2, <1>4, <2>1 DEF Sbrk, Moved
  <2>3. (ptr[p] + arg) % W < HeapSize
    <3>1. (ptr[p] + arg) % W \in Int
      BY <1>4, Words
    <3> QED BY <2>1, <3>1, Layout DEF HeapFull
  <2>4. ptr[p] \in 0..W - 1
    BY <1>4
  <2> QED BY <1>4, <2>1, <2>2, <2>3, <2>4, SbrkAnswer
<1>7. ASSUME name = "write" PROVE answer = arg
  BY <1>1, <1>7 DEF Answer
<1>8. ASSUME name = "usleep" PROVE answer = 0 /\ last'.slept * Second <= arg * Ticks
  <2>1. service = "usleep"
    BY <1>1, <1>8
  <2> QED BY <1>3, <1>4, <2>1, SleepNotLonger DEF Answer
<1>9. ASSUME name = "fstat" PROVE answer \in {0, Minus1}
  BY <1>1, <1>9 DEF Answer
<1>10. ASSUME name \notin {"getpid", "sbrk", "write", "usleep", "fstat"} PROVE answer = Minus1
  BY <1>1, <1>10 DEF Answer
<1> HIDE DEF answer
<1>11. Answer1'
  BY <1>2, <1>3, <1>5, <1>6, <1>7, <1>8, <1>9, <1>10 DEF Answer1
<1> QED BY <1>2, <1>3, <1>11 DEF CallInv

\* Until the caller gives the processor away, nothing it was told changes.
LEMMA StepCall ==
  ASSUME TypeOK, BlocksInv, AddressInv, CallInv, [Next]_vars
  PROVE  CallInv'
<1> SUFFICES ASSUME last' # NoCall PROVE CallInv'
  BY DEF CallInv
<1>0. last # NoCall => /\ last.of \in Child /\ current = last.of
                       /\ current # Main /\ current # Cleaner
                       /\ at[last.of] \in {"ctors", "main", "dtors", "_exit"}
                       /\ Answer1
  BY Names DEF CallInv
<1>00. at \in [Child -> Where]
  BY DEF TypeOK, Where
<1>1. ASSUME NEW t \in Thread, Switch(t) PROVE FALSE
  BY <1>1 DEF Switch
<1>2. ASSUME Create PROVE FALSE
  <2>1. current = Main /\ last' = last
    BY <1>2 DEF Create, process_create, Allocate, Clone, tcb_init, CreateFails, TakePid, Start,
                Runs, user
  <2> QED BY <1>0, <2>1
<1>3. ASSUME NEW p \in Child, StartFunc(p) \/ LoadProgram(p) \/ enter_ring3(p)
      PROVE  FALSE
  <2>1. current = p /\ last' = last /\ at[p] \in {"start", "load", "enter", "unset"}
    BY <1>3 DEF StartFunc, LoadProgram, enter_ring3, Runs
  <2> QED BY <1>0, <2>1
<1>4. ASSUME NEW p \in Child, Ctor(p) \/ MainReturns(p) \/ Dtor(p) \/ Touch(p) PROVE CallInv'
  <2>1. /\ UNCHANGED <<last, current, pid, ptr>>
        /\ \/ at' = at
           \/ at' = [at EXCEPT ![p] = "main"]
           \/ at' = [at EXCEPT ![p] = "dtors"]
           \/ at' = [at EXCEPT ![p] = "_exit"]
    BY <1>4 DEF Ctor, MainReturns, Dtor, Touch, Halt, kernel, cpu, user
  <2>2. at'[last.of] \in {"ctors", "main", "dtors", "_exit"}
    BY <1>0, <1>00, <2>1
  <2> QED BY <1>0, <2>1, <2>2 DEF CallInv, Answer1
<1>5. ASSUME NEW p \in Child, Syscall(p) PROVE CallInv'
  <2>1. PICK arg \in Argument :
           \/ \E name \in DOMAIN libgloss \ {"_exit"} : Service(p, name, libgloss[name], arg)
           \/ \E n \in {0, 13} : Service(p, "other", n, arg)
    BY <1>5 DEF Syscall
  <2> QED BY <2>1, ServiceCall
<1>6. ASSUME NEW p \in Child, Exit(p) PROVE FALSE
  BY <1>6 DEF Exit
<1>7. ASSUME (\E p \in Child : PopZombie(p)) \/ FreeZombie PROVE FALSE
  <2>1. current = Cleaner /\ last' = last
    BY <1>7 DEF PopZombie, FreeZombie, Runs, user
  <2> QED BY <1>0, <2>1
<1>8. ASSUME UNCHANGED vars PROVE CallInv'
  BY <1>8 DEF CallInv, Answer1, vars, kernel, cpu, user
<1> QED BY <1>1, <1>2, <1>3, <1>4, <1>5, <1>6, <1>7, <1>8 DEF Next, Program

LEMMA CallAsSaid ==
  ASSUME TypeOK, BlocksInv, PidInv, CallInv
  PROVE  Answered
<1> SUFFICES ASSUME last # NoCall
             PROVE  last.name = "getpid" =>
                      /\ pid[last.of] # 0
                      /\ \A q \in Child \ {last.of} : state[q] = "ready" => pid[q] # pid[last.of]
  BY DEF Answered, CallInv, Answer1
<1>1. last.of \in Child /\ state[last.of] = "ready"
  BY DEF CallInv, BlocksInv
<1> QED BY <1>1 DEF PidInv

\* Whatever programs call, in whatever order and with whatever arguments, each
\* stub of libgloss answers what the service of that name promises; with fewer
\* than W processes no two of them get the same process id.
THEOREM CallsAnswered ==
  ASSUME FewProcesses
  PROVE  Spec => []Answered
<1>1. Init => PidInv /\ CallInv
  BY InitPid DEF Init, CallInv
<1>2. TypeOK /\ BlocksInv /\ AddressInv /\ PidInv /\ CallInv /\ [Next]_vars => PidInv' /\ CallInv'
  BY StepPid, StepCall
<1>3. TypeOK /\ BlocksInv /\ PidInv /\ CallInv => Answered
  BY CallAsSaid
<1> QED BY <1>1, <1>2, <1>3, AddressInvariance, PTL DEF Spec

-----------------------------------------------------------------------------
(* The order of constructors, main and destructors *)

CalledNext(table, f, i) ==
    IF i = 0 THEN <<>> ELSE IF IsMarker(table[i]) THEN f[i - 1] ELSE Append(f[i - 1], table[i])

\* The recursion that defines Called has a solution: otherwise there would be
\* a shortest part of the table for which it has none.
LEMMA CalledExists ==
  ASSUME NEW table \in Seq(Int)
  PROVE  \E f : f = [i \in 0..Len(table) |-> CalledNext(table, f, i)]
<1> DEFINE Part(n) == \E f : f = [i \in 0..n |-> CalledNext(table, f, i)]
           T == {n \in Nat : ~Part(n)}
<1>1. Len(table) \in Nat
  BY LenProperties
<1>2. ASSUME T # {} PROVE FALSE
  <2>1. PICK n \in T : \A m \in T : n <= m
    <3>1. T \subseteq Nat
      OBVIOUS
    <3> HIDE DEF T
    <3> QED BY <1>2, <3>1, LeastNat
  <2>2. n \in Nat /\ ~Part(n)
    BY <2>1
  <2>3. n # 0
    <3> DEFINE g == [i \in 0..0 |-> <<>>]
    <3>1. g = [i \in 0..0 |-> CalledNext(table, g, i)]
      <4>1. \A i \in 0..0 : CalledNext(table, g, i) = <<>>
        BY DEF CalledNext
      <4> QED BY <4>1
    <3> QED BY <2>2, <3>1
  <2>4. n - 1 \in Nat /\ ~(n <= n - 1)
    BY <2>2, <2>3
  <2>5. Part(n - 1)
    BY <2>1, <2>4
  <2>6. PICK f : f = [i \in 0..(n - 1) |-> CalledNext(table, f, i)]
    BY <2>5
  <2> DEFINE g == [i \in 0..n |-> IF i <= n - 1 THEN f[i] ELSE CalledNext(table, f, n)]
  <2>7. \A i \in 0..(n - 1) : f[i] = CalledNext(table, f, i)
    BY <2>6
  <2>8. ASSUME NEW i \in 0..n PROVE g[i] = CalledNext(table, g, i)
    <3>1. g[i] = CalledNext(table, f, i)
      <4>1. i <= n - 1 => i \in 0..(n - 1)
        BY <2>4
      <4>2. ~(i <= n - 1) => i = n
        BY <2>4
      <4> QED BY <2>7, <4>1, <4>2
    <3>2. i # 0 => g[i - 1] = f[i - 1]
      <4>1. i # 0 => i - 1 \in 0..n /\ i - 1 <= n - 1
        BY <2>4
      <4> QED BY <4>1
    <3> HIDE DEF g
    <3> QED BY <3>1, <3>2 DEF CalledNext
  <2>9. g = [i \in 0..n |-> g[i]]
    OBVIOUS
  <2> HIDE DEF g
  <2>10. g = [i \in 0..n |-> CalledNext(table, g, i)]
    BY <2>8, <2>9
  <2> QED BY <2>2, <2>10
<1> QED BY <1>1, <1>2

LEMMA CalledIs ==
  ASSUME NEW table \in Seq(Int)
  PROVE  \A i \in 0..Len(table) : Called(table)[i] = CalledNext(table, Called(table), i)
<1> DEFINE C == CHOOSE f : f = [i \in 0..Len(table) |-> CalledNext(table, f, i)]
<1>1. C = [i \in 0..Len(table) |-> CalledNext(table, C, i)]
  BY CalledExists
<1>2. Called(table) = C
  BY DEF Called, CalledNext
<1> HIDE DEF C
<1>3. \A i \in 0..Len(table) : C[i] = CalledNext(table, C, i)
  BY <1>1
<1> QED BY <1>2, <1>3

\* t is s and something more.
Extends(s, t) == \E r \in Seq(Int \union {main}) : t = s \o r

LEMMA CalledSeq ==
  ASSUME NEW table \in Seq(Int)
  PROVE  /\ Called(table)[0] = <<>>
         /\ \A i \in 1..Len(table) :
               Called(table)[i] = IF IsMarker(table[i]) THEN Called(table)[i - 1]
                                  ELSE Append(Called(table)[i - 1], table[i])
         /\ \A i \in 0..Len(table) : Called(table)[i] \in Seq(Int)
<1> DEFINE C == Called(table)
           m == Len(table)
           T == {n \in 0..m : C[n] \notin Seq(Int)}
<1>1. m \in Nat /\ \A i \in 1..m : table[i] \in Int
  BY LenProperties, ElementOfSeq
<1>2. \A i \in 0..m : C[i] = CalledNext(table, C, i)
  BY CalledIs
<1> HIDE DEF C, m
<1>3. C[0] = <<>>
  <2>1. 0 \in 0..m
    BY <1>1
  <2> QED BY <1>2, <2>1 DEF CalledNext
<1>4. ASSUME NEW i \in 1..m
      PROVE  C[i] = IF IsMarker(table[i]) THEN C[i - 1] ELSE Append(C[i - 1], table[i])
  <2>1. i \in 0..m /\ i # 0
    BY <1>1
  <2> QED BY <1>2, <2>1 DEF CalledNext
<1>5. ASSUME T # {} PROVE FALSE
  <2>1. PICK n \in T : \A l \in T : n <= l
    <3>1. T \subseteq Nat
      BY <1>1
    <3> HIDE DEF T
    <3> QED BY <1>5, <3>1, LeastNat
  <2>2. n \in 0..m /\ C[n] \notin Seq(Int)
    BY <2>1
  <2>3. n # 0
    <3>1. <<>> \in Seq(Int)
      OBVIOUS
    <3> QED BY <1>3, <2>2, <3>1
  <2>4. n \in 1..m /\ n - 1 \in 0..m /\ ~(n <= n - 1)
    BY <1>1, <2>2, <2>3
  <2>5. C[n - 1] \in Seq(Int)
    BY <2>1, <2>4
  <2> DEFINE s == C[n - 1]
             x == table[n]
  <2>6. s \in Seq(Int) /\ x \in Int
    BY <1>1, <2>4, <2>5
  <2>7. C[n] = s \/ C[n] = Append(s, x)
    BY <1>4, <2>4
  <2> HIDE DEF s, x
  <2>8. Append(s, x) \in Seq(Int)
    BY <2>6
  <2> QED BY <2>2, <2>6, <2>7, <2>8
<1> QED BY <1>3, <1>4, <1>5 DEF C, m

LEMMA ExtendsTrans ==
  ASSUME NEW s \in Seq(Int \union {main}), NEW t, NEW u, Extends(s, t), Extends(t, u)
  PROVE  Extends(s, u)
<1>1. PICK a \in Seq(Int \union {main}) : t = s \o a
  BY DEF Extends
<1>2. PICK b \in Seq(Int \union {main}) : u = t \o b
  BY DEF Extends
<1>3. u = s \o (a \o b) /\ a \o b \in Seq(Int \union {main})
  BY <1>1, <1>2, ConcatAssociative, ConcatProperties
<1> QED BY <1>3 DEF Extends

LEMMA ExtendsRefl ==
  ASSUME NEW s \in Seq(Int \union {main})
  PROVE  Extends(s, s)
<1>1. <<>> \in Seq(Int \union {main}) /\ s = s \o <<>>
  BY ConcatEmptySeq
<1> QED BY <1>1 DEF Extends

\* What has been called of a part of a table is the beginning of what is
\* called of the whole.
LEMMA CalledExtends ==
  ASSUME NEW table \in Seq(Int), NEW i \in 0..Len(table)
  PROVE  Extends(Called(table)[i], Called(table)[Len(table)])
<1> DEFINE C == Called(table)
           m == Len(table)
           E == Int \union {main}
           T == {j \in 0..m : ~Extends(C[m - j], C[m])}
<1>1. m \in Nat /\ \A j \in 1..m : table[j] \in E
  BY LenProperties, ElementOfSeq
<1>2. /\ \A j \in 1..m : C[j] = IF IsMarker(table[j]) THEN C[j - 1]
                                ELSE Append(C[j - 1], table[j])
      /\ \A j \in 0..m : C[j] \in Seq(Int)
  BY CalledSeq
<1>3. \A j \in 0..m : C[j] \in Seq(E)
  <2>1. \A s \in Seq(Int) : s \in Seq(E)
    OBVIOUS
  <2> QED BY <1>2, <2>1
<1> HIDE DEF C, m
<1>4. ASSUME T # {} PROVE FALSE
  <2>1. PICK n \in T : \A l \in T : n <= l
    <3>1. T \subseteq Nat
      BY <1>1
    <3> HIDE DEF T
    <3> QED BY <1>4, <3>1, LeastNat
  <2>2. n \in 0..m /\ ~Extends(C[m - n], C[m])
    BY <2>1
  <2>3. n # 0
    <3>1. n = 0 => m - n = m /\ m \in 0..m
      BY <1>1
    <3> QED BY <1>3, <2>2, <3>1, ExtendsRefl
  <2>4. n - 1 \in 0..m /\ ~(n <= n - 1) /\ m - (n - 1) \in 1..m /\ m - n \in 0..m
        /\ (m - (n - 1)) - 1 = m - n /\ m - (n - 1) \in 0..m
    BY <1>1, <2>2, <2>3
  <2>5. Extends(C[m - (n - 1)], C[m])
    BY <2>1, <2>4
  <2>6. Extends(C[m - n], C[m - (n - 1)])
    <3> DEFINE s == C[m - n]
               x == table[m - (n - 1)]
    <3>1. s \in Seq(E) /\ x \in E
      BY <1>1, <1>3, <2>4
    <3>2. C[m - (n - 1)] = s \/ C[m - (n - 1)] = Append(s, x)
      BY <1>2, <2>4
    <3> HIDE DEF s, x
    <3>3. Append(s, x) = s \o <<x>> /\ <<x>> \in Seq(E)
      BY <3>1, AppendIsConcat
    <3>4. Extends(s, Append(s, x))
      BY <3>3 DEF Extends
    <3> QED BY <3>1, <3>2, <3>4, ExtendsRefl DEF s
  <2> QED BY <1>3, <2>2, <2>4, <2>5, <2>6, ExtendsTrans
<1>5. m - i \in 0..m /\ m - (m - i) = i
  BY <1>1 DEF m
<1>6. Extends(C[m - (m - i)], C[m])
  BY <1>4, <1>5
<1> QED BY <1>5, <1>6 DEF C, m

LEMMA PrefixOf ==
  ASSUME NEW s \in Seq(Int \union {main}), NEW t, Extends(s, t)
  PROVE  IsPrefix(s, t)
<1> DEFINE E == Int \union {main}
           m == Len(s)
<1>1. PICK r \in Seq(E) : t = s \o r
  BY DEF Extends
<1> DEFINE n == Len(r)
<1>2. m \in Nat /\ n \in Nat
  BY LenProperties
<1>3. t \in Seq(E) /\ Len(t) = m + n /\ \A i \in 1..m : t[i] = s[i]
  BY <1>1, ConcatAt
<1> HIDE DEF n
<1>4. m \in 0..Len(t) /\ m \in 0..Len(s) /\ Len(s) <= Len(t)
  BY <1>2, <1>3
<1> DEFINE a == SubSeq(s, 1, m)
           b == SubSeq(t, 1, m)
<1>5. a \in Seq(E) /\ Len(a) = m /\ \A i \in 1..m : a[i] = s[i]
  BY <1>4, SplitAt
<1>6. b \in Seq(E) /\ Len(b) = m /\ \A i \in 1..m : b[i] = t[i]
  BY <1>3, <1>4, SplitAt
<1> HIDE DEF a, b
<1>7. a = b
  BY <1>3, <1>5, <1>6, SeqEqual
<1> QED BY <1>4, <1>7 DEF IsPrefix, a, b

\* How far the program has got in what it is to call.
Upto(table, i) == Called(table)[i]
CtorsDone == Upto(ctors, Len(ctors)) \o <<main>>
Whole == CtorsDone \o Upto(Reverse(dtors), Len(Reverse(dtors)))

RanTo(p) ==
    CASE at[p] = "ctors" -> k[p] \in 1..(Len(ctors) + 1) /\ ran[p] = Upto(ctors, k[p] - 1)
      [] at[p] = "main"  -> ran[p] = CtorsDone
      [] at[p] = "dtors" -> /\ k[p] \in 0..Len(dtors)
                            /\ ran[p] = CtorsDone \o Upto(Reverse(dtors), Len(dtors) - k[p])
      [] at[p] = "_exit" -> ran[p] = Whole
      [] OTHER           -> ran[p] = <<>>

CrtInv ==
    /\ DOMAIN ran = Child
    /\ \A p \in Child : RanTo(p)

LEMMA Tables ==
  /\ ctors \in Seq(Int) /\ dtors \in Seq(Int) /\ Len(ctors) \in Nat /\ Len(dtors) \in Nat
  /\ Reverse(dtors) \in Seq(Int) /\ Len(Reverse(dtors)) = Len(dtors)
  /\ \A i \in 1..Len(dtors) : Reverse(dtors)[Len(dtors) - i + 1] = dtors[i]
<1> DEFINE n == Len(dtors)
           r == Reverse(dtors)
<1>1. ctors \in Seq(Int) /\ dtors \in Seq(Int)
  BY ProcessAssumption
<1>2. Len(ctors) \in Nat /\ n \in Nat /\ \A i \in 1..n : dtors[i] \in Int
  BY <1>1, LenProperties, ElementOfSeq
<1>3. r = [i \in 1..n |-> dtors[(n - i) + 1]]
  BY DEF Reverse
<1> HIDE DEF r, n
<1>4. \A i \in 1..n : (n - i) + 1 \in 1..n /\ (n - ((n - i) + 1)) + 1 = i
  BY <1>2
<1>5. r \in [1..n -> Int]
  BY <1>2, <1>3, <1>4
<1>6. r \in Seq(Int) /\ Len(r) = n
  BY <1>2, <1>5, IsASeq, LenProperties
<1>7. \A i \in 1..n : r[(n - i) + 1] = dtors[i]
  BY <1>3, <1>4
<1> QED BY <1>1, <1>2, <1>6, <1>7 DEF r, n

LEMMA CtorsDoneSeq == CtorsDone \in Seq(Int \union {main})
<1> DEFINE s == Upto(ctors, Len(ctors))
<1>1. s \in Seq(Int)
  BY Tables, CalledSeq DEF Upto
<1>2. s \in Seq(Int \union {main}) /\ <<main>> \in Seq(Int \union {main})
  BY <1>1
<1> HIDE DEF s
<1>3. s \o <<main>> \in Seq(Int \union {main})
  BY <1>2, ConcatProperties
<1> QED BY <1>3 DEF CtorsDone, s

LEMMA InitCrt == Init => CrtInv
BY DEF Init, CrtInv, RanTo

\* Nothing happens to a program that is not run.
LEMMA CrtQuiet ==
  ASSUME CrtInv, UNCHANGED <<ran, at, k>>
  PROVE  CrtInv'
BY DEF CrtInv, RanTo

\* One process goes on in its program.
LEMMA CrtOf ==
  ASSUME CrtInv, NEW p \in Child, DOMAIN ran' = Child,
         \A q \in Child \ {p} : ran'[q] = ran[q] /\ at'[q] = at[q] /\ k'[q] = k[q],
         RanTo(p)'
  PROVE  CrtInv'
<1>1. \A q \in Child \ {p} : RanTo(q)'
  BY DEF CrtInv, RanTo
<1> QED BY <1>1 DEF CrtInv

LEMMA StepCrtProgram ==
  ASSUME TypeOK, CrtInv, NEW p \in Child,
         Ctor(p) \/ MainReturns(p) \/ Dtor(p)
  PROVE  CrtInv'
<1>0. at \in [Child -> Where] /\ k \in [Child -> Nat] /\ DOMAIN ran = Child /\ RanTo(p)
  BY DEF TypeOK, Where, CrtInv
<1>2. CASE Ctor(p)
  <2>1. at[p] = "ctors" /\ k[p] \in 1..(Len(ctors) + 1) /\ ran[p] = Upto(ctors, k[p] - 1)
    BY <1>0, <1>2 DEF Ctor, RanTo
  <2>2. CASE k[p] <= Len(ctors)
    <3> DEFINE f == ctors[k[p]]
    <3>1. /\ k' = [k EXCEPT ![p] = @ + 1] /\ at' = at
          /\ ran' = IF IsMarker(f) THEN ran ELSE [ran EXCEPT ![p] = Append(@, f)]
      BY <1>2, <2>2 DEF Ctor, CallEntry
    <3>2. /\ \A q \in Child \ {p} : ran'[q] = ran[q] /\ at'[q] = at[q] /\ k'[q] = k[q]
          /\ DOMAIN ran' = Child
      BY <1>0, <3>1
    <3>3. k[p] \in 1..Len(ctors) /\ k'[p] = k[p] + 1 /\ k'[p] \in 1..(Len(ctors) + 1)
          /\ k'[p] - 1 = k[p]
      BY <1>0, <2>1, <2>2, <3>1, Tables
    <3>4. ran'[p] = IF IsMarker(f) THEN ran[p] ELSE Append(ran[p], f)
      BY <1>0, <3>1
    <3>5. Upto(ctors, k[p]) = IF IsMarker(f) THEN Upto(ctors, k[p] - 1)
                              ELSE Append(Upto(ctors, k[p] - 1), f)
      BY <3>3, Tables, CalledSeq DEF Upto
    <3>6. ran'[p] = Upto(ctors, k'[p] - 1)
      BY <2>1, <3>3, <3>4, <3>5
    <3>7. RanTo(p)'
      BY <2>1, <3>1, <3>3, <3>6 DEF RanTo
    <3> QED BY <3>2, <3>7, CrtOf
  <2>3. CASE ~(k[p] <= Len(ctors))
    <3>1. /\ k' = k /\ at' = [at EXCEPT ![p] = "main"]
          /\ ran' = [ran EXCEPT ![p] = Append(@, main)]
      BY <1>2, <2>3 DEF Ctor
    <3>2. /\ \A q \in Child \ {p} : ran'[q] = ran[q] /\ at'[q] = at[q] /\ k'[q] = k[q]
          /\ DOMAIN ran' = Child /\ at'[p] = "main" /\ ran'[p] = Append(ran[p], main)
      BY <1>0, <3>1
    <3>3. k[p] - 1 = Len(ctors)
      BY <2>1, <2>3, Tables
    <3>4. Upto(ctors, Len(ctors)) \in Seq(Int)
      BY Tables, CalledSeq DEF Upto
    <3>5. ran'[p] = CtorsDone
      <4> DEFINE s == Upto(ctors, Len(ctors))
      <4>1. s \in Seq(Int \union {main}) /\ main \in Int \union {main}
        BY <3>4
      <4>2. ran'[p] = Append(s, main)
        BY <2>1, <3>2, <3>3
      <4> HIDE DEF s
      <4>3. Append(s, main) = s \o <<main>>
        BY <4>1, AppendIsConcat
      <4> QED BY <4>2, <4>3 DEF s, CtorsDone
    <3>6. RanTo(p)'
      BY <3>2, <3>5 DEF RanTo, CtorsDone, Upto
    <3> QED BY <3>2, <3>6, CrtOf
  <2> QED BY <2>2, <2>3
<1>3. CASE MainReturns(p)
  <2>1. /\ at[p] = "main" /\ ran' = ran
        /\ k' = [k EXCEPT ![p] = Len(dtors)] /\ at' = [at EXCEPT ![p] = "dtors"]
    BY <1>3 DEF MainReturns
  <2>2. ran[p] = CtorsDone
    BY <1>0, <2>1 DEF RanTo
  <2>3. /\ \A q \in Child \ {p} : ran'[q] = ran[q] /\ at'[q] = at[q] /\ k'[q] = k[q]
        /\ at'[p] = "dtors" /\ k'[p] = Len(dtors) /\ Len(dtors) \in 0..Len(dtors)
        /\ Len(dtors) - Len(dtors) = 0
    BY <1>0, <2>1, Tables
  <2>4. Upto(Reverse(dtors), 0) = <<>>
    BY Tables, CalledSeq DEF Upto
  <2>5. CtorsDone \o <<>> = CtorsDone
    <3>1. CtorsDone \in Seq(Int \union {main})
      BY CtorsDoneSeq
    <3> QED BY <3>1, ConcatEmptySeq
  <2>6. ran'[p] = CtorsDone \o Upto(Reverse(dtors), Len(dtors) - k'[p])
    BY <2>1, <2>2, <2>3, <2>4, <2>5
  <2>7. RanTo(p)'
    BY <2>3, <2>6 DEF RanTo, CtorsDone, Upto
  <2> QED BY <1>0, <2>1, <2>3, <2>7, CrtOf
<1>4. CASE Dtor(p)
  <2> DEFINE rd == Reverse(dtors)
  <2>1. /\ at[p] = "dtors" /\ k[p] \in 0..Len(dtors)
        /\ ran[p] = CtorsDone \o Upto(rd, Len(dtors) - k[p])
    BY <1>0, <1>4 DEF Dtor, RanTo
  <2>2. CASE k[p] >= 1
    <3> DEFINE f == dtors[k[p]]
               i == Len(dtors) - k[p]
    <3>1. /\ k' = [k EXCEPT ![p] = @ - 1] /\ at' = at
          /\ ran' = IF IsMarker(f) THEN ran ELSE [ran EXCEPT ![p] = Append(@, f)]
      BY <1>4, <2>2 DEF Dtor, DtorAt, CallEntry
    <3>2. /\ \A q \in Child \ {p} : ran'[q] = ran[q] /\ at'[q] = at[q] /\ k'[q] = k[q]
          /\ DOMAIN ran' = Child
      BY <1>0, <3>1
    <3>3. /\ k[p] \in 1..Len(dtors) /\ k'[p] = k[p] - 1 /\ k'[p] \in 0..Len(dtors)
          /\ i \in 0..Len(dtors) /\ i + 1 \in 1..Len(dtors) /\ (i + 1) - 1 = i
          /\ Len(dtors) - k'[p] = i + 1
      <4>1. k'[p] = k[p] - 1
        BY <1>0, <3>1
      <4>2. ASSUME NEW n \in Nat, NEW a \in 0..n, a >= 1
            PROVE  /\ a \in 1..n /\ a - 1 \in 0..n /\ n - a \in 0..n /\ (n - a) + 1 \in 1..n
                   /\ ((n - a) + 1) - 1 = n - a /\ n - (a - 1) = (n - a) + 1
        BY <4>2
      <4>3. Len(dtors) \in Nat
        BY Tables
      <4> QED BY <2>1, <2>2, <4>1, <4>2, <4>3
    <3>4. ran'[p] = IF IsMarker(f) THEN ran[p] ELSE Append(ran[p], f)
      BY <1>0, <3>1
    <3>5. rd[i + 1] = f
      BY <3>3, Tables
    <3>6. Upto(rd, i + 1) = IF IsMarker(f) THEN Upto(rd, i) ELSE Append(Upto(rd, i), f)
      <4>1. rd \in Seq(Int) /\ i + 1 \in 1..Len(rd) /\ (i + 1) - 1 = i
        BY <3>3, Tables
      <4>2. \A j \in 1..Len(rd) :
               Upto(rd, j) = IF IsMarker(rd[j]) THEN Upto(rd, j - 1)
                             ELSE Append(Upto(rd, j - 1), rd[j])
        BY <4>1, CalledSeq DEF Upto
      <4> HIDE DEF rd, i, f
      <4> QED BY <3>5, <4>1, <4>2
    <3>7. Upto(rd, i) \in Seq(Int) /\ f \in Int
      BY <3>3, Tables, CalledSeq, ElementOfSeq DEF Upto
    <3>8. ran'[p] = CtorsDone \o Upto(rd, i + 1)
      <4> DEFINE c == CtorsDone
                 u == Upto(rd, i)
                 x == f
      <4>1. c \in Seq(Int \union {main}) /\ u \in Seq(Int \union {main}) /\ x \in Int \union {main}
        BY <3>7, CtorsDoneSeq
      <4>2. ran[p] = c \o u
        BY <2>1
      <4>3. ran'[p] = (c \o u) \/ ran'[p] = Append(c \o u, x)
        BY <3>4, <4>2
      <4>4. IF IsMarker(x) THEN ran'[p] = c \o u /\ Upto(rd, i + 1) = u
            ELSE ran'[p] = Append(c \o u, x) /\ Upto(rd, i + 1) = Append(u, x)
        BY <3>4, <3>6, <4>2
      <4> HIDE DEF c, u, x
      <4>5. Append(c \o u, x) = c \o Append(u, x)
        <5>1. /\ c \o u \in Seq(Int \union {main})
              /\ <<x>> \in Seq(Int \union {main})
          BY <4>1, ConcatProperties
        <5>2. Append(c \o u, x) = (c \o u) \o <<x>> /\ Append(u, x) = u \o <<x>>
          BY <4>1, <5>1, AppendIsConcat
        <5>3. (c \o u) \o <<x>> = c \o (u \o <<x>>)
          BY <4>1, <5>1, ConcatAssociative
        <5> QED BY <5>2, <5>3
      <4>6. ran'[p] = c \o Upto(rd, i + 1)
        BY <4>4, <4>5
      <4> QED BY <4>6 DEF c
    <3>9. ran'[p] = CtorsDone \o Upto(rd, Len(dtors) - k'[p])
      BY <3>3, <3>8
    <3>10. RanTo(p)'
      BY <2>1, <3>1, <3>3, <3>9 DEF RanTo, CtorsDone, Upto
    <3> QED BY <3>2, <3>10, CrtOf
  <2>3. CASE ~(k[p] >= 1)
    <3>1. k' = k /\ ran' = ran /\ at' = [at EXCEPT ![p] = "_exit"]
      BY <1>4, <2>3 DEF Dtor
    <3>2. k[p] = 0 /\ Len(dtors) - k[p] = Len(rd)
      BY <2>1, <2>3, Tables
    <3>3. ran'[p] = Whole /\ at'[p] = "_exit"
          /\ \A q \in Child \ {p} : ran'[q] = ran[q] /\ at'[q] = at[q] /\ k'[q] = k[q]
      BY <1>0, <2>1, <3>1, <3>2 DEF Whole
    <3>4. RanTo(p)'
      BY <3>3 DEF RanTo, Whole, CtorsDone, Upto
    <3> QED BY <1>0, <3>1, <3>3, <3>4, CrtOf
  <2> QED BY <2>2, <2>3
<1> QED BY <1>2, <1>3, <1>4

LEMMA StepCrt ==
  ASSUME TypeOK, CrtInv, [Next]_vars
  PROVE  CrtInv'
<1>0. /\ at \in [Child -> Where] /\ k \in [Child -> Nat] /\ DOMAIN ran = Child
      /\ \A p \in Child : RanTo(p)
  BY DEF TypeOK, Where, CrtInv
<1>1. ASSUME NEW t \in Thread, Switch(t) PROVE CrtInv'
  BY <1>1, CrtQuiet DEF Switch
<1>2. ASSUME Create PROVE CrtInv'
  BY <1>2, CrtQuiet DEF Create, process_create, Allocate, Clone, tcb_init, CreateFails, TakePid,
                        Start, user
<1>3. ASSUME NEW p \in Child, StartFunc(p) \/ LoadProgram(p) \/ enter_ring3(p) PROVE CrtInv'
  <2>1. ran' = ran
    BY <1>3 DEF StartFunc, LoadProgram, enter_ring3
  <2>2. \/ at' = at /\ k' = k
        \/ /\ at[p] \in {"start", "load", "enter", "unset"}
           /\ \/ k' = k /\ \E x \in {"load", "enter", "unset"} : at' = [at EXCEPT ![p] = x]
              \/ at' = [at EXCEPT ![p] = "ctors"] /\ k' = [k EXCEPT ![p] = 1]
    BY <1>3 DEF StartFunc, LoadProgram, enter_ring3
  <2>3. CASE at' = at /\ k' = k
    BY <2>1, <2>3, CrtQuiet
  <2>4. CASE /\ at[p] \in {"start", "load", "enter", "unset"} /\ k' = k
             /\ \E x \in {"load", "enter", "unset"} : at' = [at EXCEPT ![p] = x]
    <3>1. ran[p] = <<>> /\ at'[p] \in {"load", "enter", "unset"}
      BY <1>0, <2>4 DEF RanTo
    <3>2. RanTo(p)'
      BY <2>1, <3>1 DEF RanTo
    <3> QED BY <1>0, <2>1, <2>4, <3>2, CrtOf
  <2>5. CASE /\ at[p] \in {"start", "load", "enter", "unset"}
             /\ at' = [at EXCEPT ![p] = "ctors"] /\ k' = [k EXCEPT ![p] = 1]
    <3>1. ran[p] = <<>> /\ at'[p] = "ctors" /\ k'[p] = 1
      BY <1>0, <2>5 DEF RanTo
    <3>2. 1 \in 1..(Len(ctors) + 1) /\ 1 - 1 = 0 /\ Upto(ctors, 0) = <<>>
      BY Tables, CalledSeq DEF Upto
    <3>3. RanTo(p)'
      BY <2>1, <3>1, <3>2 DEF RanTo, Upto
    <3> QED BY <1>0, <2>1, <2>5, <3>3, CrtOf
  <2> QED BY <2>2, <2>3, <2>4, <2>5
<1>4. ASSUME NEW p \in Child, Ctor(p) \/ MainReturns(p) \/ Dtor(p) PROVE CrtInv'
  BY <1>4, StepCrtProgram
<1>5. ASSUME NEW p \in Child, Touch(p) \/ Syscall(p) \/ Exit(p) PROVE CrtInv'
  BY <1>5, CrtQuiet DEF Touch, Syscall, Service, Exit, user
<1>6. ASSUME (\E p \in Child : PopZombie(p)) \/ FreeZombie \/ UNCHANGED vars PROVE CrtInv'
  BY <1>6, CrtQuiet DEF PopZombie, FreeZombie, vars, user
<1> QED BY <1>1, <1>2, <1>3, <1>4, <1>5, <1>6 DEF Next, Program

\* What a program has run at any point is the beginning of the whole.
LEMMA RanPrefix ==
  ASSUME NEW p \in Child, RanTo(p)
  PROVE  IsPrefix(ran[p], Whole)
<1> DEFINE E == Int \union {main}
           c == Upto(ctors, Len(ctors))
           rd == Reverse(dtors)
           d == Upto(rd, Len(rd))
<1>1. c \in Seq(E) /\ <<main>> \in Seq(E) /\ d \in Seq(E) /\ CtorsDone \in Seq(E)
  <2>1. c \in Seq(Int) /\ d \in Seq(Int)
    BY Tables, CalledSeq DEF Upto
  <2> QED BY <2>1, CtorsDoneSeq
<1>2. Whole = CtorsDone \o d /\ CtorsDone = c \o <<main>>
  BY DEF Whole, CtorsDone
<1>3. Extends(CtorsDone, Whole) /\ Extends(c, CtorsDone) /\ Extends(c, Whole)
  <2>1. Extends(CtorsDone, Whole) /\ Extends(c, CtorsDone)
    BY <1>1, <1>2 DEF Extends
  <2> QED BY <1>1, <2>1, ExtendsTrans
<1>4. Whole \in Seq(E)
  BY <1>1, <1>2, ConcatProperties
<1> HIDE DEF c, d, rd
<1>5. CASE at[p] = "ctors"
  <2>1. k[p] - 1 \in 0..Len(ctors) /\ ran[p] = Upto(ctors, k[p] - 1)
    BY <1>5, Tables DEF RanTo
  <2>2. ran[p] \in Seq(E) /\ Extends(ran[p], c)
    <3>1. Upto(ctors, k[p] - 1) \in Seq(Int)
      BY <2>1, Tables, CalledSeq DEF Upto
    <3>2. Extends(Upto(ctors, k[p] - 1), Upto(ctors, Len(ctors)))
      BY <2>1, Tables, CalledExtends DEF Upto
    <3> QED BY <2>1, <3>1, <3>2 DEF c
  <2> QED BY <1>3, <2>2, ExtendsTrans, PrefixOf
<1>6. CASE at[p] = "main"
  BY <1>1, <1>3, <1>6, PrefixOf DEF RanTo
<1>7. CASE at[p] = "dtors"
  <2> DEFINE i == Len(dtors) - k[p]
             u == Upto(rd, i)
  <2>1. i \in 0..Len(rd) /\ ran[p] = CtorsDone \o u
    <3>1. k[p] \in 0..Len(dtors) /\ ran[p] = CtorsDone \o u
      BY <1>7 DEF RanTo, rd
    <3>2. Len(dtors) \in Nat /\ Len(rd) = Len(dtors)
      BY Tables DEF rd
    <3> QED BY <3>1, <3>2
  <2> HIDE DEF i
  <2>2. rd \in Seq(Int)
    BY Tables DEF rd
  <2>3. u \in Seq(E) /\ Extends(u, d)
    <3>1. Upto(rd, i) \in Seq(Int)
      BY <2>1, <2>2, CalledSeq DEF Upto
    <3>2. Extends(Upto(rd, i), Upto(rd, Len(rd)))
      BY <2>1, <2>2, CalledExtends DEF Upto
    <3> QED BY <3>1, <3>2 DEF d
  <2> HIDE DEF u
  <2>4. PICK r \in Seq(E) : d = u \o r
    BY <2>3 DEF Extends
  <2>5. Whole = (CtorsDone \o u) \o r /\ CtorsDone \o u \in Seq(E)
    BY <1>1, <1>2, <2>3, <2>4, ConcatAssociative, ConcatProperties
  <2>6. Extends(ran[p], Whole) /\ ran[p] \in Seq(E)
    BY <2>1, <2>5 DEF Extends
  <2> QED BY <2>6, PrefixOf
<1>8. CASE at[p] = "_exit"
  BY <1>4, <1>8, ExtendsRefl, PrefixOf DEF RanTo
<1>9. CASE at[p] \notin {"ctors", "main", "dtors", "_exit"}
  <2>1. ran[p] = <<>>
    BY <1>9 DEF RanTo
  <2>2. <<>> \in Seq(E) /\ Whole = <<>> \o Whole
    BY <1>4, ConcatEmptySeq
  <2>3. Extends(<<>>, Whole)
    BY <1>4, <2>2 DEF Extends
  <2> QED BY <2>1, <2>2, <2>3, PrefixOf
<1> QED BY <1>5, <1>6, <1>7, <1>8, <1>9

\* Whatever the tables of a program, and wherever it is switched away from or
\* calls _exit, what it has called is the beginning of: its constructors in
\* order, main, and its destructors backwards, without the markers; and crt0
\* comes to its own _exit only after all of them.
THEOREM CrtInOrder == Spec => []CrtOrder
<1>1. CrtInv => CrtOrder
  <2> SUFFICES ASSUME CrtInv, NEW p \in Child
               PROVE  /\ IsPrefix(ran[p], Whole)
                      /\ at[p] = "_exit" => ran[p] = Whole
    BY DEF CrtOrder, Whole, CtorsDone, Upto
  <2>1. RanTo(p)
    BY DEF CrtInv
  <2>2. at[p] = "_exit" => ran[p] = Whole
    BY <2>1 DEF RanTo
  <2> QED BY <2>1, <2>2, RanPrefix
<1>2. TypeOK /\ CrtInv /\ [Next]_vars => CrtInv'
  BY StepCrt
<1> QED BY <1>1, <1>2, InitType, StepType, InitCrt, PTL DEF Spec

=============================================================================
