----------------------------- MODULE SchedLists -----------------------------
(***************************************************************************)
(* The linked lists inside kernel/scheduler.c: the same scheduler as in    *)
(* Scheduler, with every list a chain of TCBs through next and prev that   *)
(* starts at a head embedded in g_scheduler, and with scheduler_add as the *)
(* separate stores it is.  kmain calls it, through scheduler_run, with     *)
(* interrupts on; Interruptible says whether the timer may hit it there.   *)
(*                                                                         *)
(* "arrival" is a history variable: the ready threads in the order in      *)
(* which they were linked.  It is what Scheduler calls ready.              *)
(***************************************************************************)
EXTENDS Integers, Sequences, SequencesExt, FiniteSets

CONSTANTS Main, Idle, Cleaner, Process, NoThread, priority, quota,
          CleanerNap, MaxNap, Rounds,
          PRIORITY_MAX,     \* SCHEDULE_PRIORITY_MAX
          SleptHead, ZombieHead,
          Interruptible     \* can the timer interrupt kmain in scheduler_add

Thread == {Main, Idle, Cleaner} \union Process
Priority == 0..(PRIORITY_MAX - 1)
\* &g_scheduler.active[p].head is the priority p itself.
Node == Thread \union Priority \union {SleptHead, ZombieHead}

ASSUME SchedListsAssumption ==
    /\ Main # Idle /\ Main # Cleaner /\ Idle # Cleaner
    /\ {Main, Idle, Cleaner} \intersect Process = {} /\ IsFiniteSet(Process)
    /\ PRIORITY_MAX \in Nat \ {0} /\ Interruptible \in BOOLEAN
    /\ priority \in [Thread -> Priority]
    /\ \A p \in Process : priority[p] <= priority[Main]
    /\ priority[Idle] = priority[Main] /\ priority[Cleaner] = priority[Main]
    /\ quota \in [Thread -> Nat \ {0}]
    /\ CleanerNap \in Nat \ {0} /\ MaxNap \in Nat /\ Rounds \in Nat
    /\ NoThread \notin Node /\ Thread \intersect Priority = {}
    /\ SleptHead # ZombieHead /\ {SleptHead, ZombieHead} \intersect (Thread \union Priority) = {}

VARIABLES
    elapsed, quantum, current,
    mem,          \* next and prev of every node, tail of every active list
    arrival,
    t_elapsed, sleep_tick, flags,
    adding,       \* kmain inside scheduler_add: the thread, its register, where
    created, freed, pc, victim, rounds, due

unmoved == <<created, freed, pc, victim, rounds>>
vars == <<elapsed, quantum, current, mem, arrival, t_elapsed, sleep_tick, flags,
          adding, unmoved, due>>

SLEPT  == "SCHEDULER_FLAG_SLEPT"
ZOMBIE == "SCHEDULER_FLAG_ZOMBIE"
NotAdding == [thread |-> NoThread, tail |-> NoThread, at |-> "out"]

\* No list has more nodes, so no walk along a list needs more turns.
Turns == Cardinality(Thread) + 1

-----------------------------------------------------------------------------
(* List operations: each maps the lists m, a record of next, prev and tail, *)
(* and where needed the fields tick and flags of the TCBs, to the new ones. *)

\* A plausible slip: tcb->next is not reset.
Linked_NextKept(m, t, tail) ==
    [m EXCEPT !.next = [@ EXCEPT ![tail] = t], !.prev = [@ EXCEPT ![t] = tail]]

Linked(m, t, tail) ==
    [m EXCEPT !.next = [@ EXCEPT ![t] = NoThread, ![tail] = t],
              !.prev = [@ EXCEPT ![t] = tail]]

scheduler_add(m, t) ==
    [Linked(m, t, m.tail[priority[t]]) EXCEPT
        !.tail = [@ EXCEPT ![priority[t]] = t],
        !.arrival = Append(@, t)]

PushZombie(m, t) ==
    [m EXCEPT !.next = [@ EXCEPT ![t] = m.next[ZombieHead], ![ZombieHead] = t]]

\* A plausible slip: < for <=.
Stops_Strict(m, n, rest) == n = NoThread \/ rest < m.tick[n]

Stops(m, n, rest) == n = NoThread \/ rest <= m.tick[n]

\* The walk along the delta queue: the node where it is after i turns and
\* what is left of the new sleeper's tick there.
Walked(m, tick) ==
    LET after[i \in 0..Turns] ==
            IF i = 0 THEN [at |-> SleptHead, rest |-> tick]
            ELSE LET w == after[i - 1]
                     n == m.next[w.at]
                 IN IF Stops(m, n, w.rest) THEN w
                    ELSE [at |-> n, rest |-> w.rest - m.tick[n]]
    IN after

InsertSleeper(m, t) ==
    LET s == Walked(m, m.tick[t])[Turns]
        n == m.next[s.at]
    IN [m EXCEPT
          !.tick = [u \in Thread |-> IF u = t THEN s.rest
                                     ELSE IF u = n THEN @[u] - s.rest ELSE @[u]],
          !.next = [@ EXCEPT ![t] = n, ![s.at] = t],
          !.prev = [u \in Node |-> IF u = t THEN s.at
                                   ELSE IF u = n THEN t ELSE @[u]]]

Park(m, t) ==
    IF ZOMBIE \in m.flags[t] THEN PushZombie(m, t)
    ELSE IF SLEPT \in m.flags[t] THEN InsertSleeper(m, t)
    ELSE scheduler_add(m, t)

\* The first sleeper leaves the delta queue for its active list.
UnlinkSleeper(m, t) ==
    [m EXCEPT
       !.tick[t] = 0,
       !.flags[t] = IF SLEPT \in @ THEN @ \ {SLEPT} ELSE @ \union {SLEPT},
       !.next = [@ EXCEPT ![SleptHead] = m.next[t]],
       !.prev = [u \in Node |-> IF u = m.next[t] THEN m.prev[t] ELSE @[u]]]

\* The wake loop after i turns, and after the turn that leaves it.
Woken(m, e) ==
    LET after[i \in 0..Turns] ==
            IF i = 0 THEN m
            ELSE LET w == after[i - 1]
                     t == w.next[SleptHead]
                 IN IF t = NoThread \/ w.tick[t] > e THEN w
                    ELSE scheduler_add(UnlinkSleeper(w, t), t)
    IN after

Wake(m, e) ==
    LET w == Woken(m, e)[Turns]
        t == w.next[SleptHead]
    IN IF t = NoThread THEN w ELSE [w EXCEPT !.tick[t] = @ - e]

\* The head of the first non-empty active list, and the lists without it.
Target(m) ==
    LET busy == {p \in Priority : m.next[p] # NoThread} IN
    IF busy = {} THEN NoThread
    ELSE m.next[CHOOSE p \in busy : \A q \in busy : p <= q]

Without(queue, t) == RemoveAt(queue, CHOOSE i \in DOMAIN queue : queue[i] = t)

\* A plausible slip: tail is left on the thread that was removed.
UnlinkTarget_TailKept(m, t) ==
    LET p == CHOOSE p \in Priority :
               m.next[p] = t /\ \A q \in 0..(p - 1) : m.next[q] = NoThread
    IN [m EXCEPT
          !.next = [@ EXCEPT ![p] = m.next[t]],
          !.prev = [u \in Node |-> IF u = m.next[t] THEN p ELSE @[u]],
          !.arrival = Without(@, t)]

UnlinkTarget(m, t) ==
    LET p == CHOOSE p \in Priority :
               m.next[p] = t /\ \A q \in 0..(p - 1) : m.next[q] = NoThread
    IN [m EXCEPT
          !.next = [@ EXCEPT ![p] = m.next[t]],
          !.prev = [u \in Node |-> IF u = m.next[t] THEN p ELSE @[u]],
          !.tail[p] = IF @ = t THEN p ELSE @,
          !.arrival = Without(@, t)]

-----------------------------------------------------------------------------
(* scheduler_pick and its callers, as in Scheduler *)

\* The lists and the TCB fields they use, as one record.
Lists(f, d) == [next |-> mem.next, prev |-> mem.prev, tail |-> mem.tail,
                arrival |-> arrival, tick |-> d, flags |-> f]

Refreshed(t, used) == IF used >= quota[t] THEN 0 ELSE used

scheduler_pick(e, f, d, left) ==
    LET m      == Wake(Park(Lists(f, d), current), e)
        target == Target(m)
        lists  == IF target = NoThread THEN m ELSE UnlinkTarget(m, target)
        used   == [t_elapsed EXCEPT ![current] = @ + e]
    IN /\ mem' = [next |-> lists.next, prev |-> lists.prev, tail |-> lists.tail]
       /\ arrival' = lists.arrival
       /\ sleep_tick' = lists.tick
       /\ flags' = lists.flags
       /\ due' = IF SLEPT \in f[current] THEN [left EXCEPT ![current] = d[current]]
                 ELSE left
       /\ current' = target
       /\ IF target = NoThread
          THEN t_elapsed' = used /\ UNCHANGED <<elapsed, quantum>>
          ELSE LET spent == Refreshed(target, used[target]) IN
               /\ t_elapsed' = [used EXCEPT ![target] = spent]
               /\ elapsed' = 0
               /\ quantum' = quota[target] - spent

TickedDown == [t \in Thread |-> IF due[t] > 0 THEN due[t] - 1 ELSE 0]

scheduler_tick ==
    /\ current \in Thread
    /\ Interruptible \/ adding = NotAdding
    /\ IF quantum = 1
       THEN scheduler_pick(elapsed + 1, flags, sleep_tick, TickedDown)
       ELSE /\ elapsed' = elapsed + 1
            /\ quantum' = quantum - 1
            /\ due' = TickedDown
            /\ UNCHANGED <<current, mem, arrival, t_elapsed, sleep_tick, flags>>
    /\ UNCHANGED <<adding, unmoved>>

\* scheduler_run in kmain, up to tcb->prev = list->tail: only the new TCB,
\* which no list holds, is written.
RunBegin(t) ==
    /\ current = Main /\ adding = NotAdding
    /\ t \notin created
    /\ t = Cleaner => Idle \in created
    /\ t \in Process => Cleaner \in created
    /\ LET tail == mem.tail[priority[t]] IN
       /\ mem' = [mem EXCEPT !.next = [@ EXCEPT ![t] = NoThread],
                             !.prev = [@ EXCEPT ![t] = tail]]
       /\ adding' = [thread |-> t, tail |-> tail, at |-> "link"]
    /\ UNCHANGED <<elapsed, quantum, current, arrival, t_elapsed, sleep_tick,
                   flags, unmoved, due>>

\* list->tail->next = tcb: the compiler may keep list->tail or read it again.
RunLink ==
    /\ current = Main /\ adding.at = "link"
    /\ LET t == adding.thread IN
       /\ \E tail \in {adding.tail, mem.tail[priority[t]]} :
             mem' = [mem EXCEPT !.next = [@ EXCEPT ![tail] = t]]
       /\ arrival' = Append(arrival, t)
       /\ created' = created \union {t}
    /\ adding' = [adding EXCEPT !.at = "tail"]
    /\ UNCHANGED <<elapsed, quantum, current, t_elapsed, sleep_tick, flags,
                   freed, pc, victim, rounds, due>>

\* list->tail = tcb
RunTail ==
    /\ current = Main /\ adding.at = "tail"
    /\ mem' = [mem EXCEPT !.tail = [@ EXCEPT ![priority[adding.thread]] = adding.thread]]
    /\ adding' = NotAdding
    /\ UNCHANGED <<elapsed, quantum, current, arrival, t_elapsed, sleep_tick,
                   flags, unmoved, due>>

usleep(p, tick) ==
    /\ current = p /\ rounds[p] > 0
    /\ rounds' = [rounds EXCEPT ![p] = @ - 1]
    /\ IF tick = 0 THEN scheduler_pick(elapsed, flags, sleep_tick, due)
       ELSE scheduler_pick(elapsed, [flags EXCEPT ![p] = @ \union {SLEPT}],
                           [sleep_tick EXCEPT ![p] = tick], due)
    /\ UNCHANGED <<adding, created, freed, pc, victim>>

exit(p) ==
    /\ current = p
    /\ scheduler_pick(elapsed, [flags EXCEPT ![p] = @ \union {ZOMBIE}], sleep_tick, due)
    /\ UNCHANGED <<adding, unmoved>>

PopZombie ==
    /\ current = Cleaner /\ pc = "pop"
    /\ LET t == mem.next[ZombieHead] IN
       IF t = NoThread THEN pc' = "nap" /\ UNCHANGED <<mem, victim>>
       ELSE /\ pc' = "free" /\ victim' = t
            /\ mem' = [mem EXCEPT !.next = [@ EXCEPT ![ZombieHead] = mem.next[t]]]
    /\ UNCHANGED <<elapsed, quantum, current, arrival, t_elapsed, sleep_tick,
                   flags, adding, created, freed, rounds, due>>

FreeZombie ==
    /\ current = Cleaner /\ pc = "free"
    /\ freed' = freed \union {victim} /\ victim' = NoThread /\ pc' = "nap"
    /\ UNCHANGED <<elapsed, quantum, current, mem, arrival, t_elapsed,
                   sleep_tick, flags, adding, created, rounds, due>>

SetSleepTick ==
    /\ current = Cleaner /\ pc = "nap" /\ pc' = "flag"
    /\ sleep_tick' = [sleep_tick EXCEPT ![Cleaner] = CleanerNap]
    /\ UNCHANGED <<elapsed, quantum, current, mem, arrival, t_elapsed, flags,
                   adding, created, freed, victim, rounds, due>>

SetSleptFlag ==
    /\ current = Cleaner /\ pc = "flag" /\ pc' = "yield"
    /\ flags' = [flags EXCEPT ![Cleaner] = @ \union {SLEPT}]
    /\ UNCHANGED <<elapsed, quantum, current, mem, arrival, t_elapsed,
                   sleep_tick, adding, created, freed, victim, rounds, due>>

CleanerYield ==
    /\ current = Cleaner /\ pc = "yield" /\ pc' = "pop"
    /\ scheduler_pick(elapsed, flags, sleep_tick, due)
    /\ UNCHANGED <<adding, created, freed, victim, rounds>>

-----------------------------------------------------------------------------
Init ==
    /\ elapsed = 0 /\ quantum = 1 /\ current = Main
    /\ mem = [next |-> [n \in Node |-> NoThread],
              prev |-> [n \in Node |-> NoThread],
              tail |-> [p \in Priority |-> p]]
    /\ arrival = <<>> /\ adding = NotAdding
    /\ t_elapsed = [t \in Thread |-> 0]
    /\ sleep_tick = [t \in Thread |-> 0]
    /\ flags = [t \in Thread |-> {}]
    /\ created = {Main} /\ freed = {}
    /\ pc = "pop" /\ victim = NoThread
    /\ rounds = [p \in Process |-> Rounds]
    /\ due = [t \in Thread |-> 0]

Next ==
    \/ scheduler_tick
    \/ \E t \in Thread : RunBegin(t)
    \/ RunLink \/ RunTail
    \/ \E p \in Process, tick \in 0..MaxNap : usleep(p, tick)
    \/ \E p \in Process : exit(p)
    \/ PopZombie \/ FreeZombie
    \/ SetSleepTick \/ SetSleptFlag \/ CleanerYield

Spec == Init /\ [][Next]_vars

-----------------------------------------------------------------------------
(* Properties *)

\* The nodes that next leads to from the head of a list; a cycle is cut off.
Chain(head) ==
    LET from[x \in Node \X (0..Turns)] ==
            LET n == mem.next[x[1]] IN
            IF x[2] = 0 \/ n = NoThread THEN <<>> ELSE <<n>> \o from[<<n, x[2] - 1>>]
    IN from[<<head, Turns>>]

\* What comes before what in a queue.
Order(queue) ==
    {x \in ToSet(queue) \X ToSet(queue) :
        \E i, j \in DOMAIN queue : i < j /\ queue[i] = x[1] /\ queue[j] = x[2]}

\* n is the first or the last node of S in that order, or none if S is empty.
IsFirst(n, S, order, none) ==
    IF S = {} THEN n = none ELSE n \in S /\ \A u \in S \ {n} : <<n, u>> \in order
IsLast(n, S, order, none) ==
    IF S = {} THEN n = none ELSE n \in S /\ \A u \in S \ {n} : <<u, n>> \in order

\* next leads from the head to all the nodes of S in order, and ends there.
Forward(next, head, S, order) ==
    /\ IsFirst(next[head], S, order, NoThread)
    /\ \A t \in S : IsFirst(next[t], {u \in S : <<t, u>> \in order}, order, NoThread)

\* prev leads from each of them to the one before it, from the first to the head.
Backward(prev, head, S, order) ==
    \A t \in S : IsLast(prev[t], {u \in S : <<u, t>> \in order}, order, head)

Active(p) == {t \in ToSet(arrival) : priority[t] = p}

\* Every active list is exactly the ready threads of its priority in the
\* order of their arrival: no thread drops out of a chain, none is in two,
\* and removing the head or a wake-up never cuts the rest off.
ChainsWhole == \A p \in Priority : Forward(mem.next, p, Active(p), Order(arrival))

\* tail is where the next thread must be linked: the last node of the
\* chain, or the head of an empty list, whichever operation emptied it.
\* And prev leads back from every waiting or sleeping thread to the one before
\* it, through insertions in the middle of the delta queue and removals.
LinksMatch ==
    LET slept == Chain(SleptHead) IN
    /\ \A p \in Priority :
          /\ \/ IsLast(mem.tail[p], Active(p), Order(arrival), p)
             \/ adding.at = "tail" /\ priority[adding.thread] = p
          /\ Backward(mem.prev, p, Active(p), Order(arrival))
    /\ Backward(mem.prev, SleptHead, ToSet(slept), Order(slept))

\* The linked lists implement the sequences of Scheduler, with scheduler_run
\* taking effect at the store that links the thread.
Abs == INSTANCE Scheduler WITH ready <- arrival, slept <- Chain(SleptHead),
                               zombie <- Chain(ZombieHead)
Refines == Abs!Spec
=============================================================================
