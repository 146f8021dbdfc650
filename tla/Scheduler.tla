------------------------------ MODULE Scheduler ------------------------------
(***************************************************************************)
(* The thread scheduler of the kernel (kernel/scheduler.c and              *)
(* arch/i686/scheduler.s) together with everything that calls it: the      *)
(* timer interrupt, kmain, the zombie cleaner and the usleep and exit      *)
(* system calls of user processes.                                         *)
(*                                                                         *)
(* One processor.  Interrupts are off inside scheduler_yield and inside    *)
(* every system call (the gates clear IF), so each of those is one step;   *)
(* kernel threads run with interrupts on, so what they do is cut into the  *)
(* steps between which the timer can preempt them.                         *)
(*                                                                         *)
(* The four lists active[] are one sequence "ready" in order of arrival:   *)
(* the first entry of the best priority is the head of the first           *)
(* non-empty list.  SchedLists has the linked lists themselves.            *)
(***************************************************************************)
EXTENDS Integers, Sequences, SequencesExt, FiniteSets

CONSTANTS
    Main, Idle, Cleaner,   \* g_kthread_main and the two kernel threads
    Process,               \* the threads made by process_create
    NoThread,              \* NULL
    priority, quota,       \* tcb->priority (0 is best) and tcb->quantum
    CleanerNap,            \* what the cleaner sleeps: 10 ticks in main.cpp
    MaxNap,                \* longest usleep of a process, in ticks
    Rounds                 \* usleep calls of a process before it exits

Thread == {Main, Idle, Cleaner} \union Process

ASSUME SchedulerAssumption ==
    /\ Main # Idle /\ Main # Cleaner /\ Idle # Cleaner
    /\ {Main, Idle, Cleaner} \intersect Process = {}
    /\ NoThread \notin Thread
    /\ priority \in [Thread -> Nat]
    /\ \A p \in Process : priority[p] <= priority[Main]
    /\ priority[Idle] = priority[Main] /\ priority[Cleaner] = priority[Main]
    /\ quota \in [Thread -> Nat \ {0}]
    /\ CleanerNap \in Nat \ {0} /\ MaxNap \in Nat /\ Rounds \in Nat

VARIABLES
    elapsed, quantum, current,     \* g_scheduler.elapsed, .quantum, .current
    ready, slept, zombie,          \* g_scheduler.active[], .slept, .zombie
    t_elapsed, sleep_tick, flags,  \* the fields of struct TCB
    created, freed,                \* TCBs given to scheduler_run, to kfree
    pc, victim,                    \* where zombie_cleaner is, its local tcb
    rounds,                        \* usleep calls each process has left
    due                            \* ticks until a sleeper's time has passed

tcbs  == <<t_elapsed, sleep_tick, flags>>
sched == <<elapsed, quantum, current, ready, slept, zombie, tcbs>>
vars  == <<sched, created, freed, pc, victim, rounds, due>>

SLEPT  == "SCHEDULER_FLAG_SLEPT"
ZOMBIE == "SCHEDULER_FLAG_ZOMBIE"

-----------------------------------------------------------------------------
(* Parking the thread that gives up the processor *)

\* A plausible slip: only list->tail is set, the old entries are unlinked.
scheduler_add_Unlinked(queue, t) == <<t>>

scheduler_add(queue, t) == Append(queue, t)

\* The walk along the delta queue: left[i] is what is left of the new
\* sleeper's tick at entry i.  It stops at the first entry not earlier.
\* There is exactly one walk; it has at most Len(queue) + 1 entries.
Walks(queue, tick, d) ==
    {left \in UNION {[1..k -> 0..tick] : k \in 1..(Len(queue) + 1)} :
        /\ left[1] = tick
        /\ \A i \in 1..(Len(left) - 1) :
              /\ left[i] > d[queue[i]]
              /\ left[i + 1] = left[i] - d[queue[i]]
        /\ Len(left) <= Len(queue) => left[Len(left)] <= d[queue[Len(left)]]}

\* A plausible slip: the entry behind the new sleeper keeps its own delay.
Delays_NextKept(queue, t, left, d) == [d EXCEPT ![t] = left[Len(left)]]

\* The delays after the walk: the new sleeper has the rest, and the entry
\* behind it no longer counts that rest.
Delays(queue, t, left, d) ==
    LET k == Len(left) IN
    [u \in Thread |->
        IF u = t THEN left[k]
        ELSE IF k <= Len(queue) /\ u = queue[k] THEN d[u] - left[k]
        ELSE d[u]]

\* What the first part of scheduler_pick makes of the lists.
Park(t, f, d) ==
    IF ZOMBIE \in f[t]
    THEN {[ready |-> ready, slept |-> slept,
           zombie |-> <<t>> \o zombie, delay |-> d]}
    ELSE IF SLEPT \in f[t]
    THEN {[ready |-> ready, slept |-> InsertAt(slept, Len(left), t),
           zombie |-> zombie, delay |-> Delays(slept, t, left, d)] :
             left \in Walks(slept, d[t], d)}
    ELSE {[ready |-> scheduler_add(ready, t), slept |-> slept,
           zombie |-> zombie, delay |-> d]}

-----------------------------------------------------------------------------
(* Waking and dispatching *)

\* The wake loop takes n sleepers off the front.  It compares each of them
\* with the same elapsed time, and charges that time to the one it stops at.
Wakes(queue, d, n, e) ==
    /\ \A i \in 1..n : d[queue[i]] <= e
    /\ n < Len(queue) => d[queue[n + 1]] > e

\* A plausible slip: the sleeper the loop stops at is not charged.
Charged_NotCharged(queue, d, n, e) ==
    [t \in Thread |-> IF \E i \in 1..n : t = queue[i] THEN 0 ELSE d[t]]

Charged(queue, d, n, e) ==
    [t \in Thread |->
        IF \E i \in 1..n : t = queue[i] THEN 0
        ELSE IF n < Len(queue) /\ t = queue[n + 1] THEN d[t] - e
        ELSE d[t]]

\* A plausible slip: the flag stays set.
Toggled_Kept(f) == f

\* flags ^= SCHEDULER_FLAG_SLEPT
Toggled(f) == IF SLEPT \in f THEN f \ {SLEPT} ELSE f \union {SLEPT}

Unflagged(queue, f, n) ==
    [t \in Thread |-> IF \E i \in 1..n : t = queue[i] THEN Toggled(f[t]) ELSE f[t]]

\* Plausible slips: one list for all priorities; a stack for each priority.
IsTarget_AnyPriority(queue, i) == i = 1
IsTarget_LastIn(queue, i) ==
    /\ \A j \in DOMAIN queue : priority[queue[i]] <= priority[queue[j]]
    /\ \A j \in (i + 1)..Len(queue) : priority[queue[i]] < priority[queue[j]]

\* The head of the first non-empty active list.
IsTarget(queue, i) ==
    /\ \A j \in DOMAIN queue : priority[queue[i]] <= priority[queue[j]]
    /\ \A j \in 1..(i - 1) : priority[queue[i]] < priority[queue[j]]

\* Plausible slips: no reset; > for >=.
Refreshed_Never(t, used) == used
Refreshed_Above(t, used) == IF used > quota[t] THEN 0 ELSE used

\* if (target->elapsed >= target->quantum) target->elapsed = 0;
Refreshed(t, used) == IF used >= quota[t] THEN 0 ELSE used

Dispatch(queue, used) ==
    IF queue = <<>>
    THEN /\ current' = NoThread          \* target is NULL
         /\ UNCHANGED <<elapsed, quantum>>
         /\ ready' = queue /\ t_elapsed' = used
    ELSE \E i \in DOMAIN queue :
         /\ IsTarget(queue, i)
         /\ LET target == queue[i]
                spent  == Refreshed(target, used[target])
            IN /\ current' = target
               /\ ready' = RemoveAt(queue, i)
               /\ t_elapsed' = [used EXCEPT ![target] = spent]
               /\ elapsed' = 0
               /\ quantum' = quota[target] - spent

\* scheduler_pick with e ticks elapsed, flags f, sleep ticks d; left are the
\* ticks each thread was still to sleep (the ghost variable due).
scheduler_pick(e, f, d, left) ==
    \E p \in Park(current, f, d) : \E n \in 0..Len(p.slept) :
        /\ Wakes(p.slept, p.delay, n, e)
        /\ slept' = SubSeq(p.slept, n + 1, Len(p.slept))
        /\ zombie' = p.zombie
        /\ sleep_tick' = Charged(p.slept, p.delay, n, e)
        /\ flags' = Unflagged(p.slept, f, n)
        /\ due' = IF SLEPT \in f[current] THEN [left EXCEPT ![current] = d[current]]
                  ELSE left
        /\ Dispatch(p.ready \o SubSeq(p.slept, 1, n),
                    [t_elapsed EXCEPT ![current] = @ + e])

-----------------------------------------------------------------------------
(* The callers *)

\* scheduler_yield of the running thread, after its flags and sleep tick.
scheduler_yield(f, d) == scheduler_pick(elapsed, f, d, due)

TickedDown == [t \in Thread |-> IF due[t] > 0 THEN due[t] - 1 ELSE 0]

\* The timer interrupt: IRQ0 calls scheduler_tick, which yields for the
\* interrupted thread when its quantum is used up.
scheduler_tick ==
    /\ current \in Thread
    /\ IF quantum = 1
       THEN scheduler_pick(elapsed + 1, flags, sleep_tick, TickedDown)
       ELSE /\ elapsed' = elapsed + 1
            /\ quantum' = quantum - 1
            /\ due' = TickedDown
            /\ UNCHANGED <<current, ready, slept, zombie, tcbs>>
    /\ UNCHANGED <<created, freed, pc, victim, rounds>>

\* kmain starts the idle thread, the cleaner and then the processes.
scheduler_run(t) ==
    /\ current = Main
    /\ t \notin created
    /\ t = Cleaner => Idle \in created
    /\ t \in Process => Cleaner \in created
    /\ created' = created \union {t}
    /\ ready' = scheduler_add(ready, t)
    /\ UNCHANGED <<elapsed, quantum, current, slept, zombie, tcbs,
                   freed, pc, victim, rounds, due>>

\* kservice_usleep, whose argument amounts to tick timer ticks.
usleep(p, tick) ==
    /\ current = p /\ rounds[p] > 0
    /\ rounds' = [rounds EXCEPT ![p] = @ - 1]
    /\ IF tick = 0 THEN scheduler_yield(flags, sleep_tick)
       ELSE scheduler_yield([flags EXCEPT ![p] = @ \union {SLEPT}],
                            [sleep_tick EXCEPT ![p] = tick])
    /\ UNCHANGED <<created, freed, pc, victim>>

\* kservice_exit: scheduler_exitthread never returns.
exit(p) ==
    /\ current = p
    /\ scheduler_yield([flags EXCEPT ![p] = @ \union {ZOMBIE}], sleep_tick)
    /\ UNCHANGED <<created, freed, pc, victim, rounds>>

\* The first half of scheduler_cleanzombie, between cli and sti.
PopZombie ==
    /\ current = Cleaner /\ pc = "pop"
    /\ IF zombie = <<>>
       THEN pc' = "nap" /\ UNCHANGED <<zombie, victim>>
       ELSE pc' = "free" /\ victim' = Head(zombie) /\ zombie' = Tail(zombie)
    /\ UNCHANGED <<elapsed, quantum, current, ready, slept, tcbs,
                   created, freed, rounds, due>>

\* The second half: kfree of the stack and of the TCB.
FreeZombie ==
    /\ current = Cleaner /\ pc = "free"
    /\ freed' = freed \union {victim}
    /\ victim' = NoThread
    /\ pc' = "nap"
    /\ UNCHANGED <<sched, created, rounds, due>>

\* scheduler_sleep(10) of the cleaner, with interrupts on: the sleep tick,
\* the flag and the yield are three steps.
SetSleepTick ==
    /\ current = Cleaner /\ pc = "nap"
    /\ sleep_tick' = [sleep_tick EXCEPT ![Cleaner] = CleanerNap]
    /\ pc' = "flag"
    /\ UNCHANGED <<elapsed, quantum, current, ready, slept, zombie, t_elapsed,
                   flags, created, freed, victim, rounds, due>>

SetSleptFlag ==
    /\ current = Cleaner /\ pc = "flag"
    /\ flags' = [flags EXCEPT ![Cleaner] = @ \union {SLEPT}]
    /\ pc' = "yield"
    /\ UNCHANGED <<elapsed, quantum, current, ready, slept, zombie, t_elapsed,
                   sleep_tick, created, freed, victim, rounds, due>>

CleanerYield ==
    /\ current = Cleaner /\ pc = "yield"
    /\ pc' = "pop"
    /\ scheduler_yield(flags, sleep_tick)
    /\ UNCHANGED <<created, freed, victim, rounds>>

CleanerStep == PopZombie \/ FreeZombie \/ SetSleepTick \/ SetSleptFlag \/ CleanerYield

-----------------------------------------------------------------------------
\* scheduler_init, and nothing created yet.
Init ==
    /\ elapsed = 0 /\ quantum = 1 /\ current = Main
    /\ ready = <<>> /\ slept = <<>> /\ zombie = <<>>
    /\ t_elapsed = [t \in Thread |-> 0]
    /\ sleep_tick = [t \in Thread |-> 0]
    /\ flags = [t \in Thread |-> {}]
    /\ created = {Main} /\ freed = {}
    /\ pc = "pop" /\ victim = NoThread
    /\ rounds = [p \in Process |-> Rounds]
    /\ due = [t \in Thread |-> 0]

Next ==
    \/ scheduler_tick
    \/ \E t \in Thread : scheduler_run(t)
    \/ \E p \in Process, tick \in 0..MaxNap : usleep(p, tick)
    \/ \E p \in Process : exit(p)
    \/ PopZombie \/ FreeZombie
    \/ SetSleepTick \/ SetSleptFlag \/ CleanerYield

Spec == Init /\ [][Next]_vars

\* The timer keeps interrupting, and a thread that gets the processor again
\* and again executes its next call: kmain has finitely many threads to
\* start, the cleaner and testapp are loops around system calls.
Fairness ==
    /\ WF_vars(scheduler_tick)
    /\ SF_vars(\E t \in Thread : scheduler_run(t))
    /\ \A p \in Process :
          SF_vars(exit(p) \/ \E tick \in 0..MaxNap : usleep(p, tick))
    /\ SF_vars(CleanerStep)

FairSpec == Spec /\ Fairness

-----------------------------------------------------------------------------
(* Properties *)

TypeOK ==
    /\ elapsed \in Nat /\ quantum \in Nat /\ current \in Thread
    /\ ready \in Seq(Thread) /\ slept \in Seq(Thread) /\ zombie \in Seq(Thread)
    /\ t_elapsed \in [Thread -> Nat]
    /\ sleep_tick \in [Thread -> Nat]
    /\ flags \in [Thread -> SUBSET {SLEPT, ZOMBIE}]
    /\ created \subseteq Thread /\ freed \subseteq Thread
    /\ pc \in {"pop", "free", "nap", "flag", "yield"}
    /\ victim \in Thread \union {NoThread}
    /\ rounds \in [Process -> Nat]
    /\ due \in [Thread -> Nat]

\* Where the TCBs are.
Places == [cpu |-> {current}, ready |-> ToSet(ready), slept |-> ToSet(slept),
           zombie |-> ToSet(zombie), cleaning |-> {victim} \ {NoThread},
           freed |-> freed]

\* Every thread that was started is in exactly one place, once: the lists
\* never lose a thread, never hold one twice, and never hold the running
\* thread or one whose TCB and stack the cleaner has freed.
OnePlace ==
    /\ IsInjective(ready) /\ IsInjective(slept) /\ IsInjective(zombie)
    /\ UNION {Places[x] : x \in DOMAIN Places} = created
    /\ \A x, y \in DOMAIN Places : x # y => Places[x] \intersect Places[y] = {}

\* The flags of a thread agree with the list it is on, although
\* scheduler_sleep of a kernel thread can be preempted between setting them
\* and yielding, and waking toggles the flag instead of clearing it.
FlagsMatch ==
    /\ \A t \in Places.slept : flags[t] = {SLEPT}
    /\ \A t \in Places.ready : flags[t] = {}
    /\ \A t \in Places.zombie \union Places.cleaning \union freed :
          t \in Process /\ flags[t] = {ZOMBIE}
    /\ flags[current] \in {{}, {SLEPT}}
    /\ SLEPT \in flags[current] => current = Cleaner /\ pc = "yield"

\* The counter the timer decrements is never 0 (its next decrement would
\* wrap), and a thread is preempted within its quantum however its earlier
\* turns were cut short.
SliceBound ==
    /\ quantum >= 1
    /\ t_elapsed[current] + elapsed + quantum <= quota[current]

\* A thread of better priority than the running one waits only while kmain,
\* which has just started it, runs: waking, exiting and sleeping all go
\* through the pick of the best list.
NoInversion ==
    \A t \in ToSet(ready) : current = Main \/ priority[t] >= priority[current]

\* After a pick nobody is asleep whose time has passed: the deltas of the
\* sleepers in front never add up to more than what is due.
WakesOnTime == elapsed = 0 => \A t \in ToSet(slept) : due[t] > 0

\* A sleep lasts the number of ticks asked for.
SleepsFullTime == \A t \in Thread : due[t] > 0 => t \in ToSet(slept)

Before(queue, t, u) ==
    \E i, j \in DOMAIN queue : i < j /\ queue[i] = t /\ queue[j] = u

\* Threads of one priority get the processor in the order they became
\* ready: a step neither reorders two waiting threads nor dispatches one
\* that waits behind another of its priority.
NoOvertaking ==
    [][\A t, u \in Thread :
          Before(ready, t, u) /\ priority[t] = priority[u] =>
              /\ current' # u
              /\ Before(ready', u, t) => FALSE]_vars

\* Every process is started, runs to its exit, and its zombie is freed.
EveryProcessReaped == \A p \in Process : <>(p \in freed)

\* A ready or sleeping thread gets the processor again, whatever its
\* priority, once the processes have run out of work.
EveryThreadRuns ==
    \A t \in Thread : t \in ToSet(ready) \union ToSet(slept) ~> current = t

=============================================================================
