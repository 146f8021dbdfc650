-------------------------- MODULE Scheduler_proofs --------------------------
(***************************************************************************)
(* Theorems about Scheduler for any number of processes, any priorities    *)
(* and quanta that SchedulerAssumption allows, and any sleep times.        *)
(***************************************************************************)
EXTENDS Scheduler, QueueLemmas

\* Only processes and the cleaner ever sleep, so kmain and the idle thread
\* are always there to be dispatched.
SleepersOK == ToSet(slept) \subseteq Process \union {Cleaner}

\* The cleaner holds a popped zombie exactly while it is about to free it.
VictimOK == victim = NoThread <=> pc # "free"

\* A thread that has not been started has no flags yet.
FreshOK == \A t \in Thread \ created : flags[t] = {}

\* The inductive invariant.
IInv ==
    /\ TypeOK /\ OnePlace /\ FlagsMatch /\ SliceBound /\ NoInversion
    /\ SleepersOK /\ VictimOK /\ FreshOK
    /\ Main \in created

-----------------------------------------------------------------------------
(* OnePlace, written out *)

Cleaning == {victim} \ {NoThread}

Separate(c, r, s, z, v, f) ==
    /\ c \notin r \union s \union z \union v \union f
    /\ r \intersect s = {} /\ r \intersect z = {} /\ r \intersect v = {}
    /\ r \intersect f = {} /\ s \intersect z = {} /\ s \intersect v = {}
    /\ s \intersect f = {} /\ z \intersect v = {} /\ z \intersect f = {}
    /\ v \intersect f = {}

OnePlaceParts ==
    /\ IsInjective(ready) /\ IsInjective(slept) /\ IsInjective(zombie)
    /\ {current} \union ToSet(ready) \union ToSet(slept) \union ToSet(zombie)
         \union Cleaning \union freed = created
    /\ Separate(current, ToSet(ready), ToSet(slept), ToSet(zombie), Cleaning, freed)

\* OnePlace is the injectivity of the three lists, their union with the
\* other places, and the places being separate.
LEMMA OnePlaceExpanded == OnePlace <=> OnePlaceParts
<1> DEFINE D == {"cpu", "ready", "slept", "zombie", "cleaning", "freed"}
<1>1. DOMAIN Places = D
  BY DEF Places
<1>2. /\ Places["cpu"] = {current} /\ Places["ready"] = ToSet(ready)
      /\ Places["slept"] = ToSet(slept) /\ Places["zombie"] = ToSet(zombie)
      /\ Places["cleaning"] = Cleaning /\ Places["freed"] = freed
  BY DEF Places, Cleaning
<1>3. UNION {Places[x] : x \in D}
        = {current} \union ToSet(ready) \union ToSet(slept) \union ToSet(zombie)
            \union Cleaning \union freed
  BY <1>2
<1>4. (\A x, y \in D : x # y => Places[x] \intersect Places[y] = {})
        <=> Separate(current, ToSet(ready), ToSet(slept), ToSet(zombie),
                     Cleaning, freed)
  BY <1>2 DEF Separate
<1> QED BY <1>1, <1>3, <1>4 DEF OnePlace, OnePlaceParts

-----------------------------------------------------------------------------
(* scheduler_pick *)

\* A walk ends at an entry of the delta queue or behind it, with a rest that
\* is a number of ticks and not more than the delay of that entry.
LEMMA WalkEnd ==
  ASSUME NEW queue \in Seq(Thread), NEW tick \in Nat, NEW d \in [Thread -> Nat],
         NEW left \in Walks(queue, tick, d)
  PROVE  /\ Len(left) \in 1..(Len(queue) + 1)
         /\ left[Len(left)] \in Nat
         /\ Len(left) <= Len(queue) => left[Len(left)] <= d[queue[Len(left)]]
<1>1. PICK k \in 1..(Len(queue) + 1) : left \in [1..k -> 0..tick]
  BY DEF Walks
<1>2. k \in Nat /\ k >= 1 /\ Len(queue) \in Nat
  BY LenProperties
<1>3. left \in Seq(0..tick) /\ Len(left) = k
  BY <1>1, <1>2
<1> QED BY <1>1, <1>2, <1>3 DEF Walks

\* Parking moves the running thread to exactly one list, chosen by its flags,
\* and keeps delays numbers of ticks.
LEMMA Parking ==
  ASSUME ready \in Queue(Thread), slept \in Queue(Thread), zombie \in Queue(Thread),
         NEW t \in Thread,
         t \notin ToSet(ready) \union ToSet(slept) \union ToSet(zombie),
         NEW f \in [Thread -> SUBSET {SLEPT, ZOMBIE}],
         NEW d \in [Thread -> Nat],
         NEW p \in Park(t, f, d)
  PROVE  /\ p.ready \in Queue(Thread) /\ p.slept \in Queue(Thread)
         /\ p.zombie \in Queue(Thread) /\ p.delay \in [Thread -> Nat]
         /\ ToSet(p.zombie) = IF ZOMBIE \in f[t] THEN ToSet(zombie) \union {t}
                              ELSE ToSet(zombie)
         /\ ToSet(p.slept) = IF ZOMBIE \notin f[t] /\ SLEPT \in f[t]
                             THEN ToSet(slept) \union {t} ELSE ToSet(slept)
         /\ ToSet(p.ready) = IF ZOMBIE \notin f[t] /\ SLEPT \notin f[t]
                             THEN ToSet(ready) \union {t} ELSE ToSet(ready)
<1>1. CASE ZOMBIE \in f[t]
  <2>1. p = [ready |-> ready, slept |-> slept, zombie |-> <<t>> \o zombie, delay |-> d]
    BY <1>1 DEF Park
  <2>2. /\ <<t>> \o zombie \in Queue(Thread)
        /\ ToSet(<<t>> \o zombie) = {t} \union ToSet(zombie)
    BY QueueSingle, QueueConcat
  <2> QED BY <1>1, <2>1, <2>2
<1>2. CASE ZOMBIE \notin f[t] /\ SLEPT \in f[t]
  <2>1. PICK left \in Walks(slept, d[t], d) :
          p = [ready |-> ready, slept |-> InsertAt(slept, Len(left), t),
               zombie |-> zombie, delay |-> Delays(slept, t, left, d)]
    BY <1>2 DEF Park
  <2>2. slept \in Seq(Thread) /\ d[t] \in Nat
    BY DEF Queue
  <2>3. /\ Len(left) \in 1..(Len(slept) + 1)
        /\ left[Len(left)] \in Nat
        /\ Len(left) <= Len(slept) => left[Len(left)] <= d[slept[Len(left)]]
    BY <2>2, WalkEnd
  <2>4. /\ InsertAt(slept, Len(left), t) \in Queue(Thread)
        /\ ToSet(InsertAt(slept, Len(left), t)) = ToSet(slept) \union {t}
    BY <2>3, QueueInsert
  <2>5. Delays(slept, t, left, d) \in [Thread -> Nat]
    BY <2>3 DEF Delays
  <2> QED BY <1>2, <2>1, <2>4, <2>5
<1>3. CASE ZOMBIE \notin f[t] /\ SLEPT \notin f[t]
  <2>1. p = [ready |-> Append(ready, t), slept |-> slept, zombie |-> zombie, delay |-> d]
    BY <1>3 DEF Park, scheduler_add
  <2>2. /\ Append(ready, t) \in Queue(Thread)
        /\ ToSet(Append(ready, t)) = ToSet(ready) \union {t}
    BY QueueAppend
  <2> QED BY <1>3, <2>1, <2>2
<1> QED BY <1>1, <1>2, <1>3

\* Dispatching takes one thread off a non-empty ready list: one of the best
\* priority, with at least one tick to run and a turn within its quantum.
LEMMA Dispatching ==
  ASSUME SchedulerAssumption,
         NEW queue \in Queue(Thread), queue # <<>>,
         NEW used \in [Thread -> Nat],
         Dispatch(queue, used)
  PROVE  /\ current' \in ToSet(queue)
         /\ ready' \in Queue(Thread)
         /\ ToSet(ready') = ToSet(queue) \ {current'}
         /\ t_elapsed' \in [Thread -> Nat]
         /\ elapsed' = 0 /\ quantum' \in Nat /\ quantum' >= 1
         /\ t_elapsed'[current'] + elapsed' + quantum' <= quota[current']
         /\ \A t \in ToSet(ready') : priority[t] >= priority[current']
<1> USE DEF SchedulerAssumption
<1>1. queue \in Seq(Thread) /\ DOMAIN queue = 1..Len(queue)
  BY LenProperties DEF Queue
<1>2. PICK i \in 1..Len(queue) :
        /\ IsTarget(queue, i)
        /\ current' = queue[i]
        /\ ready' = RemoveAt(queue, i)
        /\ t_elapsed' = [used EXCEPT ![queue[i]] = Refreshed(queue[i], used[queue[i]])]
        /\ elapsed' = 0
        /\ quantum' = quota[queue[i]] - Refreshed(queue[i], used[queue[i]])
  BY <1>1 DEF Dispatch
<1>3. current' \in Thread /\ current' \in ToSet(queue)
  BY <1>1, <1>2, ElementOfSeq, Members
<1>4. ready' \in Queue(Thread) /\ ToSet(ready') = ToSet(queue) \ {current'}
  BY <1>2, QueueRemove
<1> DEFINE spent == Refreshed(current', used[current'])
<1>5. spent \in Nat /\ spent < quota[current'] /\ quota[current'] \in Nat
  BY <1>3 DEF Refreshed
<1>6. t_elapsed' \in [Thread -> Nat] /\ t_elapsed'[current'] = spent
  BY <1>2, <1>3, <1>5
<1>7. quantum' = quota[current'] - spent
  BY <1>2
<1>8. \A t \in ToSet(queue) : priority[t] >= priority[current']
  <2>1. \A j \in 1..Len(queue) : priority[current'] <= priority[queue[j]]
    BY <1>1, <1>2 DEF IsTarget
  <2> SUFFICES ASSUME NEW t \in ToSet(queue)
               PROVE  priority[t] >= priority[current']
    OBVIOUS
  <2>2. PICK j \in 1..Len(queue) : t = queue[j]
    BY <1>1, Members
  <2>3. priority[current'] \in Nat /\ priority[t] \in Nat
    BY <1>1, <1>3, Members
  <2> QED BY <2>1, <2>2, <2>3
<1> HIDE DEF spent
<1>9. quantum' \in Nat /\ quantum' >= 1 /\ spent + 0 + quantum' <= quota[current']
  BY <1>5, <1>7
<1> QED BY <1>2, <1>3, <1>4, <1>6, <1>8, <1>9

\* Waking takes the first n sleepers, all of them in Woken, out of the delta
\* queue; the delay charged to the next one stays a number of ticks.
Woken(queue, n) == {queue[i] : i \in 1..n}

WakeResult(queue, d, n, e, f) ==
    LET front == SubSeq(queue, 1, n)
        rest  == SubSeq(queue, n + 1, Len(queue))
    IN /\ front \in Queue(Thread) /\ rest \in Queue(Thread)
       /\ ToSet(front) = Woken(queue, n)
       /\ Woken(queue, n) \union ToSet(rest) = ToSet(queue)
       /\ Woken(queue, n) \intersect ToSet(rest) = {}
       /\ Charged(queue, d, n, e) \in [Thread -> Nat]
       /\ Unflagged(queue, f, n) \in [Thread -> SUBSET {SLEPT, ZOMBIE}]
       /\ \A t \in Thread : Unflagged(queue, f, n)[t]
                            = IF t \in Woken(queue, n) THEN Toggled(f[t]) ELSE f[t]

LEMMA Waking ==
  ASSUME NEW queue \in Queue(Thread), NEW d \in [Thread -> Nat], NEW e \in Nat,
         NEW f \in [Thread -> SUBSET {SLEPT, ZOMBIE}],
         NEW n \in 0..Len(queue), Wakes(queue, d, n, e)
  PROVE  WakeResult(queue, d, n, e, f)
<1>1. /\ SubSeq(queue, 1, n) \in Queue(Thread)
      /\ SubSeq(queue, n + 1, Len(queue)) \in Queue(Thread)
      /\ ToSet(SubSeq(queue, 1, n)) = Woken(queue, n)
      /\ Woken(queue, n) \union ToSet(SubSeq(queue, n + 1, Len(queue))) = ToSet(queue)
      /\ Woken(queue, n) \intersect ToSet(SubSeq(queue, n + 1, Len(queue))) = {}
  <2>1. ToSet(SubSeq(queue, 1, n)) = Woken(queue, n)
    BY QueueSplit DEF Woken
  <2>2. /\ SubSeq(queue, 1, n) \in Queue(Thread)
        /\ SubSeq(queue, n + 1, Len(queue)) \in Queue(Thread)
        /\ ToSet(SubSeq(queue, 1, n)) \union ToSet(SubSeq(queue, n + 1, Len(queue)))
             = ToSet(queue)
        /\ ToSet(SubSeq(queue, 1, n)) \intersect ToSet(SubSeq(queue, n + 1, Len(queue)))
             = {}
    BY QueueSplit
  <2> QED BY <2>1, <2>2
<1>2. Charged(queue, d, n, e) \in [Thread -> Nat]
  <2>1. ASSUME NEW t \in Thread, n < Len(queue), t = queue[n + 1]
        PROVE  d[t] - e \in Nat
    <3>1. d[t] > e
      BY <2>1 DEF Wakes
    <3>2. d[t] \in Nat
      BY <2>1
    <3> QED BY <3>1, <3>2
  <2> QED BY <2>1 DEF Charged
<1>3. Unflagged(queue, f, n) \in [Thread -> SUBSET {SLEPT, ZOMBIE}]
  BY DEF Unflagged, Toggled
<1>4. \A t \in Thread : Unflagged(queue, f, n)[t]
                        = IF t \in Woken(queue, n) THEN Toggled(f[t]) ELSE f[t]
  BY DEF Unflagged, Woken
<1> QED BY <1>1, <1>2, <1>3, <1>4 DEF WakeResult

\* A pick in its parts: where the running thread was parked, how many of the
\* sleepers were woken, and that nobody is on two lists in between.
Picked(p, n, e, f, d, left) ==
    /\ Wakes(p.slept, p.delay, n, e)
    /\ slept' = SubSeq(p.slept, n + 1, Len(p.slept))
    /\ zombie' = p.zombie
    /\ sleep_tick' = Charged(p.slept, p.delay, n, e)
    /\ flags' = Unflagged(p.slept, f, n)
    /\ due' = IF SLEPT \in f[current] THEN [left EXCEPT ![current] = d[current]]
              ELSE left
    /\ Dispatch(p.ready \o SubSeq(p.slept, 1, n),
                [t_elapsed EXCEPT ![current] = @ + e])

Parked(p, f, d) ==
    /\ p.ready \in Queue(Thread) /\ p.slept \in Queue(Thread)
    /\ p.zombie \in Queue(Thread) /\ p.delay \in [Thread -> Nat]
    /\ ToSet(p.zombie) = IF ZOMBIE \in f[current] THEN ToSet(zombie) \union {current}
                         ELSE ToSet(zombie)
    /\ ToSet(p.slept) = IF ZOMBIE \notin f[current] /\ SLEPT \in f[current]
                        THEN ToSet(slept) \union {current} ELSE ToSet(slept)
    /\ ToSet(p.ready) = IF ZOMBIE \notin f[current] /\ SLEPT \notin f[current]
                        THEN ToSet(ready) \union {current} ELSE ToSet(ready)
    /\ ToSet(p.ready) \intersect ToSet(p.slept) = {}

LEMMA PickQueue ==
  ASSUME SchedulerAssumption, IInv, NEW e,
         NEW f \in [Thread -> SUBSET {SLEPT, ZOMBIE}],
         NEW d \in [Thread -> Nat], NEW left,
         scheduler_pick(e, f, d, left)
  PROVE  \E p \in Park(current, f, d) : \E n \in 0..Len(p.slept) :
            Picked(p, n, e, f, d, left) /\ Parked(p, f, d)
<1>1. /\ ready \in Queue(Thread) /\ slept \in Queue(Thread)
      /\ zombie \in Queue(Thread) /\ current \in Thread
      /\ Separate(current, ToSet(ready), ToSet(slept), ToSet(zombie), Cleaning, freed)
  BY OnePlaceExpanded DEF IInv, OnePlaceParts, TypeOK, Queue
<1>2. PICK p \in Park(current, f, d) :
         \E n \in 0..Len(p.slept) : Picked(p, n, e, f, d, left)
  BY DEF scheduler_pick, Picked
<1>3. current \notin ToSet(ready) \union ToSet(slept) \union ToSet(zombie)
  BY <1>1 DEF Separate
<1>4. /\ p.ready \in Queue(Thread) /\ p.slept \in Queue(Thread)
      /\ p.zombie \in Queue(Thread) /\ p.delay \in [Thread -> Nat]
      /\ ToSet(p.zombie) = IF ZOMBIE \in f[current] THEN ToSet(zombie) \union {current}
                           ELSE ToSet(zombie)
      /\ ToSet(p.slept) = IF ZOMBIE \notin f[current] /\ SLEPT \in f[current]
                          THEN ToSet(slept) \union {current} ELSE ToSet(slept)
      /\ ToSet(p.ready) = IF ZOMBIE \notin f[current] /\ SLEPT \notin f[current]
                          THEN ToSet(ready) \union {current} ELSE ToSet(ready)
  BY <1>1, <1>2, <1>3, Parking
<1>5. ToSet(p.ready) \intersect ToSet(p.slept) = {}
  BY <1>1, <1>4 DEF Separate
<1> QED BY <1>2, <1>4, <1>5 DEF Parked

\* What scheduler_pick leaves behind: numbers where numbers belong, every
\* thread in one place, flags in agreement with the lists, and a running
\* thread nobody ready should run before, for ticks within its quantum.
PickResult ==
    /\ elapsed' = 0 /\ quantum' \in Nat /\ current' \in Thread
    /\ ready' \in Seq(Thread) /\ slept' \in Seq(Thread) /\ zombie' \in Seq(Thread)
    /\ t_elapsed' \in [Thread -> Nat] /\ sleep_tick' \in [Thread -> Nat]
    /\ flags' \in [Thread -> SUBSET {SLEPT, ZOMBIE}]
    /\ due' \in [Thread -> Nat]
    /\ OnePlace' /\ SliceBound' /\ SleepersOK' /\ FreshOK'
    /\ \A t \in ToSet(slept') : flags'[t] = {SLEPT}
    /\ \A t \in ToSet(ready') : flags'[t] = {}
    /\ \A t \in ToSet(zombie') \union Cleaning' \union freed' :
          t \in Process /\ flags'[t] = {ZOMBIE}
    /\ flags'[current'] = {}
    /\ \A t \in ToSet(ready') : priority[t] >= priority[current']

LEMMA Picking ==
  ASSUME SchedulerAssumption, IInv,
         NEW e \in Nat,
         NEW f \in [Thread -> SUBSET {SLEPT, ZOMBIE}],
         NEW d \in [Thread -> Nat], NEW left \in [Thread -> Nat],
         \A t \in Thread \ {current} : f[t] = flags[t],
         f[current] \in {{}, {SLEPT}, {ZOMBIE}},
         SLEPT \in f[current] => current \in Process \union {Cleaner},
         ZOMBIE \in f[current] => current \in Process,
         scheduler_pick(e, f, d, left),
         UNCHANGED <<created, freed, victim>>
  PROVE  PickResult
<1>1. /\ ready \in Queue(Thread) /\ slept \in Queue(Thread)
      /\ zombie \in Queue(Thread) /\ current \in Thread
      /\ [t_elapsed EXCEPT ![current] = @ + e] \in [Thread -> Nat]
  <2>1. TypeOK /\ OnePlaceParts
    BY OnePlaceExpanded DEF IInv
  <2>2. current \in Thread /\ t_elapsed \in [Thread -> Nat]
    BY <2>1 DEF TypeOK
  <2>3. [t_elapsed EXCEPT ![current] = @ + e] \in [Thread -> Nat]
    BY <2>2
  <2> QED BY <2>1, <2>2, <2>3 DEF OnePlaceParts, TypeOK, Queue
<1>2. /\ {current} \union ToSet(ready) \union ToSet(slept) \union ToSet(zombie)
           \union Cleaning \union freed = created
      /\ Separate(current, ToSet(ready), ToSet(slept), ToSet(zombie), Cleaning, freed)
  BY OnePlaceExpanded DEF OnePlaceParts, IInv
<1>3. PICK p \in Park(current, f, d) : \E n \in 0..Len(p.slept) :
         Picked(p, n, e, f, d, left) /\ Parked(p, f, d)
  BY PickQueue
<1>4. PICK n \in 0..Len(p.slept) : Picked(p, n, e, f, d, left)
  BY <1>3
<1>5. /\ p.ready \in Queue(Thread) /\ p.slept \in Queue(Thread)
      /\ p.zombie \in Queue(Thread) /\ p.delay \in [Thread -> Nat]
      /\ ToSet(p.zombie) = IF ZOMBIE \in f[current] THEN ToSet(zombie) \union {current}
                           ELSE ToSet(zombie)
      /\ ToSet(p.slept) = IF ZOMBIE \notin f[current] /\ SLEPT \in f[current]
                          THEN ToSet(slept) \union {current} ELSE ToSet(slept)
      /\ ToSet(p.ready) = IF ZOMBIE \notin f[current] /\ SLEPT \notin f[current]
                          THEN ToSet(ready) \union {current} ELSE ToSet(ready)
  BY <1>3 DEF Parked
<1> DEFINE front == SubSeq(p.slept, 1, n)
           woken == Woken(p.slept, n)
           queue == p.ready \o front
           used  == [t_elapsed EXCEPT ![current] = @ + e]
<1>6. /\ front \in Queue(Thread) /\ slept' \in Queue(Thread)
      /\ ToSet(front) = woken
      /\ woken \union ToSet(slept') = ToSet(p.slept)
      /\ woken \intersect ToSet(slept') = {}
      /\ sleep_tick' \in [Thread -> Nat]
      /\ flags' \in [Thread -> SUBSET {SLEPT, ZOMBIE}]
      /\ \A t \in Thread : flags'[t] = IF t \in woken THEN Toggled(f[t]) ELSE f[t]
  <2>1. /\ Wakes(p.slept, p.delay, n, e) /\ n \in 0..Len(p.slept)
        /\ p.slept \in Queue(Thread) /\ p.delay \in [Thread -> Nat]
        /\ e \in Nat /\ f \in [Thread -> SUBSET {SLEPT, ZOMBIE}]
    BY <1>4, <1>5 DEF Picked
  <2>2. WakeResult(p.slept, p.delay, n, e, f)
    BY <2>1, Waking
  <2> QED BY <1>4, <2>2 DEF WakeResult, Picked
<1> HIDE DEF woken, front
<1>7. ToSet(p.ready) \intersect ToSet(p.slept) = {}
  BY <1>3 DEF Parked
<1>8. /\ queue \in Queue(Thread)
      /\ ToSet(queue) = ToSet(p.ready) \union woken
  BY <1>5, <1>6, <1>7, QueueConcat
<1>9. queue # <<>>
  <2>1. Main \notin ToSet(slept) \union ToSet(zombie) \union Cleaning \union freed
    BY DEF IInv, SleepersOK, FlagsMatch, Places, Cleaning, SchedulerAssumption
  <2>2. Main \in {current} \union ToSet(ready)
    BY <1>2, <2>1 DEF IInv
  <2>3. current = Main => ZOMBIE \notin f[current] /\ SLEPT \notin f[current]
    BY DEF SchedulerAssumption
  <2>4. Main \in ToSet(p.ready)
    BY <1>5, <2>2, <2>3
  <2> QED BY <1>8, <2>4, Members, EmptySeq DEF Queue
<1>10. used \in [Thread -> Nat]
  BY <1>1
<1>11. /\ current' \in ToSet(queue)
       /\ ready' \in Queue(Thread)
       /\ ToSet(ready') = ToSet(queue) \ {current'}
       /\ t_elapsed' \in [Thread -> Nat]
       /\ elapsed' = 0 /\ quantum' \in Nat /\ quantum' >= 1
       /\ t_elapsed'[current'] + elapsed' + quantum' <= quota[current']
       /\ \A t \in ToSet(ready') : priority[t] >= priority[current']
  <2> HIDE DEF queue, used
  <2>1. Dispatch(queue, used)
    BY <1>4 DEF queue, used, front, Picked
  <2> QED BY <1>8, <1>9, <1>10, <2>1, Dispatching
<1> HIDE DEF queue, used
<1>12. current' \in Thread
  BY <1>8, <1>11, Members DEF Queue
<1>13. sleep_tick' \in [Thread -> Nat]
  BY <1>6
<1>14. /\ flags' \in [Thread -> SUBSET {SLEPT, ZOMBIE}]
       /\ \A t \in Thread : flags'[t] = IF t \in woken THEN Toggled(f[t]) ELSE f[t]
  BY <1>6
<1>15. due' \in [Thread -> Nat]
  BY <1>1, <1>4 DEF Picked
<1>16. /\ IsInjective(ready') /\ IsInjective(slept') /\ IsInjective(zombie')
       /\ ready' \in Seq(Thread) /\ slept' \in Seq(Thread) /\ zombie' \in Seq(Thread)
  BY <1>4, <1>5, <1>6, <1>11 DEF Queue, Picked
<1>17. Cleaning' = Cleaning /\ freed' = freed /\ created' = created
  BY DEF Cleaning
<1>18. ToSet(zombie') = ToSet(p.zombie)
  BY <1>4 DEF Picked
<1>19. ToSet(p.ready) \union ToSet(p.slept) \union ToSet(p.zombie)
         = {current} \union ToSet(ready) \union ToSet(slept) \union ToSet(zombie)
  BY <1>5
<1>20. /\ {current'} \union ToSet(ready') \union ToSet(slept') \union ToSet(zombie')
            \union Cleaning' \union freed' = created'
       /\ Separate(current', ToSet(ready'), ToSet(slept'), ToSet(zombie'),
                   Cleaning', freed')
  <2>1. {current'} \union ToSet(ready') = ToSet(p.ready) \union woken
    BY <1>8, <1>11
  <2>2. {current'} \union ToSet(ready') \union ToSet(slept')
          = ToSet(p.ready) \union ToSet(p.slept)
    BY <1>6, <2>1
  <2>3. Separate(current', ToSet(ready'), ToSet(slept'), ToSet(p.zombie), Cleaning, freed)
    <3> DEFINE R == ToSet(p.ready)
               S == ToSet(p.slept)
               Z == ToSet(p.zombie)
    <3>1. /\ R \intersect S = {} /\ R \intersect Z = {} /\ S \intersect Z = {}
          /\ (R \union S \union Z) \intersect (Cleaning \union freed) = {}
          /\ Cleaning \intersect freed = {}
      BY <1>2, <1>5 DEF Separate
    <3> HIDE DEF R, S, Z
    <3>2. /\ current' \in R \union woken
          /\ ToSet(ready') = (R \union woken) \ {current'}
          /\ woken \union ToSet(slept') = S
          /\ woken \intersect ToSet(slept') = {}
      BY <1>6, <1>8, <1>11 DEF R, S
    <3>3. Separate(current', ToSet(ready'), ToSet(slept'), Z, Cleaning, freed)
      BY <3>1, <3>2 DEF Separate
    <3> QED BY <3>3 DEF Z
  <2> QED BY <1>2, <1>17, <1>18, <1>19, <2>2, <2>3
<1>21. OnePlace'
  <2>1. OnePlaceParts'
    BY <1>16, <1>20 DEF OnePlaceParts
  <2> QED BY <2>1, OnePlaceExpanded, PTL
<1>22. SleepersOK'
  BY <1>5, <1>6 DEF IInv, SleepersOK
<1>23. /\ \A t \in ToSet(slept) : flags[t] = {SLEPT}
       /\ \A t \in ToSet(ready) : flags[t] = {}
       /\ \A t \in ToSet(zombie) \union Cleaning \union freed :
             t \in Process /\ flags[t] = {ZOMBIE}
  BY DEF IInv, FlagsMatch, Places, Cleaning
<1>24. /\ ToSet(slept) \subseteq Thread /\ ToSet(ready) \subseteq Thread
       /\ SLEPT # ZOMBIE /\ Process \subseteq Thread
  BY <1>1, Members DEF Queue, SLEPT, ZOMBIE, Thread
<1>25. current \notin ToSet(ready) \union ToSet(slept) \union ToSet(zombie)
                       \union Cleaning \union freed
  BY <1>2 DEF Separate
<1>26. \A t \in ToSet(p.slept) : t \in Thread /\ f[t] = {SLEPT}
  <2> SUFFICES ASSUME NEW t \in ToSet(p.slept) PROVE t \in Thread /\ f[t] = {SLEPT}
    OBVIOUS
  <2>1. CASE t = current
    <3>1. SLEPT \in f[current]
      BY <2>1, <1>5, <1>25
    <3> QED BY <2>1, <3>1, <1>1, <1>24
  <2>2. CASE t # current
    <3>1. t \in ToSet(slept)
      BY <2>2, <1>5
    <3> QED BY <2>2, <3>1, <1>23, <1>24
  <2> QED BY <2>1, <2>2
<1>27. \A t \in ToSet(p.ready) : t \in Thread /\ f[t] = {}
  <2> SUFFICES ASSUME NEW t \in ToSet(p.ready) PROVE t \in Thread /\ f[t] = {}
    OBVIOUS
  <2>1. CASE t = current
    <3>1. SLEPT \notin f[current] /\ ZOMBIE \notin f[current]
      BY <2>1, <1>5, <1>25
    <3> QED BY <2>1, <3>1, <1>1
  <2>2. CASE t # current
    <3>1. t \in ToSet(ready)
      BY <2>2, <1>5
    <3> QED BY <2>2, <3>1, <1>23, <1>24
  <2> QED BY <2>1, <2>2
<1>28. \A t \in ToSet(p.zombie) \union Cleaning \union freed :
         t \in Process /\ t \in Thread /\ f[t] = {ZOMBIE}
  <2> SUFFICES ASSUME NEW t \in ToSet(p.zombie) \union Cleaning \union freed
               PROVE  t \in Process /\ t \in Thread /\ f[t] = {ZOMBIE}
    OBVIOUS
  <2>1. CASE t = current
    <3>1. ZOMBIE \in f[current]
      BY <2>1, <1>5, <1>25
    <3> QED BY <2>1, <3>1, <1>1, <1>24
  <2>2. CASE t # current
    <3>1. t \in ToSet(zombie) \union Cleaning \union freed
      BY <2>2, <1>5
    <3> QED BY <2>2, <3>1, <1>23, <1>24
  <2> QED BY <2>1, <2>2
<1>29. woken \subseteq ToSet(p.slept) /\ \A t \in woken : flags'[t] = {}
  <2>1. SLEPT # ZOMBIE
    BY DEF SLEPT, ZOMBIE
  <2>2. Toggled({SLEPT}) = {}
    BY DEF Toggled
  <2> QED BY <1>6, <1>14, <1>26, <2>2
<1>30. \A t \in ToSet(queue) : flags'[t] = {}
  <2>1. ToSet(p.ready) \intersect woken = {}
    BY <1>6, <1>7
  <2> QED BY <1>8, <1>14, <1>27, <1>29, <2>1
<1>31. \A t \in ToSet(slept') : flags'[t] = {SLEPT}
  BY <1>6, <1>14, <1>26
<1>32. \A t \in ToSet(zombie') \union Cleaning' \union freed' :
         t \in Process /\ flags'[t] = {ZOMBIE}
  <2>1. ASSUME NEW t \in woken, t \in ToSet(p.zombie) \union Cleaning \union freed
        PROVE  FALSE
    <3>1. f[t] = {SLEPT}
      BY <2>1, <1>26, <1>29
    <3>2. f[t] = {ZOMBIE}
      BY <2>1, <1>28
    <3> QED BY <3>1, <3>2, <1>24
  <2> QED BY <1>14, <1>17, <1>18, <1>28, <2>1
<1>33. FreshOK'
  <2> SUFFICES ASSUME NEW t \in Thread \ created PROVE flags'[t] = {}
    BY <1>17 DEF FreshOK
  <2>1. t # current /\ t \notin ToSet(p.slept)
    BY <1>2, <1>5
  <2>2. t \notin woken /\ f[t] = {}
    BY <2>1, <1>29 DEF IInv, FreshOK
  <2> QED BY <2>2, <1>14
<1> QED
  BY <1>11, <1>12, <1>13, <1>14, <1>15, <1>16, <1>21, <1>22, <1>30, <1>31, <1>32, <1>33
     DEF SliceBound, PickResult

-----------------------------------------------------------------------------
(* The invariant *)

\* After a step that picks, the invariant holds if the other variables are
\* well typed.
LEMMA PickedInv ==
  ASSUME SchedulerAssumption, IInv, PickResult,
         UNCHANGED <<created, freed, victim>>,
         rounds' \in [Process -> Nat],
         \/ pc' = pc
         \/ pc # "free" /\ pc' \in {"pop", "free", "nap", "flag", "yield"} \ {"free"}
  PROVE  IInv'
<1>1. TypeOK /\ VictimOK /\ Main \in created
  BY DEF IInv
<1>2. TypeOK'
  BY <1>1 DEF TypeOK, PickResult
<1>3. FlagsMatch'
  <2>1. SLEPT \notin flags'[current']
    BY DEF PickResult
  <2> QED BY <2>1 DEF FlagsMatch, Places, Cleaning, PickResult
<1>4. NoInversion'
  BY DEF NoInversion, PickResult
<1>5. VictimOK'
  BY <1>1 DEF VictimOK
<1> QED BY <1>1, <1>2, <1>3, <1>4, <1>5 DEF IInv, PickResult

\* What the invariant says of the running thread's flags: the conditions
\* under which it may yield.
LEMMA Runner ==
  ASSUME SchedulerAssumption, IInv
  PROVE  /\ current \in Thread
         /\ flags[current] \in {{}, {SLEPT}, {ZOMBIE}}
         /\ SLEPT \in flags[current] => current \in Process \union {Cleaner}
         /\ ZOMBIE \notin flags[current]
         /\ elapsed \in Nat /\ flags \in [Thread -> SUBSET {SLEPT, ZOMBIE}]
         /\ sleep_tick \in [Thread -> Nat] /\ due \in [Thread -> Nat]
         /\ rounds \in [Process -> Nat]
<1>1. TypeOK /\ FlagsMatch
  BY DEF IInv
<1>2. SLEPT # ZOMBIE
  BY DEF SLEPT, ZOMBIE
<1> QED BY <1>1, <1>2 DEF TypeOK, FlagsMatch

LEMMA TickInv ==
  ASSUME SchedulerAssumption, IInv, scheduler_tick
  PROVE  IInv'
<1>1. TickedDown \in [Thread -> Nat]
  BY Runner DEF TickedDown
<1>2. CASE quantum = 1
  <2>1. /\ scheduler_pick(elapsed + 1, flags, sleep_tick, TickedDown)
        /\ UNCHANGED <<created, freed, pc, victim, rounds>>
    BY <1>2 DEF scheduler_tick
  <2>2. elapsed + 1 \in Nat
    BY Runner
  <2>3. PickResult
    BY <1>1, <2>1, <2>2, Runner, Picking
  <2> QED BY <2>1, <2>3, Runner, PickedInv
<1>3. CASE quantum # 1
  <2>1. /\ elapsed' = elapsed + 1 /\ quantum' = quantum - 1 /\ due' = TickedDown
        /\ UNCHANGED <<current, ready, slept, zombie, t_elapsed, sleep_tick, flags,
                       created, freed, pc, victim, rounds>>
    BY <1>3 DEF scheduler_tick, tcbs
  <2>2. SliceBound' /\ quantum' \in Nat /\ elapsed' \in Nat
    <3>1. /\ elapsed \in Nat /\ quantum \in Nat /\ quantum >= 1
          /\ t_elapsed[current] \in Nat /\ quota[current] \in Nat
          /\ t_elapsed[current] + elapsed + quantum <= quota[current]
      BY DEF IInv, TypeOK, SliceBound, SchedulerAssumption
    <3> QED BY <3>1, <2>1, <1>3 DEF SliceBound
  <2>3. TypeOK'
    BY <1>1, <2>1, <2>2 DEF IInv, TypeOK
  <2>4. OnePlace' /\ FlagsMatch' /\ NoInversion' /\ SleepersOK' /\ VictimOK'
        /\ FreshOK' /\ Main \in created'
    BY <2>1 DEF IInv, OnePlace, FlagsMatch, Places, NoInversion, SleepersOK,
                    VictimOK, FreshOK
  <2> QED BY <2>2, <2>3, <2>4 DEF IInv
<1> QED BY <1>2, <1>3

LEMMA RunInv ==
  ASSUME SchedulerAssumption, IInv, NEW t \in Thread, scheduler_run(t)
  PROVE  IInv'
<1>1. /\ current = Main /\ t \notin created
      /\ created' = created \union {t} /\ ready' = Append(ready, t)
      /\ UNCHANGED <<elapsed, quantum, current, slept, zombie, t_elapsed, sleep_tick,
                     flags, freed, pc, victim, rounds, due>>
  BY DEF scheduler_run, scheduler_add, tcbs
<1>2. TypeOK /\ FlagsMatch /\ SliceBound /\ SleepersOK /\ VictimOK /\ FreshOK
      /\ OnePlaceParts /\ Main \in created
  BY OnePlaceExpanded DEF IInv
<1>3. ready \in Queue(Thread) /\ t \notin ToSet(ready)
  BY <1>1, <1>2 DEF OnePlaceParts, TypeOK, Queue
<1>4. ready' \in Queue(Thread) /\ ToSet(ready') = ToSet(ready) \union {t}
  BY <1>1, <1>3, QueueAppend
<1>5. TypeOK'
  BY <1>1, <1>2, <1>4 DEF TypeOK, Queue
<1>6. OnePlace'
  <2>1. t \notin {current} \union ToSet(ready) \union ToSet(slept) \union ToSet(zombie)
                 \union Cleaning \union freed
    BY <1>1, <1>2 DEF OnePlaceParts
  <2>2. /\ ToSet(slept') = ToSet(slept) /\ ToSet(zombie') = ToSet(zombie)
        /\ Cleaning' = Cleaning
    BY <1>1 DEF Cleaning
  <2>3. Separate(current', ToSet(ready'), ToSet(slept'), ToSet(zombie'), Cleaning', freed')
    BY <1>1, <1>2, <1>4, <2>1, <2>2 DEF OnePlaceParts, Separate
  <2>4. OnePlaceParts'
    BY <1>1, <1>2, <1>4, <2>2, <2>3 DEF OnePlaceParts, Queue
  <2> QED BY <2>4, OnePlaceExpanded, PTL
<1>7. FlagsMatch'
  <2>1. flags[t] = {}
    BY <1>1, <1>2 DEF FreshOK
  <2> QED BY <1>1, <1>2, <1>4, <2>1 DEF FlagsMatch, Places
<1>8. SliceBound' /\ SleepersOK' /\ VictimOK' /\ FreshOK' /\ Main \in created'
  BY <1>1, <1>2 DEF SliceBound, SleepersOK, VictimOK, FreshOK
<1>9. NoInversion'
  BY <1>1 DEF NoInversion
<1> QED BY <1>5, <1>6, <1>7, <1>8, <1>9 DEF IInv

LEMMA UsleepInv ==
  ASSUME SchedulerAssumption, IInv,
         NEW p \in Process, NEW tick \in 0..MaxNap, usleep(p, tick)
  PROVE  IInv'
<1>1. /\ current = p /\ rounds[p] > 0
      /\ rounds' = [rounds EXCEPT ![p] = @ - 1]
      /\ UNCHANGED <<created, freed, pc, victim>>
  BY DEF usleep
<1>2. rounds' \in [Process -> Nat]
  <2>1. rounds[p] - 1 \in Nat /\ rounds \in [Process -> Nat]
    BY <1>1, Runner
  <2> QED BY <1>1, <2>1
<1>3. tick \in Nat /\ p \in Thread
  BY DEF SchedulerAssumption, Thread
<1>4. PickResult
  <2>1. CASE tick = 0
    <3>1. scheduler_pick(elapsed, flags, sleep_tick, due)
      BY <2>1 DEF usleep, scheduler_yield
    <3> QED BY <3>1, <1>1, Runner, Picking
  <2>2. CASE tick # 0
    <3> DEFINE f == [flags EXCEPT ![p] = @ \union {SLEPT}]
               d == [sleep_tick EXCEPT ![p] = tick]
    <3>1. scheduler_pick(elapsed, f, d, due)
      BY <2>2 DEF usleep, scheduler_yield
    <3>2. /\ f \in [Thread -> SUBSET {SLEPT, ZOMBIE}] /\ d \in [Thread -> Nat]
          /\ \A t \in Thread \ {current} : f[t] = flags[t]
      BY <1>1, <1>3, Runner
    <3>3. f[current] = {SLEPT}
      BY <1>1, <1>3, Runner
    <3>4. ZOMBIE \notin f[current]
      BY <3>3 DEF SLEPT, ZOMBIE
    <3> HIDE DEF f, d
    <3> QED BY <3>1, <3>2, <3>3, <3>4, <1>1, Runner, Picking
  <2> QED BY <2>1, <2>2
<1> QED BY <1>1, <1>2, <1>4, PickedInv

LEMMA ExitInv ==
  ASSUME SchedulerAssumption, IInv, NEW p \in Process, exit(p)
  PROVE  IInv'
<1> DEFINE f == [flags EXCEPT ![p] = @ \union {ZOMBIE}]
<1>1. /\ current = p
      /\ scheduler_pick(elapsed, f, sleep_tick, due)
      /\ UNCHANGED <<created, freed, pc, victim, rounds>>
  BY DEF exit, scheduler_yield
<1>2. p \in Thread /\ p # Cleaner
  BY DEF SchedulerAssumption, Thread
<1>3. flags[p] = {}
  BY <1>1, <1>2 DEF IInv, FlagsMatch
<1>4. /\ f \in [Thread -> SUBSET {SLEPT, ZOMBIE}]
      /\ \A t \in Thread \ {current} : f[t] = flags[t]
      /\ f[current] = {ZOMBIE}
  BY <1>1, <1>2, <1>3, Runner
<1>5. SLEPT \notin f[current]
  BY <1>4 DEF SLEPT, ZOMBIE
<1> HIDE DEF f
<1>6. PickResult
  BY <1>1, <1>4, <1>5, Runner, Picking
<1> QED BY <1>1, <1>6, Runner, PickedInv

LEMMA CleanerYieldInv ==
  ASSUME SchedulerAssumption, IInv, CleanerYield
  PROVE  IInv'
<1>1. /\ scheduler_pick(elapsed, flags, sleep_tick, due)
      /\ pc = "yield" /\ pc' = "pop"
      /\ UNCHANGED <<created, freed, victim, rounds>>
  BY DEF CleanerYield, scheduler_yield
<1>2. PickResult
  BY <1>1, Runner, Picking
<1> QED BY <1>1, <1>2, Runner, PickedInv

LEMMA PopZombieInv ==
  ASSUME SchedulerAssumption, IInv, PopZombie
  PROVE  IInv'
<1>1. /\ current = Cleaner /\ pc = "pop"
      /\ UNCHANGED <<elapsed, quantum, current, ready, slept, t_elapsed, sleep_tick,
                     flags, created, freed, rounds, due>>
  BY DEF PopZombie, tcbs
<1>2. TypeOK /\ FlagsMatch /\ SliceBound /\ NoInversion /\ SleepersOK /\ VictimOK
      /\ FreshOK /\ OnePlaceParts /\ Main \in created
  BY OnePlaceExpanded DEF IInv
<1>3. victim = NoThread /\ Cleaning = {}
  BY <1>1, <1>2 DEF VictimOK, Cleaning
<1>4. CASE zombie = <<>>
  <2>1. pc' = "nap" /\ UNCHANGED <<zombie, victim>>
    BY <1>4 DEF PopZombie
  <2>2. TypeOK' /\ FlagsMatch'
    BY <1>1, <1>2, <2>1 DEF TypeOK, FlagsMatch, Places
  <2>3. SliceBound' /\ NoInversion' /\ SleepersOK' /\ VictimOK' /\ FreshOK'
    BY <1>1, <1>2, <1>3, <2>1 DEF SliceBound, NoInversion, SleepersOK, VictimOK, FreshOK
  <2>4. OnePlace'
    BY <1>1, <2>1 DEF IInv, OnePlace, Places
  <2> QED BY <1>1, <1>2, <2>2, <2>3, <2>4 DEF IInv
<1>5. CASE zombie # <<>>
  <2>1. pc' = "free" /\ victim' = Head(zombie) /\ zombie' = Tail(zombie)
    BY <1>5 DEF PopZombie
  <2>2. zombie \in Queue(Thread)
    BY <1>2 DEF TypeOK, OnePlaceParts, Queue
  <2>3. /\ victim' \in Thread /\ victim' \in ToSet(zombie)
        /\ zombie' \in Queue(Thread)
        /\ ToSet(zombie') = ToSet(zombie) \ {victim'}
    BY <1>5, <2>1, <2>2, QueueHeadTail
  <2>4. victim' # NoThread /\ Cleaning' = {victim'}
    BY <2>3 DEF SchedulerAssumption, Cleaning
  <2>5. TypeOK'
    BY <1>1, <1>2, <2>1, <2>3 DEF TypeOK, Queue
  <2>6. FlagsMatch'
    <3>1. \A t \in ToSet(zombie') \union Cleaning' \union freed' :
            t \in Process /\ flags'[t] = {ZOMBIE}
      BY <1>1, <1>2, <2>3, <2>4 DEF FlagsMatch, Places
    <3>2. SLEPT \notin flags[current]
      BY <1>1, <1>2 DEF FlagsMatch
    <3> QED BY <3>1, <3>2, <1>1, <1>2 DEF FlagsMatch, Places, Cleaning
  <2>7. SliceBound' /\ NoInversion' /\ SleepersOK' /\ VictimOK' /\ FreshOK'
    BY <1>1, <1>2, <2>1, <2>4 DEF SliceBound, NoInversion, SleepersOK, VictimOK, FreshOK
  <2>8. OnePlace'
    <3>1. Separate(current', ToSet(ready'), ToSet(slept'), ToSet(zombie'),
                   Cleaning', freed')
      BY <1>1, <1>2, <2>3, <2>4 DEF OnePlaceParts, Separate
    <3>2. {current'} \union ToSet(ready') \union ToSet(slept') \union ToSet(zombie')
            \union Cleaning' \union freed' = created'
      BY <1>1, <1>2, <1>3, <2>3, <2>4 DEF OnePlaceParts
    <3>3. OnePlaceParts'
      BY <1>1, <1>2, <2>3, <3>1, <3>2 DEF OnePlaceParts, Queue
    <3> QED BY <3>3, OnePlaceExpanded, PTL
  <2> QED BY <1>1, <1>2, <2>5, <2>6, <2>7, <2>8 DEF IInv
<1> QED BY <1>4, <1>5

LEMMA FreeZombieInv ==
  ASSUME SchedulerAssumption, IInv, FreeZombie
  PROVE  IInv'
<1>1. /\ pc = "free" /\ pc' = "nap" /\ victim' = NoThread
      /\ freed' = freed \union {victim}
      /\ UNCHANGED <<elapsed, quantum, current, ready, slept, zombie, t_elapsed,
                     sleep_tick, flags, created, rounds, due>>
  BY DEF FreeZombie, sched, tcbs
<1>2. TypeOK /\ FlagsMatch /\ SliceBound /\ NoInversion /\ SleepersOK /\ VictimOK
      /\ FreshOK /\ OnePlaceParts /\ Main \in created
  BY OnePlaceExpanded DEF IInv
<1>3. victim \in Thread /\ victim # NoThread /\ Cleaning = {victim} /\ Cleaning' = {}
  BY <1>1, <1>2 DEF VictimOK, TypeOK, Cleaning
<1>4. TypeOK'
  BY <1>1, <1>2, <1>3 DEF TypeOK
<1>5. FlagsMatch'
  <2>1. \A t \in ToSet(zombie') \union Cleaning' \union freed' :
          t \in Process /\ flags'[t] = {ZOMBIE}
    BY <1>1, <1>2, <1>3 DEF FlagsMatch, Places, Cleaning
  <2>2. SLEPT \notin flags[current]
    BY <1>1, <1>2 DEF FlagsMatch
  <2> QED BY <2>1, <2>2, <1>1, <1>2 DEF FlagsMatch, Places, Cleaning
<1>6. SliceBound' /\ NoInversion' /\ SleepersOK' /\ VictimOK' /\ FreshOK'
  BY <1>1, <1>2 DEF SliceBound, NoInversion, SleepersOK, VictimOK, FreshOK
<1>7. OnePlace'
  <2>1. Separate(current', ToSet(ready'), ToSet(slept'), ToSet(zombie'),
                 Cleaning', freed')
    BY <1>1, <1>2, <1>3 DEF OnePlaceParts, Separate
  <2>2. {current'} \union ToSet(ready') \union ToSet(slept') \union ToSet(zombie')
          \union Cleaning' \union freed' = created'
    BY <1>1, <1>2, <1>3 DEF OnePlaceParts
  <2>3. OnePlaceParts'
    BY <1>1, <1>2, <2>1, <2>2 DEF OnePlaceParts
  <2> QED BY <2>3, OnePlaceExpanded, PTL
<1> QED BY <1>1, <1>2, <1>4, <1>5, <1>6, <1>7 DEF IInv

LEMMA SleepStepsInv ==
  ASSUME SchedulerAssumption, IInv, SetSleepTick \/ SetSleptFlag
  PROVE  IInv'
<1>1. TypeOK /\ FlagsMatch /\ SliceBound /\ NoInversion /\ SleepersOK /\ VictimOK
      /\ FreshOK /\ OnePlace /\ Main \in created
  BY DEF IInv
<1>2. /\ current = Cleaner /\ Cleaner \in Thread
      /\ UNCHANGED <<elapsed, quantum, current, ready, slept, zombie, t_elapsed,
                     created, freed, victim, rounds, due>>
      /\ pc # "free" /\ pc' \in {"flag", "yield"}
  BY DEF SetSleepTick, SetSleptFlag, Thread
<1>3. OnePlace' /\ SliceBound' /\ NoInversion' /\ SleepersOK' /\ VictimOK'
      /\ Main \in created'
  BY <1>1, <1>2 DEF OnePlace, Places, SliceBound, NoInversion, SleepersOK, VictimOK
<1>4. CASE SetSleepTick
  <2>1. /\ UNCHANGED flags /\ pc = "nap"
        /\ sleep_tick' = [sleep_tick EXCEPT ![Cleaner] = CleanerNap]
        /\ CleanerNap \in Nat
    BY <1>4 DEF SetSleepTick, SchedulerAssumption
  <2>2. TypeOK' /\ FreshOK' /\ FlagsMatch'
    BY <1>1, <1>2, <2>1 DEF TypeOK, FreshOK, FlagsMatch, Places
  <2> QED BY <1>3, <2>2 DEF IInv
<1>5. CASE SetSleptFlag
  <2>1. /\ UNCHANGED sleep_tick /\ pc' = "yield" /\ pc = "flag"
        /\ flags' = [flags EXCEPT ![Cleaner] = @ \union {SLEPT}]
    BY <1>5 DEF SetSleptFlag
  <2>2. flags[Cleaner] = {} /\ flags'[Cleaner] = {SLEPT}
        /\ \A t \in Thread \ {Cleaner} : flags'[t] = flags[t]
    BY <1>1, <1>2, <2>1 DEF FlagsMatch, TypeOK
  <2>3. TypeOK'
    BY <1>1, <1>2, <2>1 DEF TypeOK
  <2>4. /\ Cleaner \notin ToSet(ready) \union ToSet(slept) \union ToSet(zombie)
                           \union Cleaning \union freed
        /\ Cleaner \in created
    BY <1>1, <1>2, OnePlaceExpanded DEF OnePlaceParts, Separate
  <2>5. ToSet(ready) \subseteq Thread /\ ToSet(slept) \subseteq Thread
        /\ Process \subseteq Thread
    BY <1>1, Members DEF TypeOK, Thread
  <2>6. FlagsMatch'
    BY <1>1, <1>2, <2>1, <2>2, <2>4, <2>5 DEF FlagsMatch, Places, Cleaning
  <2>7. FreshOK'
    BY <1>1, <1>2, <2>2, <2>4 DEF FreshOK
  <2> QED BY <1>3, <2>3, <2>6, <2>7 DEF IInv
<1> QED BY <1>4, <1>5

LEMMA InitInv ==
  ASSUME SchedulerAssumption, Init
  PROVE  IInv
<1>1. Main \in Thread /\ quota[Main] \in Nat /\ quota[Main] >= 1
  BY DEF Thread, SchedulerAssumption
<1>2. TypeOK
  BY <1>1 DEF Init, TypeOK, SchedulerAssumption
<1>3. ToSet(ready) = {} /\ ToSet(slept) = {} /\ ToSet(zombie) = {}
      /\ Cleaning = {} /\ freed = {}
  BY DEF Init, ToSet, Cleaning
<1>4. OnePlace
  <2>1. IsInjective(ready) /\ IsInjective(slept) /\ IsInjective(zombie)
    BY DEF Init, IsInjective
  <2>2. OnePlaceParts
    BY <1>3, <2>1 DEF Init, OnePlaceParts, Separate
  <2> QED BY <2>2, OnePlaceExpanded
<1>5. FlagsMatch
  BY <1>1, <1>3 DEF FlagsMatch, Places, Init, Cleaning
<1>6. SliceBound
  BY <1>1 DEF SliceBound, Init
<1>7. NoInversion /\ SleepersOK /\ VictimOK /\ FreshOK /\ Main \in created
  BY <1>3 DEF NoInversion, SleepersOK, VictimOK, FreshOK, Init
<1> QED BY <1>2, <1>4, <1>5, <1>6, <1>7 DEF IInv

LEMMA NextInv ==
  ASSUME SchedulerAssumption, IInv, [Next]_vars
  PROVE  IInv'
<1>1. CASE scheduler_tick
  BY <1>1, TickInv
<1>2. ASSUME NEW t \in Thread, scheduler_run(t) PROVE IInv'
  BY <1>2, RunInv
<1>3. ASSUME NEW p \in Process, NEW tick \in 0..MaxNap, usleep(p, tick) PROVE IInv'
  BY <1>3, UsleepInv
<1>4. ASSUME NEW p \in Process, exit(p) PROVE IInv'
  BY <1>4, ExitInv
<1>5. CASE PopZombie
  BY <1>5, PopZombieInv
<1>6. CASE FreeZombie
  BY <1>6, FreeZombieInv
<1>7. CASE SetSleepTick \/ SetSleptFlag
  BY <1>7, SleepStepsInv
<1>8. CASE CleanerYield
  BY <1>8, CleanerYieldInv
<1>9. CASE UNCHANGED vars
  <2>1. UNCHANGED <<elapsed, quantum, current, ready, slept, zombie, t_elapsed,
                    sleep_tick, flags, created, freed, pc, victim, rounds, due>>
    BY <1>9 DEF vars, sched, tcbs
  <2>2. TypeOK'
    BY <2>1 DEF IInv, TypeOK
  <2>3. OnePlace' /\ FlagsMatch'
    BY <2>1 DEF IInv, OnePlace, Places, FlagsMatch
  <2>4. /\ SliceBound' /\ NoInversion' /\ SleepersOK' /\ VictimOK' /\ FreshOK'
        /\ Main \in created'
    BY <2>1 DEF IInv, SliceBound, NoInversion, SleepersOK, VictimOK, FreshOK
  <2> QED BY <2>2, <2>3, <2>4 DEF IInv
<1> QED BY <1>1, <1>2, <1>3, <1>4, <1>5, <1>6, <1>7, <1>8, <1>9 DEF Next

\* The inductive invariant holds in every reachable state.
THEOREM Invariance == Spec => []IInv
<1>1. Init => IInv
  BY InitInv, SchedulerAssumption
<1>2. IInv /\ [Next]_vars => IInv'
  BY NextInv, SchedulerAssumption
<1> QED BY <1>1, <1>2, PTL DEF Spec

-----------------------------------------------------------------------------
(* What follows from it *)

\* Every variable keeps its type; in particular scheduler_pick always finds a
\* thread to dispatch, it never dereferences a null target.
THEOREM TypeCorrect == Spec => []TypeOK
<1>1. IInv => TypeOK
  BY DEF IInv
<1> QED BY <1>1, Invariance, PTL

\* Every started thread is in exactly one place: running, on one list, held
\* by the cleaner, or freed.
THEOREM NoThreadLost == Spec => []OnePlace
<1>1. IInv => OnePlace
  BY DEF IInv
<1> QED BY <1>1, Invariance, PTL

\* The flags always agree with the list a thread is on.
THEOREM FlagsAgree == Spec => []FlagsMatch
<1>1. IInv => FlagsMatch
  BY DEF IInv
<1> QED BY <1>1, Invariance, PTL

\* The quantum counter never reaches zero outside the timer interrupt, and
\* no turn exceeds the quantum of its thread.
THEOREM SlicesBounded == Spec => []SliceBound
<1>1. IInv => SliceBound
  BY DEF IInv
<1> QED BY <1>1, Invariance, PTL

\* No ready thread of better priority waits behind the running one, except
\* behind kmain between starting it and the next pick.
THEOREM PriorityRespected == Spec => []NoInversion
<1>1. IInv => NoInversion
  BY DEF IInv
<1> QED BY <1>1, Invariance, PTL

-----------------------------------------------------------------------------
(* The order of the ready threads *)

LEMMA BeforeIs ==
  ASSUME NEW s \in Seq(Thread), NEW t, NEW u
  PROVE  Before(s, t, u) <=> \E i, j \in 1..Len(s) : i < j /\ s[i] = t /\ s[j] = u
BY LenProperties DEF Before

\* In a queue one of two threads is before the other, not both.
LEMMA BeforeOnce ==
  ASSUME NEW s \in Queue(Thread), NEW t, NEW u, Before(s, t, u)
  PROVE  ~Before(s, u, t) /\ t \in ToSet(s) /\ u \in ToSet(s)
<1>1. s \in Seq(Thread) /\ Len(s) \in Nat /\ \A i, j \in 1..Len(s) : s[i] = s[j] => i = j
  BY LenProperties DEF Queue, IsInjective
<1>2. PICK i, j \in 1..Len(s) : i < j /\ s[i] = t /\ s[j] = u
  BY <1>1, BeforeIs
<1>3. ASSUME NEW k \in 1..Len(s), NEW l \in 1..Len(s), k < l, s[k] = u, s[l] = t PROVE FALSE
  BY <1>1, <1>2, <1>3
<1> QED BY <1>1, <1>2, <1>3, BeforeIs, Members

\* Threads that arrive later change nothing in the order of those before.
LEMMA BeforeArrivals ==
  ASSUME NEW s \in Seq(Thread), NEW r \in Seq(Thread), NEW t, NEW u, Before(s, t, u)
  PROVE  Before(s \o r, t, u)
<1>1. Len(s) \in Nat /\ Len(r) \in Nat
  BY LenProperties
<1>2. /\ s \o r \in Seq(Thread) /\ Len(s \o r) = Len(s) + Len(r)
      /\ \A i \in 1..Len(s) : (s \o r)[i] = s[i]
  BY ConcatAt
<1>3. PICK i, j \in 1..Len(s) : i < j /\ s[i] = t /\ s[j] = u
  BY BeforeIs
<1>4. i \in 1..Len(s \o r) /\ j \in 1..Len(s \o r) /\ i < j /\ (s \o r)[i] = t /\ (s \o r)[j] = u
  BY <1>1, <1>2, <1>3
<1> QED BY <1>2, <1>4, BeforeIs

\* Nor does it change when one of them leaves.
LEMMA BeforeDeparture ==
  ASSUME NEW s \in Seq(Thread), NEW k \in 1..Len(s), NEW t, NEW u,
         Before(RemoveAt(s, k), t, u)
  PROVE  Before(s, t, u)
<1> DEFINE r == RemoveAt(s, k)
<1>1. Len(s) \in Nat
  BY LenProperties
<1>2. /\ r \in Seq(Thread) /\ Len(r) = Len(s) - 1
      /\ \A i \in 1..(Len(s) - 1) : r[i] = IF i < k THEN s[i] ELSE s[i + 1]
  BY RemovedAt
<1> HIDE DEF r
<1>3. PICK i, j \in 1..Len(r) : i < j /\ r[i] = t /\ r[j] = u
  BY <1>2, BeforeIs DEF r
<1>4. i \in 1..(Len(s) - 1) /\ j \in 1..(Len(s) - 1)
  BY <1>2
<1> DEFINE a == IF i < k THEN i ELSE i + 1
           b == IF j < k THEN j ELSE j + 1
<1>5. a \in 1..Len(s) /\ b \in 1..Len(s) /\ a < b
  BY <1>1, <1>3, <1>4
<1>6. s[a] = t /\ s[b] = u
  BY <1>2, <1>3, <1>4
<1> HIDE DEF a, b
<1> QED BY <1>5, <1>6, BeforeIs

\* The thread that is dispatched is not behind one of its own priority.
LEMMA DispatchOrder ==
  ASSUME SchedulerAssumption, NEW queue \in Queue(Thread), NEW used, Dispatch(queue, used),
         NEW t \in Thread, NEW u \in Thread, Before(queue, t, u), priority[t] = priority[u]
  PROVE  current' # u /\ ~Before(ready', u, t)
<1>1. /\ queue \in Seq(Thread) /\ Len(queue) \in Nat /\ DOMAIN queue = 1..Len(queue)
      /\ \A i, j \in 1..Len(queue) : queue[i] = queue[j] => i = j
  <2>1. queue \in Seq(Thread) /\ IsInjective(queue)
    BY DEF Queue
  <2>2. Len(queue) \in Nat /\ DOMAIN queue = 1..Len(queue)
    BY <2>1, LenProperties
  <2> QED BY <2>1, <2>2 DEF IsInjective
<1>2. PICK i, j \in 1..Len(queue) : i < j /\ queue[i] = t /\ queue[j] = u
  BY <1>1 DEF Before
<1>3. queue # <<>>
  BY <1>1, <1>2, EmptySeq
<1>4. PICK k \in 1..Len(queue) :
         IsTarget(queue, k) /\ current' = queue[k] /\ ready' = RemoveAt(queue, k)
  BY <1>1, <1>3 DEF Dispatch
<1>5. current' # u
  <2>1. SUFFICES ASSUME queue[k] = queue[j] PROVE FALSE
    BY <1>2, <1>4
  <2>2. k = j /\ i \in 1..(k - 1)
    BY <1>1, <1>2, <2>1
  <2>3. priority[queue[k]] < priority[queue[i]]
    BY <1>4, <2>2 DEF IsTarget
  <2>4. priority[t] \in Nat
    BY DEF SchedulerAssumption
  <2> QED BY <1>2, <2>1, <2>3, <2>4
<1>6. ~Before(ready', u, t)
  BY <1>1, <1>4, BeforeDeparture, BeforeOnce
<1> QED BY <1>5, <1>6

\* A pick dispatches in order of arrival.
LEMMA PickOrder ==
  ASSUME SchedulerAssumption, IInv, NEW e,
         NEW f \in [Thread -> SUBSET {SLEPT, ZOMBIE}],
         NEW d \in [Thread -> Nat], NEW left,
         scheduler_pick(e, f, d, left),
         NEW t \in Thread, NEW u \in Thread, Before(ready, t, u), priority[t] = priority[u]
  PROVE  current' # u /\ ~Before(ready', u, t)
<1>1. PICK p \in Park(current, f, d) : \E n \in 0..Len(p.slept) :
         Picked(p, n, e, f, d, left) /\ Parked(p, f, d)
  BY PickQueue
<1>2. PICK n \in 0..Len(p.slept) : Picked(p, n, e, f, d, left) /\ Parked(p, f, d)
  BY <1>1
<1> DEFINE front == SubSeq(p.slept, 1, n)
<1>3. /\ p.ready \in Queue(Thread) /\ p.slept \in Queue(Thread)
      /\ ToSet(p.ready) \intersect ToSet(p.slept) = {}
  BY <1>2 DEF Parked
<1>4. front \in Queue(Thread) /\ ToSet(front) \subseteq ToSet(p.slept)
  BY <1>3, QueueSplit
<1> HIDE DEF front
<1>5. p.ready \o front \in Queue(Thread)
  BY <1>3, <1>4, QueueConcat
<1>6. ready \in Seq(Thread) /\ current \in Thread
  BY DEF IInv, TypeOK
<1>7. Before(p.ready, t, u)
  <2>1. p.ready = ready \/ p.ready = Append(ready, current)
    BY <1>1 DEF Park, scheduler_add
  <2>2. Append(ready, current) = ready \o <<current>>
    BY <1>6, AppendIsConcat
  <2>3. <<current>> \in Seq(Thread)
    BY <1>6
  <2>4. Before(ready \o <<current>>, t, u)
    BY <1>6, <2>3, BeforeArrivals
  <2> QED BY <2>1, <2>2, <2>4
<1>8. Before(p.ready \o front, t, u)
  BY <1>3, <1>4, <1>7, BeforeArrivals DEF Queue
<1>9. Dispatch(p.ready \o front, [t_elapsed EXCEPT ![current] = @ + e])
  BY <1>2 DEF Picked, front
<1> QED BY <1>5, <1>8, <1>9, DispatchOrder

\* The running thread is not in the list, and the others stay in order, as
\* long as nobody picks.
LEMMA StayOrder ==
  ASSUME IInv, current' = current,
         ready' = ready \/ \E x \in Thread \ ToSet(ready) : ready' = Append(ready, x),
         NEW t \in Thread, NEW u \in Thread, Before(ready, t, u)
  PROVE  current' # u /\ ~Before(ready', u, t)
<1>1. ready \in Queue(Thread) /\ ready \in Seq(Thread) /\ current \notin ToSet(ready)
  BY OnePlaceExpanded DEF IInv, TypeOK, OnePlaceParts, Separate, Queue
<1>2. ready' \in Queue(Thread) /\ Before(ready', t, u)
  <2>1. ASSUME NEW x \in Thread \ ToSet(ready), ready' = Append(ready, x)
        PROVE  ready' \in Queue(Thread) /\ Before(ready', t, u)
    <3>1. ready' = ready \o <<x>> /\ <<x>> \in Seq(Thread)
      BY <1>1, <2>1, AppendIsConcat
    <3>2. Before(ready', t, u)
      BY <1>1, <3>1, BeforeArrivals
    <3> QED BY <1>1, <2>1, <3>2, QueueAppend
  <2> QED BY <1>1, <2>1
<1> QED BY <1>1, <1>2, BeforeOnce

LEMMA StepOrder ==
  ASSUME SchedulerAssumption, IInv, [Next]_vars,
         NEW t \in Thread, NEW u \in Thread, Before(ready, t, u), priority[t] = priority[u]
  PROVE  current' # u /\ ~Before(ready', u, t)
<1> DEFINE Goal == current' # u /\ ~Before(ready', u, t)
<1>0. /\ flags \in [Thread -> SUBSET {SLEPT, ZOMBIE}] /\ sleep_tick \in [Thread -> Nat]
      /\ Process \subseteq Thread /\ 0..MaxNap \subseteq Nat
  BY Runner DEF Thread, SchedulerAssumption
<1>1. ASSUME scheduler_tick PROVE Goal
  <2>1. CASE quantum = 1
    BY <1>0, <1>1, <2>1, PickOrder DEF scheduler_tick
  <2>2. CASE quantum # 1
    BY <1>1, <2>2, StayOrder DEF scheduler_tick
  <2> QED BY <2>1, <2>2
<1>2. ASSUME NEW x \in Thread, scheduler_run(x) PROVE Goal
  <2>1. x \notin ToSet(ready)
    BY <1>2, OnePlaceExpanded DEF IInv, OnePlaceParts, scheduler_run
  <2> QED BY <1>2, <2>1, StayOrder DEF scheduler_run, scheduler_add
<1>3. ASSUME NEW p \in Process, NEW tick \in 0..MaxNap, usleep(p, tick) PROVE Goal
  <2>1. CASE tick = 0
    BY <1>0, <1>3, <2>1, PickOrder DEF usleep, scheduler_yield
  <2>2. CASE tick # 0
    <3> DEFINE f == [flags EXCEPT ![p] = @ \union {SLEPT}]
               d == [sleep_tick EXCEPT ![p] = tick]
    <3>1. f \in [Thread -> SUBSET {SLEPT, ZOMBIE}] /\ d \in [Thread -> Nat]
      BY <1>0
    <3>2. scheduler_pick(elapsed, f, d, due)
      BY <1>3, <2>2 DEF usleep, scheduler_yield
    <3> HIDE DEF f, d
    <3> QED BY <3>1, <3>2, PickOrder
  <2> QED BY <2>1, <2>2
<1>4. ASSUME NEW p \in Process, exit(p) PROVE Goal
  <2> DEFINE f == [flags EXCEPT ![p] = @ \union {ZOMBIE}]
  <2>1. f \in [Thread -> SUBSET {SLEPT, ZOMBIE}]
    BY <1>0
  <2>2. scheduler_pick(elapsed, f, sleep_tick, due)
    BY <1>4 DEF exit, scheduler_yield
  <2> HIDE DEF f
  <2> QED BY <1>0, <2>1, <2>2, PickOrder
<1>5. ASSUME CleanerYield PROVE Goal
  BY <1>0, <1>5, PickOrder DEF CleanerYield, scheduler_yield
<1>6. ASSUME PopZombie \/ FreeZombie \/ SetSleepTick \/ SetSleptFlag \/ UNCHANGED vars
      PROVE  Goal
  <2>1. ready' = ready /\ current' = current
    BY <1>6 DEF PopZombie, FreeZombie, SetSleepTick, SetSleptFlag, vars, sched
  <2> QED BY <2>1, StayOrder
<1> QED BY <1>1, <1>2, <1>3, <1>4, <1>5, <1>6 DEF Next

\* Threads of one priority are dispatched in the order in which they became
\* ready: no step of the kernel lets one of them overtake another.
THEOREM ArrivalOrder == Spec => NoOvertaking
<1> DEFINE Ordered == \A t, u \in Thread :
                         Before(ready, t, u) /\ priority[t] = priority[u] =>
                             /\ current' # u
                             /\ Before(ready', u, t) => FALSE
<1>1. IInv /\ [Next]_vars => [Ordered]_vars
  BY StepOrder, SchedulerAssumption
<1> HIDE DEF Ordered
<1>2. Spec => [][Ordered]_vars
  BY <1>1, Invariance, PTL DEF Spec
<1> QED BY <1>2 DEF NoOvertaking, Ordered

-----------------------------------------------------------------------------
(* The delta queue *)

\* S[i] is what the delays of the first i entries of the queue add up to.
Sums(queue, d, S) ==
    /\ S \in [0..Len(queue) -> Nat] /\ S[0] = 0
    /\ \A i \in 1..Len(queue) : S[i] = S[i - 1] + d[queue[i]]
    /\ \A i, j \in 0..Len(queue) : i <= j => S[i] <= S[j]

\* With e ticks not yet charged, no sleeper has a later place in the queue
\* than the ticks left to him.
InTime(queue, d, e, left) ==
    \E S : Sums(queue, d, S) /\ \A i \in 1..Len(queue) : S[i] - e <= left[queue[i]]

OnTime ==
    /\ InTime(slept, sleep_tick, elapsed, due)
    /\ elapsed = 0 /\ slept # <<>> => sleep_tick[slept[1]] > 0

\* Only the entries of the queue count.
LEMMA InTimeOf ==
  ASSUME NEW queue, NEW d, NEW e, NEW left, NEW d2, NEW left2,
         InTime(queue, d, e, left),
         \A i \in 1..Len(queue) : d2[queue[i]] = d[queue[i]] /\ left2[queue[i]] = left[queue[i]]
  PROVE  InTime(queue, d2, e, left2)
<1>1. PICK S : Sums(queue, d, S) /\ \A i \in 1..Len(queue) : S[i] - e <= left[queue[i]]
  BY DEF InTime
<1>2. Sums(queue, d2, S)
  BY <1>1 DEF Sums
<1> QED BY <1>1, <1>2 DEF InTime

\* A tick is counted and not yet charged.
LEMMA InTimeTick ==
  ASSUME NEW queue \in Seq(Thread), NEW d, NEW e \in Nat, due \in [Thread -> Nat],
         InTime(queue, d, e, due)
  PROVE  InTime(queue, d, e + 1, TickedDown)
<1>1. PICK S : Sums(queue, d, S) /\ \A i \in 1..Len(queue) : S[i] - e <= due[queue[i]]
  BY DEF InTime
<1>2. Len(queue) \in Nat /\ \A i \in 1..Len(queue) : queue[i] \in Thread
  BY LenProperties, ElementOfSeq
<1>3. ASSUME NEW i \in 1..Len(queue) PROVE S[i] - (e + 1) <= TickedDown[queue[i]]
  <2>1. S[i] \in Nat
    <3>1. S \in [0..Len(queue) -> Nat] /\ i \in 0..Len(queue)
      BY <1>1, <1>2 DEF Sums
    <3> QED BY <3>1
  <2>2. S[i] - e <= due[queue[i]] /\ due[queue[i]] \in Nat
    BY <1>1, <1>2
  <2>3. TickedDown[queue[i]] = IF due[queue[i]] > 0 THEN due[queue[i]] - 1 ELSE 0
    BY <1>2 DEF TickedDown
  <2> QED BY <2>1, <2>2, <2>3
<1> QED BY <1>1, <1>3 DEF InTime

\* What is left of a new sleeper's ticks on the walk is what he asked for
\* less the delays of the entries that he has passed.
LEMMA WalkSums ==
  ASSUME NEW queue \in Seq(Thread), NEW tick \in Nat, NEW d \in [Thread -> Nat],
         NEW left \in Walks(queue, tick, d), NEW S, Sums(queue, d, S)
  PROVE  \A j \in 1..Len(left) : left[j] = tick - S[j - 1]
<1>1. /\ Len(left) \in 1..(Len(queue) + 1) /\ Len(queue) \in Nat
      /\ left[1] = tick
      /\ \A i \in 1..(Len(left) - 1) : left[i + 1] = left[i] - d[queue[i]]
  BY WalkEnd, LenProperties DEF Walks
<1> DEFINE T == {j \in 1..Len(left) : left[j] # tick - S[j - 1]}
<1>2. SUFFICES ASSUME T # {} PROVE FALSE
  OBVIOUS
<1>3. T \subseteq Nat
  BY <1>1
<1> HIDE DEF T
<1>4. PICK j \in T : \A k \in T : j <= k
  BY <1>2, <1>3, LeastNat
<1>5. j \in 1..Len(left) /\ left[j] # tick - S[j - 1] /\ j \in Nat
  BY <1>1 DEF T
<1>6. /\ S[0] = 0 /\ S \in [0..Len(queue) -> Nat]
      /\ \A i \in 1..Len(queue) : S[i] = S[i - 1] + d[queue[i]]
  BY DEF Sums
<1>7. j # 1
  BY <1>1, <1>5, <1>6
<1>8. /\ j - 1 \in 1..Len(left) /\ j - 1 \in 1..(Len(left) - 1) /\ (j - 1) + 1 = j
      /\ j - 1 \in 1..Len(queue) /\ (j - 1) - 1 \in 0..Len(queue) /\ ~(j <= j - 1)
  BY <1>1, <1>5, <1>7
<1>9. left[j - 1] = tick - S[(j - 1) - 1]
  BY <1>4, <1>8 DEF T
<1>10. left[j] = left[j - 1] - d[queue[j - 1]]
  BY <1>1, <1>8
<1>11. S[j - 1] = S[(j - 1) - 1] + d[queue[j - 1]]
  BY <1>6, <1>8
<1>12. d[queue[j - 1]] \in Nat /\ S[(j - 1) - 1] \in Nat
  BY <1>6, <1>8, ElementOfSeq
<1> QED BY <1>5, <1>9, <1>10, <1>11, <1>12

\* The queue with a sleeper linked in.
LEMMA SleeperAt ==
  ASSUME NEW queue \in Seq(Thread), NEW k \in 1..(Len(queue) + 1), NEW t \in Thread
  PROVE  /\ InsertAt(queue, k, t) \in Seq(Thread) /\ Len(InsertAt(queue, k, t)) = Len(queue) + 1
         /\ \A i \in 1..(Len(queue) + 1) :
               InsertAt(queue, k, t)[i]
                 = IF i < k THEN queue[i] ELSE IF i = k THEN t ELSE queue[i - 1]
  BY InsertedAt

\* A sleeper that is linked in has the rest of his walk as delay, the one
\* behind him that much less: all the others stay where they were.
LEMMA InTimeInsert ==
  ASSUME NEW queue \in Queue(Thread), NEW t \in Thread, t \notin ToSet(queue),
         NEW d \in [Thread -> Nat], NEW walk \in Walks(queue, d[t], d),
         NEW e \in Nat, NEW left \in [Thread -> Nat], InTime(queue, d, e, left)
  PROVE  InTime(InsertAt(queue, Len(walk), t), Delays(queue, t, walk, d), e,
                [left EXCEPT ![t] = d[t]])
<1> DEFINE m == Len(queue)
           k == Len(walk)
           tick == d[t]
           rest == walk[k]
           r == InsertAt(queue, k, t)
           D == Delays(queue, t, walk, d)
<1>1. /\ queue \in Seq(Thread) /\ m \in Nat /\ tick \in Nat
      /\ \A i, j \in 1..m : queue[i] = queue[j] => i = j
      /\ \A i \in 1..m : queue[i] \in Thread /\ queue[i] # t
  <2>1. queue \in Seq(Thread) /\ IsInjective(queue)
    BY DEF Queue
  <2>2. m \in Nat /\ DOMAIN queue = 1..m
    BY <2>1, LenProperties
  <2>3. \A i \in 1..m : queue[i] \in Thread /\ queue[i] # t
    BY <2>1, ElementOfSeq, Members
  <2> QED BY <2>1, <2>2, <2>3 DEF IsInjective
<1>2. PICK S : Sums(queue, d, S) /\ \A i \in 1..m : S[i] - e <= left[queue[i]]
  BY DEF InTime
<1>3. k \in 1..(m + 1) /\ rest \in Nat /\ (k <= m => rest <= d[queue[k]])
  BY <1>1, WalkEnd
<1>4. rest = tick - S[k - 1]
  <2>1. \A j \in 1..k : walk[j] = tick - S[j - 1]
    BY <1>1, <1>2, WalkSums
  <2>2. k \in 1..k
    BY <1>1, <1>3
  <2> QED BY <2>1, <2>2
<1>5. /\ r \in Seq(Thread) /\ Len(r) = m + 1
      /\ \A i \in 1..(m + 1) : r[i] = IF i < k THEN queue[i] ELSE IF i = k THEN t ELSE queue[i - 1]
  <2>1. queue \in Seq(Thread) /\ k \in 1..(Len(queue) + 1)
    BY <1>1, <1>3
  <2> HIDE DEF k
  <2>2. /\ InsertAt(queue, k, t) \in Seq(Thread) /\ Len(InsertAt(queue, k, t)) = Len(queue) + 1
        /\ \A i \in 1..(Len(queue) + 1) :
              InsertAt(queue, k, t)[i]
                = IF i < k THEN queue[i] ELSE IF i = k THEN t ELSE queue[i - 1]
    BY <2>1, SleeperAt
  <2> QED BY <2>2 DEF m, r
<1>6. \A u \in Thread : D[u] = IF u = t THEN rest
                               ELSE IF k <= m /\ u = queue[k] THEN d[u] - rest ELSE d[u]
  BY DEF Delays
<1>7. /\ S \in [0..m -> Nat] /\ S[0] = 0
      /\ \A i \in 1..m : S[i] = S[i - 1] + d[queue[i]]
      /\ \A i, j \in 0..m : i <= j => S[i] <= S[j]
  BY <1>2 DEF Sums
<1>8. \A i \in 1..m : d[queue[i]] \in Nat
  BY <1>1
<1> HIDE DEF m, k, tick, rest, r, D
<1>0. m \in Nat /\ tick \in Nat /\ rest \in Nat /\ k \in 1..(m + 1) /\ k \in Nat
  BY <1>1, <1>3
<1>9. S[k - 1] <= tick /\ (k <= m => tick <= S[k])
  <2>1. k - 1 \in 0..m /\ S[k - 1] \in Nat
    <3>1. k - 1 \in 0..m
      BY <1>0
    <3> QED BY <1>7, <3>1
  <2>2. CASE k <= m
    <3>1. k \in 1..m
      BY <1>0, <2>2
    <3>2. S[k] = S[k - 1] + d[queue[k]] /\ d[queue[k]] \in Nat /\ rest <= d[queue[k]]
      BY <1>3, <1>7, <1>8, <2>2, <3>1
    <3> QED BY <1>0, <1>4, <2>1, <3>2
  <2> QED BY <1>0, <1>4, <2>1, <2>2
<1> DEFINE S2 == [i \in 0..(m + 1) |-> IF i < k THEN S[i] ELSE IF i = k THEN tick ELSE S[i - 1]]
<1>10. /\ DOMAIN S2 = 0..(m + 1)
       /\ \A i \in 0..(m + 1) : S2[i] = IF i < k THEN S[i] ELSE IF i = k THEN tick ELSE S[i - 1]
       /\ S2 = [i \in 0..(m + 1) |-> S2[i]]
  OBVIOUS
<1> HIDE DEF S2
<1>11. \A i \in 0..(m + 1) : /\ i < k => i \in 0..m
                             /\ i > k => i - 1 \in 0..m /\ i - 1 \in 1..m /\ (i - 1) - 1 \in 0..m
  BY <1>1, <1>3
<1>12. S2 \in [0..(m + 1) -> Nat] /\ S2[0] = 0
  <2>1. ASSUME NEW i \in 0..(m + 1) PROVE S2[i] \in Nat
    <3>1. (i < k => S[i] \in Nat) /\ (i > k => S[i - 1] \in Nat)
      BY <1>7, <1>11
    <3>2. i < k \/ i = k \/ i > k
      BY <1>0
    <3> QED BY <1>0, <1>10, <3>1, <3>2
  <2>2. 0 \in 0..(m + 1) /\ 0 < k
    BY <1>0
  <2> QED BY <1>7, <1>10, <2>1, <2>2
<1>13. ASSUME NEW i \in 1..(m + 1) PROVE S2[i] = S2[i - 1] + D[r[i]]
  <2>1. i \in 0..(m + 1) /\ i - 1 \in 0..(m + 1) /\ k \in Nat /\ i \in Nat
    BY <1>0
  <2>2. CASE i < k
    <3>0. i \in 1..m /\ i # k /\ i - 1 < k
      BY <1>0, <2>1, <2>2
    <3>1. i \in 1..m /\ r[i] = queue[i] /\ i # k /\ i - 1 < k
      BY <1>5, <2>2, <3>0
    <3>2. D[r[i]] = d[queue[i]]
      <4>1. k <= m => k \in 1..m
        BY <1>1, <1>3
      <4> QED BY <1>1, <1>6, <3>1, <4>1
    <3> QED BY <1>7, <1>10, <2>1, <2>2, <3>1, <3>2
  <2>3. CASE i = k
    <3>1. r[i] = t /\ D[r[i]] = rest /\ i - 1 < k /\ k - 1 \in 0..m
      BY <1>1, <1>3, <1>5, <1>6, <2>1, <2>3
    <3>2. S2[i] = tick /\ S2[i - 1] = S[k - 1] /\ S[k - 1] \in Nat
      BY <1>7, <1>10, <2>1, <2>3, <3>1
    <3> QED BY <1>1, <1>4, <3>1, <3>2
  <2>4. CASE i = k + 1
    <3>0. k \in 1..m /\ i - 1 = k /\ k <= m /\ k - 1 \in 0..m /\ ~(i < k) /\ i # k
      BY <1>0, <2>1, <2>4
    <3>1. k \in 1..m /\ i - 1 = k /\ r[i] = queue[k] /\ k <= m /\ k - 1 \in 0..m
      BY <1>5, <3>0
    <3>2. D[r[i]] = d[queue[k]] - rest
      BY <1>1, <1>6, <3>1
    <3>3. S2[i] = S[k] /\ S2[i - 1] = tick /\ S[k] = S[k - 1] + d[queue[k]]
      BY <1>7, <1>10, <2>1, <2>4, <3>1
    <3>4. S[k - 1] \in Nat /\ d[queue[k]] \in Nat
      BY <1>7, <1>8, <3>1
    <3> QED BY <1>0, <1>4, <3>2, <3>3, <3>4
  <2>5. CASE i > k + 1
    <3>0. i - 1 \in 1..m /\ i - 1 > k /\ ~(i < k) /\ i # k
      BY <1>0, <2>1, <2>5
    <3>1. i - 1 \in 1..m /\ r[i] = queue[i - 1] /\ i - 1 > k /\ ~(i < k) /\ i # k
      BY <1>5, <3>0
    <3>2. D[r[i]] = d[queue[i - 1]]
      <4>1. k \in 1..m /\ i - 1 # k
        BY <1>1, <1>3, <3>1
      <4> QED BY <1>1, <1>6, <3>1, <4>1
    <3>3. S2[i] = S[i - 1] /\ S2[i - 1] = S[(i - 1) - 1]
      BY <1>10, <2>1, <3>1
    <3> QED BY <1>7, <3>1, <3>2, <3>3
  <2> QED BY <2>1, <2>2, <2>3, <2>4, <2>5
<1>14. ASSUME NEW i \in 0..(m + 1), NEW j \in 0..(m + 1), i <= j PROVE S2[i] <= S2[j]
  <2>0. k - 1 \in 0..m /\ i \in Nat /\ j \in Nat /\ k \in Nat /\ \A x \in 0..m : S[x] \in Nat
    BY <1>1, <1>3, <1>7
  <2>1. CASE j < k
    BY <1>7, <1>10, <1>11, <1>14, <2>0, <2>1
  <2>2. CASE i < k /\ j = k
    <3>1. S2[i] = S[i] /\ S2[j] = tick /\ i \in 0..m /\ i <= k - 1
      BY <1>10, <1>11, <2>0, <2>2
    <3>2. S[i] <= S[k - 1]
      BY <1>7, <2>0, <3>1
    <3> QED BY <1>1, <1>9, <2>0, <3>1, <3>2
  <2>3. CASE i < k /\ j > k
    <3>1. S2[i] = S[i] /\ S2[j] = S[j - 1] /\ i \in 0..m /\ j - 1 \in 0..m /\ i <= j - 1
      BY <1>10, <1>11, <2>0, <2>3
    <3> QED BY <1>7, <3>1
  <2>4. CASE i = k /\ j = k
    BY <1>1, <1>10, <2>4
  <2>5. CASE i = k /\ j > k
    <3>0. j - 1 \in 0..m /\ k \in 0..m /\ k <= j - 1 /\ ~(j < k) /\ j # k /\ ~(i < k)
      BY <1>0, <2>0, <2>5
    <3>1. S2[i] = tick /\ S2[j] = S[j - 1] /\ j - 1 \in 0..m /\ k \in 0..m /\ k <= j - 1
      BY <1>10, <2>5, <3>0
    <3>2. S[k] <= S[j - 1] /\ tick <= S[k]
      BY <1>7, <1>9, <3>1
    <3> QED BY <1>1, <2>0, <3>1, <3>2
  <2>6. CASE i > k
    <3>1. /\ S2[i] = S[i - 1] /\ S2[j] = S[j - 1]
          /\ i - 1 \in 0..m /\ j - 1 \in 0..m /\ i - 1 <= j - 1
      BY <1>10, <1>11, <1>14, <2>0, <2>6
    <3> QED BY <1>7, <3>1
  <2> QED BY <1>14, <2>0, <2>1, <2>2, <2>3, <2>4, <2>5, <2>6
<1>15. Sums(r, D, S2)
  BY <1>5, <1>12, <1>13, <1>14 DEF Sums
<1>16. ASSUME NEW i \in 1..(m + 1) PROVE S2[i] - e <= [left EXCEPT ![t] = tick][r[i]]
  <2>1. i \in 0..(m + 1) /\ k \in Nat
    BY <1>1, <1>3
  <2>2. CASE i = k
    <3>1. S2[i] = tick /\ r[i] = t
      BY <1>5, <1>10, <2>1, <2>2
    <3> QED BY <1>1, <3>1
  <2>3. CASE i < k
    <3>1. i \in 1..m /\ S2[i] = S[i] /\ r[i] = queue[i]
      BY <1>1, <1>3, <1>5, <1>10, <2>1, <2>3
    <3> QED BY <1>1, <1>2, <3>1
  <2>4. CASE i > k
    <3>1. i - 1 \in 1..m /\ S2[i] = S[i - 1] /\ r[i] = queue[i - 1]
      BY <1>5, <1>10, <1>11, <2>1, <2>4
    <3> QED BY <1>1, <1>2, <3>1
  <2> QED BY <2>1, <2>2, <2>3, <2>4
<1>17. InTime(r, D, e, [left EXCEPT ![t] = tick])
  BY <1>5, <1>15, <1>16 DEF InTime
<1> QED BY <1>17 DEF r, D, k, tick

\* Waking the sleepers in front charges the elapsed ticks to the first of the
\* rest: everybody's place in the queue moves forward by them and by the
\* delays of those who are gone.
LEMMA InTimeWake ==
  ASSUME NEW queue \in Queue(Thread), NEW d \in [Thread -> Nat], NEW e \in Nat,
         NEW left \in [Thread -> Nat], InTime(queue, d, e, left),
         NEW n \in 0..Len(queue), Wakes(queue, d, n, e)
  PROVE  LET rest == SubSeq(queue, n + 1, Len(queue))
             D    == Charged(queue, d, n, e)
         IN  InTime(rest, D, 0, left) /\ (rest # <<>> => D[rest[1]] > 0)
<1> DEFINE m == Len(queue)
           r == SubSeq(queue, n + 1, Len(queue))
           D == Charged(queue, d, n, e)
           q == m - n
<1>1. /\ queue \in Seq(Thread) /\ m \in Nat
      /\ \A i, j \in 1..m : queue[i] = queue[j] => i = j
      /\ \A i \in 1..m : queue[i] \in Thread
  <2>1. queue \in Seq(Thread) /\ IsInjective(queue)
    BY DEF Queue
  <2>2. m \in Nat /\ DOMAIN queue = 1..m
    BY <2>1, LenProperties
  <2>3. \A i \in 1..m : queue[i] \in Thread
    BY <2>1, ElementOfSeq
  <2> QED BY <2>1, <2>2, <2>3 DEF IsInjective
<1>2. PICK S : Sums(queue, d, S) /\ \A i \in 1..m : S[i] - e <= left[queue[i]]
  BY DEF InTime
<1>3. r \in Seq(Thread) /\ Len(r) = m - n /\ \A i \in 1..(m - n) : r[i] = queue[n + i]
  BY <1>1, SplitAt
<1>4. /\ S \in [0..m -> Nat]
      /\ \A i \in 1..m : S[i] = S[i - 1] + d[queue[i]]
      /\ \A i, j \in 0..m : i <= j => S[i] <= S[j]
  BY <1>2 DEF Sums
<1>5. n < m => d[queue[n + 1]] > e
  BY DEF Wakes
<1>6. ASSUME NEW i \in 1..m, i > n PROVE D[queue[i]] = IF i = n + 1 THEN d[queue[i]] - e ELSE d[queue[i]]
  <2>1. ASSUME NEW j \in 1..n PROVE queue[i] # queue[j]
    BY <1>1, <1>6
  <2>2. n < m /\ (queue[i] = queue[n + 1] <=> i = n + 1)
    BY <1>1, <1>6
  <2> QED BY <1>1, <2>1, <2>2 DEF Charged
<1>7. \A i \in 1..m : d[queue[i]] \in Nat
  BY <1>1
<1>8. m \in Nat /\ n \in 0..m /\ n \in Nat /\ q \in Nat /\ q = m - n
  BY <1>1
<1> HIDE DEF m, r, D, q
<1>9. n \in 0..m /\ S[n] \in Nat
  BY <1>4, <1>8
<1> DEFINE S2 == [i \in 0..q |-> IF i = 0 THEN 0 ELSE S[n + i] - S[n] - e]
<1>10. /\ S2 = [i \in 0..q |-> S2[i]]
       /\ \A i \in 0..q : S2[i] = IF i = 0 THEN 0 ELSE S[n + i] - S[n] - e
  OBVIOUS
<1> HIDE DEF S2
<1>11. \A i \in 1..q : n + i \in 1..m /\ n + i \in 0..m /\ n + i > n /\ i \in 0..q /\ n + 1 <= n + i
  BY <1>8
<1>12. \A i \in 1..q : S[n + i] \in Nat /\ S[n + i] - S[n] > e
  <2>1. SUFFICES ASSUME NEW i \in 1..q PROVE S[n + i] \in Nat /\ S[n + i] - S[n] > e
    OBVIOUS
  <2>2. n < m /\ n + 1 \in 1..m /\ n + 1 \in 0..m /\ (n + 1) - 1 = n
    BY <1>8
  <2>3. S[n + 1] = S[n] + d[queue[n + 1]]
    BY <1>4, <2>2
  <2>4. S[n + 1] <= S[n + i]
    BY <1>4, <1>11, <2>2
  <2>5. S[n + i] \in Nat /\ S[n + 1] \in Nat /\ d[queue[n + 1]] \in Nat
    BY <1>4, <1>7, <1>11, <2>2
  <2>6. d[queue[n + 1]] > e
    BY <1>5, <2>2
  <2> QED BY <1>9, <2>3, <2>4, <2>5, <2>6
<1>13. S2 \in [0..q -> Nat] /\ S2[0] = 0
  <2>1. ASSUME NEW i \in 0..q PROVE S2[i] \in Nat
    <3>1. CASE i = 0
      BY <1>10, <3>1
    <3>2. CASE i # 0
      <4>1. i \in 1..q
        BY <1>8, <3>2
      <4>2. S2[i] = S[n + i] - S[n] - e
        BY <1>10, <3>2
      <4>3. S[n + i] \in Nat /\ S[n + i] - S[n] > e
        BY <1>12, <4>1
      <4> QED BY <1>9, <4>2, <4>3
    <3> QED BY <3>1, <3>2
  <2>2. 0 \in 0..q
    BY <1>8
  <2> QED BY <1>10, <2>1, <2>2
<1>14. ASSUME NEW i \in 1..q PROVE S2[i] = S2[i - 1] + D[r[i]]
  <2>1. n + i \in 1..m /\ n + i > n /\ i \in 0..q
    BY <1>11
  <2>2. r[i] = queue[n + i] /\ S2[i] = S[n + i] - S[n] - e
    <3>1. i # 0 /\ i \in 1..(m - n)
      BY <1>8
    <3> QED BY <1>3, <1>10, <2>1, <3>1
  <2>3. S[n + i] = S[(n + i) - 1] + d[queue[n + i]] /\ d[queue[n + i]] \in Nat
    BY <1>4, <1>7, <2>1
  <2>4. CASE i = 1
    <3>1. n + i = n + 1 /\ (n + i) - 1 = n /\ i - 1 = 0 /\ 0 \in 0..q
      BY <1>8, <2>4
    <3>2. D[r[i]] = d[queue[n + i]] - e
      BY <1>6, <2>1, <2>2, <3>1
    <3>3. S2[i - 1] = 0
      BY <1>13, <3>1
    <3>4. S[n + i] = S[n] + d[queue[n + i]]
      BY <2>3, <3>1
    <3> QED BY <1>9, <2>2, <2>3, <3>2, <3>3, <3>4
  <2>5. CASE i # 1
    <3>1. n + i # n + 1 /\ (n + i) - 1 = n + (i - 1) /\ i - 1 \in 1..q /\ i - 1 # 0 /\ i - 1 \in 0..q
      BY <1>8, <2>5
    <3>2. D[r[i]] = d[queue[n + i]]
      BY <1>6, <2>1, <2>2, <3>1
    <3>3. S2[i - 1] = S[n + (i - 1)] - S[n] - e /\ S[n + (i - 1)] \in Nat
      BY <1>10, <1>12, <3>1
    <3>4. S[n + i] = S[n + (i - 1)] + d[queue[n + i]]
      BY <2>3, <3>1
    <3> QED BY <1>9, <2>2, <2>3, <3>2, <3>3, <3>4
  <2> QED BY <2>4, <2>5
<1>15. ASSUME NEW i \in 0..q, NEW j \in 0..q, i <= j PROVE S2[i] <= S2[j]
  <2>1. CASE i = 0
    <3>1. S2[j] \in Nat
      BY <1>13
    <3> QED BY <1>13, <2>1, <3>1
  <2>2. CASE i # 0
    <3>1. i \in 1..q /\ j \in 1..q /\ j # 0 /\ n + i <= n + j
      BY <1>8, <1>15, <2>2
    <3>2. S2[i] = S[n + i] - S[n] - e /\ S2[j] = S[n + j] - S[n] - e
      BY <1>10, <2>2, <3>1
    <3>3. S[n + i] <= S[n + j] /\ S[n + i] \in Nat /\ S[n + j] \in Nat
      BY <1>4, <1>11, <1>12, <3>1
    <3> QED BY <1>9, <3>2, <3>3
  <2> QED BY <2>1, <2>2
<1>16. Len(r) = q
  BY <1>3, <1>8
<1>17. ASSUME NEW i \in 1..q PROVE S2[i] - 0 <= left[r[i]]
  <2>1. n + i \in 1..m /\ i # 0 /\ i \in 0..q /\ i \in 1..(m - n)
    BY <1>8
  <2>2. S2[i] = S[n + i] - S[n] - e /\ r[i] = queue[n + i]
    BY <1>3, <1>10, <2>1
  <2>3. S[n + i] - e <= left[r[i]] /\ left[r[i]] \in Nat
    BY <1>1, <1>2, <2>1, <2>2 DEF m
  <2>4. S[n + i] \in Nat
    BY <1>12
  <2> QED BY <1>9, <2>2, <2>3, <2>4
<1>18. Sums(r, D, S2)
  BY <1>13, <1>14, <1>15, <1>16 DEF Sums
<1>19. InTime(r, D, 0, left)
  BY <1>16, <1>17, <1>18 DEF InTime
<1>20. ASSUME r # <<>> PROVE D[r[1]] > 0
  <2>1. q # 0
    BY <1>3, <1>16, <1>20, EmptySeq
  <2>2. 1 \in 1..q /\ 1 \in 1..(m - n) /\ n + 1 \in 1..m /\ n + 1 > n /\ n < m
    BY <1>8, <2>1
  <2>3. r[1] = queue[n + 1] /\ D[queue[n + 1]] = d[queue[n + 1]] - e
    BY <1>3, <1>6, <2>2
  <2>4. d[queue[n + 1]] > e /\ d[queue[n + 1]] \in Nat
    BY <1>5, <1>7, <2>2
  <2> QED BY <2>3, <2>4
<1> QED BY <1>19, <1>20 DEF r, D

\* A pick links the running thread in if it is to sleep, and wakes.
LEMMA PickOnTime ==
  ASSUME SchedulerAssumption, IInv, current' \in Thread,
         NEW e \in Nat, NEW f \in [Thread -> SUBSET {SLEPT, ZOMBIE}],
         NEW d \in [Thread -> Nat], NEW left \in [Thread -> Nat],
         f[current] \in {{}, {SLEPT}, {ZOMBIE}},
         InTime(slept, d, e, left),
         scheduler_pick(e, f, d, left)
  PROVE  OnTime'
<1>1. PICK p \in Park(current, f, d) : \E n \in 0..Len(p.slept) :
         Picked(p, n, e, f, d, left) /\ Parked(p, f, d)
  BY PickQueue
<1>2. PICK n \in 0..Len(p.slept) : Picked(p, n, e, f, d, left) /\ Parked(p, f, d)
  BY <1>1
<1>3. elapsed' = 0
  BY <1>2 DEF Picked, Dispatch, SchedulerAssumption
<1>4. /\ current \in Thread /\ current \notin ToSet(slept) /\ slept \in Queue(Thread)
  BY OnePlaceExpanded DEF IInv, OnePlaceParts, Separate, TypeOK, Queue
<1>5. due' \in [Thread -> Nat] /\ InTime(p.slept, p.delay, e, due')
  <2>1. CASE f[current] = {SLEPT}
    <3>1. due' = [left EXCEPT ![current] = d[current]]
      BY <1>2, <2>1 DEF Picked
    <3>2. SLEPT # ZOMBIE
      BY DEF SLEPT, ZOMBIE
    <3>3. PICK walk \in Walks(slept, d[current], d) :
             p = [ready |-> ready, slept |-> InsertAt(slept, Len(walk), current),
                  zombie |-> zombie, delay |-> Delays(slept, current, walk, d)]
      BY <1>1, <2>1, <3>2 DEF Park
    <3>4. InTime(InsertAt(slept, Len(walk), current), Delays(slept, current, walk, d), e,
                 [left EXCEPT ![current] = d[current]])
      BY <1>4, InTimeInsert
    <3>5. /\ p.slept = InsertAt(slept, Len(walk), current)
          /\ p.delay = Delays(slept, current, walk, d)
      BY <3>3
    <3>6. [left EXCEPT ![current] = d[current]] \in [Thread -> Nat]
      BY <1>4
    <3> QED BY <3>1, <3>4, <3>5, <3>6
  <2>2. CASE SLEPT \notin f[current]
    <3>1. due' = left
      BY <1>2, <2>2 DEF Picked
    <3>2. p.slept = slept /\ p.delay = d
      BY <1>1, <2>2 DEF Park
    <3> QED BY <3>1, <3>2
  <2>3. SLEPT # ZOMBIE
    BY DEF SLEPT, ZOMBIE
  <2> QED BY <2>1, <2>2, <2>3
<1> DEFINE due2 == due'
<1>6. due2 \in [Thread -> Nat] /\ InTime(p.slept, p.delay, e, due2)
  BY <1>5
<1> HIDE DEF due2
<1>7. p.slept \in Queue(Thread) /\ p.delay \in [Thread -> Nat] /\ Wakes(p.slept, p.delay, n, e)
  BY <1>2 DEF Parked, Picked
<1> DEFINE rest == SubSeq(p.slept, n + 1, Len(p.slept))
           D    == Charged(p.slept, p.delay, n, e)
<1>8. InTime(rest, D, 0, due2) /\ (rest # <<>> => D[rest[1]] > 0)
  BY <1>6, <1>7, InTimeWake
<1>9. slept' = rest /\ sleep_tick' = D /\ due' = due2
  BY <1>2 DEF Picked, due2
<1> HIDE DEF rest, D
<1> QED BY <1>3, <1>8, <1>9 DEF OnTime

\* Between two picks the sleepers only get older.
LEMMA StayOnTime ==
  ASSUME IInv, OnTime,
         UNCHANGED <<elapsed, slept, due>>,
         \A t \in ToSet(slept) : sleep_tick'[t] = sleep_tick[t]
  PROVE  OnTime'
<1>1. slept \in Seq(Thread) /\ Len(slept) \in Nat
  BY LenProperties DEF IInv, TypeOK
<1>2. \A i \in 1..Len(slept) : sleep_tick'[slept[i]] = sleep_tick[slept[i]]
  BY <1>1, Members
<1> DEFINE d2 == sleep_tick'
<1>3. \A i \in 1..Len(slept) : d2[slept[i]] = sleep_tick[slept[i]]
  BY <1>2
<1>4. d2 = sleep_tick'
  OBVIOUS
<1> HIDE DEF d2
<1>5. InTime(slept, d2, elapsed, due)
  BY <1>3, InTimeOf DEF OnTime
<1>6. elapsed = 0 /\ slept # <<>> => d2[slept[1]] > 0
  BY <1>1, <1>3, EmptySeq DEF OnTime
<1> QED BY <1>4, <1>5, <1>6 DEF OnTime

LEMMA StepOnTime ==
  ASSUME SchedulerAssumption, IInv, IInv', OnTime, [Next]_vars
  PROVE  OnTime'
<1>0. /\ flags \in [Thread -> SUBSET {SLEPT, ZOMBIE}] /\ sleep_tick \in [Thread -> Nat]
      /\ due \in [Thread -> Nat] /\ elapsed \in Nat /\ slept \in Seq(Thread)
      /\ current \in Thread /\ current' \in Thread /\ current \notin ToSet(slept)
      /\ Process \subseteq Thread /\ 0..MaxNap \subseteq Nat
      /\ flags[current] \in {{}, {SLEPT}} /\ (SLEPT \in flags[current] => current = Cleaner)
      /\ \A p \in Process : p # Cleaner
  <2>1. TypeOK /\ TypeOK' /\ OnePlaceParts /\ FlagsMatch
    BY OnePlaceExpanded DEF IInv
  <2>2. /\ flags \in [Thread -> SUBSET {SLEPT, ZOMBIE}] /\ sleep_tick \in [Thread -> Nat]
        /\ due \in [Thread -> Nat] /\ elapsed \in Nat /\ slept \in Seq(Thread)
        /\ current \in Thread /\ current' \in Thread
    BY <2>1 DEF TypeOK
  <2>3. current \notin ToSet(slept)
    BY <2>1 DEF OnePlaceParts, Separate
  <2>4. flags[current] \in {{}, {SLEPT}} /\ (SLEPT \in flags[current] => current = Cleaner)
    BY <2>1 DEF FlagsMatch
  <2>5. /\ Process \subseteq Thread /\ 0..MaxNap \subseteq Nat
        /\ \A p \in Process : p # Cleaner
    BY DEF Thread, SchedulerAssumption
  <2> QED BY <2>2, <2>3, <2>4, <2>5
<1>1. InTime(slept, sleep_tick, elapsed, due) /\ (elapsed = 0 /\ slept # <<>> => sleep_tick[slept[1]] > 0)
  BY DEF OnTime
<1>2. ASSUME scheduler_tick PROVE OnTime'
  <2>1. InTime(slept, sleep_tick, elapsed + 1, TickedDown)
    BY <1>0, <1>1, InTimeTick
  <2>2. TickedDown \in [Thread -> Nat] /\ elapsed + 1 \in Nat /\ elapsed + 1 # 0
    <3>1. \A t \in Thread : due[t] \in Nat
      BY <1>0
    <3>2. TickedDown \in [Thread -> Nat]
      BY <3>1 DEF TickedDown
    <3>3. elapsed \in Nat
      BY <1>0
    <3>4. elapsed + 1 \in Nat /\ elapsed + 1 # 0
      BY <3>3
    <3> QED BY <3>2, <3>4
  <2>3. CASE quantum = 1
    <3>1. scheduler_pick(elapsed + 1, flags, sleep_tick, TickedDown)
      BY <1>2, <2>3 DEF scheduler_tick
    <3> DEFINE e == elapsed + 1
               l == TickedDown
    <3>2. InTime(slept, sleep_tick, e, l) /\ l \in [Thread -> Nat] /\ e \in Nat
          /\ scheduler_pick(e, flags, sleep_tick, l)
      BY <2>1, <2>2, <3>1
    <3> HIDE DEF e, l
    <3> QED BY <1>0, <3>2, PickOnTime
  <2>4. CASE quantum # 1
    <3>1. slept' = slept /\ sleep_tick' = sleep_tick /\ elapsed' = elapsed + 1 /\ due' = TickedDown
      BY <1>2, <2>4 DEF scheduler_tick, tcbs
    <3> QED BY <2>1, <2>2, <3>1 DEF OnTime
  <2> QED BY <2>3, <2>4
<1>3. ASSUME NEW x \in Thread, scheduler_run(x) PROVE OnTime'
  BY <1>3, StayOnTime DEF scheduler_run, tcbs
<1>4. ASSUME NEW p \in Process, NEW tick \in 0..MaxNap, usleep(p, tick) PROVE OnTime'
  <2>1. CASE tick = 0
    <3>1. scheduler_pick(elapsed, flags, sleep_tick, due)
      BY <1>4, <2>1 DEF usleep, scheduler_yield
    <3> QED BY <1>0, <1>1, <3>1, PickOnTime
  <2>2. CASE tick # 0
    <3> DEFINE f == [flags EXCEPT ![p] = @ \union {SLEPT}]
               d == [sleep_tick EXCEPT ![p] = tick]
    <3>1. f \in [Thread -> SUBSET {SLEPT, ZOMBIE}] /\ d \in [Thread -> Nat]
      BY <1>0
    <3>2. scheduler_pick(elapsed, f, d, due) /\ p = current
      BY <1>4, <2>2 DEF usleep, scheduler_yield
    <3>3. f[current] \in {{}, {SLEPT}, {ZOMBIE}}
      BY <1>0, <3>2
    <3>4. \A i \in 1..Len(slept) : d[slept[i]] = sleep_tick[slept[i]] /\ due[slept[i]] = due[slept[i]]
      BY <1>0, <3>2, Members, ElementOfSeq
    <3> HIDE DEF f, d
    <3>5. InTime(slept, d, elapsed, due)
      BY <1>1, <3>4, InTimeOf
    <3> QED BY <1>0, <3>1, <3>2, <3>3, <3>5, PickOnTime
  <2> QED BY <2>1, <2>2
<1>5. ASSUME NEW p \in Process, exit(p) PROVE OnTime'
  <2> DEFINE f == [flags EXCEPT ![p] = @ \union {ZOMBIE}]
  <2>1. f \in [Thread -> SUBSET {SLEPT, ZOMBIE}]
    BY <1>0
  <2>2. scheduler_pick(elapsed, f, sleep_tick, due) /\ p = current
    BY <1>5 DEF exit, scheduler_yield
  <2>3. f[current] \in {{}, {SLEPT}, {ZOMBIE}}
    BY <1>0, <2>2
  <2> HIDE DEF f
  <2> QED BY <1>0, <1>1, <2>1, <2>2, <2>3, PickOnTime
<1>6. ASSUME CleanerYield PROVE OnTime'
  <2>1. scheduler_pick(elapsed, flags, sleep_tick, due)
    BY <1>6 DEF CleanerYield, scheduler_yield
  <2> QED BY <1>0, <1>1, <2>1, PickOnTime
<1>7. ASSUME SetSleepTick PROVE OnTime'
  <2>1. /\ UNCHANGED <<elapsed, slept, due>> /\ current = Cleaner
        /\ sleep_tick' = [sleep_tick EXCEPT ![Cleaner] = CleanerNap]
    BY <1>7 DEF SetSleepTick
  <2>2. \A t \in ToSet(slept) : sleep_tick'[t] = sleep_tick[t]
    BY <1>0, <2>1, Members
  <2> QED BY <2>1, <2>2, StayOnTime
<1>8. ASSUME PopZombie \/ FreeZombie \/ SetSleptFlag \/ UNCHANGED vars PROVE OnTime'
  <2>1. UNCHANGED <<elapsed, slept, due, sleep_tick>>
    BY <1>8 DEF PopZombie, FreeZombie, SetSleptFlag, vars, sched, tcbs
  <2> QED BY <2>1, StayOnTime
<1> QED BY <1>2, <1>3, <1>4, <1>5, <1>6, <1>7, <1>8 DEF Next

\* After a pick nobody is asleep whose time has passed: however the sleepers
\* are linked in and woken, the delays in front of one never add up to more
\* than what is left of the sleep he asked for.
THEOREM SleepersWake == Spec => []WakesOnTime
<1>1. Init => OnTime
  <2> SUFFICES ASSUME Init PROVE OnTime
    OBVIOUS
  <2> DEFINE S == [i \in 0..0 |-> 0]
  <2>1. slept = <<>> /\ Len(slept) = 0
    BY DEF Init
  <2>2. S \in [0..0 -> Nat] /\ S[0] = 0 /\ \A i, j \in 0..0 : S[i] <= S[j]
    OBVIOUS
  <2> HIDE DEF S
  <2>3. Sums(slept, sleep_tick, S)
    BY <2>1, <2>2 DEF Sums
  <2>4. InTime(slept, sleep_tick, elapsed, due)
    BY <2>1, <2>3 DEF InTime
  <2> QED BY <2>1, <2>4 DEF OnTime
<1>2. IInv /\ IInv' /\ OnTime /\ [Next]_vars => OnTime'
  BY StepOnTime, SchedulerAssumption
<1>3. IInv /\ OnTime => WakesOnTime
  <2> SUFFICES ASSUME IInv, OnTime, elapsed = 0, NEW t \in ToSet(slept) PROVE due[t] > 0
    BY DEF WakesOnTime
  <2>1. slept \in Seq(Thread) /\ Len(slept) \in Nat /\ due \in [Thread -> Nat]
        /\ sleep_tick \in [Thread -> Nat]
    BY LenProperties DEF IInv, TypeOK
  <2>2. PICK i \in 1..Len(slept) : t = slept[i]
    BY <2>1, Members
  <2>3. PICK S : Sums(slept, sleep_tick, S)
                 /\ \A j \in 1..Len(slept) : S[j] - elapsed <= due[slept[j]]
    BY DEF OnTime, InTime
  <2>4. 1 \in 1..Len(slept) /\ slept # <<>> /\ 1 - 1 = 0 /\ 1 \in 0..Len(slept)
        /\ i \in 0..Len(slept) /\ 1 <= i /\ slept[1] \in Thread /\ slept[i] \in Thread
    BY <2>1, <2>2, ElementOfSeq, EmptySeq
  <2>5. S[1] = S[0] + sleep_tick[slept[1]] /\ S[0] = 0 /\ S[1] <= S[i]
        /\ S[i] \in Nat /\ S[1] \in Nat
    BY <2>3, <2>4 DEF Sums
  <2>6. sleep_tick[slept[1]] > 0 /\ sleep_tick[slept[1]] \in Nat
    BY <2>1, <2>4 DEF OnTime
  <2>7. S[i] - 0 <= due[slept[i]] /\ due[slept[i]] \in Nat
    BY <2>1, <2>2, <2>3, <2>4
  <2> QED BY <2>2, <2>5, <2>6, <2>7
<1>4. Spec => []OnTime
  BY <1>1, <1>2, Invariance, PTL DEF Spec
<1> QED BY <1>3, <1>4, Invariance, PTL

=============================================================================
