-------------------------- MODULE SchedLists_proofs --------------------------
(***************************************************************************)
(* What MCSchedLists checks for two processes, proved for any number of    *)
(* threads and priorities while the timer does not hit scheduler_add:      *)
(* next, prev and tail of every list agree with the order of its threads.  *)
(***************************************************************************)
EXTENDS SchedLists, QueueLemmas, FiniteSetTheorems

-----------------------------------------------------------------------------
(* One list: its nodes S in a strict order, linked from a head *)

StrictOrder(order, S) ==
    /\ \A a \in S : <<a, a>> \notin order
    /\ \A a, b, c \in S : <<a, b>> \in order /\ <<b, c>> \in order => <<a, c>> \in order
    /\ \A a, b \in S : a = b \/ <<a, b>> \in order \/ <<b, a>> \in order

\* Both orders put the nodes of S in the same order.
SameOrder(order, order2, S) == \A a, b \in S : <<a, b>> \in order <=> <<a, b>> \in order2

\* In order2, t stands just behind a, in front if a is the head.
PutBehind(order2, order, S, t, a, head) ==
    /\ SameOrder(order, order2, S)
    /\ <<t, t>> \notin order2
    /\ \A b \in S : <<b, t>> \in order2 <=> a # head /\ (b = a \/ <<b, a>> \in order)
    /\ \A b \in S : <<t, b>> \in order2 <=> ~(a # head /\ (b = a \/ <<b, a>> \in order))

Later(S, order, t) == {u \in S : <<t, u>> \in order}
Earlier(S, order, t) == {u \in S : <<u, t>> \in order}

\* next changes nowhere on the list.
LEMMA ForwardKept ==
  ASSUME NEW next, NEW next2, NEW head, NEW S, NEW order, NEW order2,
         Forward(next, head, S, order), SameOrder(order, order2, S),
         \A n \in S \union {head} : next2[n] = next[n]
  PROVE  Forward(next2, head, S, order2)
<1>1. IsFirst(next2[head], S, order2, NoThread)
  BY DEF Forward, IsFirst, SameOrder
<1>2. SUFFICES ASSUME NEW t \in S
               PROVE  IsFirst(next2[t], Later(S, order2, t), order2, NoThread)
  BY <1>1, <1>2 DEF Forward, Later
<1>3. IsFirst(next[t], Later(S, order, t), order, NoThread) /\ next2[t] = next[t]
  BY DEF Forward, Later
<1>4. Later(S, order2, t) = Later(S, order, t) /\ Later(S, order, t) \subseteq S
  BY DEF Later, SameOrder
<1> QED BY <1>3, <1>4 DEF IsFirst, SameOrder

LEMMA BackwardKept ==
  ASSUME NEW prev, NEW prev2, NEW head, NEW S, NEW order, NEW order2,
         Backward(prev, head, S, order), SameOrder(order, order2, S),
         \A n \in S : prev2[n] = prev[n]
  PROVE  Backward(prev2, head, S, order2)
<1>2. SUFFICES ASSUME NEW t \in S
               PROVE  IsLast(prev2[t], Earlier(S, order2, t), order2, head)
  BY <1>2 DEF Backward, Earlier
<1>3. IsLast(prev[t], Earlier(S, order, t), order, head) /\ prev2[t] = prev[t]
  BY DEF Backward, Earlier
<1>4. Earlier(S, order2, t) = Earlier(S, order, t) /\ Earlier(S, order, t) \subseteq S
  BY DEF Earlier, SameOrder
<1> QED BY <1>3, <1>4 DEF IsLast, SameOrder

\* A node that is linked behind a node of the list, or behind its head.
LEMMA ForwardInsert ==
  ASSUME NEW next, NEW next2, NEW head, NEW S, NEW order, NEW order2, NEW t, NEW a,
         Forward(next, head, S, order), StrictOrder(order, S),
         head \notin S, t \notin S, t # head, a \in S \union {head},
         NoThread \notin S, t # NoThread,
         PutBehind(order2, order, S, t, a, head),
         next2[t] = next[a], next2[a] = t,
         \A n \in (S \union {head}) \ {a} : next2[n] = next[n]
  PROVE  Forward(next2, head, S \union {t}, order2)
<1> DEFINE T == S \union {t}
<1>1. IsFirst(next[head], S, order, NoThread)
  BY DEF Forward
<1>2. \A n \in S : IsFirst(next[n], Later(S, order, n), order, NoThread)
  BY DEF Forward, Later
<1>3. IsFirst(next2[head], T, order2, NoThread)
  <2>1. CASE a = head
    BY <2>1 DEF IsFirst, PutBehind
  <2>2. CASE a # head
    <3>1. /\ next2[head] = next[head] /\ next[head] \in S
          /\ \A u \in S \ {next[head]} : <<next[head], u>> \in order
      BY <1>1, <2>2 DEF IsFirst
    <3>2. <<next[head], t>> \in order2
      BY <3>1, <2>2 DEF PutBehind
    <3>3. \A u \in S \ {next[head]} : <<next[head], u>> \in order2
      BY <3>1 DEF PutBehind, SameOrder
    <3> QED BY <3>1, <3>2, <3>3 DEF IsFirst
  <2> QED BY <2>1, <2>2
<1>4. IsFirst(next2[t], Later(T, order2, t), order2, NoThread)
  <2>1. CASE a = head
    <3>1. Later(T, order2, t) = S
      BY <2>1 DEF Later, PutBehind
    <3> QED BY <1>1, <2>1, <3>1 DEF IsFirst, PutBehind, SameOrder
  <2>2. CASE a # head
    <3>1. a \in S /\ Later(S, order, a) \subseteq S
      BY <2>2 DEF Later
    <3>2. Later(T, order2, t) = Later(S, order, a)
      <4>1. \A b \in S : <<t, b>> \in order2 <=> <<a, b>> \in order
        BY <2>2, <3>1 DEF PutBehind, StrictOrder
      <4> QED BY <4>1 DEF Later, PutBehind
    <3> QED BY <1>2, <3>1, <3>2 DEF IsFirst, PutBehind, SameOrder
  <2> QED BY <2>1, <2>2
<1>5. ASSUME NEW n \in S
      PROVE  IsFirst(next2[n], Later(T, order2, n), order2, NoThread)
  <2> DEFINE L == Later(S, order, n)
  <2>0. L \subseteq S /\ IsFirst(next[n], L, order, NoThread)
    BY <1>2 DEF Later
  <2>1. CASE a # head /\ (n = a \/ <<n, a>> \in order)
    <3>1. a \in S /\ Later(T, order2, n) = L \union {t}
      BY <2>1 DEF Later, PutBehind, SameOrder
    <3>2. CASE n = a
      <4>1. \A u \in L : <<t, u>> \in order2
        <5> SUFFICES ASSUME NEW u \in L PROVE <<t, u>> \in order2
          OBVIOUS
        <5>1. u \in S /\ <<a, u>> \in order
          BY <3>2 DEF Later
        <5>2. u # a /\ <<u, a>> \notin order
          BY <5>1, <3>1 DEF StrictOrder
        <5> QED BY <5>1, <5>2 DEF PutBehind
      <4> QED BY <3>1, <3>2, <4>1 DEF IsFirst
    <3>3. CASE n # a
      <4>1. a \in L
        BY <2>1, <3>1, <3>3 DEF Later
      <4>2. /\ next2[n] = next[n] /\ next[n] \in L /\ next[n] \in S
            /\ \A u \in L \ {next[n]} : <<next[n], u>> \in order
        BY <2>0, <3>3, <4>1 DEF IsFirst
      <4>3. <<next[n], t>> \in order2
        BY <4>1, <4>2, <2>1 DEF PutBehind
      <4>4. \A u \in L \ {next[n]} : <<next[n], u>> \in order2
        BY <4>2, <2>0 DEF PutBehind, SameOrder
      <4> QED BY <3>1, <4>2, <4>3, <4>4 DEF IsFirst
    <3> QED BY <3>2, <3>3
  <2>2. CASE ~(a # head /\ (n = a \/ <<n, a>> \in order))
    <3>1. n # a /\ next2[n] = next[n]
      BY <2>2
    <3>2. Later(T, order2, n) = L
      BY <2>2 DEF Later, PutBehind, SameOrder
    <3> QED BY <2>0, <3>1, <3>2 DEF IsFirst, PutBehind, SameOrder
  <2> QED BY <2>1, <2>2
<1> QED BY <1>3, <1>4, <1>5 DEF Forward, Later

LEMMA BackwardInsert ==
  ASSUME NEW next, NEW prev, NEW prev2, NEW head, NEW S, NEW order, NEW order2, NEW t, NEW a,
         Forward(next, head, S, order), Backward(prev, head, S, order), StrictOrder(order, S),
         head \notin S, t \notin S, t # head, a \in S \union {head}, NoThread \notin S,
         PutBehind(order2, order, S, t, a, head),
         prev2[t] = a, next[a] \in S => prev2[next[a]] = t,
         \A n \in S \ {next[a]} : prev2[n] = prev[n]
  PROVE  Backward(prev2, head, S \union {t}, order2)
<1> DEFINE T == S \union {t}
<1>1. \A n \in S : IsLast(prev[n], Earlier(S, order, n), order, head)
  BY DEF Backward, Earlier
<1>2. IsLast(prev2[t], Earlier(T, order2, t), order2, head)
  <2>1. CASE a = head
    <3>1. Earlier(T, order2, t) = {}
      BY <2>1 DEF Earlier, PutBehind
    <3> QED BY <2>1, <3>1 DEF IsLast
  <2>2. CASE a # head
    <3>1. a \in S /\ Earlier(T, order2, t) = {b \in S : b = a \/ <<b, a>> \in order}
      BY <2>2 DEF Earlier, PutBehind
    <3> QED BY <3>1 DEF IsLast, PutBehind, SameOrder
  <2> QED BY <2>1, <2>2
<1>3. ASSUME NEW n \in S
      PROVE  IsLast(prev2[n], Earlier(T, order2, n), order2, head)
  <2> DEFINE E == Earlier(S, order, n)
             behind == a = head \/ (n # a /\ <<n, a>> \notin order)
             L == IF a = head THEN S ELSE Later(S, order, a)
  <2>0. E \subseteq S /\ IsLast(prev[n], E, order, head)
    BY <1>1 DEF Earlier
  <2>1. L \subseteq S /\ IsFirst(next[a], L, order, NoThread)
    BY DEF Forward, Later
  <2>2. CASE behind
    <3>1. Earlier(T, order2, n) = E \union {t}
      BY <2>2 DEF Earlier, PutBehind, SameOrder
    <3>2. n \in L
      BY <2>2 DEF Later, StrictOrder
    <3>3. next[a] \in L /\ next[a] \in S /\ \A u \in L \ {next[a]} : <<next[a], u>> \in order
      BY <2>1, <3>2 DEF IsFirst
    <3>4. CASE n = next[a]
      <4>1. \A b \in E : <<b, t>> \in order2
        <5> SUFFICES ASSUME NEW b \in E PROVE <<b, t>> \in order2
          OBVIOUS
        <5>1. b \in S /\ <<b, n>> \in order
          BY DEF Earlier
        <5>2. b \notin L
          <6> SUFFICES ASSUME b \in L PROVE FALSE
            OBVIOUS
          <6>1. b = n \/ <<n, b>> \in order
            BY <3>3, <3>4
          <6> QED BY <5>1, <6>1 DEF StrictOrder
        <5>3. a # head /\ a \in S /\ (b = a \/ <<b, a>> \in order)
          BY <5>1, <5>2 DEF Later, StrictOrder
        <5> QED BY <5>1, <5>3 DEF PutBehind
      <4>2. prev2[n] = t
        BY <3>4
      <4> QED BY <3>1, <4>1, <4>2 DEF IsLast
    <3>5. CASE n # next[a]
      <4>1. next[a] \in E
        BY <3>2, <3>3, <3>5 DEF Earlier
      <4>2. /\ prev2[n] = prev[n] /\ prev[n] \in E /\ prev[n] \in S
            /\ \A u \in E \ {prev[n]} : <<u, prev[n]>> \in order
        BY <2>0, <3>5, <4>1 DEF IsLast
      <4>3. prev[n] = next[a] \/ <<next[a], prev[n]>> \in order
        BY <4>1, <4>2
      <4>4. a # head => a \in S /\ <<a, prev[n]>> \in order
        <5> SUFFICES ASSUME a # head PROVE a \in S /\ <<a, prev[n]>> \in order
          OBVIOUS
        <5>1. a \in S /\ <<a, next[a]>> \in order
          BY <3>3 DEF Later
        <5> QED BY <5>1, <4>2, <4>3, <3>3 DEF StrictOrder
      <4>5. <<t, prev[n]>> \in order2
        BY <4>2, <4>4 DEF PutBehind, StrictOrder
      <4>6. \A u \in E \ {prev[n]} : <<u, prev[n]>> \in order2
        BY <4>2, <2>0 DEF PutBehind, SameOrder
      <4> QED BY <3>1, <4>2, <4>5, <4>6 DEF IsLast
    <3> QED BY <3>4, <3>5
  <2>3. CASE ~behind
    <3>1. Earlier(T, order2, n) = E
      BY <2>3 DEF Earlier, PutBehind, SameOrder
    <3>2. n # next[a]
      <4> SUFFICES ASSUME n = next[a] PROVE FALSE
        OBVIOUS
      <4>1. a # head /\ a \in S /\ (n = a \/ <<n, a>> \in order)
        BY <2>3
      <4>2. L = Later(S, order, a)
        BY <4>1
      <4>3. n \in L
        BY <2>1 DEF IsFirst
      <4> QED BY <4>1, <4>2, <4>3 DEF Later, StrictOrder
    <3> QED BY <2>0, <3>1, <3>2 DEF IsLast, PutBehind, SameOrder
  <2> QED BY <2>2, <2>3
<1> QED BY <1>2, <1>3 DEF Backward, Earlier

\* The first node leaves the list.
LEMMA ForwardRemove ==
  ASSUME NEW next, NEW next2, NEW head, NEW S, NEW order, NEW order2, NEW t,
         Forward(next, head, S, order), StrictOrder(order, S),
         head \notin S, NoThread \notin S, t = next[head], t # NoThread,
         SameOrder(order, order2, S),
         next2[head] = next[t], \A n \in S \ {t} : next2[n] = next[n]
  PROVE  /\ t \in S
         /\ Forward(next2, head, S \ {t}, order2)
<1> DEFINE T == S \ {t}
<1>1. t \in S /\ \A u \in T : <<t, u>> \in order
  BY DEF Forward, IsFirst
<1>2. \A n \in S : IsFirst(next[n], Later(S, order, n), order, NoThread)
  BY DEF Forward, Later
<1>3. \A n \in S : t \notin Later(S, order, n)
  BY <1>1 DEF Later, StrictOrder
<1>4. Later(S, order, t) = T
  BY <1>1, <1>3 DEF Later
<1>5. IsFirst(next2[head], T, order2, NoThread)
  BY <1>1, <1>2, <1>4 DEF IsFirst, SameOrder
<1>6. ASSUME NEW n \in T
      PROVE  IsFirst(next2[n], Later(T, order2, n), order2, NoThread)
  <2>1. Later(T, order2, n) = Later(S, order, n) /\ Later(S, order, n) \subseteq S
    BY <1>3 DEF Later, SameOrder
  <2> QED BY <1>2, <2>1 DEF IsFirst, SameOrder
<1> QED BY <1>1, <1>5, <1>6 DEF Forward, Later

LEMMA BackwardRemove ==
  ASSUME NEW next, NEW prev, NEW prev2, NEW head, NEW S, NEW order, NEW order2, NEW t,
         Forward(next, head, S, order), Backward(prev, head, S, order), StrictOrder(order, S),
         head \notin S, NoThread \notin S, t = next[head], t # NoThread,
         SameOrder(order, order2, S),
         next[t] \in S => prev2[next[t]] = head,
         \A n \in S \ {t, next[t]} : prev2[n] = prev[n]
  PROVE  Backward(prev2, head, S \ {t}, order2)
<1> DEFINE T == S \ {t}
           f == next[t]
<1>1. t \in S /\ \A u \in T : <<t, u>> \in order
  BY DEF Forward, IsFirst
<1>2. IsFirst(f, Later(S, order, t), order, NoThread)
  BY <1>1 DEF Forward, Later
<1>3. Later(S, order, t) = T
  BY <1>1 DEF Later, StrictOrder
<1> HIDE DEF f
<1>4. SUFFICES ASSUME NEW n \in T
               PROVE  IsLast(prev2[n], Earlier(T, order2, n), order2, head)
  BY <1>4 DEF Backward, Earlier
<1>5. f \in T /\ \A u \in T \ {f} : <<f, u>> \in order
  BY <1>2, <1>3 DEF IsFirst
<1>6. CASE n = f
  <2>1. Earlier(T, order2, n) = {}
    BY <1>5, <1>6 DEF Earlier, SameOrder, StrictOrder
  <2> QED BY <1>5, <1>6, <2>1 DEF IsLast, f
<1>7. CASE n # f
  <2> DEFINE E == Earlier(S, order, n)
  <2>1. f \in E
    BY <1>5, <1>7 DEF Earlier
  <2>2. /\ prev2[n] = prev[n] /\ prev[n] \in E /\ prev[n] \in S
        /\ \A u \in E \ {prev[n]} : <<u, prev[n]>> \in order
    BY <1>7, <2>1 DEF Backward, IsLast, Earlier, f
  <2>3. prev[n] # t
    BY <1>1, <1>5, <2>1, <2>2 DEF StrictOrder
  <2>4. Earlier(T, order2, n) = E \ {t} /\ E \subseteq S
    BY DEF Earlier, SameOrder
  <2> QED BY <2>2, <2>3, <2>4 DEF IsLast, SameOrder
<1> QED BY <1>6, <1>7

\* The tail of a list, when a node is linked behind it and when the first leaves.
LEMMA TailLast ==
  ASSUME NEW next, NEW head, NEW S, NEW order, NEW tail,
         Forward(next, head, S, order), StrictOrder(order, S), head \notin S,
         IsLast(tail, S, order, head)
  PROVE  tail \in S \union {head} /\ next[tail] = NoThread
<1>1. CASE S = {}
  BY <1>1 DEF IsLast, Forward, IsFirst
<1>2. CASE S # {}
  <2>1. tail \in S /\ \A u \in S \ {tail} : <<u, tail>> \in order
    BY <1>2 DEF IsLast
  <2>2. {u \in S : <<tail, u>> \in order} = {}
    BY <2>1 DEF StrictOrder
  <2>3. IsFirst(next[tail], {u \in S : <<tail, u>> \in order}, order, NoThread)
    BY <2>1 DEF Forward
  <2> QED BY <2>1, <2>2, <2>3 DEF IsFirst
<1> QED BY <1>1, <1>2

LEMMA TailInsert ==
  ASSUME NEW head, NEW S, NEW order, NEW order2, NEW tail, NEW t,
         IsLast(tail, S, order, head), head \notin S,
         PutBehind(order2, order, S, t, tail, head)
  PROVE  IsLast(t, S \union {t}, order2, head)
<1>1. CASE S = {}
  BY <1>1 DEF IsLast
<1>2. CASE S # {}
  <2>1. tail \in S /\ tail # head /\ \A u \in S \ {tail} : <<u, tail>> \in order
    BY <1>2 DEF IsLast
  <2> QED BY <2>1 DEF IsLast, PutBehind
<1> QED BY <1>1, <1>2

LEMMA TailRemove ==
  ASSUME NEW next, NEW head, NEW S, NEW order, NEW order2, NEW tail, NEW t,
         Forward(next, head, S, order), StrictOrder(order, S),
         head \notin S, NoThread \notin S, t = next[head], t # NoThread,
         SameOrder(order, order2, S),
         IsLast(tail, S, order, head)
  PROVE  IsLast(IF tail = t THEN head ELSE tail, S \ {t}, order2, head)
<1>1. t \in S /\ \A u \in S \ {t} : <<t, u>> \in order
  BY DEF Forward, IsFirst
<1>2. tail \in S /\ \A u \in S \ {tail} : <<u, tail>> \in order
  BY <1>1 DEF IsLast
<1>3. CASE tail = t
  <2>1. S \ {t} = {}
    BY <1>1, <1>2, <1>3 DEF StrictOrder
  <2> QED BY <1>3, <2>1 DEF IsLast
<1>4. CASE tail # t
  BY <1>1, <1>2, <1>4 DEF IsLast, SameOrder
<1> QED BY <1>3, <1>4

LEMMA TailKept ==
  ASSUME NEW head, NEW S, NEW order, NEW order2, NEW tail,
         IsLast(tail, S, order, head), SameOrder(order, order2, S)
  PROVE  IsLast(tail, S, order2, head)
BY DEF IsLast, SameOrder

-----------------------------------------------------------------------------
(* The order of a queue *)

LEMMA OrderIs ==
  ASSUME NEW q \in Queue(Thread)
  PROVE  /\ \A i, j \in 1..Len(q) : <<q[i], q[j]>> \in Order(q) <=> i < j
         /\ \A a \in ToSet(q) : \E i \in 1..Len(q) : a = q[i]
         /\ \A i \in 1..Len(q) : q[i] \in ToSet(q)
         /\ \A i, j \in 1..Len(q) : q[i] = q[j] => i = j
         /\ Len(q) \in Nat /\ q \in Seq(Thread)
<1>1. /\ DOMAIN q = 1..Len(q) /\ \A i, j \in 1..Len(q) : q[i] = q[j] => i = j
      /\ q \in Seq(Thread)
  BY LenProperties DEF Queue, IsInjective
<1>2. \A a : a \in ToSet(q) <=> \E i \in 1..Len(q) : a = q[i]
  BY <1>1, Members
<1>3. ASSUME NEW i \in 1..Len(q), NEW j \in 1..Len(q)
      PROVE  <<q[i], q[j]>> \in Order(q) <=> i < j
  <2>1. <<q[i], q[j]>> \in ToSet(q) \X ToSet(q)
    BY <1>2
  <2>2. <<q[i], q[j]>> \in Order(q) <=>
          \E k, l \in 1..Len(q) : k < l /\ q[k] = q[i] /\ q[l] = q[j]
    BY <1>1, <2>1 DEF Order
  <2> QED BY <1>1, <2>2
<1>4. Len(q) \in Nat
  BY <1>1, LenProperties
<1> QED BY <1>1, <1>2, <1>3, <1>4

LEMMA OrderStrict ==
  ASSUME NEW q \in Queue(Thread), NEW S, S \subseteq ToSet(q)
  PROVE  StrictOrder(Order(q), S)
<1>1. /\ \A i, j \in 1..Len(q) : <<q[i], q[j]>> \in Order(q) <=> i < j
      /\ \A a \in S : \E i \in 1..Len(q) : a = q[i]
  BY OrderIs
<1>2. ASSUME NEW a \in S, NEW b \in S, NEW c \in S
      PROVE  /\ <<a, a>> \notin Order(q)
             /\ <<a, b>> \in Order(q) /\ <<b, c>> \in Order(q) => <<a, c>> \in Order(q)
             /\ a = b \/ <<a, b>> \in Order(q) \/ <<b, a>> \in Order(q)
  <2>1. PICK i \in 1..Len(q) : a = q[i]
    BY <1>1
  <2>2. PICK j \in 1..Len(q) : b = q[j]
    BY <1>1
  <2>3. PICK k \in 1..Len(q) : c = q[k]
    BY <1>1
  <2>4. /\ <<a, a>> \in Order(q) <=> i < i
        /\ <<a, b>> \in Order(q) <=> i < j
        /\ <<b, a>> \in Order(q) <=> j < i
        /\ <<b, c>> \in Order(q) <=> j < k
        /\ <<a, c>> \in Order(q) <=> i < k
    BY <1>1, <2>1, <2>2, <2>3
  <2>5. i \in Int /\ j \in Int /\ k \in Int
    OBVIOUS
  <2>6. ~(i < i) /\ (i < j /\ j < k => i < k) /\ (i = j \/ i < j \/ j < i)
    BY <2>5
  <2> QED BY <2>1, <2>2, <2>4, <2>6
<1> QED BY <1>2 DEF StrictOrder

\* Two queues put the nodes of S in the same order if f takes their places in
\* one to their places in the other and keeps what is lower lower.
LEMMA SameOrderBy ==
  ASSUME NEW q \in Queue(Thread), NEW q2 \in Queue(Thread), NEW S, S \subseteq ToSet(q), NEW f,
         \A i \in 1..Len(q) : q[i] \in S => f[i] \in 1..Len(q2) /\ q2[f[i]] = q[i],
         \A i, j \in 1..Len(q) : i < j /\ q[i] \in S /\ q[j] \in S => f[i] < f[j]
  PROVE  SameOrder(Order(q), Order(q2), S)
<1> SUFFICES ASSUME NEW a \in S, NEW b \in S
             PROVE  <<a, b>> \in Order(q) <=> <<a, b>> \in Order(q2)
  BY DEF SameOrder
<1>1. PICK i \in 1..Len(q) : a = q[i]
  BY OrderIs
<1>2. PICK j \in 1..Len(q) : b = q[j]
  BY OrderIs
<1>3. f[i] \in 1..Len(q2) /\ a = q2[f[i]] /\ f[j] \in 1..Len(q2) /\ b = q2[f[j]]
  BY <1>1, <1>2
<1>4. /\ <<a, b>> \in Order(q) <=> i < j
      /\ <<a, b>> \in Order(q2) <=> f[i] < f[j]
  <2>1. /\ \A k, l \in 1..Len(q) : <<q[k], q[l]>> \in Order(q) <=> k < l
        /\ \A k, l \in 1..Len(q2) : <<q2[k], q2[l]>> \in Order(q2) <=> k < l
    BY OrderIs
  <2> QED BY <2>1, <1>1, <1>2, <1>3
<1>5. Len(q) \in Nat /\ Len(q2) \in Nat
  BY OrderIs
<1> DEFINE x == f[i]
           y == f[j]
<1>6. x \in Int /\ y \in Int /\ i \in Int /\ j \in Int
  BY <1>3, <1>5
<1>7. /\ i < j => x < y
      /\ j < i => y < x
      /\ i = j => x = y
  BY <1>1, <1>2
<1> HIDE DEF x, y
<1>8. i < j <=> x < y
  BY <1>6, <1>7
<1> QED BY <1>4, <1>8 DEF x, y

LEMMA OrderAppend ==
  ASSUME NEW q \in Queue(Thread), NEW t \in Thread, t \notin ToSet(q)
  PROVE  /\ Append(q, t) \in Queue(Thread) /\ ToSet(Append(q, t)) = ToSet(q) \union {t}
         /\ SameOrder(Order(q), Order(Append(q, t)), ToSet(q))
         /\ <<t, t>> \notin Order(Append(q, t))
         /\ \A b \in ToSet(q) : /\ <<b, t>> \in Order(Append(q, t))
                                /\ <<t, b>> \notin Order(Append(q, t))
<1> DEFINE r == Append(q, t)
           n == Len(q)
           f == [i \in 1..n |-> i]
<1>1. r \in Queue(Thread) /\ ToSet(r) = ToSet(q) \union {t}
  BY QueueAppend
<1>2. n \in Nat /\ Len(r) = n + 1 /\ r[n + 1] = t /\ \A i \in 1..n : r[i] = q[i]
  BY OrderIs, AppendProperties
<1> HIDE DEF r, n
<1>3. \A i \in 1..n : f[i] = i /\ f[i] \in 1..Len(r) /\ r[f[i]] = q[i]
  BY <1>2
<1>4. \A i, j \in 1..n : i < j => f[i] < f[j]
  BY <1>3
<1> HIDE DEF f
<1>5. SameOrder(Order(q), Order(r), ToSet(q))
  BY <1>1, <1>3, <1>4, SameOrderBy DEF n
<1>6. \A i, j \in 1..n + 1 : <<r[i], r[j]>> \in Order(r) <=> i < j
  BY <1>1, <1>2, OrderIs
<1>7. <<t, t>> \notin Order(r)
  BY <1>2, <1>6
<1>8. ASSUME NEW b \in ToSet(q)
      PROVE  <<b, t>> \in Order(r) /\ <<t, b>> \notin Order(r)
  <2>1. PICK i \in 1..n : b = q[i]
    BY OrderIs DEF n
  <2>2. i \in 1..n + 1 /\ n + 1 \in 1..n + 1 /\ i < n + 1 /\ ~(n + 1 < i)
    BY <1>2
  <2>3. b = r[i] /\ t = r[n + 1]
    BY <1>2, <2>1
  <2> QED BY <1>6, <2>2, <2>3
<1> QED BY <1>1, <1>5, <1>7, <1>8 DEF r

\* A new last thread of the queue goes behind the tail of its list.
LEMMA AppendBehind ==
  ASSUME NEW q \in Queue(Thread), NEW t \in Thread, t \notin ToSet(q),
         NEW S, S \subseteq ToSet(q), NEW tail, NEW head, head \notin S,
         IsLast(tail, S, Order(q), head)
  PROVE  PutBehind(Order(Append(q, t)), Order(q), S, t, tail, head)
<1>1. \A b \in S : tail # head /\ (b = tail \/ <<b, tail>> \in Order(q))
  BY DEF IsLast
<1> QED BY <1>1, OrderAppend DEF PutBehind, SameOrder

\* A sleeper that is inserted at place k goes behind the one at place k - 1.
LEMMA InsertBehind ==
  ASSUME NEW q \in Queue(Thread), NEW t \in Thread, t \notin ToSet(q),
         NEW k \in 1..(Len(q) + 1), NEW a, NEW head, head \notin ToSet(q),
         a = IF k = 1 THEN head ELSE q[k - 1]
  PROVE  /\ InsertAt(q, k, t) \in Queue(Thread)
         /\ ToSet(InsertAt(q, k, t)) = ToSet(q) \union {t}
         /\ PutBehind(Order(InsertAt(q, k, t)), Order(q), ToSet(q), t, a, head)
<1> DEFINE r == InsertAt(q, k, t)
           n == Len(q)
           f == [i \in 1..n |-> IF i < k THEN i ELSE i + 1]
<1>1. r \in Queue(Thread) /\ ToSet(r) = ToSet(q) \union {t}
  BY QueueInsert
<1>2. /\ n \in Nat /\ Len(r) = n + 1
      /\ \A i \in 1..n + 1 : r[i] = IF i < k THEN q[i] ELSE IF i = k THEN t ELSE q[i - 1]
  BY OrderIs, InsertedAt
<1>3. k \in 1..n + 1
  OBVIOUS
<1> HIDE DEF r, n
<1>4. ASSUME NEW i \in 1..n
      PROVE  f[i] \in 1..n + 1 /\ r[f[i]] = q[i]
  <2>1. CASE i < k
    BY <1>2, <1>3, <2>1
  <2>2. CASE ~(i < k)
    <3>1. f[i] = i + 1 /\ i + 1 \in 1..n + 1 /\ ~(i + 1 < k) /\ i + 1 # k /\ (i + 1) - 1 = i
      BY <1>2, <1>3, <2>2
    <3> HIDE DEF f
    <3> QED BY <1>2, <3>1
  <2> QED BY <2>1, <2>2
<1>5. \A i, j \in 1..n : i < j => f[i] < f[j]
  BY <1>2, <1>3
<1>6. \A i \in 1..n : f[i] < k <=> i < k
  BY <1>2, <1>3
<1>7. \A i \in 1..n : k < f[i] <=> ~(i < k)
  BY <1>2, <1>3
<1> HIDE DEF f
<1>8. SameOrder(Order(q), Order(r), ToSet(q))
  BY <1>1, <1>2, <1>4, <1>5, SameOrderBy DEF n
<1>9. \A i, j \in 1..n + 1 : <<r[i], r[j]>> \in Order(r) <=> i < j
  BY <1>1, <1>2, OrderIs
<1>10. r[k] = t
  BY <1>2, <1>3
<1>11. <<t, t>> \notin Order(r)
  BY <1>2, <1>3, <1>9, <1>10
<1>12. ASSUME NEW b \in ToSet(q)
       PROVE  /\ <<b, t>> \in Order(r) <=> a # head /\ (b = a \/ <<b, a>> \in Order(q))
              /\ <<t, b>> \in Order(r) <=> ~(a # head /\ (b = a \/ <<b, a>> \in Order(q)))
  <2>1. PICK i \in 1..n : b = q[i]
    BY OrderIs DEF n
  <2>2. /\ <<b, t>> \in Order(r) <=> i < k
        /\ <<t, b>> \in Order(r) <=> ~(i < k)
    <3> DEFINE x == f[i]
    <3>1. x \in 1..n + 1 /\ b = r[x]
      BY <1>4, <2>1
    <3>2. (x < k <=> i < k) /\ (k < x <=> ~(i < k))
      BY <1>6, <1>7
    <3> HIDE DEF x
    <3> QED BY <1>3, <1>9, <1>10, <3>1, <3>2
  <2>3. i < k <=> a # head /\ (b = a \/ <<b, a>> \in Order(q))
    <3>1. CASE k = 1
      BY <1>2, <3>1
    <3>2. CASE k # 1
      <4>1. k - 1 \in 1..n /\ a = q[k - 1] /\ a \in ToSet(q)
        <5>1. k - 1 \in 1..n
          BY <1>2, <1>3, <3>2
        <5> QED BY <3>2, <5>1, OrderIs DEF n
      <4>2. <<b, a>> \in Order(q) <=> i < k - 1
        <5>1. \A l, m \in 1..n : <<q[l], q[m]>> \in Order(q) <=> l < m
          BY OrderIs DEF n
        <5> QED BY <2>1, <4>1, <5>1
      <4>3. b = a <=> i = k - 1
        <5>1. \A l, m \in 1..n : q[l] = q[m] => l = m
          BY OrderIs DEF n
        <5> QED BY <2>1, <4>1, <5>1
      <4>4. i < k <=> i = k - 1 \/ i < k - 1
        BY <1>2, <1>3
      <4> QED BY <4>1, <4>2, <4>3, <4>4
    <3> QED BY <3>1, <3>2
  <2> QED BY <2>2, <2>3
<1> QED BY <1>1, <1>8, <1>11, <1>12 DEF PutBehind, r

LEMMA OrderRemove ==
  ASSUME NEW q \in Queue(Thread), NEW k \in 1..Len(q)
  PROVE  /\ RemoveAt(q, k) \in Queue(Thread) /\ ToSet(RemoveAt(q, k)) = ToSet(q) \ {q[k]}
         /\ SameOrder(Order(q), Order(RemoveAt(q, k)), ToSet(q) \ {q[k]})
<1> DEFINE r == RemoveAt(q, k)
           n == Len(q)
           f == [i \in 1..n |-> IF i < k THEN i ELSE i - 1]
           S == ToSet(q) \ {q[k]}
<1>1. r \in Queue(Thread) /\ ToSet(r) = S
  BY QueueRemove
<1>2. /\ n \in Nat /\ Len(r) = n - 1
      /\ \A i \in 1..n - 1 : r[i] = IF i < k THEN q[i] ELSE q[i + 1]
  BY OrderIs, RemovedAt
<1>3. k \in 1..n /\ \A i \in 1..n : q[i] \in S => i # k
  OBVIOUS
<1>4. S \subseteq ToSet(q)
  OBVIOUS
<1> HIDE DEF r, n, S
<1>5. ASSUME NEW i \in 1..n, i # k
      PROVE  f[i] \in 1..n - 1 /\ r[f[i]] = q[i]
  <2>1. CASE i < k
    <3>1. f[i] = i /\ i \in 1..n - 1
      BY <1>2, <1>3, <2>1
    <3> QED BY <1>2, <2>1, <3>1
  <2>2. CASE ~(i < k)
    <3>1. f[i] = i - 1 /\ i - 1 \in 1..n - 1 /\ ~(i - 1 < k) /\ (i - 1) + 1 = i
      BY <1>2, <1>3, <1>5, <2>2
    <3> HIDE DEF f
    <3> QED BY <1>2, <3>1
  <2> QED BY <2>1, <2>2
<1>6. \A i, j \in 1..n : i < j /\ i # k /\ j # k => f[i] < f[j]
  BY <1>2, <1>3
<1> HIDE DEF f
<1>7. SameOrder(Order(q), Order(r), S)
  BY <1>1, <1>2, <1>3, <1>4, <1>5, <1>6, SameOrderBy DEF n
<1> QED BY <1>1, <1>7 DEF r, S

LEMMA OrderTail ==
  ASSUME NEW q \in Queue(Thread), q # <<>>
  PROVE  /\ Tail(q) \in Queue(Thread) /\ ToSet(Tail(q)) = ToSet(q) \ {q[1]}
         /\ SameOrder(Order(q), Order(Tail(q)), ToSet(q) \ {q[1]})
         /\ Len(q) >= 1 /\ Len(Tail(q)) = Len(q) - 1
         /\ \A i \in 1..Len(q) - 1 : Tail(q)[i] = q[i + 1]
<1> DEFINE r == Tail(q)
           n == Len(q)
           f == [i \in 1..n |-> i - 1]
           S == ToSet(q) \ {q[1]}
<1>1. r \in Queue(Thread) /\ ToSet(r) = S
  BY QueueHeadTail
<1>2. q \in Seq(Thread) /\ n \in Nat /\ n >= 1 /\ Len(r) = n - 1
  BY OrderIs, EmptySeq, HeadTailProperties
<1>3. \A i \in 1..n - 1 : r[i] = q[i + 1]
  BY <1>2, HeadTailProperties
<1>4. S \subseteq ToSet(q) /\ \A i \in 1..n : q[i] \in S => i # 1
  OBVIOUS
<1> HIDE DEF r, n, S
<1>5. ASSUME NEW i \in 1..n, i # 1
      PROVE  f[i] \in 1..n - 1 /\ r[f[i]] = q[i]
  <2>1. f[i] = i - 1 /\ i - 1 \in 1..n - 1 /\ (i - 1) + 1 = i
    BY <1>2, <1>5
  <2> HIDE DEF f
  <2> QED BY <1>3, <2>1
<1>6. \A i, j \in 1..n : i < j => f[i] < f[j]
  BY <1>2
<1> HIDE DEF f
<1>7. SameOrder(Order(q), Order(r), S)
  BY <1>1, <1>2, <1>4, <1>5, <1>6, SameOrderBy DEF n
<1> QED BY <1>1, <1>2, <1>3, <1>7 DEF r, S, n

\* The first node of a list is the first of its queue.
LEMMA FirstOfOrder ==
  ASSUME NEW q \in Queue(Thread), NEW t \in ToSet(q),
         \A u \in ToSet(q) \ {t} : <<t, u>> \in Order(q)
  PROVE  q # <<>> /\ t = q[1]
<1>1. PICK i \in 1..Len(q) : t = q[i]
  BY OrderIs
<1>2. Len(q) \in Nat /\ 1 \in 1..Len(q)
  BY <1>1, OrderIs
<1>3. ~(i < 1) /\ (<<q[i], q[1]>> \in Order(q) <=> i < 1) /\ q[1] \in ToSet(q)
  BY <1>1, <1>2, OrderIs
<1>4. q # <<>>
  BY <1>2
<1>5. i = 1 \/ q[1] = t
  BY <1>1, <1>3, <1>2
<1> QED BY <1>1, <1>4, <1>5

-----------------------------------------------------------------------------
(* All lists: q is the order of arrival, s the sleepers, z the zombies *)

Of(q, p) == {t \in ToSet(q) : priority[t] = p}

Apart(q, s, z) ==
    /\ q \in Queue(Thread) /\ s \in Queue(Thread) /\ z \in Queue(Thread)
    /\ ToSet(q) \intersect ToSet(s) = {}
    /\ ToSet(q) \intersect ToSet(z) = {}
    /\ ToSet(s) \intersect ToSet(z) = {}

ActiveList(next, prev, q, p) ==
    Forward(next, p, Of(q, p), Order(q)) /\ Backward(prev, p, Of(q, p), Order(q))

SleptList(next, prev, s) ==
    /\ Forward(next, SleptHead, ToSet(s), Order(s))
    /\ Backward(prev, SleptHead, ToSet(s), Order(s))

ZombieList(next, z) == Forward(next, ZombieHead, ToSet(z), Order(z))

Shape(next, prev, q, s, z) ==
    /\ Apart(q, s, z)
    /\ \A p \in Priority : ActiveList(next, prev, q, p)
    /\ SleptList(next, prev, s)
    /\ ZombieList(next, z)

Tails(tail, q) == \A p \in Priority : IsLast(tail[p], Of(q, p), Order(q), p)

Unlisted(t, q, s, z) == t \in Thread /\ t \notin ToSet(q) \union ToSet(s) \union ToSet(z)

LEMMA Nodes ==
  /\ Node = Thread \union Priority \union {SleptHead, ZombieHead}
  /\ NoThread \notin Node /\ NoThread \notin Thread /\ NoThread \notin Priority
  /\ NoThread # SleptHead /\ NoThread # ZombieHead /\ SleptHead # ZombieHead
  /\ SleptHead \notin Thread /\ SleptHead \notin Priority
  /\ ZombieHead \notin Thread /\ ZombieHead \notin Priority
  /\ \A t \in Thread : priority[t] \in Priority /\ t \notin Priority
  /\ \A p \in Priority : p \notin Thread
BY SchedListsAssumption DEF Node

LEMMA ListsInThread ==
  ASSUME NEW q, NEW s, NEW z, Apart(q, s, z)
  PROVE  /\ ToSet(q) \subseteq Thread /\ ToSet(s) \subseteq Thread /\ ToSet(z) \subseteq Thread
         /\ \A p : Of(q, p) \subseteq ToSet(q)
BY Members DEF Apart, Of, Queue

LEMMA SameOrderReflexive ==
  ASSUME NEW order, NEW S
  PROVE  SameOrder(order, order, S)
BY DEF SameOrder

\* No node of the list and not its head is written.
LEMMA ActiveKept ==
  ASSUME NEW next, NEW next2, NEW prev, NEW prev2, NEW q, NEW p, ActiveList(next, prev, q, p),
         NEW q2, Of(q2, p) = Of(q, p), SameOrder(Order(q), Order(q2), Of(q, p)),
         \A n \in Of(q, p) \union {p} : next2[n] = next[n],
         \A n \in Of(q, p) : prev2[n] = prev[n]
  PROVE  ActiveList(next2, prev2, q2, p)
<1>1. Forward(next, p, Of(q, p), Order(q)) /\ Backward(prev, p, Of(q, p), Order(q))
  BY DEF ActiveList
<1>2. Forward(next2, p, Of(q, p), Order(q2))
  BY <1>1, ForwardKept
<1>3. Backward(prev2, p, Of(q, p), Order(q2))
  BY <1>1, BackwardKept
<1> QED BY <1>2, <1>3 DEF ActiveList

LEMMA SleptKept ==
  ASSUME NEW next, NEW next2, NEW prev, NEW prev2, NEW s, SleptList(next, prev, s),
         \A n \in ToSet(s) \union {SleptHead} : next2[n] = next[n],
         \A n \in ToSet(s) : prev2[n] = prev[n]
  PROVE  SleptList(next2, prev2, s)
<1>1. Forward(next2, SleptHead, ToSet(s), Order(s))
  BY ForwardKept, SameOrderReflexive DEF SleptList
<1>2. Backward(prev2, SleptHead, ToSet(s), Order(s))
  BY BackwardKept, SameOrderReflexive DEF SleptList
<1> QED BY <1>1, <1>2 DEF SleptList

LEMMA ZombieKept ==
  ASSUME NEW next, NEW next2, NEW z, ZombieList(next, z),
         \A n \in ToSet(z) \union {ZombieHead} : next2[n] = next[n]
  PROVE  ZombieList(next2, z)
BY ForwardKept, SameOrderReflexive DEF ZombieList

\* t was linked, and list->tail is still the node before it.
TailsBehind(tail, q, t) ==
    /\ \A p \in Priority \ {priority[t]} : IsLast(tail[p], Of(q, p), Order(q), p)
    /\ IsLast(t, Of(q, priority[t]), Order(q), priority[t])

\* scheduler_add: t goes behind the tail of the list of its priority.
LEMMA AddShape ==
  ASSUME NEW next, NEW next2, NEW prev, NEW prev2, NEW tail, NEW q, NEW s, NEW z, NEW t,
         Shape(next, prev, q, s, z), Tails(tail, q), Unlisted(t, q, s, z),
         NEW tl, tl = tail[priority[t]],
         next2[t] = NoThread, next2[tl] = t, \A n \in Node \ {t, tl} : next2[n] = next[n],
         prev2[t] = tl, \A n \in Thread \ {t} : prev2[n] = prev[n]
  PROVE  /\ Shape(next2, prev2, Append(q, t), s, z)
         /\ TailsBehind(tail, Append(q, t), t)
<1> DEFINE r == Append(q, t)
           pt == priority[t]
           S == Of(q, pt)
<1>1. Apart(q, s, z) /\ q \in Queue(Thread) /\ t \in Thread /\ t \notin ToSet(q)
  BY DEF Shape, Unlisted, Apart
<1>2. /\ r \in Queue(Thread) /\ ToSet(r) = ToSet(q) \union {t}
      /\ SameOrder(Order(q), Order(r), ToSet(q))
  BY <1>1, OrderAppend
<1>3. /\ ToSet(q) \subseteq Thread /\ ToSet(s) \subseteq Thread /\ ToSet(z) \subseteq Thread
      /\ \A p : Of(q, p) \subseteq ToSet(q)
  BY <1>1, ListsInThread
<1>4. pt \in Priority /\ pt \notin S /\ NoThread \notin S /\ t # NoThread /\ t # pt
  BY <1>1, <1>3, Nodes
<1>5. Forward(next, pt, S, Order(q)) /\ Backward(prev, pt, S, Order(q))
  BY <1>4 DEF Shape, ActiveList
<1>6. IsLast(tl, S, Order(q), pt)
  BY <1>4 DEF Tails
<1>7. StrictOrder(Order(q), S)
  BY <1>1, <1>3, OrderStrict
<1>8. tl \in S \union {pt} /\ next[tl] = NoThread
  BY <1>4, <1>5, <1>6, <1>7, TailLast
<1>9. PutBehind(Order(r), Order(q), S, t, tl, pt)
  BY <1>1, <1>3, <1>4, <1>6, AppendBehind
<1>10. Of(r, pt) = S \union {t} /\ \A p \in Priority \ {pt} : Of(r, p) = Of(q, p)
  BY <1>2 DEF Of
<1>11. t \notin S /\ t # tl /\ t \notin ToSet(s) /\ t \notin ToSet(z)
  BY <1>1, <1>3, <1>4, <1>8 DEF Unlisted
<1> HIDE DEF r, pt, S
<1>12. ActiveList(next2, prev2, r, pt)
  <2>1. \A n \in (S \union {pt}) \ {tl} : next2[n] = next[n]
    BY <1>3, <1>4, <1>11, Nodes DEF S
  <2>2. Forward(next2, pt, S \union {t}, Order(r))
    BY <1>4, <1>5, <1>7, <1>8, <1>9, <1>11, <2>1, ForwardInsert
  <2>3. \A n \in S \ {next[tl]} : prev2[n] = prev[n]
    BY <1>3, <1>11 DEF S
  <2>4. next[tl] \notin S
    BY <1>4, <1>8
  <2>5. Backward(prev2, pt, S \union {t}, Order(r))
    BY <1>4, <1>5, <1>7, <1>8, <1>9, <1>11, <2>3, <2>4, BackwardInsert
  <2> QED BY <2>2, <2>5, <1>10 DEF ActiveList
<1>13. ASSUME NEW p \in Priority, p # pt
       PROVE  /\ ActiveList(next2, prev2, r, p)
              /\ IsLast(tail[p], Of(r, p), Order(r), p)
  <2>1. ActiveList(next, prev, q, p) /\ IsLast(tail[p], Of(q, p), Order(q), p)
    BY DEF Shape, Tails
  <2>2. Of(r, p) = Of(q, p) /\ SameOrder(Order(q), Order(r), Of(q, p))
    BY <1>2, <1>3, <1>10, <1>13 DEF SameOrder
  <2>3. t \notin Of(q, p) /\ tl \notin Of(q, p) /\ t # p /\ tl # p
    <3>1. pt \notin Thread /\ p \notin Thread /\ t \in Thread /\ S \subseteq Thread
      BY <1>1, <1>3, <1>4, Nodes DEF S
    <3>2. Of(q, p) \subseteq Thread /\ Of(q, p) \intersect S = {} /\ t \notin Of(q, p)
      BY <1>1, <1>3, <1>13 DEF Of, S
    <3> QED BY <1>8, <1>13, <3>1, <3>2
  <2>4. /\ \A n \in Of(q, p) \union {p} : next2[n] = next[n]
        /\ \A n \in Of(q, p) : prev2[n] = prev[n]
    BY <1>3, <2>3, Nodes
  <2>5. ActiveList(next2, prev2, r, p)
    BY <2>1, <2>2, <2>4, ActiveKept
  <2> QED BY <2>1, <2>2, <2>5, TailKept
<1>14. SleptList(next2, prev2, s)
  <2>1. SleptHead # tl /\ tl \notin ToSet(s) /\ t \notin ToSet(s) /\ SleptHead # t
    BY <1>1, <1>3, <1>4, <1>8, <1>11, Nodes DEF S, Apart
  <2>2. /\ \A n \in ToSet(s) \union {SleptHead} : next2[n] = next[n]
        /\ \A n \in ToSet(s) : prev2[n] = prev[n]
    BY <1>3, <2>1, Nodes
  <2> QED BY <2>2, SleptKept DEF Shape
<1>15. ZombieList(next2, z)
  <2>1. ZombieHead # tl /\ tl \notin ToSet(z) /\ t \notin ToSet(z) /\ ZombieHead # t
    BY <1>1, <1>3, <1>4, <1>8, <1>11, Nodes DEF S, Apart
  <2>2. \A n \in ToSet(z) \union {ZombieHead} : next2[n] = next[n]
    BY <1>3, <2>1, Nodes
  <2> QED BY <2>2, ZombieKept DEF Shape
<1>16. Apart(r, s, z)
  BY <1>1, <1>2, <1>11 DEF Apart
<1>17. IsLast(t, Of(r, pt), Order(r), pt)
  BY <1>4, <1>6, <1>9, <1>10, TailInsert
<1>18. Shape(next2, prev2, r, s, z)
  BY <1>12, <1>13, <1>14, <1>15, <1>16 DEF Shape
<1>19. TailsBehind(tail, r, t)
  BY <1>13, <1>17 DEF TailsBehind, pt
<1> QED BY <1>18, <1>19 DEF r

\* The node behind which the new sleeper at place k is linked.
Place(s, k) == IF k = 1 THEN SleptHead ELSE s[k - 1]

\* The stores that link t behind a.
LinkedBehind(next, next2, prev, prev2, t, a) ==
    /\ next2[t] = next[a] /\ next2[a] = t /\ \A n \in Node \ {t, a} : next2[n] = next[n]
    /\ prev2[t] = a /\ (next[a] # NoThread => prev2[next[a]] = t)
    /\ \A n \in Thread \ {t, next[a]} : prev2[n] = prev[n]

\* The new sleeper goes to place k.
LEMMA SleepShape ==
  ASSUME NEW next, NEW next2, NEW prev, NEW prev2, NEW q, NEW s, NEW z, NEW t,
         Shape(next, prev, q, s, z), Unlisted(t, q, s, z),
         NEW k \in 1..(Len(s) + 1), NEW a, a = Place(s, k),
         LinkedBehind(next, next2, prev, prev2, t, a)
  PROVE  Shape(next2, prev2, q, InsertAt(s, k, t), z)
<1> DEFINE r == InsertAt(s, k, t)
           S == ToSet(s)
<1>0. /\ next2[t] = next[a] /\ next2[a] = t /\ \A n \in Node \ {t, a} : next2[n] = next[n]
      /\ prev2[t] = a /\ (next[a] # NoThread => prev2[next[a]] = t)
      /\ \A n \in Thread \ {t, next[a]} : prev2[n] = prev[n]
  BY DEF LinkedBehind
<1>1. /\ Apart(q, s, z) /\ s \in Queue(Thread)
      /\ t \in Thread /\ t \notin S /\ t \notin ToSet(q) /\ t \notin ToSet(z)
  BY DEF Shape, Unlisted, Apart
<1>2. /\ ToSet(q) \subseteq Thread /\ S \subseteq Thread /\ ToSet(z) \subseteq Thread
      /\ \A p : Of(q, p) \subseteq ToSet(q)
  BY <1>1, ListsInThread
<1>3. SleptHead \notin S /\ NoThread \notin S /\ t # NoThread /\ t # SleptHead
  BY <1>1, <1>2, Nodes
<1>4. r \in Queue(Thread) /\ ToSet(r) = S \union {t} /\ PutBehind(Order(r), Order(s), S, t, a, SleptHead)
  BY <1>1, <1>3, InsertBehind DEF Place
<1>5. a \in S \union {SleptHead}
  <2>1. CASE k = 1
    BY <2>1 DEF Place
  <2>2. CASE k # 1
    <3>1. Len(s) \in Nat /\ \A i \in 1..Len(s) : s[i] \in S
      BY <1>1, OrderIs
    <3>2. k - 1 \in 1..Len(s) /\ a = s[k - 1]
      BY <2>2, <3>1 DEF Place
    <3> QED BY <3>1, <3>2
  <2> QED BY <2>1, <2>2
<1>6. Forward(next, SleptHead, S, Order(s)) /\ Backward(prev, SleptHead, S, Order(s))
  BY DEF Shape, SleptList
<1>7. StrictOrder(Order(s), S)
  BY <1>1, OrderStrict
<1>8. next[a] \in S \union {NoThread}
  BY <1>5, <1>6 DEF Forward, IsFirst
<1>9. a \notin ToSet(q) /\ a \notin ToSet(z) /\ a # ZombieHead /\ a \notin Priority
  BY <1>1, <1>2, <1>5, Nodes DEF Apart
<1> HIDE DEF r, S
<1>10. SleptList(next2, prev2, r)
  <2>1. \A n \in (S \union {SleptHead}) \ {a} : next2[n] = next[n]
    BY <1>0, <1>1, <1>2, <1>3, Nodes
  <2>2. Forward(next2, SleptHead, S \union {t}, Order(r))
    BY <1>0, <1>1, <1>3, <1>4, <1>5, <1>6, <1>7, <2>1, ForwardInsert
  <2>3. next[a] \in S => prev2[next[a]] = t
    BY <1>0, <1>3
  <2>4. \A n \in S \ {next[a]} : prev2[n] = prev[n]
    BY <1>0, <1>1, <1>2
  <2>5. Backward(prev2, SleptHead, S \union {t}, Order(r))
    BY <1>0, <1>1, <1>3, <1>4, <1>5, <1>6, <1>7, <2>3, <2>4, BackwardInsert
  <2> QED BY <2>2, <2>5, <1>4 DEF SleptList
<1>11. ASSUME NEW p \in Priority
       PROVE  ActiveList(next2, prev2, q, p)
  <2>1. ActiveList(next, prev, q, p)
    BY DEF Shape
  <2>2. Of(q, p) \intersect S = {} /\ t \notin Of(q, p) /\ a \notin Of(q, p) /\ Of(q, p) \subseteq Thread
    BY <1>1, <1>2, <1>9 DEF S, Apart
  <2>3. p # t /\ p # a /\ p \in Node /\ NoThread \notin Of(q, p)
    BY <1>1, <1>9, <2>2, Nodes
  <2>4. \A n \in Of(q, p) \union {p} : next2[n] = next[n]
    BY <1>0, <2>2, <2>3, Nodes
  <2>5. \A n \in Of(q, p) : prev2[n] = prev[n]
    BY <1>0, <1>8, <2>2, <2>3
  <2>6. SameOrder(Order(q), Order(q), Of(q, p))
    BY SameOrderReflexive
  <2> QED BY <2>1, <2>4, <2>5, <2>6, ActiveKept
<1>12. ZombieList(next2, z)
  <2>1. \A n \in ToSet(z) \union {ZombieHead} : next2[n] = next[n]
    BY <1>0, <1>1, <1>2, <1>9, Nodes
  <2> QED BY <2>1, ZombieKept DEF Shape
<1>13. Apart(q, r, z)
  BY <1>1, <1>4 DEF Apart, S
<1> QED BY <1>10, <1>11, <1>12, <1>13 DEF Shape, r

\* A thread that has exited goes to the front of the zombies.
LEMMA ZombieShape ==
  ASSUME NEW next, NEW next2, NEW prev, NEW q, NEW s, NEW z, NEW t,
         Shape(next, prev, q, s, z), Unlisted(t, q, s, z),
         next2[t] = next[ZombieHead], next2[ZombieHead] = t,
         \A n \in Node \ {t, ZombieHead} : next2[n] = next[n]
  PROVE  Shape(next2, prev, q, s, InsertAt(z, 1, t))
<1> DEFINE r == InsertAt(z, 1, t)
           Z == ToSet(z)
<1>1. /\ Apart(q, s, z) /\ z \in Queue(Thread)
      /\ t \in Thread /\ t \notin Z /\ t \notin ToSet(q) /\ t \notin ToSet(s)
  BY DEF Shape, Unlisted, Apart
<1>2. /\ ToSet(q) \subseteq Thread /\ ToSet(s) \subseteq Thread /\ Z \subseteq Thread
      /\ \A p : Of(q, p) \subseteq ToSet(q)
  BY <1>1, ListsInThread
<1>3. ZombieHead \notin Z /\ NoThread \notin Z /\ t # NoThread /\ t # ZombieHead
  BY <1>1, <1>2, Nodes
<1>4. /\ r \in Queue(Thread) /\ ToSet(r) = Z \union {t}
      /\ PutBehind(Order(r), Order(z), Z, t, ZombieHead, ZombieHead)
  <2>1. 1 \in 1..(Len(z) + 1)
    BY <1>1, OrderIs
  <2> QED BY <1>1, <1>3, <2>1, InsertBehind
<1>5. ZombieList(next2, r)
  <2>1. Forward(next, ZombieHead, Z, Order(z)) /\ StrictOrder(Order(z), Z)
    BY <1>1, OrderStrict DEF Shape, ZombieList
  <2>2. \A n \in (Z \union {ZombieHead}) \ {ZombieHead} : next2[n] = next[n]
    BY <1>1, <1>2, <1>3, Nodes
  <2> HIDE DEF r, Z
  <2>3. Forward(next2, ZombieHead, Z \union {t}, Order(r))
    BY <1>1, <1>3, <1>4, <2>1, <2>2, ForwardInsert
  <2> QED BY <2>3, <1>4 DEF ZombieList
<1> HIDE DEF r
<1>6. ASSUME NEW p \in Priority
      PROVE  ActiveList(next2, prev, q, p)
  <2>1. ActiveList(next, prev, q, p) /\ p # t /\ p # ZombieHead /\ p \in Node
    BY <1>1, Nodes DEF Shape
  <2>2. \A n \in Of(q, p) \union {p} : next2[n] = next[n]
    BY <1>1, <1>2, <2>1, Nodes
  <2> QED BY <2>1, <2>2, ActiveKept, SameOrderReflexive
<1>7. SleptList(next2, prev, s)
  <2>1. \A n \in ToSet(s) \union {SleptHead} : next2[n] = next[n]
    BY <1>1, <1>2, Nodes
  <2> QED BY <2>1, SleptKept DEF Shape
<1>8. Apart(q, s, r)
  BY <1>1, <1>4 DEF Apart
<1> QED BY <1>5, <1>6, <1>7, <1>8 DEF Shape, r

\* The cleaner takes the first zombie.
LEMMA PopShape ==
  ASSUME NEW next, NEW next2, NEW prev, NEW q, NEW s, NEW z, NEW t,
         Shape(next, prev, q, s, z), t = next[ZombieHead], t # NoThread,
         next2[ZombieHead] = next[t], \A n \in Node \ {ZombieHead} : next2[n] = next[n]
  PROVE  /\ z # <<>> /\ t = z[1]
         /\ Shape(next2, prev, q, s, Tail(z))
<1> DEFINE Z == ToSet(z)
<1>1. Apart(q, s, z) /\ z \in Queue(Thread)
  BY DEF Shape, Apart
<1>2. /\ ToSet(q) \subseteq Thread /\ ToSet(s) \subseteq Thread /\ Z \subseteq Thread
      /\ \A p : Of(q, p) \subseteq ToSet(q)
  BY <1>1, ListsInThread
<1>3. ZombieHead \notin Z /\ NoThread \notin Z
  BY <1>2, Nodes
<1>4. Forward(next, ZombieHead, Z, Order(z)) /\ StrictOrder(Order(z), Z)
  BY <1>1, OrderStrict DEF Shape, ZombieList
<1>5. t \in Z /\ \A u \in Z \ {t} : <<t, u>> \in Order(z)
  BY <1>4 DEF Forward, IsFirst
<1>6. z # <<>> /\ t = z[1]
  BY <1>1, <1>5, FirstOfOrder
<1>7. /\ Tail(z) \in Queue(Thread) /\ ToSet(Tail(z)) = Z \ {t}
      /\ SameOrder(Order(z), Order(Tail(z)), Z \ {t})
  BY <1>1, <1>6, OrderTail
<1>8. ZombieList(next2, Tail(z))
  <2>1. Forward(next2, ZombieHead, Z \ {t}, Order(z))
    <3>1. \A n \in Z \ {t} : next2[n] = next[n]
      BY <1>2, <1>3, Nodes
    <3> HIDE DEF Z
    <3> QED BY <1>3, <1>4, <3>1, ForwardRemove, SameOrderReflexive
  <2>2. Forward(next2, ZombieHead, Z \ {t}, Order(Tail(z)))
    BY <1>7, <2>1, ForwardKept
  <2> QED BY <1>7, <2>2 DEF ZombieList
<1>9. ASSUME NEW p \in Priority
      PROVE  ActiveList(next2, prev, q, p)
  <2>1. ActiveList(next, prev, q, p) /\ p # ZombieHead /\ p \in Node
    BY Nodes DEF Shape
  <2>2. \A n \in Of(q, p) \union {p} : next2[n] = next[n]
    BY <1>2, <2>1, Nodes
  <2> QED BY <2>1, <2>2, ActiveKept, SameOrderReflexive
<1>10. SleptList(next2, prev, s)
  <2>1. \A n \in ToSet(s) \union {SleptHead} : next2[n] = next[n]
    BY <1>2, Nodes
  <2> QED BY <2>1, SleptKept DEF Shape
<1>11. Apart(q, s, Tail(z))
  BY <1>1, <1>7 DEF Apart
<1> QED BY <1>6, <1>8, <1>9, <1>10, <1>11 DEF Shape

\* The first node of a list has the head before it.
LEMMA FirstBackward ==
  ASSUME NEW next, NEW prev, NEW head, NEW S, NEW order, NEW t,
         Forward(next, head, S, order), Backward(prev, head, S, order), StrictOrder(order, S),
         t = next[head], t # NoThread
  PROVE  t \in S /\ prev[t] = head
<1>1. t \in S /\ \A u \in S \ {t} : <<t, u>> \in order
  BY DEF Forward, IsFirst
<1>2. {u \in S : <<u, t>> \in order} = {}
  BY <1>1 DEF StrictOrder
<1>3. IsLast(prev[t], {u \in S : <<u, t>> \in order}, order, head)
  BY <1>1 DEF Backward
<1> QED BY <1>1, <1>2, <1>3 DEF IsLast

\* The wake loop unlinks the first sleeper.
LEMMA UnlinkShape ==
  ASSUME NEW next, NEW next2, NEW prev, NEW prev2, NEW q, NEW s, NEW z, NEW t,
         Shape(next, prev, q, s, z), t = next[SleptHead], t # NoThread,
         next2[SleptHead] = next[t], \A n \in Node \ {SleptHead} : next2[n] = next[n],
         next[t] # NoThread => prev2[next[t]] = prev[t],
         \A n \in Thread \ {next[t]} : prev2[n] = prev[n]
  PROVE  /\ s # <<>> /\ t = s[1]
         /\ Shape(next2, prev2, q, Tail(s), z)
         /\ Unlisted(t, q, Tail(s), z)
<1> DEFINE S == ToSet(s)
<1>1. Apart(q, s, z) /\ s \in Queue(Thread)
  BY DEF Shape, Apart
<1>2. /\ ToSet(q) \subseteq Thread /\ S \subseteq Thread /\ ToSet(z) \subseteq Thread
      /\ \A p : Of(q, p) \subseteq ToSet(q)
  BY <1>1, ListsInThread
<1>3. SleptHead \notin S /\ NoThread \notin S
  BY <1>2, Nodes
<1>4. /\ Forward(next, SleptHead, S, Order(s)) /\ Backward(prev, SleptHead, S, Order(s))
      /\ StrictOrder(Order(s), S)
  BY <1>1, OrderStrict DEF Shape, SleptList
<1>5. t \in S /\ (\A u \in S \ {t} : <<t, u>> \in Order(s)) /\ prev[t] = SleptHead
  <2>1. prev[t] = SleptHead
    <3> HIDE DEF S
    <3> QED BY <1>4, FirstBackward
  <2>2. t \in S /\ \A u \in S \ {t} : <<t, u>> \in Order(s)
    BY <1>4 DEF Forward, IsFirst
  <2> QED BY <2>1, <2>2
<1>6. s # <<>> /\ t = s[1]
  BY <1>1, <1>5, FirstOfOrder
<1>7. /\ Tail(s) \in Queue(Thread) /\ ToSet(Tail(s)) = S \ {t}
      /\ SameOrder(Order(s), Order(Tail(s)), S \ {t})
  BY <1>1, <1>6, OrderTail
<1>8. next[t] \in S \union {NoThread}
  BY <1>4, <1>5 DEF Forward, IsFirst
<1>9. SleptList(next2, prev2, Tail(s))
  <2>1. /\ \A n \in S \ {t} : next2[n] = next[n]
        /\ \A n \in S \ {t, next[t]} : prev2[n] = prev[n]
        /\ next[t] \in S => prev2[next[t]] = SleptHead
    BY <1>2, <1>3, <1>5, Nodes
  <2> HIDE DEF S
  <2>2. Forward(next2, SleptHead, S \ {t}, Order(s))
    BY <1>3, <1>4, <2>1, ForwardRemove, SameOrderReflexive
  <2>3. Backward(prev2, SleptHead, S \ {t}, Order(s))
    BY <1>3, <1>4, <2>1, BackwardRemove, SameOrderReflexive
  <2>4. Forward(next2, SleptHead, S \ {t}, Order(Tail(s)))
    BY <1>7, <2>2, ForwardKept
  <2>5. Backward(prev2, SleptHead, S \ {t}, Order(Tail(s)))
    BY <1>7, <2>3, BackwardKept
  <2> QED BY <1>7, <2>4, <2>5 DEF SleptList
<1>10. ASSUME NEW p \in Priority
       PROVE  ActiveList(next2, prev2, q, p)
  <2>1. ActiveList(next, prev, q, p) /\ p # SleptHead /\ p \in Node
    BY Nodes DEF Shape
  <2>2. Of(q, p) \subseteq Thread /\ Of(q, p) \intersect S = {}
    BY <1>1, <1>2 DEF Apart
  <2>3. /\ \A n \in Of(q, p) \union {p} : next2[n] = next[n]
        /\ \A n \in Of(q, p) : prev2[n] = prev[n]
    BY <1>8, <2>1, <2>2, Nodes
  <2> QED BY <2>1, <2>3, ActiveKept, SameOrderReflexive
<1>11. ZombieList(next2, z)
  <2>1. \A n \in ToSet(z) \union {ZombieHead} : next2[n] = next[n]
    BY <1>2, Nodes
  <2> QED BY <2>1, ZombieKept DEF Shape
<1>12. Apart(q, Tail(s), z) /\ Unlisted(t, q, Tail(s), z)
  BY <1>1, <1>2, <1>5, <1>7 DEF Apart, Unlisted
<1> QED BY <1>6, <1>9, <1>10, <1>11, <1>12 DEF Shape

\* The stores that unlink the head t of the list of priority p.
HeadUnlinked(next, next2, prev, prev2, tail, tail2, p, t) ==
    /\ next2[p] = next[t] /\ \A n \in Node \ {p} : next2[n] = next[n]
    /\ next[t] # NoThread => prev2[next[t]] = p
    /\ \A n \in Thread \ {next[t]} : prev2[n] = prev[n]
    /\ tail2[p] = IF tail[p] = t THEN p ELSE tail[p]
    /\ \A o \in Priority \ {p} : tail2[o] = tail[o]

FirstOf(t, q, p) == t \in Of(q, p) /\ \A u \in Of(q, p) \ {t} : <<t, u>> \in Order(q)

\* The pick takes the first thread of an active list.
LEMMA TakeShape ==
  ASSUME NEW next, NEW next2, NEW prev, NEW prev2, NEW tail, NEW tail2, NEW q, NEW s, NEW z,
         NEW p \in Priority, NEW t,
         Shape(next, prev, q, s, z), Tails(tail, q), t = next[p], t # NoThread,
         HeadUnlinked(next, next2, prev, prev2, tail, tail2, p, t),
         NEW i \in 1..Len(q), q[i] = t
  PROVE  /\ Shape(next2, prev2, RemoveAt(q, i), s, z) /\ Tails(tail2, RemoveAt(q, i))
         /\ FirstOf(t, q, p)
<1> DEFINE S == Of(q, p)
           r == RemoveAt(q, i)
<1>0. /\ next2[p] = next[t] /\ \A n \in Node \ {p} : next2[n] = next[n]
      /\ next[t] # NoThread => prev2[next[t]] = p
      /\ \A n \in Thread \ {next[t]} : prev2[n] = prev[n]
      /\ tail2[p] = IF tail[p] = t THEN p ELSE tail[p]
      /\ \A o \in Priority \ {p} : tail2[o] = tail[o]
  BY DEF HeadUnlinked
<1>1. Apart(q, s, z) /\ q \in Queue(Thread)
  BY DEF Shape, Apart
<1>2. /\ ToSet(q) \subseteq Thread /\ ToSet(s) \subseteq Thread /\ ToSet(z) \subseteq Thread
      /\ \A o : Of(q, o) \subseteq ToSet(q)
  BY <1>1, ListsInThread
<1>3. p \notin S /\ NoThread \notin S /\ p \notin Thread
  BY <1>2, Nodes
<1>4. /\ Forward(next, p, S, Order(q)) /\ Backward(prev, p, S, Order(q))
      /\ StrictOrder(Order(q), S) /\ IsLast(tail[p], S, Order(q), p)
  BY <1>1, <1>2, OrderStrict DEF Shape, ActiveList, Tails
<1>5. t \in S /\ \A u \in S \ {t} : <<t, u>> \in Order(q)
  BY <1>4 DEF Forward, IsFirst
<1>6. r \in Queue(Thread) /\ ToSet(r) = ToSet(q) \ {t} /\ SameOrder(Order(q), Order(r), ToSet(q) \ {t})
  BY <1>1, OrderRemove
<1>7. /\ Of(r, p) = S \ {t} /\ SameOrder(Order(q), Order(r), S \ {t})
      /\ \A o \in Priority \ {p} : Of(r, o) = Of(q, o) /\ SameOrder(Order(q), Order(r), Of(q, o))
  <2>1. t \in ToSet(q) /\ priority[t] = p
    BY <1>5 DEF Of
  <2>2. Of(r, p) = S \ {t} /\ \A o \in Priority \ {p} : Of(r, o) = Of(q, o)
    BY <1>6, <2>1 DEF Of
  <2>3. S \ {t} \subseteq ToSet(q) \ {t} /\ \A o \in Priority \ {p} : Of(q, o) \subseteq ToSet(q) \ {t}
    BY <2>1 DEF Of
  <2> QED BY <1>6, <2>2, <2>3 DEF SameOrder
<1>8. next[t] \in S \union {NoThread}
  BY <1>4, <1>5 DEF Forward, IsFirst
<1>9. ActiveList(next2, prev2, r, p) /\ IsLast(tail2[p], Of(r, p), Order(r), p)
  <2>1. /\ \A n \in S \ {t} : next2[n] = next[n]
        /\ \A n \in S \ {t, next[t]} : prev2[n] = prev[n]
        /\ next[t] \in S => prev2[next[t]] = p
    BY <1>0, <1>2, <1>3, Nodes
  <2> HIDE DEF S, r
  <2>2. Forward(next2, p, S \ {t}, Order(q))
    BY <1>0, <1>3, <1>4, <2>1, ForwardRemove, SameOrderReflexive
  <2>3. Backward(prev2, p, S \ {t}, Order(q))
    BY <1>3, <1>4, <2>1, BackwardRemove, SameOrderReflexive
  <2>4. Forward(next2, p, S \ {t}, Order(r))
    BY <1>7, <2>2, ForwardKept
  <2>5. Backward(prev2, p, S \ {t}, Order(r))
    BY <1>7, <2>3, BackwardKept
  <2>6. IsLast(IF tail[p] = t THEN p ELSE tail[p], S \ {t}, Order(q), p)
    BY <1>3, <1>4, TailRemove, SameOrderReflexive
  <2>7. IsLast(tail2[p], S \ {t}, Order(r), p)
    BY <1>0, <1>7, <2>6, TailKept
  <2> QED BY <1>7, <2>4, <2>5, <2>7 DEF ActiveList
<1>10. ASSUME NEW o \in Priority, o # p
       PROVE  ActiveList(next2, prev2, r, o) /\ IsLast(tail2[o], Of(r, o), Order(r), o)
  <2>1. ActiveList(next, prev, q, o) /\ IsLast(tail[o], Of(q, o), Order(q), o) /\ o \in Node
    BY Nodes DEF Shape, Tails
  <2>2. Of(q, o) \subseteq Thread /\ Of(q, o) \intersect S = {}
    BY <1>2, <1>10 DEF Of
  <2>3. /\ \A n \in Of(q, o) \union {o} : next2[n] = next[n]
        /\ \A n \in Of(q, o) : prev2[n] = prev[n]
    BY <1>0, <1>3, <1>8, <1>10, <2>1, <2>2, Nodes
  <2>4. Of(r, o) = Of(q, o) /\ SameOrder(Order(q), Order(r), Of(q, o)) /\ tail2[o] = tail[o]
    BY <1>0, <1>7, <1>10
  <2>5. ActiveList(next2, prev2, r, o)
    BY <2>1, <2>3, <2>4, ActiveKept
  <2> QED BY <2>1, <2>4, <2>5, TailKept
<1>11. SleptList(next2, prev2, s)
  <2>1. ToSet(s) \subseteq Thread /\ ToSet(s) \intersect S = {}
    BY <1>1, <1>2 DEF Apart, Of
  <2>2. /\ \A n \in ToSet(s) \union {SleptHead} : next2[n] = next[n]
        /\ \A n \in ToSet(s) : prev2[n] = prev[n]
    BY <1>0, <1>3, <1>8, <2>1, Nodes
  <2> QED BY <2>2, SleptKept DEF Shape
<1>12. ZombieList(next2, z)
  <2>1. \A n \in ToSet(z) \union {ZombieHead} : next2[n] = next[n]
    BY <1>0, <1>2, <1>3, Nodes
  <2> QED BY <2>1, ZombieKept DEF Shape
<1>13. t \in ToSet(q)
  BY <1>5 DEF Of
<1>14. Apart(r, s, z)
  BY <1>1, <1>6, <1>13 DEF Apart
<1>15. Shape(next2, prev2, r, s, z) /\ Tails(tail2, r)
  BY <1>9, <1>10, <1>11, <1>12, <1>14 DEF Shape, Tails
<1> QED BY <1>5, <1>15 DEF FirstOf

-----------------------------------------------------------------------------
(* The loops: each is a recursive function of the turn, and that it exists is *)
(* shown by a shortest part for which it would not.                           *)

LEMMA TurnsAre ==
  /\ IsFiniteSet(Thread) /\ Cardinality(Thread) \in Nat /\ Turns = Cardinality(Thread) + 1
  /\ Turns \in Nat
<1>1. IsFiniteSet({Main, Idle, Cleaner})
  <2>1. IsFiniteSet({} \union {Main})
    BY FS_EmptySet, FS_AddElement
  <2>2. IsFiniteSet(({} \union {Main}) \union {Idle})
    BY <2>1, FS_AddElement
  <2>3. IsFiniteSet((({} \union {Main}) \union {Idle}) \union {Cleaner})
    BY <2>2, FS_AddElement
  <2>4. {Main, Idle, Cleaner} = (({} \union {Main}) \union {Idle}) \union {Cleaner}
    OBVIOUS
  <2> QED BY <2>3, <2>4
<1>2. IsFiniteSet(Thread)
  BY <1>1, FS_Union, SchedListsAssumption DEF Thread
<1>3. Cardinality(Thread) \in Nat
  BY <1>2, FS_CardinalityType
<1> QED BY <1>2, <1>3 DEF Turns

\* No list is longer than the number of turns.
LEMMA ListFits ==
  ASSUME NEW q \in Queue(Thread)
  PROVE  Len(q) \in Nat /\ Len(q) < Turns
<1>1. Len(q) \in Nat /\ DOMAIN q = 1..Len(q) /\ q \in [1..Len(q) -> Thread]
  BY LenProperties, OrderIs
<1>2. \A i, j \in 1..Len(q) : q[i] = q[j] => i = j
  BY OrderIs
<1>3. IsFiniteSet(1..Len(q)) /\ Cardinality(1..Len(q)) = Len(q)
  <2> DEFINE n == Len(q)
  <2>1. n \in Nat /\ 1 \in Int /\ n \in Int
    BY <1>1
  <2> HIDE DEF n
  <2>2. IsFiniteSet(1..n) /\ Cardinality(1..n) = IF 1 > n THEN 0 ELSE n - 1 + 1
    BY <2>1, FS_Interval
  <2>3. Cardinality(1..n) = n
    BY <2>1, <2>2
  <2> QED BY <2>2, <2>3 DEF n
<1>4. q \in Injection(1..Len(q), Thread)
  BY <1>1, <1>2 DEF Injection, IsInjective
<1>5. Cardinality(1..Len(q)) <= Cardinality(Thread)
  BY <1>3, <1>4, TurnsAre, FS_Injection
<1> QED BY <1>1, <1>3, <1>5, TurnsAre

\* The walk of the new sleeper.
WalkedNext(m, tick, f, i) ==
    IF i = 0 THEN [at |-> SleptHead, rest |-> tick]
    ELSE LET w == f[i - 1]
             n == m.next[w.at]
         IN IF Stops(m, n, w.rest) THEN w
            ELSE [at |-> n, rest |-> w.rest - m.tick[n]]

LEMMA WalkedExists ==
  ASSUME NEW m, NEW tick
  PROVE  \A l \in Nat : \E f : f = [i \in 0..l |-> WalkedNext(m, tick, f, i)]
<1> DEFINE Part(n) == \E f : f = [i \in 0..n |-> WalkedNext(m, tick, f, i)]
           T == {n \in Nat : ~Part(n)}
<1>1. ASSUME T # {} PROVE FALSE
  <2>1. PICK n \in T : \A l \in T : n <= l
    <3>1. T \subseteq Nat
      OBVIOUS
    <3> HIDE DEF T
    <3> QED BY <1>1, <3>1, LeastNat
  <2>2. n \in Nat /\ ~Part(n)
    BY <2>1
  <2>3. n # 0
    <3> DEFINE g == [i \in 0..0 |-> [at |-> SleptHead, rest |-> tick]]
    <3>1. g = [i \in 0..0 |-> WalkedNext(m, tick, g, i)]
      <4>1. \A i \in 0..0 : WalkedNext(m, tick, g, i) = [at |-> SleptHead, rest |-> tick]
        BY DEF WalkedNext
      <4> QED BY <4>1
    <3> QED BY <2>2, <3>1
  <2>4. n - 1 \in Nat /\ ~(n <= n - 1)
    BY <2>2, <2>3
  <2>5. Part(n - 1)
    BY <2>1, <2>4
  <2>6. PICK f : f = [i \in 0..(n - 1) |-> WalkedNext(m, tick, f, i)]
    BY <2>5
  <2> DEFINE g == [i \in 0..n |-> IF i <= n - 1 THEN f[i] ELSE WalkedNext(m, tick, f, n)]
  <2>7. \A i \in 0..(n - 1) : f[i] = WalkedNext(m, tick, f, i)
    BY <2>6
  <2>8. ASSUME NEW i \in 0..n PROVE g[i] = WalkedNext(m, tick, g, i)
    <3>1. g[i] = WalkedNext(m, tick, f, i)
      <4>1. i <= n - 1 => i \in 0..(n - 1)
        BY <2>4
      <4>2. ~(i <= n - 1) => i = n
        BY <2>4
      <4> QED BY <2>7, <4>1, <4>2
    <3>2. i # 0 => g[i - 1] = f[i - 1]
      <4>1. i # 0 => i - 1 \in 0..n /\ i - 1 <= n - 1
        BY <2>4
      <4> QED BY <4>1
    <3> HIDE DEF g
    <3> QED BY <3>1, <3>2 DEF WalkedNext
  <2>9. g = [i \in 0..n |-> g[i]]
    OBVIOUS
  <2> HIDE DEF g
  <2>10. g = [i \in 0..n |-> WalkedNext(m, tick, g, i)]
    BY <2>8, <2>9
  <2> QED BY <2>2, <2>10
<1> QED BY <1>1

LEMMA WalkedIs ==
  ASSUME NEW m, NEW tick
  PROVE  \A i \in 0..Turns : Walked(m, tick)[i] = WalkedNext(m, tick, Walked(m, tick), i)
<1> DEFINE C == CHOOSE f : f = [i \in 0..Turns |-> WalkedNext(m, tick, f, i)]
<1>1. C = [i \in 0..Turns |-> WalkedNext(m, tick, C, i)]
  BY WalkedExists, TurnsAre
<1>2. Walked(m, tick) = C
  BY DEF Walked, WalkedNext
<1> HIDE DEF C
<1>3. \A i \in 0..Turns : C[i] = WalkedNext(m, tick, C, i)
  BY <1>1
<1> QED BY <1>2, <1>3

\* The loop that wakes sleepers.
WakeStep(w, e) ==
    LET t == w.next[SleptHead]
    IN IF t = NoThread \/ w.tick[t] > e THEN w
       ELSE scheduler_add(UnlinkSleeper(w, t), t)
WokenNext(m, e, f, i) == IF i = 0 THEN m ELSE WakeStep(f[i - 1], e)

LEMMA WokenExists ==
  ASSUME NEW m, NEW e
  PROVE  \A l \in Nat : \E f : f = [i \in 0..l |-> WokenNext(m, e, f, i)]
<1> DEFINE Part(n) == \E f : f = [i \in 0..n |-> WokenNext(m, e, f, i)]
           T == {n \in Nat : ~Part(n)}
<1>1. ASSUME T # {} PROVE FALSE
  <2>1. PICK n \in T : \A l \in T : n <= l
    <3>1. T \subseteq Nat
      OBVIOUS
    <3> HIDE DEF T
    <3> QED BY <1>1, <3>1, LeastNat
  <2>2. n \in Nat /\ ~Part(n)
    BY <2>1
  <2>3. n # 0
    <3> DEFINE g == [i \in 0..0 |-> m]
    <3>1. g = [i \in 0..0 |-> WokenNext(m, e, g, i)]
      <4>1. \A i \in 0..0 : WokenNext(m, e, g, i) = m
        BY DEF WokenNext
      <4> QED BY <4>1
    <3> QED BY <2>2, <3>1
  <2>4. n - 1 \in Nat /\ ~(n <= n - 1)
    BY <2>2, <2>3
  <2>5. Part(n - 1)
    BY <2>1, <2>4
  <2>6. PICK f : f = [i \in 0..(n - 1) |-> WokenNext(m, e, f, i)]
    BY <2>5
  <2> DEFINE g == [i \in 0..n |-> IF i <= n - 1 THEN f[i] ELSE WokenNext(m, e, f, n)]
  <2>7. \A i \in 0..(n - 1) : f[i] = WokenNext(m, e, f, i)
    BY <2>6
  <2>8. ASSUME NEW i \in 0..n PROVE g[i] = WokenNext(m, e, g, i)
    <3>1. g[i] = WokenNext(m, e, f, i)
      <4>1. i <= n - 1 => i \in 0..(n - 1)
        BY <2>4
      <4>2. ~(i <= n - 1) => i = n
        BY <2>4
      <4> QED BY <2>7, <4>1, <4>2
    <3>2. i # 0 => g[i - 1] = f[i - 1]
      <4>1. i # 0 => i - 1 \in 0..n /\ i - 1 <= n - 1
        BY <2>4
      <4> QED BY <4>1
    <3> HIDE DEF g
    <3> QED BY <3>1, <3>2 DEF WokenNext
  <2>9. g = [i \in 0..n |-> g[i]]
    OBVIOUS
  <2> HIDE DEF g
  <2>10. g = [i \in 0..n |-> WokenNext(m, e, g, i)]
    BY <2>8, <2>9
  <2> QED BY <2>2, <2>10
<1> QED BY <1>1

LEMMA WokenIs ==
  ASSUME NEW m, NEW e
  PROVE  \A i \in 0..Turns : Woken(m, e)[i] = WokenNext(m, e, Woken(m, e), i)
<1> DEFINE C == CHOOSE f : f = [i \in 0..Turns |-> WokenNext(m, e, f, i)]
<1>1. C = [i \in 0..Turns |-> WokenNext(m, e, C, i)]
  BY WokenExists, TurnsAre
<1>2. Woken(m, e) = C
  BY DEF Woken, WokenNext, WakeStep
<1> HIDE DEF C
<1>3. \A i \in 0..Turns : C[i] = WokenNext(m, e, C, i)
  BY <1>1
<1> QED BY <1>2, <1>3

-----------------------------------------------------------------------------
(* Following a list *)

\* next leads through a list in the order of its queue.
LEMMA NextInOrder ==
  ASSUME NEW q \in Queue(Thread), NEW next, NEW head, Forward(next, head, ToSet(q), Order(q))
  PROVE  /\ next[head] = IF q = <<>> THEN NoThread ELSE q[1]
         /\ \A i \in 1..Len(q) : next[q[i]] = IF i = Len(q) THEN NoThread ELSE q[i + 1]
<1>1. /\ Len(q) \in Nat /\ q \in Seq(Thread)
      /\ \A i, j \in 1..Len(q) : <<q[i], q[j]>> \in Order(q) <=> i < j
      /\ \A a \in ToSet(q) : \E i \in 1..Len(q) : a = q[i]
      /\ \A i \in 1..Len(q) : q[i] \in ToSet(q)
      /\ \A i, j \in 1..Len(q) : q[i] = q[j] => i = j
  BY OrderIs
<1>2. next[head] = IF q = <<>> THEN NoThread ELSE q[1]
  <2>1. CASE ToSet(q) = {}
    <3>1. q = <<>>
      BY <1>1, <2>1, EmptySeq
    <3> QED BY <2>1, <3>1 DEF Forward, IsFirst
  <2>2. CASE ToSet(q) # {}
    <3>1. next[head] \in ToSet(q) /\ \A u \in ToSet(q) \ {next[head]} : <<next[head], u>> \in Order(q)
      BY <2>2 DEF Forward, IsFirst
    <3> QED BY <3>1, FirstOfOrder
  <2> QED BY <2>1, <2>2
<1>3. ASSUME NEW i \in 1..Len(q)
      PROVE  next[q[i]] = IF i = Len(q) THEN NoThread ELSE q[i + 1]
  <2> DEFINE L == {u \in ToSet(q) : <<q[i], u>> \in Order(q)}
  <2>1. IsFirst(next[q[i]], L, Order(q), NoThread)
    BY <1>1 DEF Forward
  <2>2. CASE i = Len(q)
    <3>1. \A j \in 1..Len(q) : ~(i < j)
      BY <1>1, <2>2
    <3>2. L = {}
      BY <1>1, <3>1
    <3> QED BY <2>1, <2>2, <3>2 DEF IsFirst
  <2>3. CASE i # Len(q)
    <3>1. i + 1 \in 1..Len(q) /\ i < i + 1
      BY <1>1, <2>3
    <3>2. q[i + 1] \in L
      BY <1>1, <3>1
    <3>3. next[q[i]] \in L /\ \A u \in L \ {next[q[i]]} : <<next[q[i]], u>> \in Order(q)
      BY <2>1, <3>2 DEF IsFirst
    <3>4. PICK j \in 1..Len(q) : next[q[i]] = q[j]
      BY <1>1, <3>3
    <3>5. i < j
      BY <1>1, <3>3, <3>4
    <3>6. ~(i + 1 < j)
      <4> SUFFICES ASSUME i + 1 < j PROVE FALSE
        OBVIOUS
      <4>1. q[i + 1] # q[j] /\ <<q[i + 1], q[j]>> \in Order(q)
        BY <1>1, <3>1
      <4>2. <<q[j], q[i + 1]>> \in Order(q)
        BY <3>2, <3>3, <3>4, <4>1
      <4>3. j < i + 1
        BY <1>1, <3>1, <4>2
      <4> QED BY <1>1, <3>1, <4>3
    <3>7. j = i + 1
      BY <1>1, <3>5, <3>6
    <3> QED BY <2>3, <3>4, <3>7
  <2> QED BY <2>2, <2>3
<1> QED BY <1>2, <1>3

\* left is what remains of the new sleeper's tick at each of the first k
\* places, and he goes to place k.
IsWalk(left, k, s, tick, d) ==
    /\ left \in [1..k -> 0..tick] /\ left[1] = tick
    /\ \A i \in 1..(k - 1) : left[i] > d[s[i]] /\ left[i + 1] = left[i] - d[s[i]]
    /\ k <= Len(s) => left[k] <= d[s[k]]

WalkFound(m, s, tick) ==
    \E k \in 1..(Len(s) + 1) : \E left :
       /\ IsWalk(left, k, s, tick, m.tick)
       /\ Walked(m, tick)[Turns] = [at |-> Place(s, k), rest |-> left[k]]

\* The loop comes to that place before its turns are used up.
LEMMA WalkFinds ==
  ASSUME NEW m, NEW s \in Queue(Thread), Forward(m.next, SleptHead, ToSet(s), Order(s)),
         m.tick \in [Thread -> Nat], NEW tick \in Nat
  PROVE  WalkFound(m, s, tick)
<1> DEFINE W == Walked(m, tick)
           n == Len(s)
           d == m.tick
           node(i) == IF i = 0 THEN SleptHead ELSE s[i]
           Good(i) == W[i] = [at |-> node(i), rest |-> W[i].rest] /\ W[i].rest \in 0..tick
           K == {l \in 1..n + 1 : l = n + 1 \/ W[l - 1].rest <= d[s[l]]}
<1>1. n \in Nat /\ n < Turns /\ Turns \in Nat
  BY ListFits, TurnsAre
<1>2. /\ W[0] = [at |-> SleptHead, rest |-> tick]
      /\ \A i \in 1..Turns : W[i] =
            LET w == W[i - 1] IN
            IF Stops(m, m.next[w.at], w.rest) THEN w
            ELSE [at |-> m.next[w.at], rest |-> w.rest - d[m.next[w.at]]]
  <2>1. \A i \in 0..Turns : W[i] = WalkedNext(m, tick, W, i)
    BY WalkedIs
  <2> HIDE DEF W
  <2>2. W[0] = WalkedNext(m, tick, W, 0)
    BY <1>1, <2>1
  <2>3. \A i \in 1..Turns : i \in 0..Turns /\ i # 0
    OBVIOUS
  <2> QED BY <2>1, <2>2, <2>3 DEF WalkedNext
<1>3. \A i \in 1..n : s[i] \in Thread /\ s[i] # NoThread /\ d[s[i]] \in Nat
  BY OrderIs, ElementOfSeq, Nodes
<1>4. \A i \in 0..n : m.next[node(i)] = IF i = n THEN NoThread ELSE s[i + 1]
  <2>1. /\ m.next[SleptHead] = IF s = <<>> THEN NoThread ELSE s[1]
        /\ \A i \in 1..n : m.next[s[i]] = IF i = n THEN NoThread ELSE s[i + 1]
    BY NextInOrder
  <2>2. s = <<>> <=> n = 0
    BY OrderIs, EmptySeq
  <2> QED BY <1>1, <2>1, <2>2
<1> HIDE DEF W, d
<1>5. n + 1 \in K /\ K \subseteq Nat
  BY <1>1
<1>6. PICK k \in K : \A l \in K : k <= l
  <2> HIDE DEF K
  <2> QED BY <1>5, LeastNat
<1>7. k \in 1..n + 1 /\ k \in Nat
  BY <1>1
<1>8. ASSUME NEW j \in 1..(k - 1), Good(j - 1)
      PROVE  /\ W[j - 1].rest > d[s[j]] /\ W[j].at = s[j]
             /\ W[j].rest = W[j - 1].rest - d[s[j]] /\ Good(j)
  <2>1. j \in 1..n /\ j \in 1..Turns /\ j < k /\ j - 1 \in 0..n /\ j - 1 # n /\ (j - 1) + 1 = j
    BY <1>1, <1>7
  <2>2. ~(W[j - 1].rest <= d[s[j]])
    BY <1>6, <2>1
  <2>3. W[j - 1].at = node(j - 1) /\ m.next[W[j - 1].at] = s[j]
    <3>1. W[j - 1] = [at |-> node(j - 1), rest |-> W[j - 1].rest]
      BY <1>8
    <3> HIDE DEF node
    <3>2. W[j - 1].at = node(j - 1)
      BY <3>1
    <3>3. m.next[node(j - 1)] = IF j - 1 = n THEN NoThread ELSE s[(j - 1) + 1]
      BY <1>4, <2>1, Zenon
    <3> QED BY <2>1, <3>2, <3>3
  <2>4. ~Stops(m, s[j], W[j - 1].rest)
    BY <1>3, <2>1, <2>2 DEF Stops, d
  <2>5. W[j] = [at |-> s[j], rest |-> W[j - 1].rest - d[s[j]]]
    BY <1>2, <2>1, <2>3, <2>4
  <2>6. W[j].at = s[j] /\ W[j].rest = W[j - 1].rest - d[s[j]]
    BY <2>5
  <2>7. W[j - 1].rest \in 0..tick /\ d[s[j]] \in Nat
    BY <1>3, <1>8, <2>1
  <2>8. W[j].rest \in 0..tick
    BY <2>2, <2>6, <2>7
  <2>9. Good(j)
    <3>1. j # 0
      BY <2>1
    <3> QED BY <2>5, <2>6, <2>8, <3>1
  <2>10. W[j - 1].rest > d[s[j]]
    BY <2>2, <2>7
  <2> QED BY <2>6, <2>9, <2>10
<1>9. \A i \in 0..(k - 1) : Good(i)
  <2> DEFINE B == {i \in 0..(k - 1) : ~Good(i)}
  <2>1. SUFFICES ASSUME B # {} PROVE FALSE
    OBVIOUS
  <2>2. B \subseteq Nat
    BY <1>7
  <2>3. PICK j \in B : \A l \in B : j <= l
    <3> HIDE DEF B
    <3> QED BY <2>1, <2>2, LeastNat
  <2>4. Good(0)
    BY <1>2
  <2>5. j # 0 /\ j \in 1..(k - 1) /\ j - 1 \in 0..(k - 1) /\ ~(j <= j - 1)
    BY <1>7, <2>3, <2>4
  <2>6. Good(j - 1)
    BY <2>3, <2>5
  <2>7. Good(j)
    BY <1>8, <2>5, <2>6
  <2> QED BY <2>3, <2>7
<1>10. /\ W[k - 1] = [at |-> node(k - 1), rest |-> W[k - 1].rest]
       /\ W[k - 1].at = node(k - 1) /\ W[k - 1].rest \in 0..tick
  BY <1>7, <1>9
<1>11. Stops(m, m.next[W[k - 1].at], W[k - 1].rest)
  <2>1. k - 1 \in 0..n /\ (k - 1 = n <=> k = n + 1) /\ (k - 1) + 1 = k
    BY <1>1, <1>7
  <2>2. m.next[W[k - 1].at] = IF k = n + 1 THEN NoThread ELSE s[k]
    BY <1>4, <1>10, <2>1
  <2>3. k = n + 1 \/ W[k - 1].rest <= d[s[k]]
    BY <1>6
  <2> QED BY <2>2, <2>3 DEF Stops, d
<1>12. \A i \in (k - 1)..Turns : W[i] = W[k - 1]
  <2> DEFINE B == {i \in (k - 1)..Turns : W[i] # W[k - 1]}
  <2>1. SUFFICES ASSUME B # {} PROVE FALSE
    OBVIOUS
  <2>2. B \subseteq Nat
    BY <1>1, <1>7
  <2>3. PICK j \in B : \A l \in B : j <= l
    <3> HIDE DEF B
    <3> QED BY <2>1, <2>2, LeastNat
  <2>4. j # k - 1 /\ j \in 1..Turns /\ j - 1 \in (k - 1)..Turns /\ ~(j <= j - 1)
    BY <1>1, <1>7, <2>3
  <2>5. W[j - 1] = W[k - 1]
    BY <2>3, <2>4
  <2>6. W[j] = W[j - 1]
    BY <1>2, <1>11, <2>4, <2>5
  <2> QED BY <2>3, <2>5, <2>6
<1> DEFINE left == [i \in 1..k |-> W[i - 1].rest]
<1>13. \A i \in 1..k : left[i] = W[i - 1].rest /\ left[i] \in 0..tick
  <2> SUFFICES ASSUME NEW i \in 1..k PROVE left[i] = W[i - 1].rest /\ left[i] \in 0..tick
    OBVIOUS
  <2>1. i - 1 \in 0..(k - 1) /\ left[i] = W[i - 1].rest
    BY <1>7
  <2>2. Good(i - 1)
    BY <1>9, <2>1
  <2> QED BY <2>1, <2>2
<1>14. IsWalk(left, k, s, tick, d)
  <2>1. left \in [1..k -> 0..tick]
    BY <1>13
  <2>2. left[1] = tick
    BY <1>2, <1>7, <1>13
  <2>3. ASSUME NEW i \in 1..(k - 1)
        PROVE  left[i] > d[s[i]] /\ left[i + 1] = left[i] - d[s[i]]
    <3>1. i \in 1..k /\ i + 1 \in 1..k /\ (i + 1) - 1 = i /\ i - 1 \in 0..(k - 1)
      BY <1>7
    <3>2. Good(i - 1)
      BY <1>9, <3>1
    <3>3. W[i - 1].rest > d[s[i]] /\ W[i].rest = W[i - 1].rest - d[s[i]]
      BY <1>8, <3>2
    <3>4. left[i] = W[i - 1].rest /\ left[i + 1] = W[i].rest
      BY <1>13, <3>1
    <3> QED BY <3>3, <3>4
  <2>4. k <= n => left[k] <= d[s[k]]
    <3>1. k # n + 1 => W[k - 1].rest <= d[s[k]]
      BY <1>6
    <3>2. left[k] = W[k - 1].rest
      BY <1>7, <1>13
    <3> QED BY <1>1, <1>7, <3>1, <3>2
  <2> HIDE DEF left
  <2> QED BY <2>1, <2>2, <2>3, <2>4 DEF IsWalk
<1>15. W[Turns] = [at |-> node(k - 1), rest |-> left[k]]
  <2>1. W[Turns] = W[k - 1] /\ left[k] = W[k - 1].rest
    BY <1>1, <1>7, <1>12, <1>13
  <2> QED BY <1>10, <2>1
<1>16. node(k - 1) = Place(s, k)
  BY <1>7 DEF Place
<1> QED BY <1>7, <1>14, <1>15, <1>16 DEF W, d, WalkFound

-----------------------------------------------------------------------------
(* The operations on the record of lists *)

ListsType ==
    [next : [Node -> Thread \union {NoThread}], prev : [Node -> Node \union {NoThread}],
     tail : [Priority -> Node], arrival : Seq(Thread), tick : [Thread -> Nat],
     flags : [Thread -> SUBSET {SLEPT, ZOMBIE}]]

Good(m, s, z) ==
    /\ m \in ListsType
    /\ Shape(m.next, m.prev, m.arrival, s, z)
    /\ Tails(m.tail, m.arrival)

Toggle(f) == IF SLEPT \in f THEN f \ {SLEPT} ELSE f \union {SLEPT}

LEMMA AddLists ==
  ASSUME NEW m, NEW s, NEW z, NEW t, Good(m, s, z), Unlisted(t, m.arrival, s, z),
         NEW m2, m2 = scheduler_add(m, t)
  PROVE  /\ Good(m2, s, z) /\ m2.arrival = Append(m.arrival, t)
         /\ m2.tick = m.tick /\ m2.flags = m.flags
<1> DEFINE tl == m.tail[priority[t]]
<1>1. m \in ListsType /\ t \in Thread /\ t \in Node /\ priority[t] \in Priority
  BY Nodes DEF Good, Unlisted
<1>2. tl \in Node /\ tl # t
  <2>1. IsLast(tl, Of(m.arrival, priority[t]), Order(m.arrival), priority[t])
    BY <1>1 DEF Good, Tails
  <2>2. tl \in Of(m.arrival, priority[t]) \union {priority[t]}
    BY <2>1 DEF IsLast
  <2>3. t \notin Of(m.arrival, priority[t]) /\ t # priority[t]
    BY <1>1, Nodes DEF Unlisted, Of
  <2> QED BY <1>1, <2>2, <2>3 DEF ListsType
<1>3. m2 = [next |-> [m.next EXCEPT ![t] = NoThread, ![tl] = t],
            prev |-> [m.prev EXCEPT ![t] = tl],
            tail |-> [m.tail EXCEPT ![priority[t]] = t],
            arrival |-> Append(m.arrival, t), tick |-> m.tick, flags |-> m.flags]
  BY <1>1 DEF scheduler_add, Linked, ListsType
<1> HIDE DEF tl
<1>4. /\ m2.next = [m.next EXCEPT ![t] = NoThread, ![tl] = t]
      /\ m2.prev = [m.prev EXCEPT ![t] = tl]
      /\ m2.tail = [m.tail EXCEPT ![priority[t]] = t]
      /\ m2.arrival = Append(m.arrival, t) /\ m2.tick = m.tick /\ m2.flags = m.flags
  BY <1>3
<1>5. /\ m.next \in [Node -> Thread \union {NoThread}] /\ m.prev \in [Node -> Node \union {NoThread}]
      /\ m.tail \in [Priority -> Node] /\ m.arrival \in Seq(Thread)
      /\ m.tick \in [Thread -> Nat] /\ m.flags \in [Thread -> SUBSET {SLEPT, ZOMBIE}]
  BY <1>1 DEF ListsType
<1>6. m2 \in ListsType
  <2>1. Append(m.arrival, t) \in Seq(Thread)
    BY <1>1, <1>5, AppendProperties
  <2>2. /\ m2.next \in [Node -> Thread \union {NoThread}]
        /\ m2.prev \in [Node -> Node \union {NoThread}]
        /\ m2.tail \in [Priority -> Node]
    BY <1>1, <1>2, <1>4, <1>5
  <2> QED BY <1>3, <1>4, <1>5, <2>1, <2>2 DEF ListsType
<1>7. /\ m2.next[t] = NoThread /\ m2.next[tl] = t
      /\ \A n \in Node \ {t, tl} : m2.next[n] = m.next[n]
  BY <1>1, <1>2, <1>4, <1>5
<1>8. m2.prev[t] = tl /\ \A n \in Thread \ {t} : m2.prev[n] = m.prev[n]
  BY <1>1, <1>4, <1>5, Nodes
<1>9. m2.tail[priority[t]] = t /\ \A p \in Priority \ {priority[t]} : m2.tail[p] = m.tail[p]
  BY <1>1, <1>4, <1>5
<1>10. Shape(m.next, m.prev, m.arrival, s, z) /\ Tails(m.tail, m.arrival)
  BY DEF Good
<1>11. Shape(m2.next, m2.prev, Append(m.arrival, t), s, z) /\ TailsBehind(m.tail, Append(m.arrival, t), t)
  <2> DEFINE nx == m.next
             nx2 == m2.next
             pv == m.prev
             pv2 == m2.prev
             tail == m.tail
             q == m.arrival
  <2>1. /\ nx2[t] = NoThread /\ nx2[tl] = t /\ \A n \in Node \ {t, tl} : nx2[n] = nx[n]
        /\ pv2[t] = tl /\ \A n \in Thread \ {t} : pv2[n] = pv[n]
        /\ Shape(nx, pv, q, s, z) /\ Tails(tail, q) /\ tl = tail[priority[t]]
        /\ Unlisted(t, q, s, z)
    BY <1>7, <1>8, <1>10 DEF tl
  <2> HIDE DEF nx, nx2, pv, pv2, tail, q
  <2>2. Shape(nx2, pv2, Append(q, t), s, z) /\ TailsBehind(tail, Append(q, t), t)
    BY <2>1, AddShape
  <2> QED BY <2>2 DEF nx, nx2, pv, pv2, tail, q
<1>12. Tails(m2.tail, m2.arrival)
  BY <1>1, <1>4, <1>9, <1>11 DEF Tails, TailsBehind
<1> QED BY <1>4, <1>6, <1>11, <1>12 DEF Good

\* What the TCBs keep when t leaves the delta queue.
Unlinked(m, m2, t) ==
    /\ m2.arrival = m.arrival /\ m2.tick = [m.tick EXCEPT ![t] = 0]
    /\ m2.flags = [m.flags EXCEPT ![t] = Toggle(@)]

LEMMA UnlinkLists ==
  ASSUME NEW m, NEW s, NEW z, NEW t, Good(m, s, z), t = m.next[SleptHead], t # NoThread,
         NEW m2, m2 = UnlinkSleeper(m, t)
  PROVE  /\ s # <<>> /\ t = s[1] /\ t \in Thread
         /\ Good(m2, Tail(s), z) /\ Unlisted(t, m.arrival, Tail(s), z)
         /\ Unlinked(m, m2, t)
<1>1. m \in ListsType /\ SleptHead \in Node /\ \A n \in Thread : n \in Node
  BY Nodes DEF Good
<1>2. /\ m.next \in [Node -> Thread \union {NoThread}] /\ m.prev \in [Node -> Node \union {NoThread}]
      /\ m.tail \in [Priority -> Node] /\ m.arrival \in Seq(Thread)
      /\ m.tick \in [Thread -> Nat] /\ m.flags \in [Thread -> SUBSET {SLEPT, ZOMBIE}]
  BY <1>1 DEF ListsType
<1>3. t \in Thread /\ t \in Node
  BY <1>1, <1>2
<1>4. m2 = [next |-> [m.next EXCEPT ![SleptHead] = m.next[t]],
            prev |-> [u \in Node |-> IF u = m.next[t] THEN m.prev[t] ELSE m.prev[u]],
            tail |-> m.tail, arrival |-> m.arrival, tick |-> [m.tick EXCEPT ![t] = 0],
            flags |-> [m.flags EXCEPT ![t] = Toggle(@)]]
  BY <1>1 DEF UnlinkSleeper, ListsType, Toggle
<1>5. /\ m2.next = [m.next EXCEPT ![SleptHead] = m.next[t]]
      /\ m2.prev = [u \in Node |-> IF u = m.next[t] THEN m.prev[t] ELSE m.prev[u]]
      /\ m2.tail = m.tail /\ m2.arrival = m.arrival /\ m2.tick = [m.tick EXCEPT ![t] = 0]
      /\ m2.flags = [m.flags EXCEPT ![t] = Toggle(@)]
  BY <1>4
<1>6. m2 \in ListsType
  <2>1. /\ m2.next \in [Node -> Thread \union {NoThread}]
        /\ m2.prev \in [Node -> Node \union {NoThread}]
        /\ m2.tick \in [Thread -> Nat]
    BY <1>1, <1>2, <1>3, <1>5
  <2>2. m2.flags \in [Thread -> SUBSET {SLEPT, ZOMBIE}]
    BY <1>2, <1>3, <1>5 DEF Toggle
  <2> QED BY <1>2, <1>4, <1>5, <2>1, <2>2 DEF ListsType
<1>7. /\ m2.next[SleptHead] = m.next[t] /\ \A n \in Node \ {SleptHead} : m2.next[n] = m.next[n]
      /\ m.next[t] # NoThread => m2.prev[m.next[t]] = m.prev[t]
      /\ \A n \in Thread \ {m.next[t]} : m2.prev[n] = m.prev[n]
  BY <1>1, <1>2, <1>3, <1>5
<1>8. Shape(m.next, m.prev, m.arrival, s, z) /\ Tails(m.tail, m.arrival)
  BY DEF Good
<1>9. /\ s # <<>> /\ t = s[1]
      /\ Shape(m2.next, m2.prev, m.arrival, Tail(s), z)
      /\ Unlisted(t, m.arrival, Tail(s), z)
  <2> DEFINE nx == m.next
             nx2 == m2.next
             pv == m.prev
             pv2 == m2.prev
             q == m.arrival
  <2>1. /\ nx2[SleptHead] = nx[t] /\ \A n \in Node \ {SleptHead} : nx2[n] = nx[n]
        /\ nx[t] # NoThread => pv2[nx[t]] = pv[t]
        /\ \A n \in Thread \ {nx[t]} : pv2[n] = pv[n]
        /\ Shape(nx, pv, q, s, z) /\ t = nx[SleptHead]
    BY <1>7, <1>8
  <2> HIDE DEF nx, nx2, pv, pv2, q
  <2>2. /\ s # <<>> /\ t = s[1]
        /\ Shape(nx2, pv2, q, Tail(s), z)
        /\ Unlisted(t, q, Tail(s), z)
    BY <2>1, UnlinkShape
  <2> QED BY <2>2 DEF nx, nx2, pv, pv2, q
<1>10. Unlinked(m, m2, t)
  BY <1>5 DEF Unlinked
<1> QED BY <1>3, <1>5, <1>6, <1>8, <1>9, <1>10 DEF Good

LEMMA ZombieLists ==
  ASSUME NEW m, NEW s, NEW z, NEW t, Good(m, s, z), Unlisted(t, m.arrival, s, z),
         NEW m2, m2 = PushZombie(m, t)
  PROVE  /\ Good(m2, s, InsertAt(z, 1, t))
         /\ m2.arrival = m.arrival /\ m2.tick = m.tick /\ m2.flags = m.flags
<1>1. m \in ListsType /\ ZombieHead \in Node /\ t \in Thread /\ t \in Node /\ t # ZombieHead
  BY Nodes DEF Good, Unlisted
<1>2. m.next \in [Node -> Thread \union {NoThread}]
  BY <1>1 DEF ListsType
<1>3. m2 = [m EXCEPT !.next = [m.next EXCEPT ![t] = m.next[ZombieHead], ![ZombieHead] = t]]
  BY DEF PushZombie
<1>4. /\ m2.next = [m.next EXCEPT ![t] = m.next[ZombieHead], ![ZombieHead] = t]
      /\ m2.prev = m.prev /\ m2.tail = m.tail
      /\ m2.arrival = m.arrival /\ m2.tick = m.tick /\ m2.flags = m.flags
  BY <1>1, <1>3 DEF ListsType
<1>5. m2 \in ListsType
  <2>1. [m.next EXCEPT ![t] = m.next[ZombieHead], ![ZombieHead] = t]
           \in [Node -> Thread \union {NoThread}]
    BY <1>1, <1>2
  <2> QED BY <1>1, <1>3, <2>1 DEF ListsType
<1>6. /\ m2.next[t] = m.next[ZombieHead] /\ m2.next[ZombieHead] = t
      /\ \A n \in Node \ {t, ZombieHead} : m2.next[n] = m.next[n]
  BY <1>1, <1>2, <1>4
<1>7. Shape(m.next, m.prev, m.arrival, s, z) /\ Tails(m.tail, m.arrival)
  BY DEF Good
<1>8. Shape(m2.next, m.prev, m.arrival, s, InsertAt(z, 1, t))
  BY <1>6, <1>7, ZombieShape
<1> QED BY <1>4, <1>5, <1>7, <1>8 DEF Good

LEMMA SleepLists ==
  ASSUME NEW m, NEW s, NEW z, NEW t, Good(m, s, z), Unlisted(t, m.arrival, s, z),
         NEW m2, m2 = InsertSleeper(m, t)
  PROVE  \E k \in 1..(Len(s) + 1) : \E left :
            /\ IsWalk(left, k, s, m.tick[t], m.tick)
            /\ Good(m2, InsertAt(s, k, t), z)
            /\ m2.arrival = m.arrival /\ m2.flags = m.flags
            /\ \A u \in Thread : m2.tick[u] =
                  IF u = t THEN left[k]
                  ELSE IF k <= Len(s) /\ u = s[k] THEN m.tick[u] - left[k] ELSE m.tick[u]
<1>1. /\ m \in ListsType /\ t \in Thread /\ t \in Node /\ SleptHead \in Node
      /\ \A n \in Thread : n \in Node
      /\ NoThread \notin Thread /\ NoThread \notin Node
  BY Nodes DEF Good, Unlisted
<1>2. /\ m.next \in [Node -> Thread \union {NoThread}] /\ m.prev \in [Node -> Node \union {NoThread}]
      /\ m.tail \in [Priority -> Node] /\ m.arrival \in Seq(Thread)
      /\ m.tick \in [Thread -> Nat] /\ m.flags \in [Thread -> SUBSET {SLEPT, ZOMBIE}]
  BY <1>1 DEF ListsType
<1>3. /\ s \in Queue(Thread) /\ t \notin ToSet(s)
      /\ Forward(m.next, SleptHead, ToSet(s), Order(s))
      /\ m.tick[t] \in Nat
  BY <1>1, <1>2 DEF Good, Shape, Apart, SleptList, Unlisted
<1>4. PICK k \in 1..(Len(s) + 1) : \E left :
            /\ IsWalk(left, k, s, m.tick[t], m.tick)
            /\ Walked(m, m.tick[t])[Turns] =
                  [at |-> Place(s, k), rest |-> left[k]]
  <2> DEFINE tk == m.tick[t]
  <2>1. tk \in Nat
    BY <1>3
  <2> HIDE DEF tk
  <2>2. WalkFound(m, s, tk)
    BY <1>2, <1>3, <2>1, WalkFinds
  <2> QED BY <2>2 DEF tk, WalkFound
<1>5. PICK left :
            /\ IsWalk(left, k, s, m.tick[t], m.tick)
            /\ Walked(m, m.tick[t])[Turns] =
                  [at |-> Place(s, k), rest |-> left[k]]
  BY <1>4
<1> DEFINE a == Place(s, k)
           n == m.next[a]
           tick2 == [u \in Thread |-> IF u = t THEN left[k]
                                      ELSE IF u = n THEN m.tick[u] - left[k] ELSE m.tick[u]]
           next2 == [m.next EXCEPT ![t] = n, ![a] = t]
           prev2 == [u \in Node |-> IF u = t THEN a ELSE IF u = n THEN t ELSE m.prev[u]]
<1>6. /\ Len(s) \in Nat /\ \A i \in 1..Len(s) : s[i] \in Thread
      /\ \A i \in 1..Len(s) : s[i] \in ToSet(s)
  BY <1>3, OrderIs, ElementOfSeq
<1>7. a \in Node /\ a # t /\ n = IF k = Len(s) + 1 THEN NoThread ELSE s[k]
  <2>1. /\ m.next[SleptHead] = IF s = <<>> THEN NoThread ELSE s[1]
        /\ \A i \in 1..Len(s) : m.next[s[i]] = IF i = Len(s) THEN NoThread ELSE s[i + 1]
    BY <1>3, NextInOrder
  <2>2. s = <<>> <=> Len(s) = 0
    BY <1>3, OrderIs, EmptySeq
  <2>3. CASE k = 1
    BY <1>1, <1>6, <2>1, <2>2, <2>3, Nodes DEF Place
  <2>4. CASE k # 1
    <3>1. k - 1 \in 1..Len(s) /\ (k - 1) + 1 = k /\ (k - 1 = Len(s) <=> k = Len(s) + 1)
      BY <1>6, <2>4
    <3>2. a = s[k - 1] /\ s[k - 1] # t
      BY <1>3, <1>6, <2>4, <3>1 DEF Place
    <3> QED BY <1>1, <1>6, <2>1, <3>1, <3>2
  <2> QED BY <2>3, <2>4
<1>8. m2 = [next |-> next2, prev |-> prev2, tail |-> m.tail, arrival |-> m.arrival,
            tick |-> tick2, flags |-> m.flags]
  <2> DEFINE w == Walked(m, m.tick[t])[Turns]
  <2>1. w.at = a /\ w.rest = left[k]
    BY <1>5
  <2> HIDE DEF w, a
  <2>2. m2 = [m EXCEPT !.tick = [u \in Thread |-> IF u = t THEN w.rest
                                     ELSE IF u = m.next[w.at] THEN m.tick[u] - w.rest ELSE m.tick[u]],
                       !.next = [m.next EXCEPT ![t] = m.next[w.at], ![w.at] = t],
                       !.prev = [u \in Node |-> IF u = t THEN w.at
                                     ELSE IF u = m.next[w.at] THEN t ELSE m.prev[u]]]
    BY DEF InsertSleeper, w
  <2>3. m2 = [m EXCEPT !.tick = tick2, !.next = next2, !.prev = prev2]
    BY <2>1, <2>2
  <2> HIDE DEF tick2, next2, prev2
  <2> QED BY <1>1, <2>3 DEF ListsType
<1>9. left[k] \in Nat /\ (k <= Len(s) => left[k] <= m.tick[s[k]])
  <2>1. left \in [1..k -> 0..m.tick[t]] /\ (k <= Len(s) => left[k] <= m.tick[s[k]])
    BY <1>5 DEF IsWalk
  <2>2. k \in 1..k
    OBVIOUS
  <2>3. left[k] \in 0..m.tick[t]
    BY <2>1, <2>2
  <2> QED BY <1>3, <2>1, <2>3
<1> HIDE DEF a
<1>10. \A u \in Thread : u = n <=> k <= Len(s) /\ u = s[k]
  BY <1>1, <1>6, <1>7
<1>11. \A u \in Thread : tick2[u] =
          IF u = t THEN left[k]
          ELSE IF k <= Len(s) /\ u = s[k] THEN m.tick[u] - left[k] ELSE m.tick[u]
  BY <1>10
<1>12. tick2 \in [Thread -> Nat]
  <2>1. ASSUME NEW u \in Thread PROVE tick2[u] \in Nat
    <3>1. m.tick[u] \in Nat
      BY <1>2
    <3> QED BY <1>9, <1>10, <3>1
  <2> QED BY <2>1
<1>13. /\ m2.next = next2 /\ m2.prev = prev2 /\ m2.tail = m.tail /\ m2.arrival = m.arrival
       /\ m2.tick = tick2 /\ m2.flags = m.flags
  BY <1>8
<1>14. n \in Thread \union {NoThread}
  BY <1>2, <1>7
<1> HIDE DEF n
<1>15. next2 \in [Node -> Thread \union {NoThread}] /\ prev2 \in [Node -> Node \union {NoThread}]
  BY <1>1, <1>2, <1>7, <1>14
<1>16. m2 \in ListsType
  <2> HIDE DEF tick2, next2, prev2
  <2> QED BY <1>2, <1>8, <1>12, <1>15 DEF ListsType
<1>17. Shape(m2.next, m2.prev, m.arrival, InsertAt(s, k, t), z)
  <2> DEFINE nx == m.next
             nx2 == m2.next
             pv == m.prev
             pv2 == m2.prev
             q == m.arrival
  <2>1. nx2[t] = n /\ nx2[a] = t /\ \A u \in Node \ {t, a} : nx2[u] = nx[u]
    BY <1>1, <1>2, <1>7, <1>13
  <2>2. n = nx[a] /\ n # t
    <3>1. n = NoThread \/ n \in ToSet(s)
      BY <1>6, <1>7
    <3> QED BY <1>1, <1>3, <3>1 DEF n
  <2>3. /\ pv2[t] = a /\ (n # NoThread => pv2[n] = t)
        /\ \A u \in Thread \ {t, n} : pv2[u] = pv[u]
    BY <1>1, <1>13, <1>14, <2>2
  <2>4. Shape(nx, pv, q, s, z) /\ Unlisted(t, q, s, z)
    BY DEF Good
  <2>5. a = Place(s, k)
    BY DEF a
  <2> HIDE DEF nx, nx2, pv, pv2, q
  <2>6. /\ nx2[t] = nx[a] /\ nx2[a] = t
        /\ pv2[t] = a /\ (nx[a] # NoThread => pv2[nx[a]] = t)
        /\ \A u \in Thread \ {t, nx[a]} : pv2[u] = pv[u]
    BY <2>1, <2>2, <2>3
  <2>7. Shape(nx2, pv2, q, InsertAt(s, k, t), z)
    <3>1. LinkedBehind(nx, nx2, pv, pv2, t, a)
      BY <2>1, <2>6 DEF LinkedBehind
    <3> QED BY <2>4, <2>5, <3>1, SleepShape
  <2> QED BY <2>7 DEF nx, nx2, pv, pv2, q
<1>18. Good(m2, InsertAt(s, k, t), z)
  BY <1>13, <1>16, <1>17 DEF Good
<1> HIDE DEF tick2
<1> QED BY <1>5, <1>11, <1>13, <1>18

Held(q, s, z) == ToSet(q) \union ToSet(s) \union ToSet(z)

\* Where Park leaves the thread t that gives up the processor.
Parked(m, m2, s, s2, z, z2, t) ==
    IF ZOMBIE \in m.flags[t]
    THEN m2.arrival = m.arrival /\ s2 = s /\ z2 = InsertAt(z, 1, t) /\ m2.tick = m.tick
    ELSE IF SLEPT \in m.flags[t]
    THEN /\ m2.arrival = m.arrival /\ z2 = z
         /\ \E k \in 1..(Len(s) + 1) : \E left :
               /\ IsWalk(left, k, s, m.tick[t], m.tick)
               /\ s2 = InsertAt(s, k, t)
               /\ \A u \in Thread : m2.tick[u] =
                     IF u = t THEN left[k]
                     ELSE IF k <= Len(s) /\ u = s[k] THEN m.tick[u] - left[k] ELSE m.tick[u]
    ELSE m2.arrival = Append(m.arrival, t) /\ s2 = s /\ z2 = z /\ m2.tick = m.tick

LEMMA ParkLists ==
  ASSUME NEW m, NEW s, NEW z, NEW t, Good(m, s, z), Unlisted(t, m.arrival, s, z),
         NEW m2, m2 = Park(m, t)
  PROVE  \E s2, z2 :
            /\ Good(m2, s2, z2) /\ m2.flags = m.flags
            /\ Held(m2.arrival, s2, z2) = Held(m.arrival, s, z) \union {t}
            /\ Parked(m, m2, s, s2, z, z2, t)
<1>1. /\ t \in Thread /\ t \notin ToSet(m.arrival) /\ t \notin ToSet(s) /\ t \notin ToSet(z)
      /\ m.arrival \in Queue(Thread) /\ s \in Queue(Thread) /\ z \in Queue(Thread)
  BY DEF Good, Shape, Apart, Unlisted
<1>2. CASE ZOMBIE \in m.flags[t]
  <2>1. m2 = PushZombie(m, t)
    BY <1>2 DEF Park
  <2>2. /\ Good(m2, s, InsertAt(z, 1, t))
        /\ m2.arrival = m.arrival /\ m2.tick = m.tick /\ m2.flags = m.flags
    BY <2>1, ZombieLists
  <2>3. 1 \in 1..(Len(z) + 1)
    BY <1>1, OrderIs
  <2>4. ToSet(InsertAt(z, 1, t)) = ToSet(z) \union {t}
    BY <1>1, <2>3, QueueInsert
  <2>5. Held(m2.arrival, s, InsertAt(z, 1, t)) = Held(m.arrival, s, z) \union {t}
    BY <2>2, <2>4 DEF Held
  <2>6. Parked(m, m2, s, s, z, InsertAt(z, 1, t), t)
    BY <1>2, <2>2 DEF Parked
  <2> QED BY <2>2, <2>5, <2>6
<1>3. CASE ZOMBIE \notin m.flags[t] /\ SLEPT \in m.flags[t]
  <2>1. m2 = InsertSleeper(m, t)
    BY <1>3 DEF Park
  <2>2. PICK k \in 1..(Len(s) + 1) : \E left :
            /\ IsWalk(left, k, s, m.tick[t], m.tick)
            /\ Good(m2, InsertAt(s, k, t), z)
            /\ m2.arrival = m.arrival /\ m2.flags = m.flags
            /\ \A u \in Thread : m2.tick[u] =
                  IF u = t THEN left[k]
                  ELSE IF k <= Len(s) /\ u = s[k] THEN m.tick[u] - left[k] ELSE m.tick[u]
    BY <2>1, SleepLists
  <2>3. ToSet(InsertAt(s, k, t)) = ToSet(s) \union {t}
    BY <1>1, QueueInsert
  <2>4. Held(m2.arrival, InsertAt(s, k, t), z) = Held(m.arrival, s, z) \union {t}
    BY <2>2, <2>3 DEF Held
  <2>5. Parked(m, m2, s, InsertAt(s, k, t), z, z, t)
    BY <1>3, <2>2 DEF Parked
  <2> QED BY <2>2, <2>4, <2>5
<1>4. CASE ZOMBIE \notin m.flags[t] /\ SLEPT \notin m.flags[t]
  <2>1. m2 = scheduler_add(m, t)
    BY <1>4 DEF Park
  <2>2. /\ Good(m2, s, z) /\ m2.arrival = Append(m.arrival, t)
        /\ m2.tick = m.tick /\ m2.flags = m.flags
    BY <2>1, AddLists
  <2>3. ToSet(Append(m.arrival, t)) = ToSet(m.arrival) \union {t}
    BY <1>1, QueueAppend
  <2>4. Held(m2.arrival, s, z) = Held(m.arrival, s, z) \union {t}
    BY <2>2, <2>3 DEF Held
  <2>5. Parked(m, m2, s, s, z, z, t)
    BY <1>4, <2>2 DEF Parked
  <2> QED BY <2>2, <2>4, <2>5
<1> QED BY <1>2, <1>3, <1>4

\* One more entry moves from the front of a queue to the end of another.
LEMMA CutNext ==
  ASSUME NEW S, NEW s \in Seq(S), NEW a \in Seq(S), NEW i \in 0..Len(s), i # Len(s)
  PROVE  /\ s[i + 1] \in S
         /\ SubSeq(s, i + 1, Len(s)) # <<>> /\ SubSeq(s, i + 1, Len(s))[1] = s[i + 1]
         /\ Tail(SubSeq(s, i + 1, Len(s))) = SubSeq(s, (i + 1) + 1, Len(s))
         /\ Append(a \o SubSeq(s, 1, i), s[i + 1]) = a \o SubSeq(s, 1, i + 1)
<1> DEFINE n == Len(s)
           j == i + 1
           b == SubSeq(s, j, n)
<1>1. n \in Nat /\ j \in 1..n /\ j \in 0..n /\ j - 1 = i /\ n \in j..n /\ j \in 1..j /\ s[j] \in S
  BY LenProperties, ElementOfSeq
<1>2. /\ b \in Seq(S) /\ Len(b) = n - i /\ \A l \in 1..(n - i) : b[l] = s[i + l]
      /\ SubSeq(s, 1, i) \in Seq(S)
  BY SplitAt
<1>3. /\ SubSeq(s, j + 1, n) \in Seq(S) /\ Len(SubSeq(s, j + 1, n)) = n - j
      /\ \A l \in 1..(n - j) : SubSeq(s, j + 1, n)[l] = s[j + l]
  BY <1>1, SplitAt
<1>4. Len(b) \in Nat \ {0}
  <2>1. n - i \in Nat \ {0}
    BY <1>1
  <2> HIDE DEF b, n
  <2> QED BY <1>2, <2>1
<1>5. b # <<>> /\ b[1] = s[j]
  <2>1. 1 \in 1..(n - i) /\ i + 1 = j
    BY <1>1
  <2>2. b[1] = s[j]
    BY <1>2, <2>1
  <2> QED BY <1>2, <1>4, <2>2, EmptySeq
<1>6. Tail(b) = SubSeq(s, j + 1, n)
  <2> HIDE DEF b
  <2>1. /\ Tail(b) \in Seq(S) /\ Len(Tail(b)) = Len(b) - 1
        /\ \A l \in 1..Len(Tail(b)) : Tail(b)[l] = b[l + 1]
    BY <1>2, <1>5, HeadTailProperties
  <2>2. Len(Tail(b)) = n - j
    BY <1>1, <1>2, <2>1
  <2>3. \A l \in 1..(n - j) : l + 1 \in 1..(n - i) /\ i + (l + 1) = j + l
    BY <1>1
  <2>4. \A l \in 1..Len(Tail(b)) : Tail(b)[l] = SubSeq(s, j + 1, n)[l]
    BY <1>2, <1>3, <2>1, <2>2, <2>3
  <2> DEFINE u == Tail(b)
             v == SubSeq(s, j + 1, n)
  <2>5. u \in Seq(S) /\ v \in Seq(S) /\ Len(u) = Len(v) /\ \A l \in 1..Len(u) : u[l] = v[l]
    BY <1>3, <2>1, <2>2, <2>4
  <2> HIDE DEF u, v
  <2>6. u = v
    BY <2>5, SeqEqual
  <2> QED BY <2>6 DEF u, v
<1>7. SubSeq(s, 1, j) = SubSeq(s, 1, i) \o <<s[j]>>
  <2>1. 1 \in 1..n /\ j \in 1..n
    BY <1>1
  <2>2. SubSeq(s, 1, j) = SubSeq(s, 1, j - 1) \o <<s[j]>>
    BY <2>1, SubSeqRecursiveSecond
  <2> QED BY <1>1, <2>2
<1>8. Append(a \o SubSeq(s, 1, i), s[j]) = a \o SubSeq(s, 1, j)
  <2> DEFINE c == SubSeq(s, 1, i)
             x == s[j]
  <2>1. c \in Seq(S) /\ x \in S /\ <<x>> \in Seq(S)
    BY <1>1, <1>2
  <2> HIDE DEF c, x
  <2>2. a \o c \in Seq(S)
    BY <2>1, ConcatProperties
  <2>3. Append(a \o c, x) = (a \o c) \o <<x>>
    BY <2>1, <2>2, AppendIsConcat
  <2>4. (a \o c) \o <<x>> = a \o (c \o <<x>>)
    BY <2>1, ConcatAssociative
  <2> QED BY <1>7, <2>3, <2>4 DEF c, x
<1> QED BY <1>1, <1>5, <1>6, <1>8

\* The wake loop has moved the first i sleepers of s to the active lists.
WokenAt(m, w, s, z, i) ==
    /\ Good(w, SubSeq(s, i + 1, Len(s)), z)
    /\ w.arrival = m.arrival \o SubSeq(s, 1, i)
    /\ \A u \in Thread : w.tick[u] = IF \E j \in 1..i : u = s[j] THEN 0 ELSE m.tick[u]
    /\ \A u \in Thread : w.flags[u] =
          IF \E j \in 1..i : u = s[j] THEN Toggle(m.flags[u]) ELSE m.flags[u]

LEMMA WakeBegins ==
  ASSUME NEW m, NEW s, NEW z, Good(m, s, z)
  PROVE  WokenAt(m, m, s, z, 0)
<1>1. s \in Seq(Thread) /\ m.arrival \in Seq(Thread) /\ Len(s) \in Nat
  BY LenProperties DEF Good, Shape, Apart, Queue
<1>2. SubSeq(s, 0 + 1, Len(s)) = s
  BY <1>1, SubSeqFull
<1>3. m.arrival \o SubSeq(s, 1, 0) = m.arrival
  <2>1. SubSeq(s, 1, 0) = <<>>
    BY SubSeqEmpty
  <2> QED BY <1>1, <2>1, ConcatEmptySeq
<1>4. \A u : ~\E j \in 1..0 : u = s[j]
  OBVIOUS
<1> QED BY <1>2, <1>3, <1>4 DEF WokenAt

LEMMA WakeGoesOn ==
  ASSUME NEW m, NEW w, NEW s, NEW z, NEW i \in 0..Len(s), i # Len(s), NEW e,
         WokenAt(m, w, s, z, i), Good(m, s, z), ~(m.tick[s[i + 1]] > e)
  PROVE  WokenAt(m, WakeStep(w, e), s, z, i + 1)
<1> DEFINE b == SubSeq(s, i + 1, Len(s))
           t == w.next[SleptHead]
           m1 == UnlinkSleeper(w, t)
           m2 == scheduler_add(m1, t)
<1>1. /\ s \in Queue(Thread) /\ s \in Seq(Thread) /\ m.arrival \in Seq(Thread)
      /\ Len(s) \in Nat /\ i \in Nat
      /\ m.tick \in [Thread -> Nat] /\ m.flags \in [Thread -> SUBSET {SLEPT, ZOMBIE}]
  BY LenProperties DEF Good, Shape, Apart, Queue, ListsType
<1>2. /\ s[i + 1] \in Thread /\ b # <<>> /\ b[1] = s[i + 1]
      /\ Tail(b) = SubSeq(s, (i + 1) + 1, Len(s))
      /\ Append(m.arrival \o SubSeq(s, 1, i), s[i + 1]) = m.arrival \o SubSeq(s, 1, i + 1)
  BY <1>1, CutNext
<1>3. /\ Good(w, b, z) /\ w.arrival = m.arrival \o SubSeq(s, 1, i)
      /\ \A u \in Thread : w.tick[u] = IF \E j \in 1..i : u = s[j] THEN 0 ELSE m.tick[u]
      /\ \A u \in Thread : w.flags[u] =
            IF \E j \in 1..i : u = s[j] THEN Toggle(m.flags[u]) ELSE m.flags[u]
  BY DEF WokenAt
<1> HIDE DEF b
<1>4. t = s[i + 1] /\ t \in Thread /\ t # NoThread
  <2>1. b \in Queue(Thread) /\ Forward(w.next, SleptHead, ToSet(b), Order(b))
    BY <1>3 DEF Good, Shape, Apart, SleptList
  <2> DEFINE nx == w.next
  <2> HIDE DEF nx
  <2>2. nx[SleptHead] = IF b = <<>> THEN NoThread ELSE b[1]
    <3>1. Forward(nx, SleptHead, ToSet(b), Order(b))
      BY <2>1 DEF nx
    <3> QED BY <2>1, <3>1, NextInOrder
  <2> QED BY <1>2, <2>2, Nodes DEF nx
<1>5. ~\E j \in 1..i : t = s[j]
  <2>1. \A j, l \in 1..Len(s) : s[j] = s[l] => j = l
    BY <1>1, OrderIs
  <2>2. i + 1 \in 1..Len(s) /\ \A j \in 1..i : j \in 1..Len(s) /\ j # i + 1
    BY <1>1
  <2> QED BY <1>4, <2>1, <2>2
<1>6. ~(w.tick[t] > e)
  BY <1>3, <1>4, <1>5
<1>7. WakeStep(w, e) = m2
  BY <1>4, <1>6 DEF WakeStep
<1> HIDE DEF t
<1>8. /\ Good(m1, Tail(b), z) /\ Unlisted(t, w.arrival, Tail(b), z)
      /\ m1.arrival = w.arrival /\ m1.tick = [w.tick EXCEPT ![t] = 0]
      /\ m1.flags = [w.flags EXCEPT ![t] = Toggle(@)]
  <2>1. t = w.next[SleptHead] /\ m1 = UnlinkSleeper(w, t)
    BY DEF t
  <2> HIDE DEF m1, m2
  <2>2. Good(m1, Tail(b), z) /\ Unlisted(t, w.arrival, Tail(b), z) /\ Unlinked(w, m1, t)
    BY <1>3, <1>4, <2>1, UnlinkLists
  <2> QED BY <2>2 DEF Unlinked
<1>8a. m2 = scheduler_add(m1, t)
  OBVIOUS
<1> HIDE DEF m1, m2
<1>9. /\ Good(m2, Tail(b), z) /\ m2.arrival = Append(m1.arrival, t)
      /\ m2.tick = m1.tick /\ m2.flags = m1.flags
  <2> DEFINE b2 == Tail(b)
  <2>1. Good(m1, b2, z) /\ Unlisted(t, m1.arrival, b2, z)
    BY <1>8
  <2> HIDE DEF b2
  <2>2. /\ Good(m2, b2, z) /\ m2.arrival = Append(m1.arrival, t)
        /\ m2.tick = m1.tick /\ m2.flags = m1.flags
    BY <1>8a, <2>1, AddLists
  <2> QED BY <2>2 DEF b2
<1>10. m2.arrival = m.arrival \o SubSeq(s, 1, i + 1)
  BY <1>2, <1>3, <1>4, <1>8, <1>9
<1>11. \A u : (\E j \in 1..(i + 1) : u = s[j]) <=> (u = t \/ \E j \in 1..i : u = s[j])
  <2>1. \A j : j \in 1..(i + 1) <=> j = i + 1 \/ j \in 1..i
    BY <1>1
  <2> QED BY <1>4, <2>1
<1>12. w.tick \in [Thread -> Nat] /\ w.flags \in [Thread -> SUBSET {SLEPT, ZOMBIE}]
  BY <1>3 DEF Good, ListsType
<1>13. ASSUME NEW u \in Thread
       PROVE  m2.tick[u] = IF \E j \in 1..(i + 1) : u = s[j] THEN 0 ELSE m.tick[u]
  <2>1. m2.tick[u] = IF u = t THEN 0 ELSE w.tick[u]
    BY <1>8, <1>9, <1>12
  <2>2. w.tick[u] = IF \E j \in 1..i : u = s[j] THEN 0 ELSE m.tick[u]
    BY <1>3
  <2>3. (\E j \in 1..(i + 1) : u = s[j]) <=> (u = t \/ \E j \in 1..i : u = s[j])
    BY <1>11
  <2> QED BY <2>1, <2>2, <2>3
<1>14. ASSUME NEW u \in Thread
       PROVE  m2.flags[u] = IF \E j \in 1..(i + 1) : u = s[j] THEN Toggle(m.flags[u]) ELSE m.flags[u]
  <2>1. m2.flags[u] = IF u = t THEN Toggle(w.flags[t]) ELSE w.flags[u]
    BY <1>4, <1>8, <1>9, <1>12
  <2>2. w.flags[t] = m.flags[t]
    BY <1>3, <1>4, <1>5
  <2>3. w.flags[u] = IF \E j \in 1..i : u = s[j] THEN Toggle(m.flags[u]) ELSE m.flags[u]
    BY <1>3
  <2>4. (\E j \in 1..(i + 1) : u = s[j]) <=> (u = t \/ \E j \in 1..i : u = s[j])
    BY <1>11
  <2> QED BY <1>5, <2>1, <2>2, <2>3, <2>4
<1>15. WokenAt(m, m2, s, z, i + 1)
  BY <1>2, <1>9, <1>10, <1>13, <1>14 DEF WokenAt
<1> QED BY <1>7, <1>15

\* The wake loop takes the first n sleepers and charges the next one.
WokeUp(m, m2, s, n, e) ==
    /\ \A i \in 1..n : m.tick[s[i]] <= e
    /\ n < Len(s) => m.tick[s[n + 1]] > e
    /\ m2.arrival = m.arrival \o SubSeq(s, 1, n)
    /\ \A u \in Thread : m2.tick[u] =
          IF \E j \in 1..n : u = s[j] THEN 0
          ELSE IF n < Len(s) /\ u = s[n + 1] THEN m.tick[u] - e ELSE m.tick[u]
    /\ \A u \in Thread : m2.flags[u] =
          IF \E j \in 1..n : u = s[j] THEN Toggle(m.flags[u]) ELSE m.flags[u]

\* The loop stops at the first sleeper that is not due, before its turns are
\* used up.
LEMMA WakeStops ==
  ASSUME NEW m, NEW s, NEW z, Good(m, s, z), NEW e \in Nat
  PROVE  \E n \in 0..Len(s) :
            /\ \A i \in 1..n : m.tick[s[i]] <= e
            /\ n < Len(s) => m.tick[s[n + 1]] > e
            /\ WokenAt(m, Woken(m, e)[Turns], s, z, n)
            /\ Woken(m, e)[Turns].next[SleptHead] = IF n = Len(s) THEN NoThread ELSE s[n + 1]
<1> DEFINE W == Woken(m, e)
           len == Len(s)
           K == {l \in 0..len : l = len \/ m.tick[s[l + 1]] > e}
<1>1. /\ s \in Queue(Thread) /\ len \in Nat /\ len < Turns /\ Turns \in Nat
      /\ m.tick \in [Thread -> Nat]
      /\ \A i \in 1..len : s[i] \in Thread
  <2>1. s \in Queue(Thread) /\ m.tick \in [Thread -> Nat]
    BY DEF Good, Shape, Apart, ListsType
  <2> QED BY <2>1, ListFits, TurnsAre, OrderIs, ElementOfSeq
<1>2. W[0] = m /\ \A i \in 1..Turns : W[i] = WakeStep(W[i - 1], e)
  <2>1. \A i \in 0..Turns : W[i] = WokenNext(m, e, W, i)
    BY WokenIs
  <2> HIDE DEF W
  <2>2. W[0] = WokenNext(m, e, W, 0)
    BY <1>1, <2>1
  <2>3. \A i \in 1..Turns : i \in 0..Turns /\ i # 0
    OBVIOUS
  <2> QED BY <2>1, <2>2, <2>3 DEF WokenNext
<1> HIDE DEF W
<1>3. len \in K /\ K \subseteq Nat
  BY <1>1
<1>4. PICK n \in K : \A l \in K : n <= l
  <2> HIDE DEF K
  <2> QED BY <1>3, LeastNat
<1>5. n \in 0..len /\ n \in Nat
  BY <1>1
<1>6. ASSUME NEW j \in 0..(n - 1)
      PROVE  j \in 0..len /\ j # len /\ ~(m.tick[s[j + 1]] > e)
  <2>1. j \in 0..len /\ j # len /\ ~(n <= j)
    BY <1>1, <1>5
  <2>2. j \notin K
    BY <1>4, <2>1
  <2> QED BY <2>1, <2>2
<1>7. \A i \in 0..n : WokenAt(m, W[i], s, z, i)
  <2> DEFINE B == {i \in 0..n : ~WokenAt(m, W[i], s, z, i)}
  <2>1. SUFFICES ASSUME B # {} PROVE FALSE
    OBVIOUS
  <2>2. B \subseteq Nat
    BY <1>5
  <2>3. PICK j \in B : \A l \in B : j <= l
    <3> HIDE DEF B
    <3> QED BY <2>1, <2>2, LeastNat
  <2>4. WokenAt(m, W[0], s, z, 0)
    BY <1>2, WakeBegins
  <2>5. /\ j # 0 /\ j - 1 \in 0..n /\ j - 1 \in 0..(n - 1) /\ j \in 1..Turns
        /\ ~(j <= j - 1) /\ (j - 1) + 1 = j
    BY <1>1, <1>5, <2>3, <2>4
  <2>6. WokenAt(m, W[j - 1], s, z, j - 1)
    BY <2>3, <2>5
  <2> DEFINE i == j - 1
             w == W[j - 1]
  <2>7. /\ i \in 0..len /\ i # len /\ ~(m.tick[s[i + 1]] > e)
        /\ WokenAt(m, w, s, z, i) /\ i + 1 = j
    BY <1>6, <2>5, <2>6
  <2>8. WakeStep(w, e) = W[j]
    BY <1>2, <2>5
  <2> HIDE DEF i, w
  <2>9. WokenAt(m, WakeStep(w, e), s, z, i + 1)
    BY <2>7, WakeGoesOn
  <2>10. WokenAt(m, W[j], s, z, j)
    BY <2>7, <2>8, <2>9
  <2> QED BY <2>3, <2>10
<1>8. WokenAt(m, W[n], s, z, n)
  BY <1>5, <1>7
<1>9. W[n].next[SleptHead] = IF n = len THEN NoThread ELSE s[n + 1]
  <2> DEFINE b == SubSeq(s, n + 1, Len(s))
             nx == W[n].next
  <2>1. b \in Queue(Thread) /\ Forward(nx, SleptHead, ToSet(b), Order(b))
    BY <1>8 DEF WokenAt, Good, Shape, Apart, SleptList
  <2>2. n # len => b # <<>> /\ b[1] = s[n + 1]
    <3>1. s \in Seq(Thread)
      BY <1>1 DEF Queue
    <3> QED BY <1>5, <3>1, CutNext
  <2>3. n = len => b = <<>>
    <3>1. n = len => len < n + 1 /\ n + 1 \in Int /\ len \in Int
      BY <1>1
    <3> QED BY <3>1, SubSeqEmpty
  <2> HIDE DEF b, nx
  <2>4. nx[SleptHead] = IF b = <<>> THEN NoThread ELSE b[1]
    BY <2>1, NextInOrder
  <2> QED BY <2>2, <2>3, <2>4 DEF nx
<1>10. WakeStep(W[n], e) = W[n]
  <2>1. CASE n = len
    BY <1>9, <2>1 DEF WakeStep
  <2>2. CASE n # len
    <3>1. m.tick[s[n + 1]] > e
      BY <1>4, <2>2
    <3>2. ~\E j \in 1..n : s[n + 1] = s[j]
      <4>1. \A j, l \in 1..len : s[j] = s[l] => j = l
        BY <1>1, OrderIs
      <4>2. n + 1 \in 1..len /\ \A j \in 1..n : j \in 1..len /\ j # n + 1
        BY <1>1, <1>5, <2>2
      <4> QED BY <4>1, <4>2
    <3>3. s[n + 1] \in Thread
      BY <1>1, <1>5, <2>2
    <3>4. W[n].tick[s[n + 1]] = m.tick[s[n + 1]]
      BY <1>8, <3>2, <3>3 DEF WokenAt
    <3>5. W[n].next[SleptHead] = s[n + 1]
      BY <1>9, <2>2
    <3> QED BY <3>1, <3>4, <3>5 DEF WakeStep
  <2> QED BY <2>1, <2>2
<1>11. \A i \in n..Turns : W[i] = W[n]
  <2> DEFINE B == {i \in n..Turns : W[i] # W[n]}
  <2>1. SUFFICES ASSUME B # {} PROVE FALSE
    OBVIOUS
  <2>2. B \subseteq Nat
    BY <1>1, <1>5
  <2>3. PICK j \in B : \A l \in B : j <= l
    <3> HIDE DEF B
    <3> QED BY <2>1, <2>2, LeastNat
  <2>4. j # n /\ j \in 1..Turns /\ j - 1 \in n..Turns /\ ~(j <= j - 1)
    BY <1>1, <1>5, <2>3
  <2>5. W[j - 1] = W[n]
    BY <2>3, <2>4
  <2>6. W[j] = W[n]
    BY <1>2, <1>10, <2>4, <2>5
  <2> QED BY <2>3, <2>6
<1>12. W[Turns] = W[n]
  BY <1>1, <1>5, <1>11
<1>13. /\ \A i \in 1..n : m.tick[s[i]] <= e
       /\ n < len => m.tick[s[n + 1]] > e
  <2>1. ASSUME NEW i \in 1..n PROVE m.tick[s[i]] <= e
    <3>1. i - 1 \in 0..(n - 1) /\ (i - 1) + 1 = i /\ i \in 1..len
      BY <1>1, <1>5
    <3>2. ~(m.tick[s[i]] > e)
      BY <1>6, <3>1
    <3>3. m.tick[s[i]] \in Nat
      BY <1>1, <3>1
    <3> QED BY <3>2, <3>3
  <2>2. n < len => m.tick[s[n + 1]] > e
    BY <1>4
  <2> QED BY <2>1, <2>2
<1> QED BY <1>5, <1>8, <1>9, <1>12, <1>13 DEF W

LEMMA WakeLists ==
  ASSUME NEW m, NEW s, NEW z, Good(m, s, z), NEW e \in Nat, NEW m2, m2 = Wake(m, e)
  PROVE  \E n \in 0..Len(s) :
            /\ Good(m2, SubSeq(s, n + 1, Len(s)), z)
            /\ Held(m2.arrival, SubSeq(s, n + 1, Len(s)), z) = Held(m.arrival, s, z)
            /\ WokeUp(m, m2, s, n, e)
<1>1. PICK n \in 0..Len(s) :
         /\ \A i \in 1..n : m.tick[s[i]] <= e
         /\ n < Len(s) => m.tick[s[n + 1]] > e
         /\ WokenAt(m, Woken(m, e)[Turns], s, z, n)
         /\ Woken(m, e)[Turns].next[SleptHead] = IF n = Len(s) THEN NoThread ELSE s[n + 1]
  BY WakeStops
<1> DEFINE w == Woken(m, e)[Turns]
           t == w.next[SleptHead]
           r == SubSeq(s, n + 1, Len(s))
<1>2. m2 = IF t = NoThread THEN w ELSE [w EXCEPT !.tick[t] = @ - e]
  BY DEF Wake
<1>3. WokenAt(m, w, s, z, n) /\ t = IF n = Len(s) THEN NoThread ELSE s[n + 1]
  BY <1>1
<1> HIDE DEF w
<1>4. /\ Good(w, r, z) /\ w.arrival = m.arrival \o SubSeq(s, 1, n)
      /\ \A u \in Thread : w.tick[u] = IF \E j \in 1..n : u = s[j] THEN 0 ELSE m.tick[u]
      /\ \A u \in Thread : w.flags[u] =
            IF \E j \in 1..n : u = s[j] THEN Toggle(m.flags[u]) ELSE m.flags[u]
  BY <1>3 DEF WokenAt
<1>5. /\ s \in Queue(Thread) /\ Len(s) \in Nat /\ m.arrival \in Queue(Thread)
      /\ ToSet(m.arrival) \intersect ToSet(s) = {}
      /\ \A i \in 1..Len(s) : s[i] \in Thread
      /\ \A i, j \in 1..Len(s) : s[i] = s[j] => i = j
      /\ w \in ListsType
  <2>1. s \in Queue(Thread) /\ m.arrival \in Queue(Thread) /\ ToSet(m.arrival) \intersect ToSet(s) = {}
    BY DEF Good, Shape, Apart
  <2>2. w \in ListsType
    BY <1>4 DEF Good
  <2> QED BY <2>1, <2>2, OrderIs, ElementOfSeq
<1>6. t = NoThread <=> n = Len(s)
  BY <1>3, <1>5, Nodes
<1> DEFINE tick2 == IF t = NoThread THEN w.tick ELSE [w.tick EXCEPT ![t] = @ - e]
<1> HIDE DEF t
<1>7. m2 = [next |-> w.next, prev |-> w.prev, tail |-> w.tail, arrival |-> w.arrival,
            tick |-> tick2, flags |-> w.flags]
  <2>1. w = [next |-> w.next, prev |-> w.prev, tail |-> w.tail, arrival |-> w.arrival,
             tick |-> w.tick, flags |-> w.flags]
    BY <1>5 DEF ListsType
  <2>2. CASE t = NoThread
    BY <1>2, <2>1, <2>2
  <2>3. CASE t # NoThread
    <3>1. m2 = [w EXCEPT !.tick = [w.tick EXCEPT ![t] = @ - e]]
      BY <1>2, <2>3
    <3> QED BY <2>1, <2>3, <3>1
  <2> QED BY <2>2, <2>3
<1>8. w.tick \in [Thread -> Nat]
  BY <1>5 DEF ListsType
<1>9. n # Len(s) => /\ t = s[n + 1] /\ t \in Thread /\ m.tick[t] > e /\ w.tick[t] = m.tick[t]
  <2> SUFFICES ASSUME n # Len(s)
               PROVE  t = s[n + 1] /\ t \in Thread /\ m.tick[t] > e /\ w.tick[t] = m.tick[t]
    OBVIOUS
  <2>1. n + 1 \in 1..Len(s) /\ n < Len(s) /\ \A j \in 1..n : j \in 1..Len(s) /\ j # n + 1
    BY <1>5
  <2>2. t = s[n + 1] /\ t \in Thread /\ m.tick[t] > e
    BY <1>1, <1>3, <1>5, <2>1 DEF t
  <2>3. ~\E j \in 1..n : t = s[j]
    BY <1>5, <2>1, <2>2
  <2> QED BY <1>4, <2>2, <2>3
<1>10. \A u \in Thread : tick2[u] = IF n # Len(s) /\ u = t THEN w.tick[u] - e ELSE w.tick[u]
  BY <1>6, <1>8
<1>11. tick2 \in [Thread -> Nat]
  <2>1. CASE t = NoThread
    BY <1>8, <2>1
  <2>2. CASE t # NoThread
    <3>1. w.tick[t] \in Nat /\ w.tick[t] > e /\ t \in Thread
      BY <1>6, <1>8, <1>9, <2>2
    <3>2. w.tick[t] - e \in Nat
      BY <3>1
    <3> QED BY <1>8, <2>2, <3>2
  <2> QED BY <2>1, <2>2
<1> HIDE DEF tick2
<1>12. /\ m2.next = w.next /\ m2.prev = w.prev /\ m2.tail = w.tail /\ m2.arrival = w.arrival
       /\ m2.tick = tick2 /\ m2.flags = w.flags
  BY <1>7
<1>13. m2 \in ListsType
  BY <1>5, <1>7, <1>11 DEF ListsType
<1>14. Good(m2, r, z)
  BY <1>4, <1>12, <1>13 DEF Good
<1>15. Held(m2.arrival, r, z) = Held(m.arrival, s, z)
  <2> DEFINE a == SubSeq(s, 1, n)
  <2>1. a \in Queue(Thread) /\ ToSet(a) \union ToSet(r) = ToSet(s)
    BY <1>5, QueueSplit
  <2>2. ToSet(m.arrival \o a) = ToSet(m.arrival) \union ToSet(a)
    BY <1>5, <2>1, QueueConcat
  <2> QED BY <1>4, <1>12, <2>1, <2>2 DEF Held
<1>16. WokeUp(m, m2, s, n, e)
  <2>1. ASSUME NEW u \in Thread
        PROVE  m2.tick[u] =
                  IF \E j \in 1..n : u = s[j] THEN 0
                  ELSE IF n < Len(s) /\ u = s[n + 1] THEN m.tick[u] - e ELSE m.tick[u]
    <3>1. m2.tick[u] = IF n # Len(s) /\ u = t THEN w.tick[u] - e ELSE w.tick[u]
      BY <1>10, <1>12
    <3>2. w.tick[u] = IF \E j \in 1..n : u = s[j] THEN 0 ELSE m.tick[u]
      BY <1>4
    <3>3. n # Len(s) <=> n < Len(s)
      BY <1>5
    <3>4. n # Len(s) /\ u = s[n + 1] => ~\E j \in 1..n : u = s[j]
      <4>1. n # Len(s) => n + 1 \in 1..Len(s) /\ \A j \in 1..n : j \in 1..Len(s) /\ j # n + 1
        BY <1>5
      <4> QED BY <1>5, <4>1
    <3>5. n # Len(s) => t = s[n + 1]
      BY <1>9
    <3> QED BY <3>1, <3>2, <3>3, <3>4, <3>5
  <2>2. \A u \in Thread : m2.flags[u] =
           IF \E j \in 1..n : u = s[j] THEN Toggle(m.flags[u]) ELSE m.flags[u]
    BY <1>4, <1>12
  <2>3. m2.arrival = m.arrival \o SubSeq(s, 1, n)
    BY <1>4, <1>12
  <2> QED BY <1>1, <2>1, <2>2, <2>3 DEF WokeUp
<1> QED BY <1>14, <1>15, <1>16

\* A list that is not empty starts with one of its threads.
LEMMA HeadOf ==
  ASSUME NEW m, NEW s, NEW z, Good(m, s, z), NEW p \in Priority
  PROVE  /\ m.next[p] = NoThread => Of(m.arrival, p) = {}
         /\ m.next[p] # NoThread => m.next[p] \in Of(m.arrival, p)
<1>1. Forward(m.next, p, Of(m.arrival, p), Order(m.arrival))
  BY DEF Good, Shape, ActiveList
<1>2. NoThread \notin Of(m.arrival, p)
  BY ListsInThread, Nodes DEF Good, Shape
<1> QED BY <1>1, <1>2 DEF Forward, IsFirst

LEMMA NoTarget ==
  ASSUME NEW m, NEW s, NEW z, Good(m, s, z), Target(m) = NoThread
  PROVE  m.arrival = <<>>
<1>1. m.arrival \in Queue(Thread) /\ m.arrival \in Seq(Thread)
  BY DEF Good, Shape, Apart, Queue
<1>2. \A p \in Priority : m.next[p] = NoThread
  <2> SUFFICES ASSUME NEW o \in Priority, m.next[o] # NoThread PROVE FALSE
    OBVIOUS
  <2> DEFINE busy == {p \in Priority : m.next[p] # NoThread}
             c == CHOOSE p \in busy : \A l \in busy : p <= l
  <2>1. busy # {} /\ busy \subseteq Nat
    BY SchedListsAssumption DEF Priority
  <2>2. \E p \in busy : \A l \in busy : p <= l
    <3> HIDE DEF busy
    <3> QED BY <2>1, LeastNat
  <2>3. c \in busy
    <3> HIDE DEF busy
    <3> QED BY <2>2
  <2>4. Target(m) = m.next[c]
    BY <2>1 DEF Target
  <2> HIDE DEF c
  <2> QED BY <2>3, <2>4
<1>3. \A p \in Priority : Of(m.arrival, p) = {}
  BY <1>2, HeadOf
<1>4. ToSet(m.arrival) = {}
  BY <1>1, <1>3, Members, Nodes DEF Of
<1>5. Len(m.arrival) \in Nat /\ \A i \in 1..Len(m.arrival) : m.arrival[i] \in ToSet(m.arrival)
  BY <1>1, OrderIs
<1>6. Len(m.arrival) = 0
  BY <1>4, <1>5
<1> QED BY <1>1, <1>6, EmptySeq

\* The target is the first thread of its list, and no better list has one.
LEMMA TargetIs ==
  ASSUME NEW m, NEW s, NEW z, Good(m, s, z), NEW t, t = Target(m), t # NoThread
  PROVE  /\ t \in Thread /\ t \in Of(m.arrival, priority[t]) /\ m.next[priority[t]] = t
         /\ \A o \in Priority : o < priority[t] => m.next[o] = NoThread
<1> DEFINE busy == {p \in Priority : m.next[p] # NoThread}
           c == CHOOSE p \in busy : \A l \in busy : p <= l
<1>1. busy # {} /\ t = m.next[c]
  BY DEF Target
<1>2. busy \subseteq Nat
  BY SchedListsAssumption DEF Priority
<1>3. c \in busy /\ \A l \in busy : c <= l
  <2> HIDE DEF busy
  <2>1. \E p \in busy : \A l \in busy : p <= l
    BY <1>1, <1>2, LeastNat
  <2> QED BY <2>1
<1> HIDE DEF c
<1>4. t \in Of(m.arrival, c)
  BY <1>1, <1>3, HeadOf
<1>5. t \in ToSet(m.arrival) /\ priority[t] = c
  BY <1>4 DEF Of
<1>6. t \in Thread
  BY <1>5, ListsInThread DEF Good, Shape
<1>7. ASSUME NEW o \in Priority, o < priority[t] PROVE m.next[o] = NoThread
  <2>1. o \in Nat /\ c \in Nat /\ ~(c <= o)
    BY <1>2, <1>3, <1>5, <1>7, SchedListsAssumption DEF Priority
  <2> QED BY <1>3, <2>1
<1> QED BY <1>1, <1>4, <1>5, <1>6, <1>7

\* i is the place of the head of the first list that is not empty.
TargetAt(q, i) ==
    /\ \A j \in 1..Len(q) : priority[q[i]] <= priority[q[j]]
    /\ \A j \in 1..(i - 1) : priority[q[i]] < priority[q[j]]

\* What the end of scheduler_pick makes of the lists w, t the thread to run.
Taken(w, m2, t) ==
    /\ m2.tick = w.tick /\ m2.flags = w.flags
    /\ IF t = NoThread THEN w.arrival = <<>> /\ m2.arrival = w.arrival
       ELSE \E i \in 1..Len(w.arrival) :
               /\ w.arrival[i] = t /\ m2.arrival = RemoveAt(w.arrival, i)
               /\ TargetAt(w.arrival, i)

LEMMA TakeLists ==
  ASSUME NEW m, NEW s, NEW z, Good(m, s, z), NEW t, t = Target(m), t # NoThread,
         NEW m2, m2 = UnlinkTarget(m, t)
  PROVE  /\ Taken(m, m2, t) /\ Good(m2, s, z)
         /\ t \in Held(m.arrival, s, z)
         /\ Held(m2.arrival, s, z) = Held(m.arrival, s, z) \ {t}
<1> DEFINE q == m.arrival
           p == priority[t]
           c == CHOOSE o \in Priority : m.next[o] = t /\ \A l \in 0..(o - 1) : m.next[l] = NoThread
           i == CHOOSE l \in DOMAIN q : q[l] = t
<1>1. /\ t \in Thread /\ t \in Of(q, p) /\ m.next[p] = t /\ p \in Priority
      /\ \A o \in Priority : o < p => m.next[o] = NoThread
  BY TargetIs, Nodes
<1>2. /\ m \in ListsType /\ q \in Queue(Thread) /\ q \in Seq(Thread)
      /\ s \in Queue(Thread) /\ z \in Queue(Thread)
      /\ ToSet(q) \intersect ToSet(s) = {} /\ ToSet(q) \intersect ToSet(z) = {}
      /\ \A o \in Priority : o \in Nat /\ o <= PRIORITY_MAX - 1
      /\ PRIORITY_MAX \in Nat
  BY SchedListsAssumption DEF Good, Shape, Apart, Queue, Priority
<1>3. c = p
  <2>1. \A l \in 0..(p - 1) : l \in Priority /\ l < p
    BY <1>1, <1>2 DEF Priority
  <2>2. m.next[p] = t /\ \A l \in 0..(p - 1) : m.next[l] = NoThread
    BY <1>1, <2>1
  <2>3. c \in Priority /\ m.next[c] = t
    <3> HIDE DEF p, q
    <3> QED BY <1>1, <2>2
  <2> HIDE DEF c
  <2>4. t \in Of(q, c)
    BY <2>3, HeadOf
  <2> QED BY <2>4 DEF Of
<1>4. /\ Len(q) \in Nat /\ DOMAIN q = 1..Len(q)
      /\ \A a \in ToSet(q) : \E l \in 1..Len(q) : a = q[l]
      /\ \A l \in 1..Len(q) : q[l] \in ToSet(q) /\ q[l] \in Thread
      /\ \A j, l \in 1..Len(q) : q[j] = q[l] => j = l
      /\ \A j, l \in 1..Len(q) : <<q[j], q[l]>> \in Order(q) <=> j < l
  BY <1>2, OrderIs, LenProperties, ElementOfSeq
<1>5. i \in 1..Len(q) /\ q[i] = t
  <2>1. \E l \in DOMAIN q : q[l] = t
    BY <1>1, <1>4 DEF Of
  <2> HIDE DEF q
  <2> QED BY <1>4, <2>1
<1>6. Without(q, t) = RemoveAt(q, i)
  BY DEF Without
<1> HIDE DEF i
<1> DEFINE next2 == [m.next EXCEPT ![p] = m.next[t]]
           prev2 == [u \in Node |-> IF u = m.next[t] THEN p ELSE m.prev[u]]
           tail2 == [m.tail EXCEPT ![p] = IF m.tail[p] = t THEN p ELSE m.tail[p]]
<1>7. m2 = [next |-> next2, prev |-> prev2, tail |-> tail2, arrival |-> RemoveAt(q, i),
            tick |-> m.tick, flags |-> m.flags]
  <2>1. UnlinkTarget(m, t) =
          [m EXCEPT !.next = [m.next EXCEPT ![c] = m.next[t]],
                    !.prev = [u \in Node |-> IF u = m.next[t] THEN c ELSE m.prev[u]],
                    !.tail = [m.tail EXCEPT ![c] = IF m.tail[c] = t THEN c ELSE m.tail[c]],
                    !.arrival = Without(m.arrival, t)]
    <3>1. m.tail \in [Priority -> Node]
      BY <1>2 DEF ListsType
    <3> QED BY <3>1 DEF UnlinkTarget
  <2> HIDE DEF c
  <2>2. m2 = [m EXCEPT !.next = next2, !.prev = prev2, !.tail = tail2, !.arrival = RemoveAt(q, i)]
    BY <1>3, <1>6, <2>1
  <2> HIDE DEF next2, prev2, tail2, p
  <2> QED BY <1>2, <2>2 DEF ListsType
<1> HIDE DEF c
<1>8. /\ m2.next = next2 /\ m2.prev = prev2 /\ m2.tail = tail2 /\ m2.arrival = RemoveAt(q, i)
      /\ m2.tick = m.tick /\ m2.flags = m.flags
  BY <1>7
<1>9. /\ m.next \in [Node -> Thread \union {NoThread}] /\ m.prev \in [Node -> Node \union {NoThread}]
      /\ m.tail \in [Priority -> Node]
      /\ m.tick \in [Thread -> Nat] /\ m.flags \in [Thread -> SUBSET {SLEPT, ZOMBIE}]
      /\ p \in Node /\ t \in Node /\ \A u \in Thread : u \in Node
  BY <1>1, <1>2, Nodes DEF ListsType
<1>10. m2 \in ListsType
  <2>1. next2 \in [Node -> Thread \union {NoThread}] /\ tail2 \in [Priority -> Node]
    BY <1>1, <1>9
  <2>2. prev2 \in [Node -> Node \union {NoThread}]
    BY <1>1, <1>9
  <2>3. RemoveAt(q, i) \in Seq(Thread)
    BY <1>2, <1>5, RemovedAt
  <2> HIDE DEF next2, prev2, tail2, p, q
  <2> QED BY <1>7, <1>9, <2>1, <2>2, <2>3 DEF ListsType
<1>11. /\ Shape(m2.next, m2.prev, RemoveAt(q, i), s, z) /\ Tails(m2.tail, RemoveAt(q, i))
       /\ FirstOf(t, q, p)
  <2> DEFINE nx == m.next
             nx2 == m2.next
             pv == m.prev
             pv2 == m2.prev
             tl == m.tail
             tl2 == m2.tail
  <2>1. t = nx[p]
    BY <1>1
  <2>2. HeadUnlinked(nx, nx2, pv, pv2, tl, tl2, p, t)
    BY <1>1, <1>8, <1>9 DEF HeadUnlinked
  <2>3. Shape(nx, pv, q, s, z) /\ Tails(tl, q)
    BY DEF Good
  <2> HIDE DEF nx, nx2, pv, pv2, tl, tl2, p, q
  <2>4. /\ Shape(nx2, pv2, RemoveAt(q, i), s, z) /\ Tails(tl2, RemoveAt(q, i))
        /\ FirstOf(t, q, p)
    BY <1>1, <1>5, <2>1, <2>2, <2>3, TakeShape
  <2> QED BY <2>4 DEF nx2, pv2, tl2
<1>12. Good(m2, s, z)
  BY <1>8, <1>10, <1>11 DEF Good
<1>13. TargetAt(q, i)
  <2>1. ASSUME NEW j \in 1..Len(q), j # i
        PROVE  priority[q[j]] \in Nat /\ p \in Nat /\ ~(priority[q[j]] < p)
    <3> DEFINE o == priority[q[j]]
    <3>1. o \in Priority /\ q[j] \in Of(q, o)
      BY <1>4, Nodes DEF Of
    <3>2. ~(o < p)
      BY <1>1, <3>1, HeadOf
    <3> QED BY <1>1, <1>2, <3>1, <3>2
  <2>2. ASSUME NEW j \in 1..(i - 1) PROVE p # priority[q[j]] /\ j \in 1..Len(q) /\ j # i
    <3>1. j \in 1..Len(q) /\ j < i /\ j # i /\ ~(i < j)
      BY <1>4, <1>5
    <3>2. q[j] # t /\ <<t, q[j]>> \notin Order(q)
      BY <1>4, <1>5, <3>1
    <3>3. q[j] \notin Of(q, p)
      BY <1>11, <3>2 DEF FirstOf
    <3> QED BY <1>4, <3>1, <3>3 DEF Of
  <2>3. p \in Nat
    BY <1>1, <1>2
  <2>4. ASSUME NEW j \in 1..Len(q) PROVE p <= priority[q[j]]
    <3>1. CASE j = i
      BY <1>5, <2>3, <3>1
    <3>2. CASE j # i
      BY <2>1, <3>2
    <3> QED BY <3>1, <3>2
  <2>5. ASSUME NEW j \in 1..(i - 1) PROVE p < priority[q[j]]
    BY <2>1, <2>2
  <2> QED BY <1>5, <2>4, <2>5 DEF TargetAt
<1>14. t \in Held(q, s, z) /\ Held(RemoveAt(q, i), s, z) = Held(q, s, z) \ {t}
  <2>1. ToSet(RemoveAt(q, i)) = ToSet(q) \ {t}
    BY <1>2, <1>5, QueueRemove
  <2>2. t \in ToSet(q)
    BY <1>1 DEF Of
  <2> HIDE DEF q
  <2> QED BY <1>2, <2>1, <2>2 DEF Held
<1> HIDE DEF p
<1>15. Taken(m, m2, t)
  BY <1>5, <1>8, <1>13 DEF Taken
<1> QED BY <1>8, <1>12, <1>14, <1>15

-----------------------------------------------------------------------------
(* What Chain reads out of the links *)

ChainNext(next, f, x) ==
    IF x[2] = 0 \/ next[x[1]] = NoThread THEN <<>>
    ELSE <<next[x[1]]>> \o f[<<next[x[1]], x[2] - 1>>]

ChainOf(next, head) ==
    LET from[x \in Node \X (0..Turns)] ==
            LET n == next[x[1]] IN
            IF x[2] = 0 \/ n = NoThread THEN <<>> ELSE <<n>> \o from[<<n, x[2] - 1>>]
    IN from[<<head, Turns>>]

LEMMA ChainExists ==
  ASSUME NEW next \in [Node -> Thread \union {NoThread}]
  PROVE  \A l \in Nat : \E f : f = [x \in Node \X (0..l) |-> ChainNext(next, f, x)]
<1> DEFINE Part(n) == \E f : f = [x \in Node \X (0..n) |-> ChainNext(next, f, x)]
           T == {n \in Nat : ~Part(n)}
<1>1. ASSUME T # {} PROVE FALSE
  <2>1. PICK n \in T : \A l \in T : n <= l
    <3>1. T \subseteq Nat
      OBVIOUS
    <3> HIDE DEF T
    <3> QED BY <1>1, <3>1, LeastNat
  <2>2. n \in Nat /\ ~Part(n)
    BY <2>1
  <2>3. n # 0
    <3> DEFINE g == [x \in Node \X (0..0) |-> <<>>]
    <3>1. \A x \in Node \X (0..0) : ChainNext(next, g, x) = <<>>
      <4>1. \A x \in Node \X (0..0) : x[2] = 0
        OBVIOUS
      <4> QED BY <4>1 DEF ChainNext
    <3>2. g = [x \in Node \X (0..0) |-> ChainNext(next, g, x)]
      BY <3>1
    <3> QED BY <2>2, <3>2
  <2>4. n - 1 \in Nat /\ ~(n <= n - 1)
    BY <2>2, <2>3
  <2>5. Part(n - 1)
    BY <2>1, <2>4
  <2>6. PICK f : f = [x \in Node \X (0..(n - 1)) |-> ChainNext(next, f, x)]
    BY <2>5
  <2> DEFINE g == [x \in Node \X (0..n) |-> IF x[2] <= n - 1 THEN f[x] ELSE ChainNext(next, f, x)]
  <2>7. \A x \in Node \X (0..(n - 1)) : f[x] = ChainNext(next, f, x)
    BY <2>6
  <2>8. ASSUME NEW x \in Node \X (0..n) PROVE g[x] = ChainNext(next, g, x)
    <3>1. x[1] \in Node /\ x[2] \in 0..n
      OBVIOUS
    <3>2. g[x] = ChainNext(next, f, x)
      <4>1. CASE x[2] <= n - 1
        <5>1. x \in Node \X (0..(n - 1))
          BY <2>4, <4>1
        <5> QED BY <2>7, <4>1, <5>1
      <4>2. CASE ~(x[2] <= n - 1)
        BY <4>2
      <4> QED BY <4>1, <4>2
    <3>3. ASSUME x[2] # 0, next[x[1]] # NoThread
          PROVE  g[<<next[x[1]], x[2] - 1>>] = f[<<next[x[1]], x[2] - 1>>]
      <4> DEFINE y == <<next[x[1]], x[2] - 1>>
      <4>1. next[x[1]] \in Node
        BY <3>1, <3>3 DEF Node
      <4>2. x[2] - 1 \in 0..n /\ x[2] - 1 <= n - 1
        BY <2>4, <3>1, <3>3
      <4>3. y \in Node \X (0..n) /\ y[2] = x[2] - 1
        BY <4>1, <4>2
      <4> HIDE DEF y
      <4> QED BY <4>2, <4>3 DEF y
    <3> HIDE DEF g
    <3> QED BY <3>2, <3>3 DEF ChainNext
  <2>9. g = [x \in Node \X (0..n) |-> g[x]]
    OBVIOUS
  <2> HIDE DEF g
  <2>10. g = [x \in Node \X (0..n) |-> ChainNext(next, g, x)]
    BY <2>8, <2>9
  <2> QED BY <2>2, <2>10
<1> QED BY <1>1

\* On a whole list, Chain is the queue of its threads.
LEMMA ChainIs ==
  ASSUME NEW next \in [Node -> Thread \union {NoThread}], NEW head \in Node,
         NEW s \in Queue(Thread), Forward(next, head, ToSet(s), Order(s))
  PROVE  ChainOf(next, head) = s
<1> DEFINE C == CHOOSE f : f = [x \in Node \X (0..Turns) |-> ChainNext(next, f, x)]
           n == Len(s)
           node(i) == IF i = 0 THEN head ELSE s[i]
           Right(j) == C[<<node(n - j), Turns - (n - j)>>] = SubSeq(s, (n - j) + 1, n)
<1>1. n \in Nat /\ n < Turns /\ Turns \in Nat /\ s \in Seq(Thread)
  BY ListFits, TurnsAre DEF Queue
<1>2. \A x \in Node \X (0..Turns) : C[x] = ChainNext(next, C, x)
  <2>1. C = [x \in Node \X (0..Turns) |-> ChainNext(next, C, x)]
    BY <1>1, ChainExists
  <2> HIDE DEF C
  <2> QED BY <2>1
<1>3. ChainOf(next, head) = C[<<head, Turns>>]
  BY DEF ChainOf, ChainNext
<1> HIDE DEF C
<1>4. \A i \in 0..n : /\ next[node(i)] = IF i = n THEN NoThread ELSE s[i + 1]
                      /\ node(i) \in Node
  <2>1. /\ next[head] = IF s = <<>> THEN NoThread ELSE s[1]
        /\ \A i \in 1..n : next[s[i]] = IF i = n THEN NoThread ELSE s[i + 1]
    BY NextInOrder
  <2>2. s = <<>> <=> n = 0
    BY OrderIs, EmptySeq
  <2>3. \A i \in 1..n : s[i] \in Node
    BY <1>1, ElementOfSeq DEF Node
  <2> QED BY <1>1, <2>1, <2>2, <2>3
<1>5. \A i \in 0..n : C[<<node(i), Turns - i>>] =
         IF i = n THEN <<>> ELSE <<s[i + 1]>> \o C[<<s[i + 1], (Turns - i) - 1>>]
  <2> SUFFICES ASSUME NEW i \in 0..n
               PROVE  C[<<node(i), Turns - i>>] =
                         IF i = n THEN <<>> ELSE <<s[i + 1]>> \o C[<<s[i + 1], (Turns - i) - 1>>]
    OBVIOUS
  <2> DEFINE x == <<node(i), Turns - i>>
  <2>1. Turns - i \in 0..Turns /\ Turns - i # 0
    BY <1>1
  <2>2. node(i) \in Node /\ next[node(i)] = IF i = n THEN NoThread ELSE s[i + 1]
    BY <1>4
  <2> HIDE DEF node
  <2>3. x \in Node \X (0..Turns) /\ x[1] = node(i) /\ x[2] = Turns - i
    BY <2>1, <2>2
  <2>4. C[x] = ChainNext(next, C, x)
    BY <1>2, <2>3
  <2>5. i # n => s[i + 1] # NoThread
    <3>1. i # n => i + 1 \in 1..n
      BY <1>1
    <3>2. i # n => s[i + 1] \in Thread
      BY <1>1, <3>1, ElementOfSeq
    <3> QED BY <3>2, Nodes
  <2> QED BY <2>1, <2>2, <2>3, <2>4, <2>5 DEF ChainNext
<1>6. Right(0)
  <2>1. n - 0 = n /\ n \in 0..n /\ n < n + 1 /\ n \in Int /\ n + 1 \in Int
    BY <1>1
  <2>2. SubSeq(s, n + 1, n) = <<>>
    BY <2>1, SubSeqEmpty
  <2>3. C[<<node(n), Turns - n>>] = <<>>
    BY <1>5, <2>1
  <2> HIDE DEF node
  <2> QED BY <2>1, <2>2, <2>3
<1>7. ASSUME NEW j \in 1..n, Right(j - 1) PROVE Right(j)
  <2> DEFINE i == n - j
  <2>1. /\ i \in 0..n /\ i # n /\ n - (j - 1) = i + 1 /\ i + 1 \in 1..n /\ i + 1 # 0
        /\ (Turns - i) - 1 = Turns - (i + 1) /\ n \in (i + 1)..n
    BY <1>1
  <2> HIDE DEF i
  <2>2. C[<<s[i + 1], Turns - (i + 1)>>] = SubSeq(s, (i + 1) + 1, n)
    <3>1. C[<<node(i + 1), Turns - (i + 1)>>] = SubSeq(s, (i + 1) + 1, n)
      BY <1>7, <2>1
    <3> QED BY <2>1, <3>1
  <2>3. C[<<node(i), Turns - i>>] = <<s[i + 1]>> \o C[<<s[i + 1], Turns - (i + 1)>>]
    <3> HIDE DEF node
    <3> QED BY <1>5, <2>1
  <2>4. SubSeq(s, i + 1, n) = <<s[i + 1]>> \o SubSeq(s, (i + 1) + 1, n)
    BY <1>1, <2>1, SubSeqRecursiveFirst
  <2> QED BY <2>2, <2>3, <2>4 DEF i
<1>8. \A j \in 0..n : Right(j)
  <2> DEFINE B == {j \in 0..n : ~Right(j)}
  <2>1. SUFFICES ASSUME B # {} PROVE FALSE
    OBVIOUS
  <2>2. B \subseteq Nat
    BY <1>1
  <2>3. PICK j \in B : \A l \in B : j <= l
    <3> HIDE DEF B
    <3> QED BY <2>1, <2>2, LeastNat
  <2>4. j \in 0..n /\ ~Right(j)
    BY <2>3
  <2>5. j # 0
    BY <1>6, <2>4
  <2>6. j \in 1..n /\ j - 1 \in 0..n /\ ~(j <= j - 1)
    BY <1>1, <2>4, <2>5
  <2>7. Right(j - 1)
    <3> HIDE DEF Right
    <3> QED BY <2>3, <2>6
  <2> HIDE DEF Right
  <2> QED BY <1>7, <2>4, <2>6, <2>7
<1>9. C[<<node(0), Turns>>] = SubSeq(s, 1, n)
  <2>1. n \in 0..n /\ n - n = 0 /\ Turns - 0 = Turns /\ 0 + 1 = 1
    BY <1>1
  <2>2. Right(n)
    BY <1>8, <2>1
  <2> HIDE DEF node
  <2> QED BY <2>1, <2>2
<1> QED BY <1>1, <1>3, <1>9, SubSeqFull

-----------------------------------------------------------------------------
(* scheduler_pick *)

\* c is parked in m1, n sleepers are woken in w and t is taken in m2.
PickedBy(m, m1, w, m2, c, t, e, s, s1, z, z1, n) ==
    /\ Parked(m, m1, s, s1, z, z1, c) /\ m1.flags = m.flags
    /\ Good(m1, s1, z1) /\ n \in 0..Len(s1)
    /\ WokeUp(m1, w, s1, n, e)
    /\ Good(w, SubSeq(s1, n + 1, Len(s1)), z1)
    /\ Taken(w, m2, t)
    /\ Good(m2, SubSeq(s1, n + 1, Len(s1)), z1)
    /\ t = NoThread \/ t \in Held(m.arrival, s, z) \union {c}
    /\ Held(m2.arrival, SubSeq(s1, n + 1, Len(s1)), z1) = (Held(m.arrival, s, z) \union {c}) \ {t}

LEMMA TakeTarget ==
  ASSUME NEW m, NEW s, NEW z, Good(m, s, z), NEW t, t = Target(m),
         NEW m2, m2 = IF t = NoThread THEN m ELSE UnlinkTarget(m, t)
  PROVE  /\ Taken(m, m2, t) /\ Good(m2, s, z)
         /\ t = NoThread \/ t \in Held(m.arrival, s, z)
         /\ Held(m2.arrival, s, z) = Held(m.arrival, s, z) \ {t}
<1>1. CASE t = NoThread
  <2>1. m.arrival = <<>> /\ m2 = m
    BY <1>1, NoTarget
  <2>2. NoThread \notin Held(m.arrival, s, z)
    BY ListsInThread, Nodes DEF Good, Shape, Held
  <2> QED BY <1>1, <2>1, <2>2 DEF Taken
<1>2. CASE t # NoThread
  <2>1. m2 = UnlinkTarget(m, t)
    BY <1>2
  <2>2. /\ Taken(m, m2, t) /\ Good(m2, s, z)
        /\ t \in Held(m.arrival, s, z)
        /\ Held(m2.arrival, s, z) = Held(m.arrival, s, z) \ {t}
    BY <1>2, <2>1, TakeLists
  <2> QED BY <2>2
<1> QED BY <1>1, <1>2

LEMMA PickLists ==
  ASSUME NEW m, NEW s, NEW z, NEW c, Good(m, s, z), Unlisted(c, m.arrival, s, z), NEW e \in Nat,
         NEW m1, m1 = Park(m, c), NEW w, w = Wake(m1, e), NEW t, t = Target(w),
         NEW m2, m2 = IF t = NoThread THEN w ELSE UnlinkTarget(w, t)
  PROVE  \E s1, z1, n : PickedBy(m, m1, w, m2, c, t, e, s, s1, z, z1, n)
<1>1. PICK s1, z1 :
         /\ Good(m1, s1, z1) /\ m1.flags = m.flags
         /\ Held(m1.arrival, s1, z1) = Held(m.arrival, s, z) \union {c}
         /\ Parked(m, m1, s, s1, z, z1, c)
  BY ParkLists
<1>2. PICK n \in 0..Len(s1) :
         /\ Good(w, SubSeq(s1, n + 1, Len(s1)), z1)
         /\ Held(w.arrival, SubSeq(s1, n + 1, Len(s1)), z1) = Held(m1.arrival, s1, z1)
         /\ WokeUp(m1, w, s1, n, e)
  BY <1>1, WakeLists
<1> DEFINE r == SubSeq(s1, n + 1, Len(s1))
<1> HIDE DEF r
<1>3. Good(w, r, z1) /\ Held(w.arrival, r, z1) = Held(m.arrival, s, z) \union {c}
  BY <1>1, <1>2 DEF r
<1>4. /\ Taken(w, m2, t) /\ Good(m2, r, z1)
      /\ t = NoThread \/ t \in Held(w.arrival, r, z1)
      /\ Held(m2.arrival, r, z1) = Held(w.arrival, r, z1) \ {t}
  BY <1>3, TakeTarget
<1>5. PickedBy(m, m1, w, m2, c, t, e, s, s1, z, z1, n)
  BY <1>1, <1>2, <1>3, <1>4 DEF PickedBy, r
<1> QED BY <1>5

-----------------------------------------------------------------------------
(* The inductive invariant *)

TheLists == Lists(flags, sleep_tick)

\* Between the last two stores of scheduler_run the tail is one behind.
ListsOK(s, z) ==
    /\ TheLists \in ListsType
    /\ Shape(mem.next, mem.prev, arrival, s, z)
    /\ IF adding.at = "tail" THEN TailsBehind(mem.tail, arrival, adding.thread)
       ELSE Tails(mem.tail, arrival)

\* Who is on a list or running was started; nobody on a list is running.
MembersOK(s, z) ==
    /\ Held(arrival, s, z) \union {current} \subseteq created \union {NoThread}
    /\ current \notin Held(arrival, s, z)
    /\ current \in Thread \union {NoThread}

\* kmain starts the idle thread, the cleaner and then the processes.
MayRun(t) ==
    /\ t \notin created
    /\ t = Cleaner => Idle \in created
    /\ t \in Process => Cleaner \in created

\* kmain is inside scheduler_run only while it runs, with a new thread whose
\* links are set.
AddingOK ==
    \/ adding = NotAdding
    \/ /\ current = Main
       /\ \E t \in Thread :
             \/ /\ adding = [thread |-> t, tail |-> mem.tail[priority[t]], at |-> "link"]
                /\ MayRun(t)
                /\ mem.next[t] = NoThread /\ mem.prev[t] = mem.tail[priority[t]]
             \/ \E tl : adding = [thread |-> t, tail |-> tl, at |-> "tail"]

MemType == [next : [Node -> Thread \union {NoThread}], prev : [Node -> Node \union {NoThread}],
            tail : [Priority -> Node]]

IInv ==
    /\ elapsed \in Nat /\ mem \in MemType
    /\ AddingOK
    /\ \E s, z : ListsOK(s, z) /\ MembersOK(s, z)

\* The operations on the record of lists are what scheduler_pick does.
LEMMA PickFacts ==
  ASSUME NEW s, NEW z, ListsOK(s, z), MembersOK(s, z), adding.at # "tail", current # NoThread,
         NEW e \in Nat, NEW f \in [Thread -> SUBSET {SLEPT, ZOMBIE}], NEW d \in [Thread -> Nat],
         NEW left, scheduler_pick(e, f, d, left)
  PROVE  \E m1, w, s1, z1, n :
            PickedBy(Lists(f, d), m1, w, TheLists', current, current', e, s, s1, z, z1, n)
<1> DEFINE m == Lists(f, d)
           c == current
           m1 == Park(m, c)
           w == Wake(m1, e)
           t == Target(w)
           m2 == IF t = NoThread THEN w ELSE UnlinkTarget(w, t)
<1>1. Good(m, s, z)
  <2>1. /\ TheLists \in ListsType /\ Shape(mem.next, mem.prev, arrival, s, z)
        /\ Tails(mem.tail, arrival)
    BY DEF ListsOK
  <2>2. m \in ListsType
    BY <2>1 DEF TheLists, Lists, ListsType
  <2>3. m.next = mem.next /\ m.prev = mem.prev /\ m.tail = mem.tail /\ m.arrival = arrival
    BY DEF Lists
  <2> HIDE DEF m
  <2> QED BY <2>1, <2>2, <2>3 DEF Good
<1>2. Unlisted(c, m.arrival, s, z)
  BY DEF MembersOK, Unlisted, Held, Lists
<1>3. \E s1, z1, n : PickedBy(m, m1, w, m2, c, t, e, s, s1, z, z1, n)
  <2>1. m1 = Park(m, c) /\ w = Wake(m1, e) /\ t = Target(w)
        /\ m2 = IF t = NoThread THEN w ELSE UnlinkTarget(w, t)
    OBVIOUS
  <2> HIDE DEF m, c, m1, w, t, m2
  <2> QED BY <1>1, <1>2, <2>1, PickLists
<1>4. PICK s1, z1, n : PickedBy(m, m1, w, m2, c, t, e, s, s1, z, z1, n)
  BY <1>3
<1>5. /\ mem' = [next |-> m2.next, prev |-> m2.prev, tail |-> m2.tail]
      /\ arrival' = m2.arrival /\ sleep_tick' = m2.tick /\ flags' = m2.flags /\ current' = t
  <2> HIDE DEF m, Target, UnlinkTarget
  <2> QED BY DEF scheduler_pick, m
<1> HIDE DEF m, c, m1, w, t, m2
<1>6. m2 \in ListsType
  BY <1>4 DEF PickedBy, Good
<1>7. TheLists' = m2
  <2>1. TheLists' = [next |-> m2.next, prev |-> m2.prev, tail |-> m2.tail,
                     arrival |-> m2.arrival, tick |-> m2.tick, flags |-> m2.flags]
    BY <1>5 DEF TheLists, Lists
  <2> QED BY <1>6, <2>1 DEF ListsType
<1>8. PickedBy(m, m1, w, TheLists', c, current', e, s, s1, z, z1, n)
  BY <1>4, <1>5, <1>7
<1> QED BY <1>8 DEF m, c

\* After a pick, with the queues that PickFacts finds.
LEMMA PickNext ==
  ASSUME NEW s, NEW z, NEW e, NEW f, NEW d, NEW m1, NEW w, NEW s1, NEW z1, NEW n,
         PickedBy(Lists(f, d), m1, w, TheLists', current, current', e, s, s1, z, z1, n),
         (adding.at # "tail")'
  PROVE  ListsOK(SubSeq(s1, n + 1, Len(s1)), z1)'
<1> DEFINE r == SubSeq(s1, n + 1, Len(s1))
           m == TheLists'
<1>1. Good(m, r, z1)
  BY DEF PickedBy
<1> HIDE DEF r
<1>2. m.next = (mem.next)' /\ m.prev = (mem.prev)' /\ m.tail = (mem.tail)' /\ m.arrival = arrival'
  BY DEF TheLists, Lists
<1> HIDE DEF m
<1>3. /\ m \in ListsType /\ Shape(mem'.next, mem'.prev, arrival', r, z1)
      /\ Tails(mem'.tail, arrival')
  BY <1>1, <1>2 DEF Good
<1>4. ListsOK(r, z1)'
  BY <1>3 DEF ListsOK, m
<1> QED BY <1>4 DEF r

LEMMA PickKeeps ==
  ASSUME NEW s, NEW z, ListsOK(s, z), MembersOK(s, z), adding = NotAdding, current # NoThread,
         elapsed \in Nat, created' = created, adding' = adding,
         NEW e \in Nat, NEW f \in [Thread -> SUBSET {SLEPT, ZOMBIE}], NEW d \in [Thread -> Nat],
         NEW left, scheduler_pick(e, f, d, left)
  PROVE  IInv'
<1>1. adding.at = "out"
  BY DEF NotAdding
<1>2. PICK m1, w, s1, z1, n :
        PickedBy(Lists(f, d), m1, w, TheLists', current, current', e, s, s1, z, z1, n)
  BY <1>1, PickFacts
<1> DEFINE r == SubSeq(s1, n + 1, Len(s1))
           m == TheLists'
<1>3. /\ Good(m, r, z1)
      /\ current' = NoThread \/ current' \in Held(arrival, s, z) \union {current}
      /\ Held(arrival', r, z1) = (Held(arrival, s, z) \union {current}) \ {current'}
  <2>1. m.arrival = arrival' /\ Lists(f, d).arrival = arrival
    BY DEF TheLists, Lists
  <2> HIDE DEF m
  <2> QED BY <1>2, <2>1 DEF PickedBy, m
<1> HIDE DEF r
<1>4. ListsOK(r, z1)'
  BY <1>1, <1>2, PickNext DEF r
<1>5. MembersOK(r, z1)'
  <2>1. Held(arrival, s, z) \subseteq Thread
    BY ListsInThread DEF ListsOK, Shape, Held
  <2> QED BY <1>3, <2>1 DEF MembersOK
<1>6. mem' \in MemType
  <2>1. m = [next |-> (mem.next)', prev |-> (mem.prev)', tail |-> (mem.tail)', arrival |-> arrival',
             tick |-> sleep_tick', flags |-> flags']
    BY DEF TheLists, Lists
  <2>2. /\ (mem.next)' \in [Node -> Thread \union {NoThread}]
        /\ (mem.prev)' \in [Node -> Node \union {NoThread}]
        /\ (mem.tail)' \in [Priority -> Node]
    <3>1. m \in ListsType
      BY <1>3 DEF Good
    <3> HIDE DEF m
    <3> QED BY <2>1, <3>1 DEF ListsType
  <2>3. \E a, b, c : mem' = [next |-> a, prev |-> b, tail |-> c]
    BY DEF scheduler_pick
  <2> QED BY <2>2, <2>3 DEF MemType
<1>7. elapsed' \in Nat
  BY DEF scheduler_pick
<1>8. AddingOK'
  BY DEF AddingOK
<1> QED BY <1>4, <1>5, <1>6, <1>7, <1>8 DEF IInv

LEMMA ChainsAre ==
  ASSUME NEW s, NEW z, ListsOK(s, z), mem \in MemType
  PROVE  Chain(SleptHead) = s /\ Chain(ZombieHead) = z
<1>1. /\ s \in Queue(Thread) /\ z \in Queue(Thread)
      /\ Forward(mem.next, SleptHead, ToSet(s), Order(s))
      /\ Forward(mem.next, ZombieHead, ToSet(z), Order(z))
  BY DEF ListsOK, Shape, Apart, SleptList, ZombieList
<1>2. mem.next \in [Node -> Thread \union {NoThread}] /\ SleptHead \in Node /\ ZombieHead \in Node
  BY Nodes DEF MemType
<1>3. \A h : Chain(h) = ChainOf(mem.next, h)
  BY DEF Chain, ChainOf
<1> DEFINE nx == mem.next
<1> HIDE DEF nx
<1>4. ChainOf(nx, SleptHead) = s /\ ChainOf(nx, ZombieHead) = z
  <2>1. /\ nx \in [Node -> Thread \union {NoThread}]
        /\ Forward(nx, SleptHead, ToSet(s), Order(s))
        /\ Forward(nx, ZombieHead, ToSet(z), Order(z))
    BY <1>1, <1>2 DEF nx
  <2> QED BY <1>1, <1>2, <2>1, ChainIs
<1> QED BY <1>3, <1>4 DEF nx

\* The same of the next state.
LEMMA ChainsAreNext ==
  ASSUME NEW s, NEW z, ListsOK(s, z)', mem' \in MemType
  PROVE  Chain(SleptHead)' = s /\ Chain(ZombieHead)' = z
<1>1. /\ s \in Queue(Thread) /\ z \in Queue(Thread)
      /\ Forward(mem'.next, SleptHead, ToSet(s), Order(s))
      /\ Forward(mem'.next, ZombieHead, ToSet(z), Order(z))
  BY DEF ListsOK, Shape, Apart, SleptList, ZombieList
<1>2. mem'.next \in [Node -> Thread \union {NoThread}] /\ SleptHead \in Node /\ ZombieHead \in Node
  BY Nodes DEF MemType
<1>3. Chain(SleptHead)' = ChainOf(mem'.next, SleptHead)
      /\ Chain(ZombieHead)' = ChainOf(mem'.next, ZombieHead)
  BY DEF Chain, ChainOf
<1> DEFINE nx == mem'.next
<1> HIDE DEF nx
<1>4. ChainOf(nx, SleptHead) = s /\ ChainOf(nx, ZombieHead) = z
  <2>1. /\ nx \in [Node -> Thread \union {NoThread}]
        /\ Forward(nx, SleptHead, ToSet(s), Order(s))
        /\ Forward(nx, ZombieHead, ToSet(z), Order(z))
    BY <1>1, <1>2 DEF nx
  <2> QED BY <1>1, <1>2, <2>1, ChainIs
<1> QED BY <1>3, <1>4 DEF nx

SameChains ==
    Chain(SleptHead)' = Chain(SleptHead) /\ Chain(ZombieHead)' = Chain(ZombieHead)

\* Only the links of t are written.
OnlyLinksOf(t, next, next2, prev, prev2) ==
    /\ \A n \in Node \ {t} : next2[n] = next[n]
    /\ \A n \in Thread \ {t} : prev2[n] = prev[n]

\* A thread on no list can be written freely.
LEMMA OutsideKept ==
  ASSUME NEW next, NEW next2, NEW prev, NEW prev2, NEW q, NEW s, NEW z, NEW t,
         Shape(next, prev, q, s, z), Unlisted(t, q, s, z),
         OnlyLinksOf(t, next, next2, prev, prev2)
  PROVE  Shape(next2, prev2, q, s, z)
<1>0. /\ \A n \in Node \ {t} : next2[n] = next[n]
      /\ \A n \in Thread \ {t} : prev2[n] = prev[n]
  BY DEF OnlyLinksOf
<1>1. /\ t \in Thread /\ t \notin ToSet(q) /\ t \notin ToSet(s) /\ t \notin ToSet(z)
      /\ ToSet(q) \subseteq Thread /\ ToSet(s) \subseteq Thread /\ ToSet(z) \subseteq Thread
      /\ \A p : Of(q, p) \subseteq ToSet(q)
      /\ Apart(q, s, z)
  BY ListsInThread DEF Shape, Unlisted
<1>2. ASSUME NEW p \in Priority PROVE ActiveList(next2, prev2, q, p)
  <2>1. ActiveList(next, prev, q, p)
    BY DEF Shape
  <2>2. \A n \in Of(q, p) \union {p} : next2[n] = next[n]
    BY <1>0, <1>1, Nodes
  <2>3. \A n \in Of(q, p) : prev2[n] = prev[n]
    BY <1>0, <1>1
  <2>4. SameOrder(Order(q), Order(q), Of(q, p))
    BY SameOrderReflexive
  <2> QED BY <2>1, <2>2, <2>3, <2>4, ActiveKept
<1>3. SleptList(next2, prev2, s)
  <2>1. \A n \in ToSet(s) \union {SleptHead} : next2[n] = next[n]
    BY <1>0, <1>1, Nodes
  <2>2. \A n \in ToSet(s) : prev2[n] = prev[n]
    BY <1>0, <1>1
  <2> QED BY <2>1, <2>2, SleptKept DEF Shape
<1>4. ZombieList(next2, z)
  <2>1. \A n \in ToSet(z) \union {ZombieHead} : next2[n] = next[n]
    BY <1>0, <1>1, Nodes
  <2> QED BY <2>1, ZombieKept DEF Shape
<1> QED BY <1>1, <1>2, <1>3, <1>4 DEF Shape

LEMMA FieldTypes ==
  ASSUME IInv
  PROVE  /\ elapsed \in Nat /\ flags \in [Thread -> SUBSET {SLEPT, ZOMBIE}]
         /\ sleep_tick \in [Thread -> Nat] /\ arrival \in Seq(Thread)
         /\ mem.next \in [Node -> Thread \union {NoThread}]
         /\ mem.prev \in [Node -> Node \union {NoThread}] /\ mem.tail \in [Priority -> Node]
         /\ mem = [next |-> mem.next, prev |-> mem.prev, tail |-> mem.tail]
<1>1. TheLists \in ListsType /\ mem \in MemType /\ elapsed \in Nat
  BY DEF IInv, ListsOK
<1>2. /\ flags \in [Thread -> SUBSET {SLEPT, ZOMBIE}] /\ sleep_tick \in [Thread -> Nat]
      /\ arrival \in Seq(Thread)
  BY <1>1 DEF TheLists, Lists, ListsType
<1> QED BY <1>1, <1>2 DEF MemType

\* Only kmain is ever inside scheduler_run.
LEMMA OnlyMainAdds ==
  ASSUME IInv, current # Main
  PROVE  adding = NotAdding
BY DEF IInv, AddingOK

LEMMA InitInv == Init => IInv /\ Chain(SleptHead) = <<>> /\ Chain(ZombieHead) = <<>>
<1> SUFFICES ASSUME Init PROVE IInv /\ Chain(SleptHead) = <<>> /\ Chain(ZombieHead) = <<>>
  OBVIOUS
<1>1. /\ mem = [next |-> [n \in Node |-> NoThread], prev |-> [n \in Node |-> NoThread],
                tail |-> [p \in Priority |-> p]]
      /\ arrival = <<>> /\ adding = NotAdding /\ elapsed = 0 /\ current = Main /\ created = {Main}
      /\ sleep_tick = [t \in Thread |-> 0] /\ flags = [t \in Thread |-> {}]
  BY DEF Init
<1>2. ToSet(<<>>) = {} /\ <<>> \in Queue(Thread) /\ \A p : Of(<<>>, p) = {}
  <2>1. <<>> \in Seq(Thread) /\ Len(<<>>) = 0 /\ DOMAIN <<>> = {}
    BY EmptySeq
  <2>2. ToSet(<<>>) = {}
    BY <2>1 DEF ToSet
  <2>3. IsInjective(<<>>)
    BY <2>1 DEF IsInjective
  <2> QED BY <2>1, <2>2, <2>3 DEF Queue, Of
<1>3. mem \in MemType
  BY <1>1 DEF MemType, Node
<1>4. ListsOK(<<>>, <<>>)
  <2>1. TheLists \in ListsType
    <3>1. flags \in [Thread -> SUBSET {SLEPT, ZOMBIE}] /\ sleep_tick \in [Thread -> Nat]
          /\ arrival \in Seq(Thread)
      BY <1>1, <1>2 DEF Queue
    <3> QED BY <1>3, <3>1 DEF TheLists, Lists, ListsType, MemType
  <2>2. mem.next = [n \in Node |-> NoThread] /\ mem.prev = [n \in Node |-> NoThread]
        /\ mem.tail = [p \in Priority |-> p] /\ adding.at = "out"
    BY <1>1 DEF NotAdding
  <2>3. \A h \in Node : mem.next[h] = NoThread
    BY <2>2
  <2>4. Shape(mem.next, mem.prev, <<>>, <<>>, <<>>)
    <3>1. Apart(<<>>, <<>>, <<>>)
      BY <1>2 DEF Apart
    <3>2. \A p \in Priority : ActiveList(mem.next, mem.prev, <<>>, p)
      BY <1>2, <2>3, Nodes DEF ActiveList, Forward, Backward, IsFirst
    <3>3. SleptList(mem.next, mem.prev, <<>>)
      BY <1>2, <2>3, Nodes DEF SleptList, Forward, Backward, IsFirst
    <3>4. ZombieList(mem.next, <<>>)
      BY <1>2, <2>3, Nodes DEF ZombieList, Forward, IsFirst
    <3> QED BY <3>1, <3>2, <3>3, <3>4 DEF Shape
  <2>5. Tails(mem.tail, <<>>)
    BY <1>2, <2>2 DEF Tails, IsLast
  <2> QED BY <1>1, <2>1, <2>2, <2>4, <2>5 DEF ListsOK
<1>5. MembersOK(<<>>, <<>>)
  BY <1>1, <1>2 DEF MembersOK, Held, Thread
<1>6. AddingOK
  BY <1>1 DEF AddingOK
<1>7. Chain(SleptHead) = <<>> /\ Chain(ZombieHead) = <<>>
  BY <1>3, <1>4, ChainsAre
<1> QED BY <1>1, <1>3, <1>4, <1>5, <1>6, <1>7 DEF IInv

LEMMA RunBeginInv ==
  ASSUME IInv, NEW t \in Thread, RunBegin(t)
  PROVE  IInv' /\ SameChains
<1> DEFINE tl == mem.tail[priority[t]]
           next2 == [mem.next EXCEPT ![t] = NoThread]
           prev2 == [mem.prev EXCEPT ![t] = tl]
<1>1. PICK s, z : ListsOK(s, z) /\ MembersOK(s, z)
  BY DEF IInv
<1>2. /\ elapsed \in Nat /\ flags \in [Thread -> SUBSET {SLEPT, ZOMBIE}]
      /\ sleep_tick \in [Thread -> Nat] /\ arrival \in Seq(Thread)
      /\ mem.next \in [Node -> Thread \union {NoThread}]
      /\ mem.prev \in [Node -> Node \union {NoThread}] /\ mem.tail \in [Priority -> Node]
      /\ mem = [next |-> mem.next, prev |-> mem.prev, tail |-> mem.tail]
  BY FieldTypes
<1>3. /\ MayRun(t) /\ t \notin created /\ adding = NotAdding /\ adding.at = "out" /\ current = Main
      /\ adding' = [thread |-> t, tail |-> tl, at |-> "link"]
      /\ UNCHANGED <<arrival, flags, sleep_tick, elapsed, current, created>>
  BY DEF RunBegin, unmoved, NotAdding, MayRun
<1>4. /\ t \in Node /\ priority[t] \in Priority /\ tl \in Node /\ t # NoThread
  BY <1>2, Nodes
<1>5. mem' = [next |-> next2, prev |-> prev2, tail |-> mem.tail]
  <2>1. mem' = [mem EXCEPT !.next = next2, !.prev = prev2]
    BY DEF RunBegin
  <2> HIDE DEF next2, prev2
  <2> QED BY <1>2, <2>1
<1>6. Unlisted(t, arrival, s, z)
  BY <1>1, <1>3, <1>4 DEF MembersOK, Unlisted, Held
<1>7. Shape(mem.next, mem.prev, arrival, s, z) /\ Tails(mem.tail, arrival)
  BY <1>1, <1>3 DEF ListsOK
<1>8. /\ \A n \in Node \ {t} : next2[n] = mem.next[n]
      /\ \A n \in Thread \ {t} : prev2[n] = mem.prev[n]
      /\ next2[t] = NoThread /\ prev2[t] = tl
      /\ next2 \in [Node -> Thread \union {NoThread}] /\ prev2 \in [Node -> Node \union {NoThread}]
  BY <1>2, <1>4, Nodes
<1> HIDE DEF next2, prev2
<1>9. mem'.next = next2 /\ mem'.prev = prev2 /\ mem'.tail = mem.tail /\ mem' \in MemType
  BY <1>2, <1>5, <1>8 DEF MemType
<1>10. Shape(next2, prev2, arrival, s, z)
  <2> DEFINE nx == mem.next
             pv == mem.prev
  <2>1. Shape(nx, pv, arrival, s, z) /\ OnlyLinksOf(t, nx, next2, pv, prev2)
    BY <1>7, <1>8 DEF OnlyLinksOf
  <2> HIDE DEF nx, pv
  <2> QED BY <1>6, <2>1, OutsideKept
<1>11. ListsOK(s, z)'
  <2>1. TheLists' \in ListsType
    BY <1>2, <1>3, <1>9 DEF TheLists, Lists, ListsType, MemType
  <2>2. (adding.at # "tail")'
    BY <1>3
  <2> QED BY <1>3, <1>7, <1>9, <1>10, <2>1, <2>2 DEF ListsOK
<1>12. MembersOK(s, z)'
  BY <1>1, <1>3 DEF MembersOK
<1>13. AddingOK'
  BY <1>3, <1>8, <1>9 DEF AddingOK, MayRun
<1>14. SameChains
  <2>1. Chain(SleptHead) = s /\ Chain(ZombieHead) = z
    BY <1>1, ChainsAre DEF IInv
  <2>2. Chain(SleptHead)' = s /\ Chain(ZombieHead)' = z
    BY <1>1, <1>9, <1>11, ChainsAreNext
  <2> QED BY <2>1, <2>2 DEF SameChains
<1> QED BY <1>14, <1>2, <1>3, <1>9, <1>11, <1>12, <1>13 DEF IInv

\* Whichever of list->tail and the register is stored, it is the tail.
LEMMA RunLinkInv ==
  ASSUME IInv, RunLink
  PROVE  IInv' /\ SameChains
<1> DEFINE t == adding.thread
           tl == mem.tail[priority[t]]
           next2 == [mem.next EXCEPT ![tl] = t]
<1>1. PICK s, z : ListsOK(s, z) /\ MembersOK(s, z)
  BY DEF IInv
<1>2. /\ elapsed \in Nat /\ flags \in [Thread -> SUBSET {SLEPT, ZOMBIE}]
      /\ sleep_tick \in [Thread -> Nat] /\ arrival \in Seq(Thread)
      /\ mem.next \in [Node -> Thread \union {NoThread}]
      /\ mem.prev \in [Node -> Node \union {NoThread}] /\ mem.tail \in [Priority -> Node]
      /\ mem = [next |-> mem.next, prev |-> mem.prev, tail |-> mem.tail]
  BY FieldTypes
<1>3. /\ t \in Thread /\ adding = [thread |-> t, tail |-> tl, at |-> "link"] /\ MayRun(t)
      /\ t \notin created /\ mem.next[t] = NoThread /\ mem.prev[t] = tl
  <2>1. adding.at = "link" /\ AddingOK
    BY DEF RunLink, IInv
  <2>2. PICK u \in Thread :
           \/ /\ adding = [thread |-> u, tail |-> mem.tail[priority[u]], at |-> "link"]
              /\ MayRun(u)
              /\ mem.next[u] = NoThread /\ mem.prev[u] = mem.tail[priority[u]]
           \/ \E o : adding = [thread |-> u, tail |-> o, at |-> "tail"]
    BY <2>1 DEF AddingOK, NotAdding
  <2>3. /\ adding = [thread |-> u, tail |-> mem.tail[priority[u]], at |-> "link"]
        /\ MayRun(u)
        /\ mem.next[u] = NoThread /\ mem.prev[u] = mem.tail[priority[u]]
    BY <2>1, <2>2
  <2> QED BY <2>3 DEF MayRun
<1>4. /\ t \in Node /\ priority[t] \in Priority /\ tl \in Node /\ t # NoThread
  BY <1>2, <1>3, Nodes
<1>5. mem' = [next |-> next2, prev |-> mem.prev, tail |-> mem.tail]
  <2>1. adding.tail = tl
    BY <1>3
  <2>2. mem' = [mem EXCEPT !.next = next2]
    BY <2>1 DEF RunLink
  <2> HIDE DEF next2
  <2> QED BY <1>2, <2>2
<1>6. /\ arrival' = Append(arrival, t) /\ created' = created \union {t} /\ current = Main
      /\ UNCHANGED <<flags, sleep_tick, elapsed, current>>
      /\ adding' = [thread |-> t, tail |-> tl, at |-> "tail"] /\ adding.at = "link"
  BY <1>3 DEF RunLink
<1>7. Unlisted(t, arrival, s, z)
  BY <1>1, <1>3, <1>4 DEF MembersOK, Unlisted, Held
<1>8. Shape(mem.next, mem.prev, arrival, s, z) /\ Tails(mem.tail, arrival)
  BY <1>1, <1>6 DEF ListsOK
<1>9. tl # t
  <2>1. IsLast(tl, Of(arrival, priority[t]), Order(arrival), priority[t])
    BY <1>4, <1>8 DEF Tails
  <2>2. tl \in Of(arrival, priority[t]) \union {priority[t]}
    BY <2>1 DEF IsLast
  <2>3. t \notin Of(arrival, priority[t]) /\ t # priority[t]
    BY <1>3, <1>7, Nodes DEF Unlisted, Of
  <2> QED BY <2>2, <2>3
<1>10. /\ next2[t] = NoThread /\ next2[tl] = t /\ \A n \in Node \ {t, tl} : next2[n] = mem.next[n]
       /\ next2 \in [Node -> Thread \union {NoThread}]
  BY <1>2, <1>3, <1>4, <1>9
<1> HIDE DEF next2
<1>11. mem'.next = next2 /\ mem'.prev = mem.prev /\ mem'.tail = mem.tail /\ mem' \in MemType
  BY <1>2, <1>5, <1>10 DEF MemType
<1>12. Shape(next2, mem.prev, Append(arrival, t), s, z) /\ TailsBehind(mem.tail, Append(arrival, t), t)
  <2> DEFINE nx == mem.next
             pv == mem.prev
             tail == mem.tail
             q == arrival
  <2>1. /\ next2[t] = NoThread /\ next2[tl] = t /\ \A n \in Node \ {t, tl} : next2[n] = nx[n]
        /\ pv[t] = tl /\ \A n \in Thread \ {t} : pv[n] = pv[n]
        /\ Shape(nx, pv, q, s, z) /\ Tails(tail, q) /\ tl = tail[priority[t]]
        /\ Unlisted(t, q, s, z)
    BY <1>3, <1>7, <1>8, <1>10
  <2> HIDE DEF nx, pv, tail, q, t, tl
  <2>2. Shape(next2, pv, Append(q, t), s, z) /\ TailsBehind(tail, Append(q, t), t)
    BY <2>1, AddShape
  <2> QED BY <2>2 DEF pv, tail, q
<1> HIDE DEF t, tl
<1>13. ListsOK(s, z)'
  <2>1. arrival' \in Seq(Thread)
    BY <1>2, <1>3, <1>6, AppendProperties
  <2>2. TheLists' \in ListsType
    BY <1>2, <1>6, <1>11, <2>1 DEF TheLists, Lists, ListsType, MemType
  <2>3. (adding.at = "tail")' /\ (adding.thread)' = t
    BY <1>6
  <2> QED BY <1>6, <1>11, <1>12, <2>2, <2>3 DEF ListsOK
<1>14. MembersOK(s, z)'
  <2>1. ToSet(Append(arrival, t)) = ToSet(arrival) \union {t}
    <3>1. arrival \in Queue(Thread)
      BY <1>8 DEF Shape, Apart
    <3> QED BY <1>3, <1>7, <3>1, QueueAppend DEF Unlisted
  <2>2. current \in created
    BY <1>1, <1>6, Nodes DEF MembersOK, Thread
  <2> QED BY <1>1, <1>3, <1>6, <2>1, <2>2 DEF MembersOK, Held
<1>15. AddingOK'
  BY <1>3, <1>6 DEF AddingOK
<1>16. SameChains
  <2>1. Chain(SleptHead) = s /\ Chain(ZombieHead) = z
    BY <1>1, ChainsAre DEF IInv
  <2>2. Chain(SleptHead)' = s /\ Chain(ZombieHead)' = z
    BY <1>1, <1>11, <1>13, ChainsAreNext
  <2> QED BY <2>1, <2>2 DEF SameChains
<1> QED BY <1>16, <1>2, <1>6, <1>11, <1>13, <1>14, <1>15 DEF IInv

LEMMA RunTailInv ==
  ASSUME IInv, RunTail
  PROVE  IInv' /\ SameChains
<1> DEFINE t == adding.thread
           tail2 == [mem.tail EXCEPT ![priority[t]] = t]
<1>1. PICK s, z : ListsOK(s, z) /\ MembersOK(s, z)
  BY DEF IInv
<1>2. /\ elapsed \in Nat /\ flags \in [Thread -> SUBSET {SLEPT, ZOMBIE}]
      /\ sleep_tick \in [Thread -> Nat] /\ arrival \in Seq(Thread)
      /\ mem.next \in [Node -> Thread \union {NoThread}]
      /\ mem.prev \in [Node -> Node \union {NoThread}] /\ mem.tail \in [Priority -> Node]
      /\ mem = [next |-> mem.next, prev |-> mem.prev, tail |-> mem.tail]
  BY FieldTypes
<1>3. /\ adding.at = "tail" /\ adding' = NotAdding
      /\ UNCHANGED <<arrival, flags, sleep_tick, elapsed, current, created>>
  BY DEF RunTail, unmoved
<1>4. t \in Thread /\ t \in Node /\ priority[t] \in Priority
  <2>1. t \in Thread
    BY <1>3 DEF IInv, AddingOK, NotAdding
  <2> QED BY <2>1, Nodes
<1>5. mem' = [next |-> mem.next, prev |-> mem.prev, tail |-> tail2]
  <2>1. mem' = [mem EXCEPT !.tail = tail2]
    BY DEF RunTail
  <2> HIDE DEF tail2
  <2> QED BY <1>2, <2>1
<1>6. /\ tail2[priority[t]] = t /\ \A p \in Priority \ {priority[t]} : tail2[p] = mem.tail[p]
      /\ tail2 \in [Priority -> Node]
  BY <1>2, <1>4
<1> HIDE DEF tail2
<1>7. mem'.next = mem.next /\ mem'.prev = mem.prev /\ mem'.tail = tail2 /\ mem' \in MemType
  BY <1>2, <1>5, <1>6 DEF MemType
<1>8. Shape(mem.next, mem.prev, arrival, s, z) /\ TailsBehind(mem.tail, arrival, t)
  BY <1>1, <1>3 DEF ListsOK
<1>9. Tails(tail2, arrival)
  BY <1>4, <1>6, <1>8 DEF Tails, TailsBehind
<1> HIDE DEF t
<1>10. ListsOK(s, z)'
  <2>1. TheLists' \in ListsType
    BY <1>2, <1>3, <1>7 DEF TheLists, Lists, ListsType, MemType
  <2>2. (adding.at # "tail")'
    BY <1>3 DEF NotAdding
  <2> QED BY <1>3, <1>7, <1>8, <1>9, <2>1, <2>2 DEF ListsOK
<1>11. MembersOK(s, z)'
  BY <1>1, <1>3 DEF MembersOK
<1>12. AddingOK'
  BY <1>3 DEF AddingOK
<1>13. SameChains
  <2>1. Chain(SleptHead) = s /\ Chain(ZombieHead) = z
    BY <1>1, ChainsAre DEF IInv
  <2>2. Chain(SleptHead)' = s /\ Chain(ZombieHead)' = z
    BY <1>1, <1>7, <1>10, ChainsAreNext
  <2> QED BY <2>1, <2>2 DEF SameChains
<1> QED BY <1>13, <1>2, <1>3, <1>7, <1>10, <1>11, <1>12 DEF IInv

Popped ==
    /\ Chain(SleptHead)' = Chain(SleptHead)
    /\ IF mem.next[ZombieHead] = NoThread
       THEN Chain(ZombieHead) = <<>> /\ Chain(ZombieHead)' = <<>>
       ELSE /\ Chain(ZombieHead) # <<>> /\ mem.next[ZombieHead] = Chain(ZombieHead)[1]
            /\ Chain(ZombieHead)' = Tail(Chain(ZombieHead))

LEMMA PopInv ==
  ASSUME IInv, PopZombie
  PROVE  IInv' /\ Popped
<1> DEFINE t == mem.next[ZombieHead]
           next2 == [mem.next EXCEPT ![ZombieHead] = mem.next[t]]
<1>1. PICK s, z : ListsOK(s, z) /\ MembersOK(s, z)
  BY DEF IInv
<1>2. /\ elapsed \in Nat /\ flags \in [Thread -> SUBSET {SLEPT, ZOMBIE}]
      /\ sleep_tick \in [Thread -> Nat] /\ arrival \in Seq(Thread)
      /\ mem.next \in [Node -> Thread \union {NoThread}]
      /\ mem.prev \in [Node -> Node \union {NoThread}] /\ mem.tail \in [Priority -> Node]
      /\ mem = [next |-> mem.next, prev |-> mem.prev, tail |-> mem.tail]
  BY FieldTypes
<1>3. /\ current = Cleaner
      /\ UNCHANGED <<arrival, flags, sleep_tick, elapsed, current, created, adding>>
  BY DEF PopZombie
<1>4. adding = NotAdding /\ adding.at = "out"
  <2>1. current # Main
    BY <1>3, SchedListsAssumption
  <2> QED BY <2>1, OnlyMainAdds DEF NotAdding
<1>5. AddingOK'
  BY <1>3, <1>4 DEF AddingOK
<1>8. Chain(SleptHead) = s /\ Chain(ZombieHead) = z
  BY <1>1, ChainsAre DEF IInv
<1>6. CASE t = NoThread
  <2>1. mem' = mem
    BY <1>6 DEF PopZombie
  <2>2. ListsOK(s, z)' /\ MembersOK(s, z)'
    BY <1>1, <1>3, <2>1 DEF ListsOK, MembersOK, TheLists, Lists
  <2>3. elapsed' \in Nat /\ mem' \in MemType
    BY <1>3, <2>1 DEF IInv
  <2>4. ZombieHead \in Node /\ Chain(SleptHead)' = s /\ Chain(ZombieHead)' = z
    BY <2>2, <2>3, ChainsAreNext, Nodes
  <2>5. z = <<>>
    <3>1. z \in Queue(Thread) /\ z \in Seq(Thread) /\ Forward(mem.next, ZombieHead, ToSet(z), Order(z))
      BY <1>1 DEF ListsOK, Shape, Apart, ZombieList, Queue
    <3>2. ToSet(z) \subseteq Thread /\ NoThread \notin Thread
      BY <3>1, Members, Nodes
    <3>3. ToSet(z) = {}
      BY <1>6, <3>1, <3>2 DEF Forward, IsFirst
    <3>4. Len(z) \in Nat /\ \A i \in 1..Len(z) : z[i] \in ToSet(z)
      BY <3>1, OrderIs
    <3>5. Len(z) = 0
      BY <3>3, <3>4
    <3> QED BY <3>1, <3>5, EmptySeq
  <2>6. Popped
    BY <1>6, <1>8, <2>4, <2>5 DEF Popped
  <2> QED BY <1>5, <2>2, <2>3, <2>6 DEF IInv
<1>7. CASE t # NoThread
  <2>1. mem' = [next |-> next2, prev |-> mem.prev, tail |-> mem.tail]
    <3>1. mem' = [mem EXCEPT !.next = next2]
      BY <1>7 DEF PopZombie
    <3> HIDE DEF next2
    <3> QED BY <1>2, <3>1
  <2>2. ZombieHead \in Node /\ t \in Thread /\ t \in Node
    BY <1>2, <1>7, Nodes
  <2>3. /\ next2[ZombieHead] = mem.next[t]
        /\ \A n \in Node \ {ZombieHead} : next2[n] = mem.next[n]
        /\ next2 \in [Node -> Thread \union {NoThread}]
    BY <1>2, <2>2
  <2> HIDE DEF next2
  <2>4. mem'.next = next2 /\ mem'.prev = mem.prev /\ mem'.tail = mem.tail /\ mem' \in MemType
    BY <1>2, <2>1, <2>3 DEF MemType
  <2>5. Shape(mem.next, mem.prev, arrival, s, z) /\ Tails(mem.tail, arrival)
    BY <1>1, <1>4 DEF ListsOK
  <2>6. z # <<>> /\ t = z[1] /\ Shape(next2, mem.prev, arrival, s, Tail(z))
    <3> DEFINE nx == mem.next
               pv == mem.prev
    <3>1. /\ Shape(nx, pv, arrival, s, z) /\ t = nx[ZombieHead]
          /\ next2[ZombieHead] = nx[t] /\ \A n \in Node \ {ZombieHead} : next2[n] = nx[n]
      BY <2>3, <2>5
    <3> HIDE DEF nx, pv, t
    <3>2. z # <<>> /\ Shape(next2, pv, arrival, s, Tail(z))
      BY <1>7, <3>1, PopShape
    <3>3. z \in Queue(Thread) /\ Forward(nx, ZombieHead, ToSet(z), Order(z))
      BY <3>1 DEF Shape, Apart, ZombieList
    <3>4. nx[ZombieHead] = IF z = <<>> THEN NoThread ELSE z[1]
      BY <3>3, NextInOrder
    <3> QED BY <3>1, <3>2, <3>4 DEF pv
  <2>7. ListsOK(s, Tail(z))'
    <3>1. TheLists' \in ListsType
      BY <1>2, <1>3, <2>4 DEF TheLists, Lists, ListsType, MemType
    <3> QED BY <1>3, <1>4, <2>4, <2>5, <2>6, <3>1 DEF ListsOK
  <2>8. ToSet(Tail(z)) \subseteq ToSet(z)
    <3>1. z \in Queue(Thread)
      BY <2>5 DEF Shape, Apart
    <3> QED BY <2>6, <3>1, QueueHeadTail
  <2>9. MembersOK(s, Tail(z))'
    BY <1>1, <1>3, <2>8 DEF MembersOK, Held
  <2>10. Chain(SleptHead)' = s /\ Chain(ZombieHead)' = Tail(z)
    BY <2>4, <2>7, ChainsAreNext
  <2>11. Popped
    BY <1>7, <1>8, <2>6, <2>10 DEF Popped
  <2> QED BY <1>2, <1>3, <1>5, <2>4, <2>7, <2>9, <2>11 DEF IInv
<1> QED BY <1>6, <1>7

\* Steps that leave the lists alone.
LEMMA StayInv ==
  ASSUME IInv, elapsed' \in Nat, flags' \in [Thread -> SUBSET {SLEPT, ZOMBIE}],
         sleep_tick' \in [Thread -> Nat], UNCHANGED <<mem, arrival, current, adding, created>>
  PROVE  IInv'
<1>1. PICK s, z : ListsOK(s, z) /\ MembersOK(s, z)
  BY DEF IInv
<1>2. ListsOK(s, z)'
  <2>1. TheLists' \in ListsType
    <3>1. TheLists \in ListsType
      BY <1>1 DEF ListsOK
    <3> QED BY <3>1 DEF TheLists, Lists, ListsType
  <2> QED BY <1>1, <2>1 DEF ListsOK
<1>3. MembersOK(s, z)'
  BY <1>1 DEF MembersOK
<1>4. mem' \in MemType /\ AddingOK'
  BY DEF IInv, AddingOK, MayRun
<1> QED BY <1>2, <1>3, <1>4 DEF IInv

LEMMA NextInv ==
  ASSUME ~Interruptible, IInv, Next
  PROVE  IInv'
<1>1. /\ elapsed \in Nat /\ flags \in [Thread -> SUBSET {SLEPT, ZOMBIE}]
      /\ sleep_tick \in [Thread -> Nat]
  BY FieldTypes
<1>2. PICK s, z : ListsOK(s, z) /\ MembersOK(s, z)
  BY DEF IInv
<1>3. ASSUME NEW e \in Nat, NEW f \in [Thread -> SUBSET {SLEPT, ZOMBIE}], NEW d \in [Thread -> Nat],
             NEW left, scheduler_pick(e, f, d, left), adding = NotAdding, current \in Thread,
             created' = created, adding' = adding
      PROVE  IInv'
  <2>1. current # NoThread
    BY <1>3, Nodes
  <2> QED BY <1>1, <1>2, <1>3, <2>1, PickKeeps
<1>4. CASE scheduler_tick
  <2>1. current \in Thread /\ adding = NotAdding /\ created' = created /\ adding' = adding
    BY <1>4 DEF scheduler_tick, unmoved
  <2>2. CASE quantum = 1
    BY <1>1, <1>3, <1>4, <2>1, <2>2 DEF scheduler_tick
  <2>3. CASE quantum # 1
    BY <1>1, <1>4, <2>1, <2>3, StayInv DEF scheduler_tick
  <2> QED BY <2>2, <2>3
<1>5. ASSUME NEW p \in Process, NEW tick \in 0..MaxNap, usleep(p, tick) PROVE IInv'
  <2>1. current = p /\ created' = created /\ adding' = adding
    BY <1>5 DEF usleep
  <2>2. current \in Thread /\ adding = NotAdding
    BY <2>1, OnlyMainAdds, SchedListsAssumption DEF Thread
  <2>3. CASE tick = 0
    BY <1>1, <1>3, <1>5, <2>1, <2>2, <2>3 DEF usleep
  <2>4. CASE tick # 0
    <3> DEFINE f == [flags EXCEPT ![p] = @ \union {SLEPT}]
               d == [sleep_tick EXCEPT ![p] = tick]
    <3>1. f \in [Thread -> SUBSET {SLEPT, ZOMBIE}] /\ d \in [Thread -> Nat]
      <4>1. f \in [Thread -> SUBSET {SLEPT, ZOMBIE}]
        BY <1>1
      <4>2. tick \in Nat
        BY SchedListsAssumption
      <4>3. d \in [Thread -> Nat]
        BY <1>1, <4>2
      <4> QED BY <4>1, <4>3
    <3>2. scheduler_pick(elapsed, f, d, due)
      BY <1>5, <2>4 DEF usleep
    <3> HIDE DEF f, d
    <3> QED BY <1>1, <1>3, <2>1, <2>2, <3>1, <3>2
  <2> QED BY <2>3, <2>4
<1>6. ASSUME NEW p \in Process, exit(p) PROVE IInv'
  <2>1. current = p /\ created' = created /\ adding' = adding
    BY <1>6 DEF exit, unmoved
  <2>2. current \in Thread /\ adding = NotAdding
    BY <2>1, OnlyMainAdds, SchedListsAssumption DEF Thread
  <2> DEFINE f == [flags EXCEPT ![p] = @ \union {ZOMBIE}]
  <2>3. f \in [Thread -> SUBSET {SLEPT, ZOMBIE}]
    BY <1>1
  <2>4. scheduler_pick(elapsed, f, sleep_tick, due)
    BY <1>6 DEF exit
  <2> HIDE DEF f
  <2> QED BY <1>1, <1>3, <2>1, <2>2, <2>3, <2>4
<1>7. CASE CleanerYield
  <2>1. current = Cleaner /\ created' = created /\ adding' = adding
    BY <1>7 DEF CleanerYield
  <2>2. current \in Thread /\ adding = NotAdding
    BY <2>1, OnlyMainAdds, SchedListsAssumption DEF Thread
  <2> QED BY <1>1, <1>3, <1>7, <2>1, <2>2 DEF CleanerYield
<1>8. CASE FreeZombie
  BY <1>1, <1>8, StayInv DEF FreeZombie
<1>9. CASE SetSleepTick
  <2>1. sleep_tick' \in [Thread -> Nat]
    BY <1>1, <1>9, SchedListsAssumption DEF SetSleepTick
  <2> QED BY <1>1, <1>9, <2>1, StayInv DEF SetSleepTick
<1>10. CASE SetSleptFlag
  <2>1. flags' \in [Thread -> SUBSET {SLEPT, ZOMBIE}]
    BY <1>1, <1>10 DEF SetSleptFlag
  <2> QED BY <1>1, <1>10, <2>1, StayInv DEF SetSleptFlag
<1> QED BY <1>4, <1>5, <1>6, <1>7, <1>8, <1>9, <1>10, RunBeginInv, RunLinkInv, RunTailInv, PopInv
        DEF Next

\* Under the timer's silence while kmain adds a thread, the lists have their
\* shape in every state.
THEOREM Invariance ==
  ASSUME ~Interruptible
  PROVE  Spec => []IInv
<1>1. IInv /\ [Next]_vars => IInv'
  <2> SUFFICES ASSUME IInv, [Next]_vars PROVE IInv'
    OBVIOUS
  <2>1. CASE Next
    BY <2>1, NextInv
  <2>2. CASE UNCHANGED vars
    BY <2>2, FieldTypes, StayInv DEF vars, unmoved
  <2> QED BY <2>1, <2>2
<1> QED BY InitInv, <1>1, PTL DEF Spec

-----------------------------------------------------------------------------
(* The properties *)

LEMMA InvChains == IInv => ChainsWhole
<1> SUFFICES ASSUME IInv PROVE ChainsWhole
  OBVIOUS
<1>1. PICK s, z : ListsOK(s, z)
  BY DEF IInv
<1>2. \A p \in Priority : ActiveList(mem.next, mem.prev, arrival, p)
  BY <1>1 DEF ListsOK, Shape
<1>3. \A p : Active(p) = Of(arrival, p)
  BY DEF Active, Of
<1> QED BY <1>2, <1>3 DEF ChainsWhole, ActiveList

LEMMA InvLinks == IInv => LinksMatch
<1> SUFFICES ASSUME IInv PROVE LinksMatch
  OBVIOUS
<1>1. PICK s, z : ListsOK(s, z) /\ mem \in MemType
  BY DEF IInv
<1>2. Chain(SleptHead) = s
  BY <1>1, ChainsAre
<1>3. /\ \A p \in Priority : ActiveList(mem.next, mem.prev, arrival, p)
      /\ SleptList(mem.next, mem.prev, s)
  BY <1>1 DEF ListsOK, Shape
<1>4. \A p : Active(p) = Of(arrival, p)
  BY DEF Active, Of
<1>5. \A p \in Priority : \/ IsLast(mem.tail[p], Active(p), Order(arrival), p)
                          \/ adding.at = "tail" /\ priority[adding.thread] = p
  <2>1. CASE adding.at = "tail"
    BY <1>1, <1>4, <2>1 DEF ListsOK, TailsBehind
  <2>2. CASE adding.at # "tail"
    BY <1>1, <1>4, <2>2 DEF ListsOK, Tails
  <2> QED BY <2>1, <2>2
<1>6. Backward(mem.prev, SleptHead, ToSet(s), Order(s))
  BY <1>3 DEF SleptList
<1>7. \A p \in Priority : Backward(mem.prev, p, Active(p), Order(arrival))
  BY <1>3, <1>4 DEF ActiveList
<1> QED BY <1>2, <1>5, <1>6, <1>7 DEF LinksMatch

\* ChainsWhole: the stores of scheduler_add, scheduler_pick and the wake loop
\* keep each active list whole and in order of arrival, for every number of
\* threads and priorities, if the timer leaves scheduler_add in kmain alone.
THEOREM ListsWhole ==
  ASSUME ~Interruptible
  PROVE  Spec => []ChainsWhole
BY Invariance, InvChains, PTL

\* LinksMatch: list->tail is the last node and prev leads back, through
\* insertions into the delta queue, removals of its head and of the target.
THEOREM TailsAndPrevMatch ==
  ASSUME ~Interruptible
  PROVE  Spec => []LinksMatch
BY Invariance, InvLinks, PTL

-----------------------------------------------------------------------------
(* The linked lists implement the sequences of Scheduler *)

WalkArgs(k, s, tick) == s \in Seq(Thread) /\ tick \in Nat /\ k \in 1..(Len(s) + 1)
IsAbsWalk(left, k, s, tick, d) == left \in Abs!Walks(s, tick, d) /\ Len(left) = k

LEMMA AbsWalk ==
  ASSUME NEW s, NEW tick, NEW d, NEW k, NEW left,
         WalkArgs(k, s, tick), IsWalk(left, k, s, tick, d)
  PROVE  IsAbsWalk(left, k, s, tick, d)
<1>0. s \in Seq(Thread) /\ tick \in Nat /\ k \in 1..(Len(s) + 1)
  BY DEF WalkArgs
<1>1. /\ left \in [1..k -> 0..tick] /\ left[1] = tick
      /\ \A i \in 1..(k - 1) : left[i] > d[s[i]] /\ left[i + 1] = left[i] - d[s[i]]
      /\ k <= Len(s) => left[k] <= d[s[k]]
  BY DEF IsWalk
<1>2. k \in Nat /\ k >= 1
  BY <1>0, LenProperties
<1>3. left \in Seq(0..tick) /\ Len(left) = k
  BY <1>1, <1>2
<1>4. left \in UNION {[1..l -> 0..tick] : l \in 1..(Len(s) + 1)}
  BY <1>0, <1>1
<1>5. /\ \A i \in 1..(Len(left) - 1) : left[i] > d[s[i]] /\ left[i + 1] = left[i] - d[s[i]]
      /\ Len(left) <= Len(s) => left[Len(left)] <= d[s[Len(left)]]
  BY <1>1, <1>3
<1> QED BY <1>1, <1>3, <1>4, <1>5 DEF Abs!Walks, IsAbsWalk

\* To insert at the front is to put the entry before the rest.
LEMMA InsertFirst ==
  ASSUME NEW S, NEW z \in Seq(S), NEW t \in S
  PROVE  InsertAt(z, 1, t) = <<t>> \o z
<1> DEFINE a == InsertAt(z, 1, t)
           b == <<t>> \o z
<1>1. Len(z) \in Nat /\ 1 \in 1..(Len(z) + 1) /\ <<t>> \in Seq(S) /\ Len(<<t>>) = 1 /\ <<t>>[1] = t
  BY LenProperties
<1>2. /\ a \in Seq(S) /\ Len(a) = Len(z) + 1
      /\ \A i \in 1..(Len(z) + 1) : a[i] = IF i < 1 THEN z[i] ELSE IF i = 1 THEN t ELSE z[i - 1]
  BY <1>1, InsertedAt
<1>3. /\ b \in Seq(S) /\ Len(b) = 1 + Len(z) /\ \A i \in 1..1 : b[i] = <<t>>[i]
      /\ \A i \in 1..Len(z) : b[1 + i] = z[i]
  BY <1>1, ConcatAt
<1> HIDE DEF a, b
<1>4. \A i \in 1..(Len(z) + 1) : a[i] = b[i]
  <2> SUFFICES ASSUME NEW i \in 1..(Len(z) + 1) PROVE a[i] = b[i]
    OBVIOUS
  <2>1. CASE i = 1
    BY <1>1, <1>2, <1>3, <2>1
  <2>2. CASE i # 1
    <3>1. i - 1 \in 1..Len(z) /\ 1 + (i - 1) = i /\ ~(i < 1)
      BY <1>1, <2>2
    <3>2. b[i] = z[i - 1]
      BY <1>3, <3>1
    <3> QED BY <1>2, <2>2, <3>1, <3>2
  <2> QED BY <2>1, <2>2
<1>5. Len(a) = Len(b)
  BY <1>1, <1>2, <1>3
<1>6. \A i \in 1..Len(a) : a[i] = b[i]
  BY <1>2, <1>4
<1> QED BY <1>2, <1>3, <1>5, <1>6, SeqEqual DEF a, b

Rest(tick, d, s, c, k, left) ==
    \A u \in Thread : tick[u] =
          IF u = c THEN left[k]
          ELSE IF k <= Len(s) /\ u = s[k] THEN d[u] - left[k] ELSE d[u]

SleptIn(s, s1, d, tick, c) ==
    \E k \in 1..(Len(s) + 1) : \E left :
       IsWalk(left, k, s, d[c], d) /\ s1 = InsertAt(s, k, c) /\ Rest(tick, d, s, c, k, left)

AbsSleptIn(s, s1, d, tick, c) ==
    \E l \in Abs!Walks(s, d[c], d) :
       s1 = InsertAt(s, Len(l), c) /\ tick = Abs!Delays(s, c, l, d)

\* Walking over the nodes from the head, the new sleeper gets the place and
\* the delay that Scheduler gives it.
LEMMA AbsInsert ==
  ASSUME NEW d \in [Thread -> Nat], NEW s \in Seq(Thread), NEW c \in Thread,
         NEW s1, NEW tick \in [Thread -> Nat], SleptIn(s, s1, d, tick, c)
  PROVE  AbsSleptIn(s, s1, d, tick, c)
<1>1. PICK k \in 1..(Len(s) + 1) : \E left :
        IsWalk(left, k, s, d[c], d) /\ s1 = InsertAt(s, k, c) /\ Rest(tick, d, s, c, k, left)
  BY DEF SleptIn
<1>2. PICK left :
        IsWalk(left, k, s, d[c], d) /\ s1 = InsertAt(s, k, c) /\ Rest(tick, d, s, c, k, left)
  BY <1>1
<1>3. left \in Abs!Walks(s, d[c], d) /\ Len(left) = k
  <2>1. WalkArgs(k, s, d[c])
    BY DEF WalkArgs
  <2>2. IsAbsWalk(left, k, s, d[c], d)
    BY <1>2, <2>1, AbsWalk
  <2> QED BY <2>2 DEF IsAbsWalk
<1>4. Abs!Thread = Thread
  BY DEF Thread, Abs!Thread
<1>5. Abs!Delays(s, c, left, d) =
            [u \in Thread |-> IF u = c THEN left[k]
                              ELSE IF k <= Len(s) /\ u = s[k] THEN d[u] - left[k] ELSE d[u]]
  BY <1>3, <1>4 DEF Abs!Delays
<1>6. tick = Abs!Delays(s, c, left, d)
  BY <1>2, <1>5 DEF Rest
<1> QED BY <1>2, <1>3, <1>6 DEF AbsSleptIn

LEMMA AbsPark ==
  ASSUME NEW f, NEW d \in [Thread -> Nat], NEW s \in Queue(Thread), NEW z \in Queue(Thread),
         s = Chain(SleptHead), z = Chain(ZombieHead), current \in Thread,
         NEW m1, NEW s1, NEW z1, m1.tick \in [Thread -> Nat],
         Parked(Lists(f, d), m1, s, s1, z, z1, current)
  PROVE  [ready |-> m1.arrival, slept |-> s1, zombie |-> z1, delay |-> m1.tick]
            \in Abs!Park(current, f, d)
<1> DEFINE c == current
           m == Lists(f, d)
           p == [ready |-> m1.arrival, slept |-> s1, zombie |-> z1, delay |-> m1.tick]
<1>1. m.flags = f /\ m.tick = d /\ m.arrival = arrival
  BY DEF Lists
<1>2. /\ ZOMBIE = Abs!ZOMBIE /\ SLEPT = Abs!SLEPT /\ Thread = Abs!Thread
      /\ s \in Seq(Thread) /\ z \in Seq(Thread) /\ d[c] \in Nat
  BY DEF ZOMBIE, SLEPT, Thread, Abs!ZOMBIE, Abs!SLEPT, Abs!Thread, Queue
<1> HIDE DEF m
<1>3. CASE ZOMBIE \in f[c]
  <2>1. m1.arrival = arrival /\ s1 = s /\ z1 = InsertAt(z, 1, c) /\ m1.tick = d
    BY <1>1, <1>3 DEF Parked, m
  <2>2. z1 = <<c>> \o z
    BY <1>2, <2>1, InsertFirst
  <2>3. p = [ready |-> arrival, slept |-> s, zombie |-> <<c>> \o z, delay |-> d]
    BY <2>1, <2>2
  <2> QED BY <1>2, <1>3, <2>3 DEF Abs!Park
<1>4. CASE ZOMBIE \notin f[c] /\ SLEPT \in f[c]
  <2>1. m1.arrival = arrival /\ z1 = z
    BY <1>1, <1>4 DEF Parked, m
  <2>2. PICK l \in Abs!Walks(s, d[c], d) :
           s1 = InsertAt(s, Len(l), c) /\ m1.tick = Abs!Delays(s, c, l, d)
    <3> DEFINE tick == m1.tick
    <3>1. SleptIn(s, s1, d, tick, c)
      BY <1>1, <1>4 DEF Parked, m, SleptIn, Rest
    <3>2. s \in Seq(Thread) /\ c \in Thread /\ tick \in [Thread -> Nat]
      BY <1>2
    <3> HIDE DEF c, p, tick
    <3>3. AbsSleptIn(s, s1, d, tick, c)
      BY <3>1, <3>2, AbsInsert
    <3> QED BY <3>3 DEF tick, AbsSleptIn
  <2>6. p = [ready |-> arrival, slept |-> InsertAt(s, Len(l), c), zombie |-> z,
             delay |-> Abs!Delays(s, c, l, d)]
    BY <2>1, <2>2
  <2> HIDE DEF p
  <2>7. {[ready |-> arrival, slept |-> InsertAt(s, Len(v), c), zombie |-> z,
          delay |-> Abs!Delays(s, c, v, d)] : v \in Abs!Walks(s, d[c], d)} = Abs!Park(c, f, d)
    <3>1. Abs!ZOMBIE \notin f[c] /\ Abs!SLEPT \in f[c]
      BY <1>2, <1>4
    <3>2. \A q, i, t : Abs!InsertAt(q, i, t) = InsertAt(q, i, t)
      BY DEF InsertAt, Abs!InsertAt
    <3> QED BY <3>1, <3>2 DEF Abs!Park
  <2>8. p \in Abs!Park(c, f, d)
    BY <2>2, <2>6, <2>7
  <2> QED BY <2>8 DEF p
<1>5. CASE ZOMBIE \notin f[c] /\ SLEPT \notin f[c]
  <2>1. m1.arrival = Append(arrival, c) /\ s1 = s /\ z1 = z /\ m1.tick = d
    BY <1>1, <1>5 DEF Parked, m
  <2>2. p = [ready |-> Append(arrival, c), slept |-> s, zombie |-> z, delay |-> d]
    BY <2>1
  <2> QED BY <1>2, <1>5, <2>2 DEF Abs!Park, Abs!scheduler_add
<1> QED BY <1>3, <1>4, <1>5

LEMMA AbsWake ==
  ASSUME NEW m1, NEW w, NEW s1, NEW n, NEW e, WokeUp(m1, w, s1, n, e),
         w.tick \in [Thread -> Nat], w.flags \in [Thread -> SUBSET {SLEPT, ZOMBIE}]
  PROVE  /\ Abs!Wakes(s1, m1.tick, n, e)
         /\ w.tick = Abs!Charged(s1, m1.tick, n, e)
         /\ w.flags = Abs!Unflagged(s1, m1.flags, n)
<1>1. Thread = Abs!Thread /\ \A x : Toggle(x) = Abs!Toggled(x)
  BY DEF Thread, Abs!Thread, Toggle, Abs!Toggled, SLEPT, Abs!SLEPT
<1>2. Abs!Wakes(s1, m1.tick, n, e)
  BY DEF WokeUp, Abs!Wakes
<1>3. w.tick = Abs!Charged(s1, m1.tick, n, e)
  <2>1. \A u \in Thread : w.tick[u] =
          IF \E j \in 1..n : u = s1[j] THEN 0
          ELSE IF n < Len(s1) /\ u = s1[n + 1] THEN m1.tick[u] - e ELSE m1.tick[u]
    BY DEF WokeUp
  <2>2. Abs!Charged(s1, m1.tick, n, e) =
          [u \in Thread |-> IF \E j \in 1..n : u = s1[j] THEN 0
            ELSE IF n < Len(s1) /\ u = s1[n + 1] THEN m1.tick[u] - e ELSE m1.tick[u]]
    BY <1>1 DEF Abs!Charged
  <2> QED BY <2>1, <2>2
<1>4. w.flags = Abs!Unflagged(s1, m1.flags, n)
  <2>1. \A u \in Thread : w.flags[u] =
          IF \E j \in 1..n : u = s1[j] THEN Abs!Toggled(m1.flags[u]) ELSE m1.flags[u]
    BY <1>1 DEF WokeUp
  <2>2. Abs!Unflagged(s1, m1.flags, n) =
          [u \in Thread |-> IF \E j \in 1..n : u = s1[j] THEN Abs!Toggled(m1.flags[u]) ELSE m1.flags[u]]
    BY <1>1 DEF Abs!Unflagged
  <2> QED BY <2>1, <2>2
<1> QED BY <1>2, <1>3, <1>4

\* The fields of the TCBs and of g_scheduler that the end of scheduler_pick sets.
LEMMA PickSets ==
  ASSUME NEW e, NEW f, NEW d, NEW left, scheduler_pick(e, f, d, left)
  PROVE  /\ due' = IF SLEPT \in f[current] THEN [left EXCEPT ![current] = d[current]] ELSE left
         /\ LET used == [t_elapsed EXCEPT ![current] = @ + e] IN
            IF current' = NoThread
            THEN t_elapsed' = used /\ UNCHANGED <<elapsed, quantum>>
            ELSE /\ t_elapsed' = [used EXCEPT ![current'] = Refreshed(current', used[current'])]
                 /\ elapsed' = 0
                 /\ quantum' = quota[current'] - Refreshed(current', used[current'])
BY DEF scheduler_pick

LEMMA AbsDispatch ==
  ASSUME NEW w, w.arrival \in Seq(Thread), Taken(w, TheLists', current'), NEW used,
         IF current' = NoThread
         THEN t_elapsed' = used /\ UNCHANGED <<elapsed, quantum>>
         ELSE /\ t_elapsed' = [used EXCEPT ![current'] = Refreshed(current', used[current'])]
              /\ elapsed' = 0
              /\ quantum' = quota[current'] - Refreshed(current', used[current'])
  PROVE  Abs!Dispatch(w.arrival, used)
<1> DEFINE q == w.arrival
<1>1. TheLists'.arrival = arrival'
  BY DEF TheLists, Lists
<1>2. CASE current' = NoThread
  <2>1. q = <<>> /\ arrival' = q
    BY <1>1, <1>2 DEF Taken
  <2> QED BY <1>2, <2>1 DEF Abs!Dispatch
<1>3. CASE current' # NoThread
  <2>1. PICK i \in 1..Len(q) : q[i] = current' /\ arrival' = RemoveAt(q, i) /\ TargetAt(q, i)
    BY <1>1, <1>3 DEF Taken
  <2>2. DOMAIN q = 1..Len(q) /\ q # <<>>
    <3>1. q \in Seq(Thread)
      OBVIOUS
    <3> HIDE DEF q
    <3> QED BY <2>1, <3>1
  <2>3. Abs!IsTarget(q, i)
    BY <2>1, <2>2 DEF TargetAt, Abs!IsTarget
  <2>4. Abs!RemoveAt(q, i) = RemoveAt(q, i)
    BY DEF RemoveAt, Abs!RemoveAt
  <2>5. \A t, u : Abs!Refreshed(t, u) = Refreshed(t, u)
    BY DEF Refreshed, Abs!Refreshed
  <2> HIDE DEF q
  <2>6. Abs!Dispatch(q, used)
    BY <1>3, <2>1, <2>2, <2>3, <2>4, <2>5 DEF Abs!Dispatch
  <2> QED BY <2>6 DEF q
<1> QED BY <1>2, <1>3

LEMMA AbsPick ==
  ASSUME NEW s, NEW z, ListsOK(s, z), MembersOK(s, z), mem \in MemType, mem' \in MemType,
         adding = NotAdding, adding' = adding, current \in Thread,
         NEW e \in Nat, NEW f \in [Thread -> SUBSET {SLEPT, ZOMBIE}], NEW d \in [Thread -> Nat],
         NEW left, scheduler_pick(e, f, d, left)
  PROVE  Abs!scheduler_pick(e, f, d, left)
<1>1. adding.at = "out" /\ current # NoThread
  BY Nodes DEF NotAdding
<1>2. PICK m1, w, s1, z1, n :
        PickedBy(Lists(f, d), m1, w, TheLists', current, current', e, s, s1, z, z1, n)
  BY <1>1, PickFacts
<1> DEFINE r == SubSeq(s1, n + 1, Len(s1))
           p == [ready |-> m1.arrival, slept |-> s1, zombie |-> z1, delay |-> m1.tick]
           used == [t_elapsed EXCEPT ![current] = @ + e]
<1>3. Chain(SleptHead) = s /\ Chain(ZombieHead) = z /\ s \in Queue(Thread) /\ z \in Queue(Thread)
  BY ChainsAre DEF ListsOK, Shape, Apart
<1>4. Chain(SleptHead)' = r /\ Chain(ZombieHead)' = z1
  <2>1. ListsOK(r, z1)'
    BY <1>1, <1>2, PickNext
  <2> HIDE DEF r
  <2> QED BY <2>1, ChainsAreNext
<1>5. /\ Parked(Lists(f, d), m1, s, s1, z, z1, current) /\ WokeUp(m1, w, s1, n, e)
      /\ Taken(w, TheLists', current')
      /\ m1.flags = f /\ n \in 0..Len(s1)
      /\ m1 \in ListsType /\ w \in ListsType
  BY <1>2 DEF PickedBy, Good, Lists
<1>6. /\ m1.tick \in [Thread -> Nat] /\ w.tick \in [Thread -> Nat]
      /\ w.flags \in [Thread -> SUBSET {SLEPT, ZOMBIE}] /\ w.arrival \in Seq(Thread)
  BY <1>5 DEF ListsType
<1>7. p \in Abs!Park(current, f, d)
  BY <1>3, <1>5, <1>6, AbsPark
<1>8. /\ Abs!Wakes(s1, m1.tick, n, e) /\ w.tick = Abs!Charged(s1, m1.tick, n, e)
      /\ w.flags = Abs!Unflagged(s1, f, n)
  BY <1>5, <1>6, AbsWake
<1>9. sleep_tick' = w.tick /\ flags' = w.flags
  BY <1>5 DEF Taken, TheLists, Lists
<1>10. w.arrival = m1.arrival \o SubSeq(s1, 1, n)
  BY <1>5 DEF WokeUp
<1>11. Abs!Dispatch(m1.arrival \o SubSeq(s1, 1, n), used)
  <2>1. Abs!Dispatch(w.arrival, used)
    BY <1>5, <1>6, PickSets, AbsDispatch
  <2> QED BY <1>10, <2>1
<1>12. due' = IF SLEPT \in f[current] THEN [left EXCEPT ![current] = d[current]] ELSE left
  BY PickSets
<1>13. SLEPT = Abs!SLEPT
  BY DEF SLEPT, Abs!SLEPT
<1> HIDE DEF p
<1>14. p.ready = m1.arrival /\ p.slept = s1 /\ p.zombie = z1 /\ p.delay = m1.tick
  BY DEF p
<1> HIDE DEF used
<1>15. /\ Abs!Wakes(p.slept, p.delay, n, e)
       /\ Chain(SleptHead)' = SubSeq(p.slept, n + 1, Len(p.slept))
       /\ Chain(ZombieHead)' = p.zombie
       /\ sleep_tick' = Abs!Charged(p.slept, p.delay, n, e)
       /\ flags' = Abs!Unflagged(p.slept, f, n)
       /\ due' = IF Abs!SLEPT \in f[current] THEN [left EXCEPT ![current] = d[current]] ELSE left
       /\ Abs!Dispatch(p.ready \o SubSeq(p.slept, 1, n), used)
       /\ n \in 0..Len(p.slept)
  BY <1>4, <1>5, <1>8, <1>9, <1>11, <1>12, <1>13, <1>14
<1> QED BY <1>7, <1>15 DEF Abs!scheduler_pick, used

LEMMA PickMaps ==
  ASSUME IInv, IInv', adding = NotAdding, adding' = adding, current \in Thread,
         NEW e \in Nat, NEW f \in [Thread -> SUBSET {SLEPT, ZOMBIE}], NEW d \in [Thread -> Nat],
         NEW left, scheduler_pick(e, f, d, left)
  PROVE  Abs!scheduler_pick(e, f, d, left)
<1>1. PICK s, z : ListsOK(s, z) /\ MembersOK(s, z)
  BY DEF IInv
<1>2. mem \in MemType /\ mem' \in MemType
  BY DEF IInv
<1> QED BY <1>1, <1>2, AbsPick

LEMMA TickMaps ==
  ASSUME ~Interruptible, IInv, IInv', scheduler_tick
  PROVE  Abs!scheduler_tick
<1>1. /\ elapsed \in Nat /\ flags \in [Thread -> SUBSET {SLEPT, ZOMBIE}]
      /\ sleep_tick \in [Thread -> Nat]
  BY FieldTypes
<1>2. /\ current \in Thread /\ adding = NotAdding /\ adding' = adding
      /\ UNCHANGED <<created, freed, pc, victim, rounds>>
  BY DEF scheduler_tick, unmoved
<1>3. Abs!Thread = Thread /\ Abs!TickedDown = TickedDown
  BY DEF Abs!Thread, Thread, Abs!TickedDown, TickedDown
<1>4. CASE quantum = 1
  <2>1. scheduler_pick(elapsed + 1, flags, sleep_tick, TickedDown)
    BY <1>4 DEF scheduler_tick
  <2>2. Abs!scheduler_pick(elapsed + 1, flags, sleep_tick, TickedDown)
    <3>1. elapsed + 1 \in Nat
      BY <1>1
    <3> QED BY <1>1, <1>2, <2>1, <3>1, PickMaps
  <2> QED BY <1>2, <1>3, <1>4, <2>2 DEF Abs!scheduler_tick
<1>5. CASE quantum # 1
  <2>1. /\ elapsed' = elapsed + 1 /\ quantum' = quantum - 1 /\ due' = TickedDown
        /\ UNCHANGED <<current, mem, arrival, t_elapsed, sleep_tick, flags>>
    BY <1>5 DEF scheduler_tick
  <2>2. SameChains
    BY <2>1 DEF SameChains, Chain
  <2> QED BY <1>2, <1>3, <1>5, <2>1, <2>2 DEF Abs!scheduler_tick, SameChains, Abs!tcbs
<1> QED BY <1>4, <1>5

LEMMA LinkMaps ==
  ASSUME IInv, RunLink
  PROVE  Abs!scheduler_run(adding.thread) /\ adding.thread \in Thread
<1> DEFINE t == adding.thread
<1>1. t \in Thread /\ MayRun(t)
  BY DEF RunLink, IInv, AddingOK, NotAdding
<1>2. SameChains
  BY RunLinkInv
<1>3. Abs!scheduler_run(t)
  BY <1>1, <1>2 DEF RunLink, MayRun, SameChains, Abs!scheduler_run, Abs!scheduler_add, Abs!tcbs
<1> QED BY <1>1, <1>3

LEMMA SleepMaps ==
  ASSUME IInv, IInv', NEW p \in Process, NEW tick \in 0..MaxNap, usleep(p, tick)
  PROVE  Abs!usleep(p, tick)
<1>1. /\ elapsed \in Nat /\ flags \in [Thread -> SUBSET {SLEPT, ZOMBIE}]
      /\ sleep_tick \in [Thread -> Nat]
  BY FieldTypes
<1>2. /\ current = p /\ rounds[p] > 0 /\ rounds' = [rounds EXCEPT ![p] = @ - 1]
      /\ UNCHANGED <<adding, created, freed, pc, victim>>
  BY DEF usleep
<1>3. current \in Thread /\ adding = NotAdding
  BY <1>2, OnlyMainAdds, SchedListsAssumption DEF Thread
<1>4. CASE tick = 0
  <2>1. Abs!scheduler_pick(elapsed, flags, sleep_tick, due)
    BY <1>1, <1>2, <1>3, <1>4, PickMaps DEF usleep
  <2> QED BY <1>2, <1>4, <2>1 DEF Abs!usleep, Abs!scheduler_yield
<1>5. CASE tick # 0
  <2> DEFINE f == [flags EXCEPT ![p] = @ \union {SLEPT}]
             d == [sleep_tick EXCEPT ![p] = tick]
  <2>1. f \in [Thread -> SUBSET {SLEPT, ZOMBIE}]
    BY <1>1
  <2>2. d \in [Thread -> Nat]
    <3>1. tick \in Nat
      BY SchedListsAssumption
    <3> QED BY <1>1, <3>1
  <2>3. scheduler_pick(elapsed, f, d, due)
    BY <1>5 DEF usleep
  <2> HIDE DEF f, d
  <2>4. Abs!scheduler_pick(elapsed, f, d, due)
    BY <1>1, <1>2, <1>3, <2>1, <2>2, <2>3, PickMaps
  <2>5. Abs!SLEPT = SLEPT
    BY DEF SLEPT, Abs!SLEPT
  <2>6. Abs!scheduler_pick(elapsed, [flags EXCEPT ![p] = @ \union {Abs!SLEPT}],
                           [sleep_tick EXCEPT ![p] = tick], due)
    BY <2>4, <2>5 DEF f, d
  <2> QED BY <1>2, <1>5, <2>6 DEF Abs!usleep, Abs!scheduler_yield
<1> QED BY <1>4, <1>5

LEMMA ExitMaps ==
  ASSUME IInv, IInv', NEW p \in Process, exit(p)
  PROVE  Abs!exit(p)
<1>1. /\ elapsed \in Nat /\ flags \in [Thread -> SUBSET {SLEPT, ZOMBIE}]
      /\ sleep_tick \in [Thread -> Nat]
  BY FieldTypes
<1>2. current = p /\ UNCHANGED <<adding, created, freed, pc, victim, rounds>>
  BY DEF exit, unmoved
<1>3. current \in Thread /\ adding = NotAdding
  BY <1>2, OnlyMainAdds, SchedListsAssumption DEF Thread
<1> DEFINE f == [flags EXCEPT ![p] = @ \union {ZOMBIE}]
<1>4. f \in [Thread -> SUBSET {SLEPT, ZOMBIE}] /\ scheduler_pick(elapsed, f, sleep_tick, due)
  BY <1>1 DEF exit
<1> HIDE DEF f
<1>5. Abs!scheduler_pick(elapsed, f, sleep_tick, due)
  BY <1>1, <1>2, <1>3, <1>4, PickMaps
<1>6. Abs!ZOMBIE = ZOMBIE
  BY DEF ZOMBIE, Abs!ZOMBIE
<1>7. Abs!scheduler_pick(elapsed, [flags EXCEPT ![p] = @ \union {Abs!ZOMBIE}], sleep_tick, due)
  BY <1>5, <1>6 DEF f
<1> QED BY <1>2, <1>7 DEF Abs!exit, Abs!scheduler_yield

LEMMA CleanerMaps ==
  ASSUME IInv, IInv'
  PROVE  /\ PopZombie => Abs!PopZombie
         /\ FreeZombie => Abs!FreeZombie
         /\ SetSleepTick => Abs!SetSleepTick
         /\ SetSleptFlag => Abs!SetSleptFlag
         /\ CleanerYield => Abs!CleanerYield
<1>1. ASSUME PopZombie PROVE Abs!PopZombie
  <2>1. Popped
    BY <1>1, PopInv
  <2>2. CASE mem.next[ZombieHead] = NoThread
    BY <1>1, <2>1, <2>2 DEF Popped, PopZombie, Abs!PopZombie, Abs!tcbs
  <2>3. CASE mem.next[ZombieHead] # NoThread
    BY <1>1, <2>1, <2>3 DEF Popped, PopZombie, Abs!PopZombie, Abs!tcbs
  <2> QED BY <2>2, <2>3
<1>2. mem' = mem => SameChains
  BY DEF SameChains, Chain
<1>3. ASSUME FreeZombie PROVE Abs!FreeZombie
  BY <1>2, <1>3 DEF FreeZombie, SameChains, Abs!FreeZombie, Abs!sched, Abs!tcbs
<1>4. ASSUME SetSleepTick PROVE Abs!SetSleepTick
  BY <1>2, <1>4 DEF SetSleepTick, SameChains, Abs!SetSleepTick
<1>5. ASSUME SetSleptFlag PROVE Abs!SetSleptFlag
  BY <1>2, <1>5 DEF SetSleptFlag, SameChains, Abs!SetSleptFlag, SLEPT, Abs!SLEPT
<1>6. ASSUME CleanerYield PROVE Abs!CleanerYield
  <2>1. /\ current = Cleaner /\ pc = "yield" /\ pc' = "pop"
        /\ UNCHANGED <<adding, created, freed, victim, rounds>>
        /\ scheduler_pick(elapsed, flags, sleep_tick, due)
    BY <1>6 DEF CleanerYield
  <2>2. current \in Thread /\ adding = NotAdding
    BY <2>1, OnlyMainAdds, SchedListsAssumption DEF Thread
  <2>3. Abs!scheduler_pick(elapsed, flags, sleep_tick, due)
    BY <2>1, <2>2, FieldTypes, PickMaps
  <2> QED BY <2>1, <2>3 DEF Abs!CleanerYield, Abs!scheduler_yield
<1> QED BY <1>1, <1>3, <1>4, <1>5, <1>6

LEMMA StepMaps ==
  ASSUME ~Interruptible, IInv, IInv', [Next]_vars
  PROVE  [Abs!Next]_(Abs!vars)
<1>0. Abs!Thread = Thread
  BY DEF Abs!Thread, Thread
<1>1. CASE scheduler_tick
  BY <1>1, TickMaps DEF Abs!Next
<1>2. ASSUME NEW t \in Thread, RunBegin(t) PROVE UNCHANGED Abs!vars
  <2>1. SameChains
    BY <1>2, RunBeginInv
  <2> QED BY <1>2, <2>1 DEF RunBegin, SameChains, unmoved, Abs!vars, Abs!sched, Abs!tcbs
<1>3. CASE RunLink
  BY <1>0, <1>3, LinkMaps DEF Abs!Next
<1>4. CASE RunTail
  <2>1. SameChains
    BY <1>4, RunTailInv
  <2> QED BY <1>4, <2>1 DEF RunTail, SameChains, unmoved, Abs!vars, Abs!sched, Abs!tcbs
<1>5. ASSUME NEW p \in Process, NEW tick \in 0..MaxNap, usleep(p, tick) PROVE Abs!Next
  BY <1>5, SleepMaps DEF Abs!Next
<1>6. ASSUME NEW p \in Process, exit(p) PROVE Abs!Next
  BY <1>6, ExitMaps DEF Abs!Next
<1>7. CASE PopZombie \/ FreeZombie \/ SetSleepTick \/ SetSleptFlag \/ CleanerYield
  BY <1>7, CleanerMaps DEF Abs!Next
<1>8. CASE UNCHANGED vars
  <2>1. SameChains
    BY <1>8 DEF vars, SameChains, Chain
  <2> QED BY <1>8, <2>1 DEF vars, unmoved, SameChains, Abs!vars, Abs!sched, Abs!tcbs
<1> QED BY <1>1, <1>2, <1>3, <1>4, <1>5, <1>6, <1>7, <1>8 DEF Next

LEMMA InitMaps == Init => Abs!Init
<1> SUFFICES ASSUME Init PROVE Abs!Init
  OBVIOUS
<1>1. Abs!Thread = Thread
  BY DEF Abs!Thread, Thread
<1>2. Chain(SleptHead) = <<>> /\ Chain(ZombieHead) = <<>>
  BY InitInv
<1> QED BY <1>1, <1>2 DEF Init, Abs!Init

\* Refines: with the lists as next, prev and tail pointers and scheduler_run as
\* the stores it is, the kernel does what Scheduler says of sequences, if the
\* timer does not hit kmain inside scheduler_run.
THEOREM ListsImplement ==
  ASSUME ~Interruptible
  PROVE  Spec => Refines
<1>1. IInv /\ IInv' /\ [Next]_vars => [Abs!Next]_(Abs!vars)
  BY StepMaps
<1> QED BY Invariance, InitMaps, <1>1, PTL DEF Spec, Refines, Abs!Spec
=============================================================================
