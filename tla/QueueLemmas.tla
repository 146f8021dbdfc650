----------------------------- MODULE QueueLemmas -----------------------------
(***************************************************************************)
(* Facts about queues, that is, sequences without repetition: what the     *)
(* list operations of the kernel do to the set of their members and to     *)
(* their entries; and the least number, which stands in for induction.     *)
(***************************************************************************)
EXTENDS Integers, Sequences, SequencesExt, SequenceTheorems,
        WellFoundedInduction, TLAPS

Queue(S) == {s \in Seq(S) : IsInjective(s)}

\* A set of numbers has a least one: this stands in for induction.
LEMMA LeastNat ==
  ASSUME NEW T, T \subseteq Nat, T # {}
  PROVE  \E x \in T : \A y \in T : x <= y
<1> DEFINE R == OpToRel(<, Nat)
<1>1. IsWellFoundedOn(R, Nat)
  BY NatLessThanWellFounded, Zenon
<1>2. \A x, y \in Nat : <<y, x>> \in R <=> y < x
  BY DEF OpToRel
<1> HIDE DEF R
<1>3. \E x \in T : \A y \in T : ~ (<<y, x>> \in R)
  BY <1>1, WFMin, Zenon
<1>4. PICK x \in T : \A y \in T : ~ (<<y, x>> \in R)
  BY <1>3
<1>5. ASSUME NEW y \in T PROVE x <= y
  <2>1. x \in Nat /\ y \in Nat
    OBVIOUS
  <2>2. ~(y < x)
    BY <1>2, <1>4, <2>1, Zenon
  <2> QED BY <2>1, <2>2
<1> QED BY <1>5

\* The members of a sequence are its entries at 1..Len(s), all of them in S.
LEMMA Members ==
  ASSUME NEW S, NEW s \in Seq(S)
  PROVE  /\ ToSet(s) \subseteq S
         /\ \A x : x \in ToSet(s) <=> \E i \in 1..Len(s) : x = s[i]
  BY LenProperties DEF ToSet

\* Two queues without a common member, one after the other, are a queue.
LEMMA QueueConcat ==
  ASSUME NEW S, NEW s \in Queue(S), NEW t \in Queue(S),
         ToSet(s) \intersect ToSet(t) = {}
  PROVE  /\ s \o t \in Queue(S)
         /\ ToSet(s \o t) = ToSet(s) \union ToSet(t)
<1>1. s \in Seq(S) /\ t \in Seq(S) /\ IsInjective(s) /\ IsInjective(t)
  BY DEF Queue
<1>2. /\ s \o t \in Seq(S)
      /\ Len(s \o t) = Len(s) + Len(t)
      /\ \A i \in 1..(Len(s) + Len(t)) :
            (s \o t)[i] = IF i <= Len(s) THEN s[i] ELSE t[i - Len(s)]
  BY <1>1, ConcatProperties
<1>3. Len(s) \in Nat /\ Len(t) \in Nat
  BY <1>1, LenProperties
<1>4. ASSUME NEW x PROVE x \in ToSet(s \o t) <=> x \in ToSet(s) \union ToSet(t)
  <2>1. ASSUME NEW i \in 1..Len(s), x = s[i] PROVE x \in ToSet(s \o t)
    <3>1. i \in 1..(Len(s) + Len(t)) /\ i <= Len(s)
      BY <1>3
    <3>2. (s \o t)[i] = x
      BY <3>1, <2>1, <1>2
    <3> QED BY <3>1, <3>2, <1>2, Members
  <2>2. ASSUME NEW i \in 1..Len(t), x = t[i] PROVE x \in ToSet(s \o t)
    <3>1. Len(s) + i \in 1..(Len(s) + Len(t)) /\ ~(Len(s) + i <= Len(s))
          /\ (Len(s) + i) - Len(s) = i
      BY <1>3
    <3>2. (s \o t)[Len(s) + i] = x
      BY <3>1, <2>2, <1>2
    <3> QED BY <3>1, <3>2, <1>2, Members
  <2>3. ASSUME NEW i \in 1..Len(s \o t), x = (s \o t)[i]
        PROVE  x \in ToSet(s) \union ToSet(t)
    <3>1. CASE i <= Len(s)
      <4>1. i \in 1..Len(s) /\ x = s[i]
        BY <3>1, <2>3, <1>2, <1>3
      <4> QED BY <4>1, <1>1, Members
    <3>2. CASE ~(i <= Len(s))
      <4>1. i - Len(s) \in 1..Len(t) /\ x = t[i - Len(s)]
        BY <3>2, <2>3, <1>2, <1>3
      <4> QED BY <4>1, <1>1, Members
    <3> QED BY <3>1, <3>2
  <2>4. /\ x \in ToSet(s) => \E i \in 1..Len(s) : x = s[i]
        /\ x \in ToSet(t) => \E i \in 1..Len(t) : x = t[i]
        /\ x \in ToSet(s \o t) => \E i \in 1..Len(s \o t) : x = (s \o t)[i]
    BY <1>1, <1>2, Members
  <2> QED BY <2>1, <2>2, <2>3, <2>4
<1>5. ASSUME NEW a \in 1..Len(s \o t), NEW b \in 1..Len(s \o t),
             (s \o t)[a] = (s \o t)[b]
      PROVE  a = b
  <2>1. \A i \in 1..Len(s), j \in 1..Len(t) : s[i] # t[j]
    BY <1>1, Members
  <2>2. /\ \A i, j \in 1..Len(s) : s[i] = s[j] => i = j
        /\ \A i, j \in 1..Len(t) : t[i] = t[j] => i = j
    BY <1>1, LenProperties DEF IsInjective
  <2>3. CASE a <= Len(s) /\ b <= Len(s)
    <3>1. a \in 1..Len(s) /\ b \in 1..Len(s)
      BY <2>3, <1>2, <1>3
    <3> QED BY <3>1, <1>2, <1>3, <1>5, <2>2, <2>3
  <2>4. CASE a > Len(s) /\ b > Len(s)
    <3>1. /\ a - Len(s) \in 1..Len(t) /\ b - Len(s) \in 1..Len(t)
          /\ t[a - Len(s)] = t[b - Len(s)]
      BY <2>4, <1>2, <1>3, <1>5
    <3>2. a - Len(s) = b - Len(s)
      BY <3>1, <2>2
    <3> QED BY <3>2, <1>2, <1>3
  <2>5. CASE a <= Len(s) /\ b > Len(s)
    <3>1. /\ a \in 1..Len(s) /\ b - Len(s) \in 1..Len(t)
          /\ s[a] = t[b - Len(s)]
      BY <2>5, <1>2, <1>3, <1>5
    <3> QED BY <3>1, <2>1
  <2>6. CASE a > Len(s) /\ b <= Len(s)
    <3>1. /\ b \in 1..Len(s) /\ a - Len(s) \in 1..Len(t)
          /\ s[b] = t[a - Len(s)]
      BY <2>6, <1>2, <1>3, <1>5
    <3> QED BY <3>1, <2>1
  <2> QED BY <2>3, <2>4, <2>5, <2>6, <1>2, <1>3
<1>6. IsInjective(s \o t)
  BY <1>2, <1>5, LenProperties DEF IsInjective
<1> QED BY <1>2, <1>4, <1>6 DEF Queue

\* A single member is a queue.
LEMMA QueueSingle ==
  ASSUME NEW S, NEW x \in S
  PROVE  <<x>> \in Queue(S) /\ ToSet(<<x>>) = {x}
<1>1. <<x>> \in Seq(S) /\ Len(<<x>>) = 1 /\ <<x>>[1] = x
  OBVIOUS
<1>2. DOMAIN <<x>> = 1..1
  BY <1>1, LenProperties
<1>3. ToSet(<<x>>) = {x}
  BY <1>1, <1>2 DEF ToSet
<1>4. IsInjective(<<x>>)
  BY <1>2 DEF IsInjective
<1> QED BY <1>1, <1>3, <1>4 DEF Queue

\* Adding a new member at the end.
LEMMA QueueAppend ==
  ASSUME NEW S, NEW s \in Queue(S), NEW x \in S, x \notin ToSet(s)
  PROVE  /\ Append(s, x) \in Queue(S)
         /\ ToSet(Append(s, x)) = ToSet(s) \union {x}
<1>1. Append(s, x) = s \o <<x>>
  BY AppendIsConcat DEF Queue
<1> QED BY <1>1, QueueConcat, QueueSingle

\* The entries of the two parts of a sequence that is cut behind entry n.
LEMMA SplitAt ==
  ASSUME NEW S, NEW s \in Seq(S), NEW n \in 0..Len(s)
  PROVE  /\ SubSeq(s, 1, n) \in Seq(S) /\ Len(SubSeq(s, 1, n)) = n
         /\ \A i \in 1..n : SubSeq(s, 1, n)[i] = s[i]
         /\ SubSeq(s, n + 1, Len(s)) \in Seq(S)
         /\ Len(SubSeq(s, n + 1, Len(s))) = Len(s) - n
         /\ \A i \in 1..(Len(s) - n) : SubSeq(s, n + 1, Len(s))[i] = s[n + i]
<1> DEFINE a == SubSeq(s, 1, n)
           b == SubSeq(s, n + 1, Len(s))
<1>1. Len(s) \in Nat
  BY LenProperties
<1>3. /\ a \in Seq(S) /\ Len(a) = n
      /\ \A i \in 1..n : a[i] = s[i]
  <2>1. \A i \in 1..n : s[i] \in S
    BY <1>1, ElementOfSeq
  <2>2. /\ a \in Seq(S)
        /\ Len(a) = IF 1 <= n THEN n - 1 + 1 ELSE 0
        /\ \A i \in 1..(n - 1 + 1) : a[i] = s[1 + i - 1]
    BY <2>1, SubSeqProperties
  <2>3. n - 1 + 1 = n /\ \A i \in 1..n : 1 + i - 1 = i
    OBVIOUS
  <2>4. Len(a) = n
    BY <2>2
  <2>5. ASSUME NEW i \in 1..n PROVE a[i] = s[i]
    BY <2>2, <2>3
  <2> QED BY <2>2, <2>4, <2>5
<1>4. /\ b \in Seq(S) /\ Len(b) = Len(s) - n
      /\ \A i \in 1..(Len(s) - n) : b[i] = s[n + i]
  <2>1. \A i \in (n + 1)..Len(s) : s[i] \in S
    BY <1>1, ElementOfSeq
  <2>2. /\ b \in Seq(S)
        /\ Len(b) = IF n + 1 <= Len(s) THEN Len(s) - (n + 1) + 1 ELSE 0
        /\ \A i \in 1..(Len(s) - (n + 1) + 1) : b[i] = s[(n + 1) + i - 1]
    BY <2>1, <1>1, SubSeqProperties
  <2>3. /\ Len(s) - (n + 1) + 1 = Len(s) - n
        /\ \A i \in 1..(Len(s) - n) : (n + 1) + i - 1 = n + i
    BY <1>1
  <2>4. Len(b) = Len(s) - n
    <3>1. CASE n + 1 <= Len(s)
      BY <3>1, <2>2, <2>3
    <3>2. CASE ~(n + 1 <= Len(s))
      <4> DEFINE l == Len(s)
      <4>1. l \in Nat /\ n \in 0..l /\ ~(n + 1 <= l)
        BY <3>2, <1>1
      <4> HIDE DEF l
      <4>2. l - n = 0
        BY <4>1
      <4>3. Len(s) - n = 0
        BY <4>2 DEF l
      <4> QED BY <3>2, <4>3, <2>2
    <3> QED BY <3>1, <3>2
  <2>5. ASSUME NEW i \in 1..(Len(s) - n) PROVE b[i] = s[n + i]
    BY <2>2, <2>3
  <2> QED BY <2>2, <2>4, <2>5
<1> QED BY <1>3, <1>4

\* Cutting a queue in two.
LEMMA QueueSplit ==
  ASSUME NEW S, NEW s \in Queue(S), NEW n \in 0..Len(s)
  PROVE  /\ SubSeq(s, 1, n) \in Queue(S)
         /\ SubSeq(s, n + 1, Len(s)) \in Queue(S)
         /\ ToSet(SubSeq(s, 1, n)) = {s[i] : i \in 1..n}
         /\ ToSet(SubSeq(s, n + 1, Len(s))) = {s[i] : i \in (n + 1)..Len(s)}
         /\ ToSet(SubSeq(s, 1, n)) \union ToSet(SubSeq(s, n + 1, Len(s))) = ToSet(s)
         /\ ToSet(SubSeq(s, 1, n)) \intersect ToSet(SubSeq(s, n + 1, Len(s))) = {}
<1> DEFINE a == SubSeq(s, 1, n)
           b == SubSeq(s, n + 1, Len(s))
<1>1. s \in Seq(S) /\ Len(s) \in Nat /\ DOMAIN s = 1..Len(s)
  BY LenProperties DEF Queue
<1>2. \A i, j \in 1..Len(s) : s[i] = s[j] => i = j
  BY <1>1 DEF Queue, IsInjective
<1>3. /\ a \in Seq(S) /\ Len(a) = n
      /\ \A i \in 1..n : a[i] = s[i]
  BY <1>1, SplitAt
<1>4. /\ b \in Seq(S) /\ Len(b) = Len(s) - n
      /\ \A i \in 1..(Len(s) - n) : b[i] = s[n + i]
  BY <1>1, SplitAt
<1> HIDE DEF a, b
<1>5. ToSet(a) = {s[i] : i \in 1..n}
  <2>1. \A x : x \in ToSet(a) <=> \E i \in 1..n : x = a[i]
    BY <1>3, Members
  <2> QED BY <2>1, <1>3
<1>6. ToSet(b) = {s[i] : i \in (n + 1)..Len(s)}
  <2>1. ASSUME NEW i \in (n + 1)..Len(s) PROVE \E j \in 1..Len(b) : b[j] = s[i]
    <3>1. i - n \in 1..(Len(s) - n) /\ n + (i - n) = i
      BY <1>1
    <3>2. b[i - n] = s[i]
      BY <3>1, <1>4
    <3> QED BY <3>1, <3>2, <1>4
  <2>2. ASSUME NEW i \in 1..Len(b) PROVE \E j \in (n + 1)..Len(s) : b[i] = s[j]
    <3>1. i \in 1..(Len(s) - n)
      BY <1>4
    <3>2. n + i \in (n + 1)..Len(s)
      BY <1>1, <3>1
    <3> QED BY <3>1, <3>2, <1>4
  <2>3. \A x : x \in ToSet(b) <=> \E i \in 1..Len(b) : x = b[i]
    BY <1>4, Members
  <2>4. ToSet(b) \subseteq {s[i] : i \in (n + 1)..Len(s)}
    BY <2>2, <2>3
  <2>5. {s[i] : i \in (n + 1)..Len(s)} \subseteq ToSet(b)
    <3> SUFFICES ASSUME NEW i \in (n + 1)..Len(s) PROVE s[i] \in ToSet(b)
      OBVIOUS
    <3> QED BY <2>1, <2>3
  <2> QED BY <2>4, <2>5
<1>7. IsInjective(a)
  <2>1. DOMAIN a = 1..n
    BY <1>3, LenProperties
  <2>2. \A i \in 1..n : i \in 1..Len(s)
    BY <1>1
  <2> QED BY <1>2, <1>3, <2>1, <2>2 DEF IsInjective
<1>8. IsInjective(b)
  <2>1. DOMAIN b = 1..(Len(s) - n)
    BY <1>4, LenProperties
  <2>2. ASSUME NEW i \in 1..(Len(s) - n), NEW j \in 1..(Len(s) - n), b[i] = b[j]
        PROVE  i = j
    <3>1. n + i \in 1..Len(s) /\ n + j \in 1..Len(s)
      BY <1>1
    <3>2. s[n + i] = s[n + j]
      BY <1>4, <2>2
    <3>3. n + i = n + j
      BY <3>1, <3>2, <1>2
    <3> QED BY <3>3, <1>1
  <2> QED BY <2>1, <2>2 DEF IsInjective
<1>9. \A x : x \in ToSet(s) <=> \E i \in 1..Len(s) : x = s[i]
  BY <1>1, Members
<1>10. ToSet(a) \union ToSet(b) = ToSet(s)
  BY <1>5, <1>6, <1>9, <1>1
<1>11. ToSet(a) \intersect ToSet(b) = {}
  BY <1>5, <1>6, <1>2, <1>1
<1> QED BY <1>3, <1>4, <1>5, <1>6, <1>7, <1>8, <1>10, <1>11 DEF Queue, a, b

\* The entries of one sequence after another.
LEMMA ConcatAt ==
  ASSUME NEW S, NEW s \in Seq(S), NEW t \in Seq(S),
         NEW m, NEW n, Len(s) = m, Len(t) = n
  PROVE  /\ s \o t \in Seq(S) /\ Len(s \o t) = m + n
         /\ \A i \in 1..m : (s \o t)[i] = s[i]
         /\ \A i \in 1..n : (s \o t)[m + i] = t[i]
<1>1. m \in Nat /\ n \in Nat
  BY LenProperties
<1>2. /\ s \o t \in Seq(S) /\ Len(s \o t) = m + n
      /\ \A i \in 1..(m + n) : (s \o t)[i] = IF i <= m THEN s[i] ELSE t[i - m]
  BY ConcatProperties
<1>3. ASSUME NEW i \in 1..m PROVE (s \o t)[i] = s[i]
  BY <1>1, <1>2
<1>4. ASSUME NEW i \in 1..n PROVE (s \o t)[m + i] = t[i]
  <2>1. m + i \in 1..(m + n) /\ ~(m + i <= m) /\ (m + i) - m = i
    BY <1>1
  <2> QED BY <1>2, <2>1
<1> QED BY <1>2, <1>3, <1>4

\* The entries after x has been linked in at position k.
LEMMA InsertedAt ==
  ASSUME NEW S, NEW s \in Seq(S), NEW k \in 1..(Len(s) + 1), NEW x \in S
  PROVE  /\ InsertAt(s, k, x) \in Seq(S) /\ Len(InsertAt(s, k, x)) = Len(s) + 1
         /\ \A i \in 1..(Len(s) + 1) :
               InsertAt(s, k, x)[i] = IF i < k THEN s[i] ELSE IF i = k THEN x ELSE s[i - 1]
<1> DEFINE a == SubSeq(s, 1, k - 1)
           b == SubSeq(s, k, Len(s))
<1>1. Len(s) \in Nat /\ k - 1 \in 0..Len(s) /\ (k - 1) + 1 = k /\ k \in Nat
  BY LenProperties
<1>2. /\ a \in Seq(S) /\ Len(a) = k - 1 /\ \A i \in 1..(k - 1) : a[i] = s[i]
      /\ b \in Seq(S) /\ Len(b) = Len(s) - (k - 1)
      /\ \A i \in 1..(Len(s) - (k - 1)) : b[i] = s[(k - 1) + i]
  BY <1>1, SplitAt
<1> HIDE DEF a, b
<1>3. <<x>> \in Seq(S) /\ Len(<<x>>) = 1 /\ <<x>>[1] = x
  OBVIOUS
<1>4. /\ a \o <<x>> \in Seq(S) /\ Len(a \o <<x>>) = k
      /\ \A i \in 1..(k - 1) : (a \o <<x>>)[i] = a[i]
      /\ (a \o <<x>>)[k] = x
  <2>1. /\ a \o <<x>> \in Seq(S) /\ Len(a \o <<x>>) = (k - 1) + 1
        /\ \A i \in 1..(k - 1) : (a \o <<x>>)[i] = a[i]
        /\ \A i \in 1..1 : (a \o <<x>>)[(k - 1) + i] = <<x>>[i]
    BY <1>2, <1>3, ConcatAt
  <2>2. (a \o <<x>>)[(k - 1) + 1] = x
    BY <2>1
  <2> QED BY <1>1, <2>1, <2>2
<1>5. /\ (a \o <<x>>) \o b \in Seq(S) /\ Len((a \o <<x>>) \o b) = k + (Len(s) - (k - 1))
      /\ \A i \in 1..k : ((a \o <<x>>) \o b)[i] = (a \o <<x>>)[i]
      /\ \A i \in 1..(Len(s) - (k - 1)) : ((a \o <<x>>) \o b)[k + i] = b[i]
  <2> DEFINE c == a \o <<x>>
             m == k
             n == Len(s) - (k - 1)
  <2>1. c \in Seq(S) /\ b \in Seq(S) /\ Len(c) = m /\ Len(b) = n
    BY <1>2, <1>4
  <2> HIDE DEF c, m, n
  <2>2. /\ c \o b \in Seq(S) /\ Len(c \o b) = m + n
        /\ \A i \in 1..m : (c \o b)[i] = c[i]
        /\ \A i \in 1..n : (c \o b)[m + i] = b[i]
    BY <2>1, ConcatAt
  <2> QED BY <2>2 DEF c, m, n
<1> DEFINE r == (a \o <<x>>) \o b
<1>6. InsertAt(s, k, x) = r
  BY DEF InsertAt, a, b
<1>7. k + (Len(s) - (k - 1)) = Len(s) + 1 /\ k \in 1..k /\ 1..(k - 1) \subseteq 1..k
  BY <1>1
<1>8. /\ r \in Seq(S) /\ Len(r) = Len(s) + 1 /\ r[k] = x
      /\ \A i \in 1..(k - 1) : r[i] = s[i]
      /\ \A i \in 1..(Len(s) - (k - 1)) : r[k + i] = s[(k - 1) + i]
  <2>1. /\ r \in Seq(S) /\ Len(r) = Len(s) + 1
        /\ \A i \in 1..k : r[i] = (a \o <<x>>)[i]
        /\ \A i \in 1..(Len(s) - (k - 1)) : r[k + i] = b[i]
    BY <1>5, <1>7
  <2> HIDE DEF r
  <2> QED BY <1>2, <1>4, <1>7, <2>1
<1> HIDE DEF r
<1>9. ASSUME NEW i \in 1..(Len(s) + 1)
      PROVE  r[i] = IF i < k THEN s[i] ELSE IF i = k THEN x ELSE s[i - 1]
  <2>1. CASE i < k
    BY <1>1, <1>8, <2>1
  <2>2. CASE i > k
    <3>1. i - k \in 1..(Len(s) - (k - 1)) /\ k + (i - k) = i /\ (k - 1) + (i - k) = i - 1
      BY <1>1, <2>2
    <3>2. r[k + (i - k)] = s[(k - 1) + (i - k)]
      BY <1>8, <3>1
    <3> QED BY <2>2, <3>1, <3>2
  <2> QED BY <1>1, <1>8, <2>1, <2>2
<1> QED BY <1>6, <1>8, <1>9

\* Linking a new member in at position k.
LEMMA QueueInsert ==
  ASSUME NEW S, NEW s \in Queue(S), NEW k \in 1..(Len(s) + 1),
         NEW x \in S, x \notin ToSet(s)
  PROVE  /\ InsertAt(s, k, x) \in Queue(S)
         /\ ToSet(InsertAt(s, k, x)) = ToSet(s) \union {x}
<1>1. Len(s) \in Nat
  BY LenProperties DEF Queue
<1>2. k - 1 \in 0..Len(s) /\ (k - 1) + 1 = k
  BY <1>1
<1> DEFINE a == SubSeq(s, 1, k - 1)
           b == SubSeq(s, k, Len(s))
<1>3. /\ a \in Queue(S) /\ b \in Queue(S)
      /\ ToSet(a) \union ToSet(b) = ToSet(s)
      /\ ToSet(a) \intersect ToSet(b) = {}
  BY <1>2, QueueSplit
<1>4. a \o <<x>> \in Queue(S) /\ ToSet(a \o <<x>>) = ToSet(a) \union {x}
  BY <1>3, QueueConcat, QueueSingle
<1>5. /\ (a \o <<x>>) \o b \in Queue(S)
      /\ ToSet((a \o <<x>>) \o b) = ToSet(a) \union {x} \union ToSet(b)
  BY <1>3, <1>4, QueueConcat
<1> QED BY <1>3, <1>5 DEF InsertAt

\* Unlinking the member at position k.
LEMMA QueueRemove ==
  ASSUME NEW S, NEW s \in Queue(S), NEW k \in 1..Len(s)
  PROVE  /\ RemoveAt(s, k) \in Queue(S)
         /\ ToSet(RemoveAt(s, k)) = ToSet(s) \ {s[k]}
<1>1. s \in Seq(S) /\ Len(s) \in Nat /\ \A i, j \in 1..Len(s) : s[i] = s[j] => i = j
  BY LenProperties DEF Queue, IsInjective
<1>2. k - 1 \in 0..Len(s) /\ (k - 1) + 1 = k /\ k \in 0..Len(s)
  BY <1>1
<1> DEFINE a == SubSeq(s, 1, k - 1)
           b == SubSeq(s, k + 1, Len(s))
<1>3. a \in Queue(S) /\ ToSet(a) = {s[i] : i \in 1..(k - 1)}
  BY <1>2, QueueSplit
<1>4. b \in Queue(S) /\ ToSet(b) = {s[i] : i \in (k + 1)..Len(s)}
  BY <1>2, QueueSplit
<1>5. ToSet(a) \intersect ToSet(b) = {}
  BY <1>1, <1>3, <1>4
<1>6. ToSet(a) \union ToSet(b) = ToSet(s) \ {s[k]}
  <2>1. \A x : x \in ToSet(s) <=> \E i \in 1..Len(s) : x = s[i]
    BY <1>1, Members
  <2> QED BY <2>1, <1>1, <1>3, <1>4
<1> QED BY <1>3, <1>4, <1>5, <1>6, QueueConcat DEF RemoveAt

\* The entries after entry k has been unlinked.
LEMMA RemovedAt ==
  ASSUME NEW S, NEW s \in Seq(S), NEW k \in 1..Len(s)
  PROVE  /\ RemoveAt(s, k) \in Seq(S) /\ Len(RemoveAt(s, k)) = Len(s) - 1
         /\ \A i \in 1..(Len(s) - 1) : RemoveAt(s, k)[i] = IF i < k THEN s[i] ELSE s[i + 1]
<1> DEFINE a == SubSeq(s, 1, k - 1)
           b == SubSeq(s, k + 1, Len(s))
<1>1. Len(s) \in Nat /\ k - 1 \in 0..Len(s) /\ k \in 0..Len(s) /\ k \in Nat
  BY LenProperties
<1>2. /\ a \in Seq(S) /\ Len(a) = k - 1 /\ \A i \in 1..(k - 1) : a[i] = s[i]
      /\ b \in Seq(S) /\ Len(b) = Len(s) - k
      /\ \A i \in 1..(Len(s) - k) : b[i] = s[k + i]
  BY <1>1, SplitAt
<1> HIDE DEF a, b
<1>3. /\ a \o b \in Seq(S) /\ Len(a \o b) = (k - 1) + (Len(s) - k)
      /\ \A i \in 1..(k - 1) : (a \o b)[i] = a[i]
      /\ \A i \in 1..(Len(s) - k) : (a \o b)[(k - 1) + i] = b[i]
  <2> DEFINE m == k - 1
             n == Len(s) - k
  <2>1. a \in Seq(S) /\ b \in Seq(S) /\ Len(a) = m /\ Len(b) = n
    BY <1>2
  <2> HIDE DEF m, n
  <2>2. /\ a \o b \in Seq(S) /\ Len(a \o b) = m + n
        /\ \A i \in 1..m : (a \o b)[i] = a[i]
        /\ \A i \in 1..n : (a \o b)[m + i] = b[i]
    BY <2>1, ConcatAt
  <2> QED BY <2>2 DEF m, n
<1>4. RemoveAt(s, k) = a \o b
  BY DEF RemoveAt, a, b
<1>5. ASSUME NEW i \in 1..(Len(s) - 1)
      PROVE  (a \o b)[i] = IF i < k THEN s[i] ELSE s[i + 1]
  <2>1. CASE i < k
    BY <1>1, <1>2, <1>3, <2>1
  <2>2. CASE ~(i < k)
    <3>1. /\ i - (k - 1) \in 1..(Len(s) - k) /\ (k - 1) + (i - (k - 1)) = i
          /\ k + (i - (k - 1)) = i + 1
      BY <1>1, <2>2
    <3>2. (a \o b)[(k - 1) + (i - (k - 1))] = s[k + (i - (k - 1))]
      BY <1>2, <1>3, <3>1
    <3> QED BY <2>2, <3>1, <3>2
  <2> QED BY <2>1, <2>2
<1>6. (k - 1) + (Len(s) - k) = Len(s) - 1
  BY <1>1
<1> QED BY <1>3, <1>4, <1>5, <1>6

\* Taking the head.
LEMMA QueueHeadTail ==
  ASSUME NEW S, NEW s \in Queue(S), s # <<>>
  PROVE  /\ Head(s) \in S /\ Head(s) \in ToSet(s)
         /\ Tail(s) \in Queue(S)
         /\ ToSet(Tail(s)) = ToSet(s) \ {Head(s)}
<1>1. s \in Seq(S) /\ Len(s) \in Nat \ {0}
  BY EmptySeq, LenProperties DEF Queue
<1>2. Head(s) = s[1] /\ Tail(s) = SubSeq(s, 2, Len(s))
  BY <1>1, TailIsSubSeq
<1>3. 1 \in 0..Len(s) /\ 1 + 1 = 2 /\ 1 \in 1..Len(s)
  BY <1>1
<1>4. /\ SubSeq(s, 1 + 1, Len(s)) \in Queue(S)
      /\ ToSet(SubSeq(s, 1, 1)) = {s[i] : i \in 1..1}
      /\ ToSet(SubSeq(s, 1, 1)) \union ToSet(SubSeq(s, 1 + 1, Len(s))) = ToSet(s)
      /\ ToSet(SubSeq(s, 1, 1)) \intersect ToSet(SubSeq(s, 1 + 1, Len(s))) = {}
  BY <1>3, QueueSplit
<1>5. {s[i] : i \in 1..1} = {s[1]}
  OBVIOUS
<1>6. s[1] \in S
  BY <1>1, <1>3, ElementOfSeq
<1> QED BY <1>2, <1>3, <1>4, <1>5, <1>6
=============================================================================
