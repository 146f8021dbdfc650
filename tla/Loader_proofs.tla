---------------------------- MODULE Loader_proofs ----------------------------
(***************************************************************************)
(* What MCLoader checks for two archives and seven programs, proved for    *)
(* every archive that tar can make, every disk it fits on, every file and  *)
(* every call: the walk stays on headers, and a lookup answers with the    *)
(* first member of its name; the loader touches no page that it may not    *)
(* unless the file makes it, and a linked program is in memory as its file *)
(* says.                                                                   *)
(***************************************************************************)
EXTENDS Loader, FiniteSetTheorems, SequenceTheorems, TLAPS

-----------------------------------------------------------------------------
(* Arithmetic *)

\* Proper inclusion of finite sets is well founded, and the intervals below
\* the members of S are ordered by it as the members are by <.
LEMMA LeastElement ==
  ASSUME NEW S, S \subseteq Nat, S # {}
  PROVE  \E x \in S : \A y \in S : x <= y
<1> DEFINE T == {0..x - 1 : x \in S}
           R == StrictSubsetOrdering(Nat)
<1>1. T \subseteq FiniteSubsetsOf(Nat)
  <2> SUFFICES ASSUME NEW x \in S PROVE 0..x - 1 \in FiniteSubsetsOf(Nat)
    BY DEF T
  <2>1. x \in Nat /\ x - 1 \in Int
    OBVIOUS
  <2>2. IsFiniteSet(0..x - 1)
    BY <2>1, FS_Interval
  <2>3. (0..x - 1) \subseteq Nat
    BY <2>1
  <2> QED BY <2>2, <2>3 DEF FiniteSubsetsOf
<1>2. T # {}
  OBVIOUS
<1>3. IsWellFoundedOn(R, FiniteSubsetsOf(Nat))
  BY FS_StrictSubsetOrderingWellFounded
<1> HIDE DEF T, R
<1>4. PICK u \in T : \A v \in T : ~(<<v, u>> \in R)
  BY <1>1, <1>2, <1>3, WFMin
<1>5. PICK x \in S : u = 0..x - 1
  BY DEF T
<1>6. ASSUME NEW y \in S, y < x PROVE FALSE
  <2>1. 0..y - 1 \in T
    BY DEF T
  <2>2. (0..y - 1) \subseteq u /\ 0..y - 1 # u
    <3>1. y \in u /\ y \notin 0..y - 1
      BY <1>5, <1>6
    <3>2. x \in Nat /\ y \in Nat
      OBVIOUS
    <3> QED BY <1>5, <1>6, <3>1, <3>2
  <2>3. <<0..y - 1, u>> \in R
    <3>1. 0..y - 1 \in SUBSET Nat /\ u \in SUBSET Nat
      BY <1>1, <2>1 DEF FiniteSubsetsOf
    <3> QED BY <2>2, <3>1, Zenon DEF R, StrictSubsetOrdering
  <2> QED BY <1>4, <2>1, <2>3
<1> QED BY <1>6

LEMMA Blocks == BLOCK \in Nat /\ BLOCK > 0
BY FilesAssumption

\* A file fits in the blocks that are counted for it.
LEMMA PaddedCovers ==
  ASSUME NEW n \in Nat
  PROVE  Padded(n) \in Nat /\ n <= Padded(n) * BLOCK
<1>1. ASSUME NEW m \in Nat, NEW P \in Nat, P > 0
      PROVE  m \div P \in Nat /\ m < P * (m \div P) + P /\ P * (m \div P) = (m \div P) * P
  BY <1>1
<1>2. n + BLOCK - 1 \in Nat
  BY Blocks
<1> DEFINE q == (n + BLOCK - 1) \div BLOCK
<1>3. q \in Nat /\ n + BLOCK - 1 < BLOCK * q + BLOCK /\ BLOCK * q = q * BLOCK
  BY <1>1, <1>2, Blocks
<1>4. Padded(n) = q
  BY DEF Padded
<1> HIDE DEF q
<1>5. BLOCK * q \in Nat
  BY <1>3, Blocks
<1> QED BY <1>3, <1>4, <1>5, Blocks

LEMMA MulOrder ==
  ASSUME NEW a \in Nat, NEW b \in Nat, a <= b
  PROVE  a * BLOCK <= b * BLOCK
BY Blocks

LEMMA MulSum ==
  ASSUME NEW a \in Nat, NEW b \in Nat
  PROVE  a * BLOCK \in Nat /\ (a + b) * BLOCK = a * BLOCK + b * BLOCK
BY Blocks

\* The bytes up to a block, and up to the block behind it, are a number.
LEMMA BlockBytes ==
  ASSUME NEW a \in Nat
  PROVE  a * BLOCK \in Nat /\ (a + 1) * BLOCK \in Nat
<1>1. a + 1 \in Nat
  OBVIOUS
<1> QED BY <1>1, MulSum

\* What fits in b blocks behind block a ends before block l.
LEMMA WithinBlocks ==
  ASSUME NEW a \in Nat, NEW b \in Nat, NEW l \in Nat, NEW c \in Nat,
         c <= b * BLOCK, (a + 1) + b <= l
  PROVE  /\ (a + 1) * BLOCK \in Nat /\ l * BLOCK \in Nat
         /\ (a + 1) * BLOCK + c <= l * BLOCK
<1>1. a + 1 \in Nat /\ (a + 1) + b \in Nat
  OBVIOUS
<1>2. /\ (a + 1) * BLOCK \in Nat /\ b * BLOCK \in Nat /\ l * BLOCK \in Nat
      /\ ((a + 1) + b) * BLOCK = (a + 1) * BLOCK + b * BLOCK
  BY <1>1, MulSum
<1>3. ((a + 1) + b) * BLOCK <= l * BLOCK
  BY <1>1, MulOrder
<1> QED BY <1>2, <1>3

-----------------------------------------------------------------------------
(* Archives *)

LEMMA Archives ==
  ASSUME NEW d \in FS_DEVICE
  PROVE  /\ Len(archive[d]) \in Nat
         /\ \A t \in Member(d) : /\ archive[d][t].name \in Seq(Char) /\ archive[d][t].name # <<>>
                               /\ archive[d][t].data \in Seq(Nat)
                               /\ Len(archive[d][t].data) \in Nat
                               /\ t + 1 \in 1..Len(archive[d]) + 1
         /\ \A t \in 1..Len(archive[d]) + 1 : at[d][t] \in Nat
         /\ at[d][1] = 0
         /\ End(d) \in Nat /\ disksize[d] \in Nat /\ End(d) <= disksize[d]
<1>1. Len(archive[d]) \in Nat /\ \A t \in Member(d) : archive[d][t] \in [name : Seq(Char), data : Seq(Nat)]
  <2>1. archive[d] \in Seq([name : Seq(Char), data : Seq(Nat)])
    BY FilesAssumption, Zenon
  <2> QED BY <2>1, LenProperties, ElementOfSeq DEF Member
<1>2. Len(archive[d]) + 1 \in 1..Len(archive[d]) + 1 /\ Member(d) \subseteq 1..Len(archive[d]) + 1
  BY <1>1 DEF Member
<1>3. \A t \in Member(d) : t + 1 \in 1..Len(archive[d]) + 1
  BY <1>1 DEF Member
<1>4. \A t \in 1..Len(archive[d]) + 1 : at[d][t] \in Nat
  <2>1. at[d] \in [1..(Len(archive[d]) + 1) -> Nat]
    BY FilesAssumption, Zenon
  <2> QED BY <2>1
<1>5. \A t \in Member(d) : archive[d][t].name \in Seq(Char) /\ archive[d][t].data \in Seq(Nat)
  BY <1>1
<1>6. \A t \in Member(d) : archive[d][t].name # <<>> /\ Len(archive[d][t].data) \in Nat
  <2>1. \A t \in Member(d) : archive[d][t].name # <<>>
    BY FilesAssumption, Zenon
  <2> QED BY <1>5, <2>1, LenProperties
<1> QED BY <1>1, <1>2, <1>3, <1>4, <1>5, <1>6, FilesAssumption, LayoutAssumption DEF End

LEMMA Places ==
  ASSUME NEW d \in FS_DEVICE, NEW t \in Member(d)
  PROVE  /\ t \in Nat /\ at[d][t] \in Nat /\ at[d][t + 1] \in Nat
         /\ archive[d][t].data \in Seq(Nat) /\ Len(archive[d][t].data) \in Nat
<1>1. t \in Nat /\ t \in 1..Len(archive[d]) + 1 /\ t + 1 \in 1..Len(archive[d]) + 1
  BY Archives DEF Member
<1>2. at[d][t] \in Nat /\ at[d][t + 1] \in Nat
  BY <1>1, Archives
<1>3. archive[d][t].data \in Seq(Nat) /\ Len(archive[d][t].data) \in Nat
  BY Archives
<1> QED BY <1>1, <1>2, <1>3

LEMMA HeaderNext ==
  ASSUME NEW d \in FS_DEVICE, NEW t \in Member(d)
  PROVE  at[d][t + 1] = at[d][t] + 1 + Padded(Len(archive[d][t].data))
BY LayoutAssumption DEF Padded

\* Members come one after the other.
LEMMA HeadersOrdered ==
  ASSUME NEW d \in FS_DEVICE, NEW t \in Member(d), NEW j \in t + 1..Len(archive[d]) + 1
  PROVE  at[d][t + 1] <= at[d][j]
<1>0. t \in Nat /\ t >= 1 /\ t <= Len(archive[d]) /\ Len(archive[d]) \in Nat
  BY Archives DEF Member
<1>1. \A k \in 1..Len(archive[d]) + 1 : at[d][k] \in Nat
  BY Archives
<1> DEFINE S == {k \in t + 1..Len(archive[d]) + 1 : at[d][k] < at[d][t + 1]}
<1>2. ASSUME S # {} PROVE FALSE
  <2>1. S \subseteq Nat
    BY <1>0
  <2> HIDE DEF S
  <2>2. PICK k \in S : \A l \in S : k <= l
    BY <1>2, <2>1, LeastElement
  <2>3. k \in t + 1..Len(archive[d]) + 1 /\ at[d][k] < at[d][t + 1]
    BY <2>2 DEF S
  <2>4. k # t + 1
    BY <1>0, <1>1, <2>3
  <2>5. k \in Nat /\ k - 1 \in t + 1..Len(archive[d]) + 1 /\ k - 1 \in Member(d) /\ (k - 1) + 1 = k
    BY <1>0, <2>3, <2>4 DEF Member
  <2>6. ~(at[d][k - 1] < at[d][t + 1])
    <3>1. k - 1 \notin S
      BY <2>1, <2>2, <2>5
    <3> QED BY <2>5, <3>1 DEF S
  <2>7. at[d][k] = at[d][k - 1] + 1 + Padded(Len(archive[d][k - 1].data))
    BY <2>5, HeaderNext
  <2>8. Padded(Len(archive[d][k - 1].data)) \in Nat
    BY <2>5, Archives, PaddedCovers
  <2>9. at[d][k - 1] \in Nat /\ at[d][k] \in Nat /\ at[d][t + 1] \in Nat
    BY <1>0, <1>1, <2>3, <2>5
  <2> QED BY <2>3, <2>6, <2>7, <2>8, <2>9
<1>3. at[d][j] \in Nat /\ at[d][t + 1] \in Nat
  BY <1>0, <1>1
<1> QED BY <1>2, <1>3

\* A member ends before the header of any later one, and before the end.
LEMMA MembersApart ==
  ASSUME NEW d \in FS_DEVICE, NEW t \in Member(d)
  PROVE  /\ at[d][t] < at[d][t + 1] /\ at[d][t + 1] <= End(d)
         /\ \A j \in Member(d) : j > t => at[d][t + 1] <= at[d][j]
<1>1. t \in Nat /\ t + 1 \in Nat /\ Len(archive[d]) \in Nat
      /\ Len(archive[d]) + 1 \in t + 1..Len(archive[d]) + 1
  BY Archives DEF Member
<1>2. at[d][t + 1] <= End(d)
  BY <1>1, HeadersOrdered DEF End
<1>3. \A j \in Member(d) : j > t => j \in t + 1..Len(archive[d]) + 1
  BY <1>1 DEF Member
<1>4. at[d][t] \in Nat /\ Padded(Len(archive[d][t].data)) \in Nat
  <2>1. t \in 1..Len(archive[d]) + 1 /\ Len(archive[d][t].data) \in Nat
    BY <1>1, Archives DEF Member
  <2> QED BY <2>1, Archives, PaddedCovers
<1>5. at[d][t] < at[d][t + 1]
  BY <1>4, HeaderNext
<1> QED BY <1>2, <1>3, <1>5, HeadersOrdered

OnHeader(d, c) == c >= End(d) \/ \E t \in Member(d) : c = at[d][t]

LEMMA HeaderIs ==
  ASSUME NEW d \in FS_DEVICE, NEW c \in Nat, OnHeader(d, c)
  PROVE  \/ \E t \in Member(d) :
               /\ c = at[d][t]
               /\ Header(d, c) = [name |-> archive[d][t].name, filelen |-> Len(archive[d][t].data)]
         \/ /\ c >= End(d)
            /\ Header(d, c) = [name |-> <<>>, filelen |-> 0]
<1> DEFINE here == {t \in Member(d) : at[d][t] = c}
<1>1. CASE here # {}
  <2> DEFINE t == CHOOSE t \in here : TRUE
  <2>1. t \in here
    BY <1>1
  <2>2. Header(d, c) = [name |-> archive[d][t].name, filelen |-> Len(archive[d][t].data)]
    BY <1>1 DEF Header
  <2> HIDE DEF t
  <2> QED BY <2>1, <2>2
<1>2. CASE here = {}
  BY <1>2 DEF OnHeader, Header
<1> QED BY <1>1, <1>2

-----------------------------------------------------------------------------
(* The mount table *)

MountInv ==
    /\ mounts \in Seq([path : Seq(Char), fs : FS_DEVICE]) /\ Len(mounts) <= MaxEntries
    /\ \A t \in 1..Len(mounts) : Len(mounts[t].path) < PathSize

MatchingIn(table, path) == {t \in 1..Len(table) : IsPrefix(table[t].path, path)}
Matching(path) == MatchingIn(mounts, path)
FoundIn(table, path) == SelectInSeq(table, LAMBDA e : IsPrefix(e.path, path))

\* The first entry, of any table, whose path is a prefix.
LEMMA FirstEntry ==
  ASSUME NEW table, NEW path
  PROVE  /\ FoundIn(table, path) = 0 <=> MatchingIn(table, path) = {}
         /\ FoundIn(table, path) # 0 =>
               /\ FoundIn(table, path) \in MatchingIn(table, path)
               /\ \A t \in MatchingIn(table, path) : FoundIn(table, path) <= t
<1> DEFINE k == FoundIn(table, path)
           matching == MatchingIn(table, path)
<1>1. k = IF matching # {} THEN Min(matching) ELSE 0
  BY DEF SelectInSeq, FoundIn, MatchingIn
<1>2. matching \subseteq Nat /\ 0 \notin matching
  BY DEF MatchingIn
<1> HIDE DEF k, matching
<1>3. matching # {} => Min(matching) \in matching /\ \A t \in matching : Min(matching) <= t
  BY <1>2, LeastElement DEF Min
<1>4. (k = 0 <=> matching = {}) /\ (k # 0 => k \in matching /\ \A t \in matching : k <= t)
  BY <1>1, <1>2, <1>3
<1> QED BY <1>4 DEF k, matching

LEMMA FindIs ==
  ASSUME NEW path
  PROVE  /\ find(path) = 0 <=> Matching(path) = {}
         /\ find(path) # 0 => /\ find(path) \in Matching(path)
                              /\ \A t \in Matching(path) : find(path) <= t
<1>1. find(path) = FoundIn(mounts, path)
  BY DEF find, FoundIn, SelectInSeq
<1> QED BY <1>1, FirstEntry DEF Matching

\* An entry that is added behind the others is never the first.
LEMMA FindKept ==
  ASSUME NEW path, Len(mounts) \in Nat, Len(mounts') = Len(mounts) + 1,
         \A t \in 1..Len(mounts) : mounts'[t] = mounts[t], find(path) # 0
  PROVE  find(path)' = find(path) /\ mounts'[find(path)] = mounts[find(path)]
<1> DEFINE k == FoundIn(mounts, path)
           l == FoundIn(mounts', path)
<1>0. find(path) = k /\ find(path)' = l
  BY DEF find, FoundIn, SelectInSeq
<1>1. k \in MatchingIn(mounts, path) /\ \A t \in MatchingIn(mounts, path) : k <= t
  BY <1>0, FirstEntry
<1>2. /\ l = 0 <=> MatchingIn(mounts', path) = {}
      /\ l # 0 => l \in MatchingIn(mounts', path) /\ \A t \in MatchingIn(mounts', path) : l <= t
  BY FirstEntry
<1> HIDE DEF k, l
<1>3. k \in 1..Len(mounts) /\ k \in MatchingIn(mounts', path)
  BY <1>1 DEF MatchingIn
<1>4. l \in MatchingIn(mounts', path) /\ l <= k
  BY <1>2, <1>3
<1>5. l \in MatchingIn(mounts, path)
  BY <1>3, <1>4 DEF MatchingIn
<1>6. k <= l /\ l \in Int /\ k \in Int
  BY <1>1, <1>3, <1>5 DEF MatchingIn
<1>7. k = l
  BY <1>4, <1>6
<1> QED BY <1>0, <1>3, <1>7

LEMMA MountAdds ==
  ASSUME MountInv, NEW p \in MountPoint, NEW d \in FS_DEVICE, mount(p, d)
  PROVE  /\ MountInv'
         /\ Len(mounts') = Len(mounts) + 1
         /\ \A t \in 1..Len(mounts) : mounts'[t] = mounts[t]
         /\ UNCHANGED <<call, ret>>
<1> DEFINE n == IF Len(p) < PathSize THEN Len(p) ELSE PathSize - 1
           e == [path |-> Copied(p), fs |-> d]
<1>1. p \in Seq(Char) /\ PathSize \in Nat /\ PathSize > 0 /\ MaxEntries \in Nat
  <2>1. Path \union MountPoint \subseteq Seq(Char) /\ PathSize \in Nat \ {0} /\ MaxEntries \in Nat
    BY FilesAssumption, Zenon
  <2> QED BY <2>1
<1>2. Len(p) \in Nat /\ \A t \in 1..Len(p) : p[t] \in Char
  BY <1>1, LenProperties, ElementOfSeq
<1>3. n \in Nat /\ n <= Len(p) /\ n < PathSize
  BY <1>1, <1>2
<1>4. Copied(p) = SubSeq(p, 1, n)
  BY DEF Copied
<1> HIDE DEF n
<1>5. Copied(p) \in Seq(Char) /\ Len(Copied(p)) = n
  <2>1. \A t \in 1..n : p[t] \in Char
    BY <1>2, <1>3
  <2>2. 1 \in Int /\ n \in Int
    BY <1>3
  <2>3. SubSeq(p, 1, n) \in Seq(Char) /\ Len(SubSeq(p, 1, n)) = IF 1 <= n THEN n - 1 + 1 ELSE 0
    BY <2>1, <2>2, SubSeqProperties
  <2> QED BY <1>3, <1>4, <2>3
<1>6. e \in [path : Seq(Char), fs : FS_DEVICE] /\ e.path = Copied(p)
  BY <1>5
<1>7. mounts' = Append(mounts, e) /\ Len(mounts) < MaxEntries /\ UNCHANGED <<call, ret>>
  BY DEF mount
<1>8. mounts \in Seq([path : Seq(Char), fs : FS_DEVICE])
  BY DEF MountInv
<1> HIDE DEF e
<1>9. /\ mounts' \in Seq([path : Seq(Char), fs : FS_DEVICE]) /\ Len(mounts') = Len(mounts) + 1
      /\ \A t \in 1..Len(mounts) : mounts'[t] = mounts[t]
      /\ mounts'[Len(mounts) + 1] = e /\ Len(mounts) \in Nat
  BY <1>6, <1>7, <1>8, AppendProperties
<1>10. \A t \in 1..Len(mounts') : t \in 1..Len(mounts) \/ t = Len(mounts) + 1
  BY <1>9
<1>11. Len(mounts') <= MaxEntries
  BY <1>1, <1>7, <1>9
<1> QED BY <1>3, <1>5, <1>6, <1>7, <1>9, <1>10, <1>11 DEF MountInv

-----------------------------------------------------------------------------
(* Lookups *)

Asked == [op : {"fstat", "read"}, path : Path, offset : Nat, size : Nat, cursor : Nat,
          fs : FS_DEVICE, name : Seq(Char)]

\* The walk is on a header, no member before it has the name, and one that
\* looks for the mount point itself stops at the end.
OnItsWay(c) ==
    /\ c \in Asked
    /\ OnHeader(c.fs, c.cursor)
    /\ \A t \in Member(c.fs) : at[c.fs][t] < c.cursor => archive[c.fs][t].name # c.name
    /\ c.name = <<>> => c.cursor <= End(c.fs)

Mounted(d) == \E t \in 1..Len(mounts) : mounts[t].fs = d

CallInv == call # NoCall => OnItsWay(call) /\ Mounted(call.fs)

Sound(r) == AnswersRight(r) /\ r.of.path \in Path /\ (r.ok => r.n \in Nat)

RetInv == ret # NoReturn => Sound(ret)

FilesInv == MountInv /\ CallInv /\ RetInv

LEMMA FilesAsSaid == FilesInv => FilesTypeOK /\ CursorAtHeader /\ LookupRight
<1> SUFFICES ASSUME FilesInv PROVE FilesTypeOK /\ CursorAtHeader /\ LookupRight
  OBVIOUS
<1>1. /\ mounts \in Seq([path : Seq(Char), fs : FS_DEVICE])
      /\ DOMAIN mounts = 1..Len(mounts)
      /\ \A t \in 1..Len(mounts) : mounts[t] \in [path : Seq(Char), fs : FS_DEVICE]
  BY LenProperties, ElementOfSeq DEF FilesInv, MountInv
<1>2. FilesTypeOK
  BY <1>1 DEF FilesInv, MountInv, CallInv, OnItsWay, Mounted, Asked, FilesTypeOK
<1>3. CursorAtHeader
  BY DEF FilesInv, CallInv, OnItsWay, OnHeader, CursorAtHeader
<1> QED BY <1>2, <1>3 DEF FilesInv, RetInv, Sound, LookupRight

LEMMA InitFiles == FilesInit => FilesInv
<1> SUFFICES ASSUME FilesInit PROVE FilesInv
  OBVIOUS
<1>1. mounts = <<>> /\ call = NoCall /\ ret = NoReturn
  BY DEF FilesInit
<1>2. MountInv
  BY <1>1, FilesAssumption, EmptySeq DEF MountInv
<1> QED BY <1>1, <1>2 DEF FilesInv, CallInv, RetInv

\* A mount does not disturb a lookup.
LEMMA MountStep ==
  ASSUME FilesInv, NEW p \in MountPoint, NEW d \in FS_DEVICE, mount(p, d)
  PROVE  FilesInv'
<1>1. MountInv
  BY DEF FilesInv
<1>2. /\ MountInv' /\ UNCHANGED <<call, ret>> /\ Len(mounts') = Len(mounts) + 1
      /\ \A t \in 1..Len(mounts) : mounts'[t] = mounts[t]
  BY <1>1, MountAdds
<1>3. Len(mounts) \in Nat
  BY <1>1, LenProperties DEF MountInv
<1>4. Mounted(call.fs) => Mounted(call.fs)'
  BY <1>2, <1>3 DEF Mounted
<1> QED BY <1>2, <1>4 DEF FilesInv, CallInv, RetInv

\* A lookup begins on the first header, or ends at once.
LEMMA BeginStep ==
  ASSUME FilesInv, NEW op \in {"fstat", "read", "write"}, NEW path \in Path,
         NEW offset \in Nat, NEW size \in Nat, Begin(op, path, offset, size)
  PROVE  FilesInv'
<1> DEFINE n == find(path)
           c == [op |-> op, path |-> path, offset |-> offset, size |-> size, cursor |-> 0,
                 fs   |-> IF n = 0 THEN "none" ELSE mounts[n].fs,
                 name |-> IF n = 0 THEN path
                          ELSE SubSeq(path, Len(mounts[n].path) + 1, Len(path))]
<1>1. MountInv /\ MountInv'
  BY DEF FilesInv, Begin, MountInv
<1>2. CASE n = 0
  <2>1. call' = NoCall /\ ret' = [of |-> c, ok |-> FALSE, n |-> 0, buf |-> <<>>]
    BY <1>2 DEF Begin, Returned
  <2>2. c.fs = "none" /\ c.path \in Path
    BY <1>2
  <2>3. Sound(ret')
    BY <2>1, <2>2, FilesAssumption DEF Sound, AnswersRight
  <2> QED BY <1>1, <2>1, <2>3 DEF FilesInv, CallInv, RetInv
<1>3. CASE n # 0 /\ op = "write"
  <2>1. call' = NoCall /\ ret' = [of |-> c, ok |-> FALSE, n |-> -1, buf |-> <<>>]
    BY <1>3 DEF Begin, Returned
  <2>2. c.op = "write" /\ c.path \in Path
    BY <1>3
  <2>3. Sound(ret')
    BY <2>1, <2>2 DEF Sound, AnswersRight
  <2> QED BY <1>1, <2>1, <2>3 DEF FilesInv, CallInv, RetInv
<1>4. CASE n # 0 /\ op # "write"
  <2>1. call' = c /\ ret' = NoReturn /\ mounts' = mounts
    BY <1>4 DEF Begin
  <2>2. n \in 1..Len(mounts)
    BY <1>1, <1>4, FindIs DEF Matching, MatchingIn
  <2>3. mounts[n] \in [path : Seq(Char), fs : FS_DEVICE]
    BY <1>1, <2>2, ElementOfSeq DEF MountInv
  <2> DEFINE d == mounts[n].fs
             name == SubSeq(path, Len(mounts[n].path) + 1, Len(path))
  <2>4. name \in Seq(Char)
    <3>1. path \in Seq(Char)
      <4>1. Path \union MountPoint \subseteq Seq(Char)
        BY FilesAssumption, Zenon
      <4> QED BY <4>1
    <3>2. mounts[n].path \in Seq(Char)
      BY <2>3
    <3>3. Len(mounts[n].path) + 1 \in Int /\ Len(path) \in Int /\ Len(mounts[n].path) + 1 >= 1
      BY <3>1, <3>2, LenProperties
    <3>4. \A t \in 1..Len(path) : path[t] \in Char
      BY <3>1, ElementOfSeq
    <3>5. \A t \in Len(mounts[n].path) + 1..Len(path) : path[t] \in Char
      BY <3>3, <3>4
    <3> QED BY <3>3, <3>5, SubSeqProperties
  <2>5. d \in FS_DEVICE
    BY <2>3
  <2>6. /\ c.op \in {"fstat", "read"} /\ c.path = path /\ c.offset = offset /\ c.size = size
        /\ c.cursor = 0 /\ c.fs = d /\ c.name = name
    BY <1>4
  <2>7. c \in Asked
    BY <1>4, <2>4, <2>5 DEF Asked
  <2>8. OnHeader(d, 0)
    <3>1. CASE Len(archive[d]) = 0
      BY <2>5, <3>1, Archives DEF OnHeader, End
    <3>2. CASE Len(archive[d]) # 0
      <4>1. 1 \in Member(d) /\ at[d][1] = 0
        BY <2>5, <3>2, Archives DEF Member
      <4> QED BY <4>1 DEF OnHeader
    <3> QED BY <3>1, <3>2
  <2>9. (\A t \in Member(d) : ~(at[d][t] < 0)) /\ 0 <= End(d)
    <3>1. \A t \in Member(d) : t \in 1..Len(archive[d]) + 1
      BY <2>5, Archives DEF Member
    <3> QED BY <2>5, <3>1, Archives
  <2>10. Mounted(d)
    BY <2>2 DEF Mounted
  <2> HIDE DEF c, d, name, n
  <2>11. OnItsWay(c)
    BY <2>6, <2>7, <2>8, <2>9 DEF OnItsWay
  <2> QED BY <1>1, <2>1, <2>6, <2>10, <2>11 DEF FilesInv, CallInv, RetInv, Mounted
<1> QED BY <1>2, <1>3, <1>4

\* The next header, or one block further behind the end.
LEMMA WalkOnStep ==
  ASSUME FilesInv, WalkOn
  PROVE  FilesInv'
<1> DEFINE d == call.fs
           c == call.cursor
<1>1. /\ MountInv /\ RetInv /\ OnItsWay(call) /\ Mounted(d)
      /\ Header(d, c).name # call.name
      /\ call' = [call EXCEPT !.cursor = c + Past(Header(d, c))]
      /\ UNCHANGED <<mounts, ret>>
  BY DEF FilesInv, CallInv, WalkOn, Walking, Seen
<1>2. call \in Asked /\ d \in FS_DEVICE /\ c \in Nat /\ OnHeader(d, c)
  BY <1>1 DEF OnItsWay, Asked
<1> DEFINE next == c + Past(Header(d, c))
<1>3. /\ call'.cursor = next /\ call'.fs = d /\ call'.name = call.name
      /\ (next \in Nat => call' \in Asked)
  BY <1>1, <1>2 DEF Asked
<1>4. /\ next \in Nat /\ OnHeader(d, next)
      /\ \A j \in Member(d) : at[d][j] < next => archive[d][j].name # call.name
      /\ call.name = <<>> => next <= End(d)
  <2>1. ASSUME NEW t \in Member(d), c = at[d][t],
               Header(d, c) = [name |-> archive[d][t].name, filelen |-> Len(archive[d][t].data)]
        PROVE  <1>4
    <3>1. next = at[d][t + 1] /\ archive[d][t].name # call.name
      <4>1. at[d][t + 1] = at[d][t] + 1 + Padded(Len(archive[d][t].data))
        BY <1>2, HeaderNext
      <4>2. Padded(Len(archive[d][t].data)) \in Nat
        BY <1>2, Archives, PaddedCovers
      <4> QED BY <1>1, <1>2, <2>1, <4>1, <4>2 DEF Past
    <3>2. t \in Nat /\ t + 1 \in 1..Len(archive[d]) + 1 /\ Len(archive[d]) \in Nat
      BY <1>2, Archives DEF Member
    <3>3. next \in Nat
      BY <1>2, <3>1, <3>2, Archives
    <3>4. OnHeader(d, next)
      <4>1. CASE t + 1 \in Member(d)
        BY <3>1, <4>1 DEF OnHeader
      <4>2. CASE t + 1 \notin Member(d)
        <5>1. t + 1 = Len(archive[d]) + 1
          BY <3>2, <4>2 DEF Member
        <5> QED BY <3>1, <3>3, <5>1 DEF OnHeader, End
      <4> QED BY <4>1, <4>2
    <3>5. next <= End(d)
      BY <1>2, <3>1, MembersApart
    <3>6. ASSUME NEW j \in Member(d), at[d][j] < next PROVE archive[d][j].name # call.name
      <4>1. CASE j = t
        BY <3>1, <4>1
      <4>2. CASE j > t
        <5>1. next <= at[d][j]
          BY <1>2, <3>1, <4>2, MembersApart
        <5>2. at[d][j] \in Nat
          BY <1>2, Archives DEF Member
        <5> QED BY <3>3, <3>6, <5>1, <5>2
      <4>3. CASE j < t
        <5>1. at[d][j] < at[d][j + 1] /\ at[d][j + 1] <= at[d][t]
          BY <1>2, <4>3, MembersApart
        <5>2. at[d][j] \in Nat /\ at[d][j + 1] \in Nat
          BY <1>2, Archives DEF Member
        <5>3. at[d][j] < c
          BY <1>2, <2>1, <5>1, <5>2
        <5> QED BY <1>1, <5>3 DEF OnItsWay
      <4>4. j \in Int /\ t \in Int
        BY DEF Member
      <4> QED BY <4>1, <4>2, <4>3, <4>4
    <3> QED BY <3>3, <3>4, <3>5, <3>6
  <2>2. ASSUME c >= End(d), Header(d, c) = [name |-> <<>>, filelen |-> 0]
        PROVE  <1>4
    <3>1. Padded(0) \in Nat /\ next = c + (1 + Padded(0)) /\ End(d) \in Nat
      BY <1>2, <2>2, PaddedCovers, Archives DEF Past
    <3>2. next \in Nat /\ OnHeader(d, next) /\ call.name # <<>>
      BY <1>1, <1>2, <2>2, <3>1 DEF OnHeader
    <3>3. ASSUME NEW j \in Member(d) PROVE archive[d][j].name # call.name
      <4>1. at[d][j] < at[d][j + 1] /\ at[d][j + 1] <= End(d)
        BY <1>2, MembersApart
      <4>2. at[d][j] \in Nat /\ at[d][j + 1] \in Nat
        BY <1>2, Archives DEF Member
      <4>3. at[d][j] < c
        BY <1>2, <2>2, <3>1, <4>1, <4>2
      <4> QED BY <1>1, <4>3 DEF OnItsWay
    <3> QED BY <3>2, <3>3
  <2> QED BY <1>2, <2>1, <2>2, HeaderIs
<1> HIDE DEF next
<1>5. OnItsWay(call')
  BY <1>3, <1>4 DEF OnItsWay
<1> QED BY <1>1, <1>3, <1>5 DEF FilesInv, CallInv, RetInv, MountInv, Mounted

-----------------------------------------------------------------------------
(* What is read *)

LEMMA ModSmall ==
  ASSUME NEW a \in Nat, NEW w \in Nat, w > 0
  PROVE  a % w \in Nat /\ a % w <= a /\ (a < w => a % w = a)
BY SMTT(30)

LEMMA ClippedIs ==
  ASSUME NEW offset \in Nat, NEW size \in Nat, NEW limit \in Nat
  PROVE  /\ offset + size <= limit => Clipped(offset, size, limit) = size
         /\ Clipped(offset, 0, limit) = 0
         /\ offset + size < Wrap =>
               Clipped(offset, size, limit) =
                 IF offset >= limit THEN 0
                 ELSE IF offset + size > limit THEN limit - offset ELSE size
<1>1. /\ (offset + size) % Wrap \in Nat /\ (offset + size) % Wrap <= offset + size
      /\ (offset + 0) % Wrap \in Nat /\ (offset + 0) % Wrap <= offset + 0
      /\ offset + size < Wrap => (offset + size) % Wrap = offset + size
  <2>1. Wrap \in Nat /\ Wrap > 0
    BY FilesAssumption
  <2>2. offset + size \in Nat /\ offset + 0 \in Nat
    OBVIOUS
  <2> QED BY <2>1, <2>2, ModSmall
<1> QED BY <1>1 DEF Clipped

\* A cell of a member comes from its data.
LEMMA CellIs ==
  ASSUME NEW d \in FS_DEVICE, NEW t \in Member(d), NEW k \in 1..Len(archive[d][t].data)
  PROVE  Cell(d, (at[d][t] + 1) * BLOCK + k - 1) = archive[d][t].data[k]
<1> DEFINE x == (at[d][t] + 1) * BLOCK + k - 1
           own == {j \in Member(d) : x \in (at[d][j] + 1) * BLOCK..at[d][j + 1] * BLOCK - 1}
           data == archive[d][t].data
<1>1. \A j \in Member(d) : /\ at[d][j] \in Nat /\ at[d][j + 1] \in Nat /\ j \in Nat
                            /\ Len(archive[d][j].data) \in Nat
  BY Places
<1>2. Padded(Len(data)) \in Nat /\ Len(data) <= Padded(Len(data)) * BLOCK
  BY <1>1, PaddedCovers
<1>3. at[d][t + 1] * BLOCK = (at[d][t] + 1) * BLOCK + Padded(Len(data)) * BLOCK
  <2>1. at[d][t + 1] = (at[d][t] + 1) + Padded(Len(data)) /\ at[d][t] + 1 \in Nat
    BY <1>1, <1>2, HeaderNext
  <2> QED BY <1>2, <2>1, MulSum
<1>4. (at[d][t] + 1) * BLOCK \in Nat /\ at[d][t + 1] * BLOCK \in Nat
  <2>1. at[d][t] \in Nat /\ at[d][t + 1] \in Nat
    BY <1>1
  <2> QED BY <2>1, BlockBytes
<1>5. /\ x \in Nat /\ (at[d][t] + 1) * BLOCK <= x /\ x < at[d][t + 1] * BLOCK
      /\ x - (at[d][t] + 1) * BLOCK + 1 = k
  <2>1. k \in Nat /\ k >= 1 /\ k <= Len(data) /\ Len(data) \in Nat
    BY <1>1
  <2>2. Padded(Len(data)) * BLOCK \in Nat
    BY <1>2, BlockBytes
  <2> QED BY <1>2, <1>3, <1>4, <2>1, <2>2
<1>6. ASSUME NEW j \in Member(d), j # t PROVE j \notin own
  <2>1. (at[d][j] + 1) * BLOCK \in Nat /\ at[d][j + 1] * BLOCK \in Nat
    <3>1. at[d][j] \in Nat /\ at[d][j + 1] \in Nat
      BY <1>1
    <3> QED BY <3>1, BlockBytes
  <2>2. CASE j > t
    <3>1. at[d][t + 1] <= at[d][j] + 1
      BY <1>1, <2>2, MembersApart
    <3>2. at[d][t + 1] * BLOCK <= (at[d][j] + 1) * BLOCK
      <4>1. at[d][t + 1] \in Nat /\ at[d][j] + 1 \in Nat
        BY <1>1
      <4> QED BY <3>1, <4>1, MulOrder
    <3> QED BY <1>4, <1>5, <2>1, <3>2
  <2>3. CASE j < t
    <3>1. at[d][j + 1] <= at[d][t] + 1
      BY <1>1, <2>3, MembersApart
    <3>2. at[d][j + 1] * BLOCK <= (at[d][t] + 1) * BLOCK
      <4>1. at[d][j + 1] \in Nat /\ at[d][t] + 1 \in Nat
        BY <1>1
      <4> QED BY <3>1, <4>1, MulOrder
    <3> QED BY <1>4, <1>5, <2>1, <3>2
  <2> QED BY <1>1, <1>6, <2>2, <2>3
<1>7. own = {t}
  <2>1. t \in own
    BY <1>4, <1>5
  <2> QED BY <1>6, <2>1
<1>8. Cell(d, x) = IF own = {} THEN 0
                   ELSE LET j == CHOOSE j \in own : TRUE
                            l == x - (at[d][j] + 1) * BLOCK + 1
                        IN IF l \in DOMAIN archive[d][j].data THEN archive[d][j].data[l] ELSE 0
  BY DEF Cell
<1>9. (CHOOSE j \in own : TRUE) = t /\ own # {}
  <2> HIDE DEF own
  <2> QED BY <1>7
<1>10. k \in DOMAIN data
  <2>1. data \in Seq(Nat)
    BY Archives
  <2> QED BY <2>1, LenProperties
<1> HIDE DEF x, own
<1>11. Cell(d, x) = archive[d][t].data[k]
  BY <1>5, <1>8, <1>9, <1>10
<1> QED BY <1>11 DEF x

\* Reading within a member gives that part of its data.
LEMMA ReadIs ==
  ASSUME NEW d \in FS_DEVICE, NEW t \in Member(d), NEW offset \in Nat, NEW n \in Nat,
         offset + n <= Len(archive[d][t].data)
  PROVE  /\ ramdisk_read(d, (at[d][t] + 1) * BLOCK + offset, n) =
               SubSeq(archive[d][t].data, offset + 1, offset + n)
         /\ Len(SubSeq(archive[d][t].data, offset + 1, offset + n)) = n
<1> DEFINE from == (at[d][t] + 1) * BLOCK + offset
           limit == disksize[d] * BLOCK
           data == archive[d][t].data
<1>1. /\ at[d][t] \in Nat /\ at[d][t + 1] \in Nat /\ data \in Seq(Nat) /\ Len(data) \in Nat
      /\ disksize[d] \in Nat /\ End(d) \in Nat /\ End(d) <= disksize[d]
  BY Archives, Places
<1>2. from \in Nat /\ limit \in Nat /\ from + n <= limit
  <2>1. Padded(Len(data)) \in Nat /\ offset + n \in Nat /\ offset + n <= Padded(Len(data)) * BLOCK
    <3>1. Padded(Len(data)) \in Nat /\ Len(data) <= Padded(Len(data)) * BLOCK
      BY <1>1, PaddedCovers
    <3>2. Padded(Len(data)) * BLOCK \in Nat
      BY <3>1, MulSum
    <3> QED BY <1>1, <3>1, <3>2
  <2>2. (at[d][t] + 1) + Padded(Len(data)) <= disksize[d]
    <3>1. at[d][t + 1] = (at[d][t] + 1) + Padded(Len(data)) /\ at[d][t + 1] <= End(d)
      BY <1>1, <2>1, HeaderNext, MembersApart
    <3> QED BY <1>1, <2>1, <3>1
  <2>3. /\ (at[d][t] + 1) * BLOCK \in Nat /\ disksize[d] * BLOCK \in Nat
        /\ (at[d][t] + 1) * BLOCK + (offset + n) <= disksize[d] * BLOCK
    BY <1>1, <2>1, <2>2, WithinBlocks
  <2> QED BY <2>3
<1>3. Clipped(from, n, limit) = n
  BY <1>2, ClippedIs
<1>4. ramdisk_read(d, from, n) = [k \in 1..n |-> Cell(d, from + k - 1)]
  BY <1>3 DEF ramdisk_read
<1> DEFINE part == SubSeq(data, offset + 1, offset + n)
<1>5. /\ part \in Seq(Nat) /\ Len(part) = n
      /\ \A k \in 1..n : part[k] = data[offset + k]
  <2>1. offset + 1 \in Int /\ offset + n \in Int
    OBVIOUS
  <2>2. \A k \in offset + 1..offset + n : data[k] \in Nat
    <3>1. \A k \in offset + 1..offset + n : k \in 1..Len(data)
      BY <1>1
    <3> QED BY <1>1, <3>1, ElementOfSeq
  <2>3. /\ part \in Seq(Nat)
        /\ Len(part) = IF offset + 1 <= offset + n THEN (offset + n) - (offset + 1) + 1 ELSE 0
        /\ \A k \in 1..(offset + n) - (offset + 1) + 1 : part[k] = data[(offset + 1) + k - 1]
    <3> DEFINE a == offset + 1
               b == offset + n
    <3>1. a \in Int /\ b \in Int /\ \A k \in a..b : data[k] \in Nat
      BY <2>1, <2>2
    <3> HIDE DEF a, b, data
    <3>2. /\ SubSeq(data, a, b) \in Seq(Nat)
          /\ Len(SubSeq(data, a, b)) = IF a <= b THEN b - a + 1 ELSE 0
          /\ \A k \in 1..b - a + 1 : SubSeq(data, a, b)[k] = data[a + k - 1]
      BY <3>1, SubSeqProperties
    <3> QED BY <3>2 DEF a, b
  <2>4. (offset + n) - (offset + 1) + 1 = n /\ \A k \in 1..n : (offset + 1) + k - 1 = offset + k
    OBVIOUS
  <2>5. n = 0 \/ offset + 1 <= offset + n
    BY <1>1
  <2> HIDE DEF part
  <2>6. Len(part) = n
    BY <2>3, <2>4, <2>5
  <2> QED BY <2>3, <2>4, <2>6
<1>6. \A k \in 1..n : Cell(d, from + k - 1) = data[offset + k]
  <2> SUFFICES ASSUME NEW k \in 1..n PROVE Cell(d, from + k - 1) = data[offset + k]
    OBVIOUS
  <2>1. offset + k \in 1..Len(data)
    BY <1>1
  <2>2. from + k - 1 = (at[d][t] + 1) * BLOCK + (offset + k) - 1
    <3>1. (at[d][t] + 1) * BLOCK \in Nat
      BY <1>1, BlockBytes
    <3> QED BY <3>1
  <2> QED BY <2>1, <2>2, CellIs
<1>7. part = [k \in 1..n |-> part[k]]
  BY <1>5, LenProperties
<1>8. ramdisk_read(d, from, n) = part
  <2>1. \A k \in 1..n : Cell(d, from + k - 1) = part[k]
    BY <1>5, <1>6
  <2> HIDE DEF part, from
  <2>2. [k \in 1..n |-> Cell(d, from + k - 1)] = [k \in 1..n |-> part[k]]
    BY <2>1, Zenon
  <2> QED BY <1>4, <1>7, <2>2
<1> HIDE DEF part, from
<1> QED BY <1>5, <1>8 DEF part, from

LEMMA NothingRead ==
  ASSUME NEW d \in FS_DEVICE, NEW offset \in Nat
  PROVE  ramdisk_read(d, offset, 0) = <<>>
<1>1. disksize[d] * BLOCK \in Nat
  BY Archives, MulSum
<1>2. Clipped(offset, 0, disksize[d] * BLOCK) = 0
  BY <1>1, ClippedIs
<1> QED BY <1>2 DEF ramdisk_read

LEMMA ReadLength ==
  ASSUME NEW d \in FS_DEVICE, NEW offset \in Nat, NEW n \in Nat
  PROVE  Len(ramdisk_read(d, offset, n)) \in Nat
<1>1. disksize[d] * BLOCK \in Nat
  BY Archives, MulSum
<1>2. Clipped(offset, n, disksize[d] * BLOCK) \in Nat
  BY <1>1 DEF Clipped
<1> QED BY <1>2 DEF ramdisk_read

LEMMA WantedNat ==
  ASSUME NEW c \in Asked, NEW filelen \in Nat
  PROVE  Wanted(c, filelen) \in Nat
BY DEF Wanted, Clipped, Asked

LEMMA WantedIs ==
  ASSUME NEW c \in Asked, NEW l \in Nat, c.offset + c.size < Wrap
  PROVE  Wanted(c, l) = IF c.offset >= l THEN 0
                        ELSE IF c.offset + c.size > l THEN l - c.offset ELSE c.size
<1>1. c.offset \in Nat /\ c.size \in Nat
  BY DEF Asked
<1> QED BY <1>1, ClippedIs DEF Wanted

\* The first member of the name is the one that the walk finds.
LEMMA FirstIs ==
  ASSUME NEW c, OnItsWay(c), NEW t \in Member(c.fs), c.cursor = at[c.fs][t],
         archive[c.fs][t].name = c.name
  PROVE  Named(c) # {} /\ DataOf(c) = archive[c.fs][t].data
<1>1. c.fs \in FS_DEVICE /\ at[c.fs][t] \in Nat
  BY Places DEF OnItsWay, Asked
<1>2. \A j \in Named(c) : t <= j
  <2> SUFFICES ASSUME NEW j \in Member(c.fs), archive[c.fs][j].name = c.name, j < t PROVE FALSE
    BY DEF Named, Member
  <2>1. at[c.fs][j] < at[c.fs][j + 1] /\ at[c.fs][j + 1] <= at[c.fs][t]
    BY <1>1, MembersApart
  <2>2. at[c.fs][j] \in Nat /\ at[c.fs][j + 1] \in Nat
    BY <1>1, Places
  <2> QED BY <1>1, <2>1, <2>2 DEF OnItsWay
<1>3. t \in Named(c) /\ Named(c) \subseteq Nat
  BY DEF Named, Member
<1>4. (CHOOSE f \in Named(c) : \A j \in Named(c) : f <= j) = t
  <2>1. \A f \in Named(c) : (\A j \in Named(c) : f <= j) => f = t
    BY <1>2, <1>3
  <2> QED BY <1>2, <1>3, <2>1
<1> QED BY <1>3, <1>4 DEF DataOf

\* What tarfs_read reads of a member is the part that was asked for.
LEMMA PartIs ==
  ASSUME NEW c \in Asked, NEW t \in Member(c.fs), c.offset + c.size < Wrap
  PROVE  ramdisk_read(c.fs, (at[c.fs][t] + 1) * BLOCK + c.offset,
                      Wanted(c, Len(archive[c.fs][t].data)))
            = PartOf(archive[c.fs][t].data, c)
<1>1. /\ c.fs \in FS_DEVICE /\ c.offset \in Nat /\ c.size \in Nat /\ at[c.fs][t] \in Nat
      /\ Len(archive[c.fs][t].data) \in Nat
  BY Places, FilesAssumption DEF Asked
<1> DEFINE data == archive[c.fs][t].data
           n == Wanted(c, Len(data))
           upto == IF c.offset + c.size < Len(data) THEN c.offset + c.size ELSE Len(data)
<1>3. n = IF c.offset >= Len(data) THEN 0
          ELSE IF c.offset + c.size > Len(data) THEN Len(data) - c.offset ELSE c.size
  BY <1>1, WantedIs
<1>4. PartOf(data, c) = SubSeq(data, c.offset + 1, upto)
  BY DEF PartOf
<1>5. Len(data) \in Nat
  BY <1>1
<1> HIDE DEF data, n
<1>6. CASE c.offset < Len(data)
  <2>1. n \in Nat /\ c.offset + n <= Len(data) /\ upto = c.offset + n
    BY <1>1, <1>3, <1>5, <1>6
  <2>2. ramdisk_read(c.fs, (at[c.fs][t] + 1) * BLOCK + c.offset, n)
          = SubSeq(data, c.offset + 1, c.offset + n)
    BY <1>1, <2>1, ReadIs DEF data
  <2> QED BY <1>4, <2>1, <2>2 DEF data, n
<1>7. CASE c.offset >= Len(data)
  <2>1. n = 0 /\ upto = Len(data)
    BY <1>1, <1>3, <1>5, <1>7
  <2>2. (at[c.fs][t] + 1) * BLOCK + c.offset \in Nat
    <3>1. at[c.fs][t] + 1 \in Nat
      BY <1>1
    <3>2. (at[c.fs][t] + 1) * BLOCK \in Nat
      BY <3>1, MulSum
    <3> QED BY <1>1, <3>2
  <2>3. ramdisk_read(c.fs, (at[c.fs][t] + 1) * BLOCK + c.offset, n) = <<>>
    BY <1>1, <2>1, <2>2, NothingRead
  <2>4. SubSeq(data, c.offset + 1, upto) = <<>>
    <3>1. upto < c.offset + 1 /\ c.offset + 1 \in Int /\ upto \in Int
      BY <1>1, <1>5, <1>7, <2>1
    <3> QED BY <3>1, SubSeqEmpty
  <2> QED BY <1>4, <2>3, <2>4 DEF data, n
<1> QED BY <1>1, <1>5, <1>6, <1>7

\* A lookup that finds no member answers with nothing.
LEMMA EmptyAnswer ==
  ASSUME NEW c, OnItsWay(c), Named(c) = {}, NEW r, r.of = c,
         r.ok <=> (c.name = <<>> /\ End(c.fs) < disksize[c.fs]),
         r.n = 0,
         c.op = "read" => r.buf = <<>>
  PROVE  AnswersRight(r)
<1>1. c.fs \in FS_DEVICE /\ c.offset \in Nat /\ c.size \in Nat /\ Wrap \in Nat
  BY FilesAssumption DEF OnItsWay, Asked
<1>2. DataOf(c) = <<>> /\ Len(<<>>) = 0
  BY DEF DataOf
<1>3. ~(c.offset + c.size < 0)
  BY <1>1
<1>4. PartOf(<<>>, c) = <<>>
  <2>1. PartOf(<<>>, c) = SubSeq(<<>>, c.offset + 1, 0)
    BY <1>2, <1>3 DEF PartOf
  <2>2. 0 < c.offset + 1 /\ c.offset + 1 \in Int
    BY <1>1
  <2> QED BY <2>1, <2>2, SubSeqEmpty
<1> QED BY <1>2, <1>3, <1>4 DEF AnswersRight

\* The end of a walk that finds a header of the name.
LEMMA WalkFoundStep ==
  ASSUME FilesInv, WalkFound
  PROVE  FilesInv'
<1> DEFINE d == call.fs
           c == call.cursor
           h == Header(d, c)
           buf == ramdisk_read(d, (c + 1) * BLOCK + call.offset, Wanted(call, h.filelen))
<1>1. /\ MountInv /\ OnItsWay(call) /\ c < disksize[d] /\ h.name = call.name
      /\ call' = NoCall /\ UNCHANGED mounts
      /\ ret'.of = call /\ ret'.ok = TRUE
      /\ call.op = "fstat" => ret'.n = h.filelen
      /\ call.op # "fstat" => ret'.n = Len(buf) /\ ret'.buf = buf
  BY DEF FilesInv, CallInv, WalkFound, Walking, Seen, Returned
<1>2. /\ call \in Asked /\ d \in FS_DEVICE /\ c \in Nat /\ OnHeader(d, c)
      /\ call.op \in {"fstat", "read"} /\ call.path \in Path /\ call.offset \in Nat
  BY <1>1 DEF OnItsWay, Asked
<1>3. (c + 1) * BLOCK + call.offset \in Nat
  <2>1. c + 1 \in Nat
    BY <1>2
  <2>2. (c + 1) * BLOCK \in Nat
    BY <2>1, MulSum
  <2> QED BY <1>2, <2>2
<1>4. ASSUME h.filelen \in Nat PROVE ret'.n \in Nat
  <2>1. Wanted(call, h.filelen) \in Nat
    BY <1>2, <1>4, WantedNat
  <2>2. Len(buf) \in Nat
    BY <1>2, <1>3, <2>1, ReadLength
  <2> HIDE DEF buf, h
  <2> QED BY <1>1, <1>2, <1>4, <2>2
<1>5. Sound(ret')
  <2>1. ASSUME NEW t \in Member(d), c = at[d][t],
               h = [name |-> archive[d][t].name, filelen |-> Len(archive[d][t].data)]
        PROVE  Sound(ret')
    <3>1. h.filelen = Len(archive[d][t].data) /\ h.filelen \in Nat /\ archive[d][t].name = call.name
      BY <1>1, <1>2, <2>1, Places
    <3>2. Named(call) # {} /\ DataOf(call) = archive[d][t].data
      BY <1>1, <2>1, <3>1, FirstIs
    <3>3. call.offset + call.size < Wrap => buf = PartOf(archive[d][t].data, call)
      BY <1>2, <2>1, <3>1, PartIs
    <3>4. ret'.n \in Nat
      BY <1>4, <3>1
    <3> HIDE DEF buf, h
    <3> QED BY <1>1, <1>2, <3>1, <3>2, <3>3, <3>4 DEF Sound, AnswersRight
  <2>2. ASSUME c >= End(d), h = [name |-> <<>>, filelen |-> 0]
        PROVE  Sound(ret')
    <3>1. h.filelen = 0 /\ call.name = <<>>
      BY <1>1, <2>2
    <3>2. Named(call) = {}
      BY <1>2, <3>1, Archives DEF Named
    <3>3. End(d) < disksize[d]
      BY <1>1, <1>2, <2>2, Archives
    <3>4. buf = <<>>
      <4>1. call.offset \in Nat /\ 0 \in Nat
        BY <1>2
      <4>2. Wanted(call, 0) = 0
        BY <4>1 DEF Wanted, Clipped
      <4> QED BY <1>2, <1>3, <3>1, <4>2, NothingRead
    <3>5. ret'.n = 0
      <4>1. CASE call.op = "fstat"
        BY <1>1, <3>1, <4>1
      <4>2. CASE call.op = "read"
        BY <1>1, <3>4, <4>2
      <4> QED BY <1>2, <4>1, <4>2
    <3> HIDE DEF buf, h
    <3>6. AnswersRight(ret')
      BY <1>1, <1>2, <3>1, <3>2, <3>3, <3>4, <3>5, EmptyAnswer
    <3> QED BY <1>1, <1>2, <3>5, <3>6 DEF Sound
  <2> HIDE DEF h, buf
  <2>3. \/ \E t \in Member(d) :
              c = at[d][t] /\ h = [name |-> archive[d][t].name, filelen |-> Len(archive[d][t].data)]
        \/ c >= End(d) /\ h = [name |-> <<>>, filelen |-> 0]
    BY <1>2, HeaderIs DEF h
  <2> QED BY <2>1, <2>2, <2>3
<1> HIDE DEF h, buf
<1> QED BY <1>1, <1>5 DEF FilesInv, CallInv, RetInv, MountInv

\* The end of the disk: no member has the name.
LEMMA WalkEndStep ==
  ASSUME FilesInv, WalkEnd
  PROVE  FilesInv'
<1> DEFINE d == call.fs
           c == call.cursor
<1>1. /\ MountInv /\ OnItsWay(call) /\ ~(c < disksize[d])
      /\ call' = NoCall /\ UNCHANGED mounts
      /\ ret' = [of |-> call, ok |-> FALSE, n |-> 0, buf |-> <<>>]
  BY DEF FilesInv, CallInv, WalkEnd, Walking, Returned
<1>2. call \in Asked /\ d \in FS_DEVICE /\ c \in Nat /\ call.path \in Path
  BY <1>1 DEF OnItsWay, Asked
<1>3. disksize[d] \in Nat /\ End(d) \in Nat /\ End(d) <= disksize[d]
  BY <1>2, Archives
<1>4. Named(call) = {}
  <2> SUFFICES ASSUME NEW t \in Member(d) PROVE archive[d][t].name # call.name
    BY DEF Named
  <2>1. at[d][t] < at[d][t + 1] /\ at[d][t + 1] <= End(d) /\ at[d][t] \in Nat /\ at[d][t + 1] \in Nat
    BY <1>2, MembersApart, Places
  <2>2. at[d][t] < c
    BY <1>1, <1>2, <1>3, <2>1
  <2> QED BY <1>1, <2>2 DEF OnItsWay
<1>5. ~(call.name = <<>> /\ End(d) < disksize[d])
  BY <1>1, <1>2, <1>3 DEF OnItsWay
<1>6. AnswersRight(ret')
  BY <1>1, <1>4, <1>5, EmptyAnswer
<1>7. Sound(ret')
  BY <1>1, <1>2, <1>6 DEF Sound
<1> QED BY <1>1, <1>7 DEF FilesInv, CallInv, RetInv, MountInv

LEMMA TarfsStep ==
  ASSUME FilesInv, Tarfs
  PROVE  FilesInv'
BY WalkOnStep, WalkFoundStep, WalkEndStep DEF Tarfs

LEMMA ClientStep ==
  ASSUME FilesInv, Client
  PROVE  FilesInv'
<1>1. ASSUME NEW p \in MountPoint, NEW d \in FS_DEVICE, mount(p, d) PROVE FilesInv'
  BY <1>1, MountStep
<1>2. ASSUME NEW p \in Path, Begin("fstat", p, 0, 0) \/ Begin("write", p, 0, 1) PROVE FilesInv'
  BY <1>2, BeginStep
<1>3. ASSUME NEW p \in Path, NEW o \in Amount, NEW s \in Amount, Begin("read", p, o, s) PROVE FilesInv'
  <2>1. o \in Nat /\ s \in Nat
    BY FilesAssumption
  <2> QED BY <1>3, <2>1, BeginStep
<1> QED BY <1>1, <1>2, <1>3 DEF Client

LEMMA IdleStep == FilesInv /\ UNCHANGED fvars => FilesInv'
BY DEF FilesInv, MountInv, CallInv, RetInv, Mounted, fvars

\* The inductive invariant of the file system.
LEMMA FilesInvariance == FilesSpec => []FilesInv
<1>1. FilesInv /\ [FilesNext]_fvars => FilesInv'
  BY TarfsStep, ClientStep, IdleStep DEF FilesNext
<1> QED BY <1>1, InitFiles, PTL DEF FilesSpec

LEMMA MountsKept ==
  ASSUME FilesInv,
         UNCHANGED mounts \/ \E p \in MountPoint, d \in FS_DEVICE : mount(p, d)
  PROVE  \A path \in Path : find(path) # 0 =>
            find(path)' # 0 /\ mounts'[find(path)'] = mounts[find(path)]
<1> SUFFICES ASSUME NEW path \in Path, find(path) # 0
             PROVE  find(path)' # 0 /\ mounts'[find(path)'] = mounts[find(path)]
  OBVIOUS
<1>1. CASE UNCHANGED mounts
  <2>1. find(path) = FoundIn(mounts, path) /\ find(path)' = FoundIn(mounts', path)
    BY DEF find, FoundIn, SelectInSeq
  <2> QED BY <1>1, <2>1
<1>2. ASSUME NEW p \in MountPoint, NEW d \in FS_DEVICE, mount(p, d)
      PROVE  find(path)' # 0 /\ mounts'[find(path)'] = mounts[find(path)]
  <2>1. MountInv /\ Len(mounts) \in Nat
    BY LenProperties DEF FilesInv, MountInv
  <2>2. Len(mounts') = Len(mounts) + 1 /\ \A t \in 1..Len(mounts) : mounts'[t] = mounts[t]
    BY <1>2, <2>1, MountAdds
  <2> QED BY <2>1, <2>2, FindKept
<1> QED BY <1>1, <1>2

\* Lookups leave the mount table alone.
LEMMA OnlyMounts ==
  [FilesNext]_fvars => UNCHANGED mounts \/ \E p \in MountPoint, d \in FS_DEVICE : mount(p, d)
BY DEF FilesNext, Client, Tarfs, Begin, WalkOn, WalkFound, WalkEnd, fvars

-----------------------------------------------------------------------------
(* The theorems *)

\* The table of mounts stays within its array, the copied paths within
\* theirs, and lookups are only under way on mounted devices.
THEOREM FilesTyped == FilesSpec => []FilesTypeOK
BY FilesInvariance, FilesAsSaid, PTL

\* Whatever the members hold and are called, the walk of tarfs_fstat and
\* tarfs_read takes nothing for a header but headers and the end.
THEOREM CursorStaysOnHeaders == FilesSpec => []CursorAtHeader
BY FilesInvariance, FilesAsSaid, PTL

\* Every lookup answers with the first member of its name, its length and
\* the part of its data that was asked for, as long as the sum of offset and
\* size does not wrap.
THEOREM LookupsRight == FilesSpec => []LookupRight
BY FilesInvariance, FilesAsSaid, PTL

\* mount only adds behind what is mounted: a path that find finds a file
\* system for never gets another.
THEOREM MountsStay == FilesSpec => MountsStable
<1> DEFINE Kept == \A p \in Path : find(p) # 0 =>
                      find(p)' # 0 /\ mounts'[find(p)'] = mounts[find(p)]
<1>1. FilesInv /\ [FilesNext]_fvars => [Kept]_fvars
  BY OnlyMounts, MountsKept
<1>2. MountsStable <=> [][Kept]_fvars
  BY DEF MountsStable
<1> HIDE DEF Kept
<1> QED BY <1>1, <1>2, FilesInvariance, PTL DEF FilesSpec

-----------------------------------------------------------------------------
(* The loader *)

\* Whoever waits for an answer has a lookup under way or an answer.
Answering == call # NoCall \/ ret # NoReturn
WaitInv == phase = "fstat" => Answering

LoaderInv == FilesInv /\ WaitInv

-----------------------------------------------------------------------------
(* Lookups *)

LEMMA AskedIsCall == \A c \in Asked : c # NoCall
<1> SUFFICES ASSUME NEW c \in Asked PROVE c # NoCall
  OBVIOUS
<1>1. c.op \in {"fstat", "read"} /\ NoCall.op = "none"
  BY DEF Asked, NoCall
<1> QED BY <1>1

LEMMA CallGoesOn ==
  ASSUME FilesInv, Tarfs
  PROVE  Answering'
<1>1. call # NoCall => call \in Asked
  BY DEF FilesInv, CallInv, OnItsWay
<1>2. CASE WalkOn
  <2>1. call \in Asked /\ call'.op = call.op
    BY <1>1, <1>2 DEF WalkOn, Walking, Asked
  <2>2. call'.op # "none" /\ NoCall.op = "none"
    BY <2>1 DEF Asked, NoCall
  <2> QED BY <2>2 DEF Answering
<1>3. ASSUME NEW ok, NEW n, NEW buf, call # NoCall, Returned(call, ok, n, buf)
      PROVE  Answering'
  <2>1. ret'.of = call /\ NoReturn.of = NoCall
    BY <1>3 DEF Returned, NoReturn
  <2> QED BY <1>3, <2>1 DEF Answering
<1>4. CASE WalkFound
  BY <1>3, <1>4 DEF WalkFound, Walking
<1>5. CASE WalkEnd
  BY <1>3, <1>5 DEF WalkEnd
<1> QED BY <1>2, <1>4, <1>5 DEF Tarfs

LEMMA BeginAnswers ==
  ASSUME NEW path, NEW offset, NEW size, NEW op \in {"fstat", "read"},
         Begin(op, path, offset, size)
  PROVE  Answering'
<1> DEFINE k == find(path)
           c == [op |-> op, path |-> path, offset |-> offset, size |-> size, cursor |-> 0,
                 fs   |-> IF k = 0 THEN "none" ELSE mounts[k].fs,
                 name |-> IF k = 0 THEN path
                          ELSE SubSeq(path, Len(mounts[k].path) + 1, Len(path))]
<1>1. c.op = op /\ NoCall.op = "none" /\ NoReturn.of = NoCall
  BY DEF NoCall, NoReturn
<1>2. c # NoCall
  BY <1>1
<1>3. call' = c \/ ret'.of = c
  <2>1. CASE k = 0
    <3>1. Returned(c, FALSE, 0, <<>>)
      BY <2>1 DEF Begin
    <3> HIDE DEF c
    <3> QED BY <3>1 DEF Returned
  <2>2. CASE k # 0
    BY <2>2 DEF Begin
  <2> QED BY <2>1, <2>2
<1> HIDE DEF c
<1> QED BY <1>1, <1>2, <1>3 DEF Answering

LEMMA InitLoader == Init => LoaderInv
BY InitFiles DEF Init, LoaderInv, WaitInv

LEMMA StartStep ==
  ASSUME LoaderInv, NEW path \in Program, load_program(path)
  PROVE  LoaderInv'
<1>1. path \in Path /\ 0 \in Nat /\ Begin("fstat", path, 0, 0)
  BY LoaderAssumption DEF load_program
<1>2. FilesInv'
  BY <1>1, BeginStep DEF LoaderInv
<1> QED BY <1>1, <1>2, BeginAnswers DEF LoaderInv, WaitInv

\* The loader reads as much as fstat has said.
LEMMA FstatStep ==
  ASSUME LoaderInv, Fstat
  PROVE  LoaderInv'
<1>1. FilesInv /\ call = NoCall /\ ret # NoReturn
  BY DEF LoaderInv, WaitInv, Answering, Fstat
<1>2. ret.of.path \in Path /\ (ret.ok => ret.n \in Nat)
  BY <1>1 DEF FilesInv, RetInv, Sound
<1>3. phase' # "fstat"
  BY DEF Fstat, Return
<1>4. CASE ret.ok /\ Begin("read", ret.of.path, 0, ret.n)
  BY <1>1, <1>2, <1>3, <1>4, BeginStep DEF LoaderInv, WaitInv
<1>5. CASE UNCHANGED fvars
  BY <1>1, <1>3, <1>5, IdleStep DEF LoaderInv, WaitInv
<1> QED BY <1>4, <1>5 DEF Fstat

LEMMA OtherStep ==
  ASSUME LoaderInv, Load, ~Fstat
  PROVE  LoaderInv'
<1>1. UNCHANGED fvars /\ phase' # "fstat"
  BY DEF Load, Read, SkipHeader, AtHeader, RefuseHeader, LoadSegment, AppendFails, OverRead, Relocate, RelocateOne,
         RelocateGivesUp, RelocateDone, ExtractSymbol, Finish, Return
<1> QED BY <1>1, IdleStep DEF LoaderInv, WaitInv

LEMMA LoaderStep == LoaderInv /\ [Next]_vars => LoaderInv'
<1> SUFFICES ASSUME LoaderInv, [Next]_vars PROVE LoaderInv'
  OBVIOUS
<1>1. CASE phase = "idle" /\ Client /\ UNCHANGED lvars
  BY <1>1, ClientStep DEF LoaderInv, WaitInv, lvars
<1>2. CASE Tarfs /\ UNCHANGED lvars
  BY <1>2, TarfsStep, CallGoesOn DEF LoaderInv, WaitInv
<1>3. ASSUME NEW path \in Program, load_program(path) PROVE LoaderInv'
  BY <1>3, StartStep
<1>4. CASE Load
  BY <1>4, FstatStep, OtherStep
<1>5. CASE UNCHANGED vars
  BY <1>5, IdleStep DEF LoaderInv, WaitInv, Answering, vars, fvars, lvars
<1> QED BY <1>1, <1>2, <1>3, <1>4, <1>5 DEF Next

-----------------------------------------------------------------------------
(* Pages *)

LEMMA Multiples ==
  ASSUME NEW p \in Nat, NEW a \in Nat, NEW b \in Nat, a < b
  PROVE  p * a \in Nat /\ p * b \in Nat /\ p * a + p <= p * b
<1>1. PICK c \in Nat : b = a + 1 + c
  <2>1. b - a - 1 \in Nat /\ b = a + 1 + (b - a - 1)
    OBVIOUS
  <2> QED BY <2>1
<1>2. p * (a + 1 + c) = p * a + p + p * c /\ p * c \in Nat /\ p * a \in Nat /\ p * b \in Nat
  BY SMTT(30)
<1> QED BY <1>1, <1>2

LEMMA DivIs ==
  ASSUME NEW x \in Nat, NEW p \in Nat, p > 0, NEW q \in Nat, p * q <= x, x < p * q + p
  PROVE  x \div p = q
<1> DEFINE e == x \div p
<1>1. e \in Nat /\ p * e <= x /\ x < p * e + p
  OBVIOUS
<1> HIDE DEF e
<1>2. p * q \in Nat /\ p * e \in Nat
  BY <1>1
<1>3. ~(e < q)
  <2> SUFFICES ASSUME e < q PROVE FALSE
    OBVIOUS
  <2>1. p * e + p <= p * q
    BY <1>1, Multiples
  <2> QED BY <1>1, <1>2, <2>1
<1>4. ~(q < e)
  <2> SUFFICES ASSUME q < e PROVE FALSE
    OBVIOUS
  <2>1. p * q + p <= p * e
    BY <1>1, Multiples
  <2> QED BY <1>1, <1>2, <2>1
<1>5. e = q
  BY <1>1, <1>3, <1>4
<1> QED BY <1>5 DEF e

LEMMA DivMono ==
  ASSUME NEW p \in Nat, p > 0, NEW x \in Nat, NEW y \in Nat, x <= y
  PROVE  x \div p \in Nat /\ y \div p \in Nat /\ x \div p <= y \div p
<1> DEFINE d == x \div p
           e == y \div p
<1>1. d \in Nat /\ p * d <= x /\ e \in Nat /\ y < p * e + p
  OBVIOUS
<1> HIDE DEF d, e
<1>2. p * d \in Nat /\ p * e \in Nat
  BY <1>1
<1>3. ~(e < d)
  <2> SUFFICES ASSUME e < d PROVE FALSE
    OBVIOUS
  <2>1. p * e + p <= p * d
    BY <1>1, Multiples
  <2> QED BY <1>1, <1>2, <2>1
<1>4. d <= e
  BY <1>1, <1>3
<1> QED BY <1>1, <1>4 DEF d, e

\* mmu_mmap marks every page of a segment that does not spread.
LEMMA FittingIsBacked ==
  ASSUME NEW v \in Nat, NEW m \in Nat, v + RoundUp(m) < W,
         m > 0 => (v + m - 1) \div PAGE - v \div PAGE < (m + PAGE - 1) \div PAGE,
         NEW pages, Pages(v, RoundUp(m)) \subseteq pages
  PROVE  IsBacked(v, m, pages)
<1> SUFFICES ASSUME NEW x \in v..v + m - 1 PROVE x \div PAGE \in pages
  BY DEF IsBacked
<1>1. PAGE \in Nat /\ PAGE > 0 /\ W \in Nat /\ W > 0
  BY LoaderAssumption
<1> DEFINE q == v \div PAGE
           e == x \div PAGE
           c == (m + PAGE - 1) \div PAGE
           last == v + m - 1
<1>2. x \in Nat /\ v <= x /\ x <= last /\ m > 0 /\ last \in Nat /\ m + PAGE - 1 \in Nat
  BY <1>1
<1>3. q \in Nat /\ PAGE * q <= v /\ v < PAGE * q + PAGE
  BY <1>1
<1>4. e \in Nat /\ q <= e /\ e - q < c
  <2>1. e \in Nat /\ q <= e
    BY <1>1, <1>2, DivMono
  <2>2. last \div PAGE \in Nat /\ e <= last \div PAGE
    BY <1>1, <1>2, DivMono
  <2>3. last \div PAGE - q < c
    BY <1>2
  <2>4. c \in Nat
    BY <1>1, <1>2
  <2> HIDE DEF e, c, q, last
  <2> QED BY <1>3, <2>1, <2>2, <2>3, <2>4
<1>5. c \in Nat /\ RoundUp(m) = c * PAGE
  BY <1>1, <1>2 DEF RoundUp
<1> HIDE DEF q, e, c, last
<1> DEFINE k == e - q
           off == PAGE * k
<1>6. k \in Nat /\ k < c /\ off \in Nat /\ PAGE * c \in Nat /\ c * PAGE = PAGE * c
  BY <1>1, <1>3, <1>4, <1>5
<1>7. RoundUp(m) \div PAGE = c
  BY <1>1, <1>5, <1>6, DivIs
<1>8. ((v + off) % W) \div PAGE \in Pages(v, RoundUp(m))
  <2>1. off \in {PAGE * l : l \in 0..RoundUp(m) \div PAGE - 1}
    BY <1>5, <1>6, <1>7
  <2> QED BY <2>1 DEF Pages
<1>9. off + PAGE <= PAGE * c
  BY <1>1, <1>5, <1>6, Multiples
<1>10. (v + off) % W = v + off
  <2>1. v + off \in Nat /\ v + off < W
    BY <1>1, <1>5, <1>6, <1>9
  <2> QED BY <1>1, <2>1, ModSmall
<1>11. (v + off) \div PAGE = e
  <2>1. PAGE * (q + k) = PAGE * q + off
    BY <1>1, <1>3, <1>6
  <2>2. q + k = e /\ PAGE * q \in Nat
    BY <1>1, <1>3, <1>4
  <2> HIDE DEF off
  <2>3. PAGE * e <= v + off /\ v + off < PAGE * e + PAGE /\ v + off \in Nat
    BY <1>1, <1>3, <1>6, <2>1, <2>2
  <2> QED BY <1>1, <1>4, <2>3, DivIs
<1> QED BY <1>8, <1>10, <1>11 DEF e

-----------------------------------------------------------------------------
(* The file that load_program reads *)

\* What the lookup under way, or else the last one, was asked.
Question == IF call # NoCall THEN call ELSE ret.of

\* It leads where the mount table says.
Led(c) ==
    LET k == find(c.path) IN
    /\ c.fs = IF k = 0 THEN "none" ELSE mounts[k].fs
    /\ c.name = IF k = 0 THEN c.path ELSE SubSeq(c.path, Len(mounts[k].path) + 1, Len(c.path))

\* load_program has asked for the length of a file, then for as much of it.
QuestionInv ==
    /\ phase = "fstat" => /\ Answering /\ Led(Question)
                          /\ Question.op = "fstat" /\ Question.offset = 0 /\ Question.size = 0
    /\ phase = "read"  => /\ Answering /\ Question.fs \in FS_DEVICE
                          /\ Question.op = "read" /\ Question.offset = 0
                          /\ Question.size = Len(DataOf(Question))
    /\ ret # NoReturn /\ ret.ok => ret.of.fs \in FS_DEVICE

LEMMA RoundUpIs ==
  ASSUME NEW n \in Nat
  PROVE  RoundUp(n) \in Nat /\ n <= RoundUp(n)
<1>1. PAGE \in Nat /\ PAGE > 0
  BY LoaderAssumption
<1> DEFINE c == (n + PAGE - 1) \div PAGE
<1>2. n + PAGE - 1 \in Nat
  BY <1>1
<1>3. c \in Nat /\ n + PAGE - 1 < PAGE * c + PAGE
  BY <1>1, <1>2
<1>4. RoundUp(n) = c * PAGE
  BY DEF RoundUp
<1> HIDE DEF c
<1>5. c * PAGE = PAGE * c /\ PAGE * c \in Nat
  BY <1>1, <1>3
<1> QED BY <1>1, <1>3, <1>4, <1>5

LEMMA FileIs ==
  ASSUME NEW data \in DOMAIN elf
  PROVE  data \in Seq(Byte) /\ Len(data) \in Nat /\ Len(data) < Wrap
BY LoaderAssumption, LenProperties

\* What is found in a file.
LEMMA Images ==
  ASSUME NEW data \in DOMAIN elf, NEW f \in elf[data]
  PROVE  /\ Len(f.phdr) \in Nat /\ Len(f.shdr) \in Nat /\ DOMAIN f.shdr = 1..Len(f.shdr)
         /\ ToSet(f.phdr) = {f.phdr[j] : j \in 1..Len(f.phdr)}
         /\ f.entry \in Address
         /\ \A h \in LoadHeaders(f) :
               /\ h.vaddr \in Nat /\ h.memsz \in Nat /\ h.filesz \in Nat /\ h.offset \in Nat
               /\ h.vaddr + RoundUp(h.memsz) < W /\ h.vaddr + h.memsz < W
<1>1. /\ f.phdr \in Seq(ToSet(f.phdr)) /\ f.shdr \in Seq(ToSet(f.shdr)) /\ f.entry \in Address
      /\ \A h \in ToSet(f.phdr) : h.type = PT_LOAD =>
            {h.offset, h.vaddr, h.filesz, h.memsz} \subseteq Nat /\ h.vaddr + RoundUp(h.memsz) < W
  BY LoaderAssumption, Zenon
<1>2. \A S : \A s \in Seq(S) : Len(s) \in Nat /\ DOMAIN s = 1..Len(s)
  BY LenProperties
<1>3. ToSet(f.phdr) = {f.phdr[j] : j \in 1..Len(f.phdr)}
  BY <1>1, <1>2 DEF ToSet
<1>4. ASSUME NEW h \in LoadHeaders(f)
      PROVE  /\ h.vaddr \in Nat /\ h.memsz \in Nat /\ h.filesz \in Nat /\ h.offset \in Nat
             /\ h.vaddr + RoundUp(h.memsz) < W /\ h.vaddr + h.memsz < W
  <2>1. /\ h.vaddr \in Nat /\ h.memsz \in Nat /\ h.filesz \in Nat /\ h.offset \in Nat
        /\ h.vaddr + RoundUp(h.memsz) < W
    BY <1>1, <1>4 DEF LoadHeaders
  <2>2. W \in Nat
    BY LoaderAssumption
  <2> QED BY <2>1, <2>2, RoundUpIs
<1> QED BY <1>1, <1>2, <1>3, <1>4

\* The sections of a type have tables.
LEMMA SectionsAre ==
  ASSUME NEW data \in DOMAIN elf, NEW f \in elf[data],
         NEW type \in {SHT_REL, SHT_SYNSYM}, NEW k \in Sections(f, type)
  PROVE  LET t == f.shdr[k] IN
         /\ k \in 1..Len(f.shdr) /\ t.type = type
         /\ Len(t.items) \in Nat /\ DOMAIN t.items = 1..Len(t.items)
         /\ ToSet(t.items) = {t.items[j] : j \in 1..Len(t.items)}
         /\ type = SHT_REL => \A j \in 1..Len(t.items) :
               t.items[j].offset \in Address /\ t.items[j].sym \in Nat
         /\ type = SHT_SYNSYM => \A j \in 1..Len(t.items) : t.items[j].value \in Address
<1> DEFINE t == f.shdr[k]
<1>1. k \in 1..Len(f.shdr) /\ t.type = type
  BY Images DEF Sections
<1>2. t \in ToSet(f.shdr)
  BY <1>1, Images DEF ToSet
<1>3. /\ t.items \in Seq(ToSet(t.items))
      /\ t.type = SHT_REL => \A r \in ToSet(t.items) : r.offset \in Address /\ r.sym \in Nat
      /\ t.type = SHT_SYNSYM => \A y \in ToSet(t.items) : y.value \in Address
  <2> HIDE DEF t
  <2> QED BY <1>1, <1>2, LoaderAssumption, Zenon
<1> HIDE DEF t
<1>4. Len(t.items) \in Nat /\ DOMAIN t.items = 1..Len(t.items)
  BY <1>3, LenProperties
<1>5. ToSet(t.items) = {t.items[j] : j \in 1..Len(t.items)}
  BY <1>4 DEF ToSet
<1> QED BY <1>1, <1>3, <1>4, <1>5 DEF t

LEMMA GreatestElement ==
  ASSUME NEW n \in Nat, NEW S, S \subseteq 0..n, S # {}
  PROVE  \E x \in S : \A y \in S : x >= y
<1> DEFINE T == {n - x : x \in S}
<1>1. T \subseteq Nat /\ T # {}
  OBVIOUS
<1> HIDE DEF T
<1>2. PICK u \in T : \A v \in T : u <= v
  BY <1>1, LeastElement
<1>3. PICK x \in S : u = n - x
  BY DEF T
<1>4. ASSUME NEW y \in S PROVE x >= y
  <2>1. n - y \in T
    BY DEF T
  <2> QED BY <1>2, <1>3, <2>1
<1> QED BY <1>4

\* relocate finds the items of one section of a type if there is any.
LEMMA TableIs ==
  ASSUME NEW data \in DOMAIN elf, image \in elf[data], NEW type
  PROVE  IF Sections(image, type) = {} THEN Table(type) = <<>>
         ELSE \E k \in Sections(image, type) : Table(type) = image.shdr[k].items
<1> DEFINE I == {k \in 1..Len(image.shdr) : image.shdr[k].type = type}
           n == Len(image.shdr)
<1>1. I = Sections(image, type) /\ n \in Nat
  BY Images DEF Sections
<1>2. Table(type) = IF I = {} THEN <<>> ELSE image.shdr[Max(I)].items
  <2> DEFINE m == SelectLastInSeq(image.shdr, LAMBDA t : t.type = type)
  <2>1. m = IF I # {} THEN Max(I) ELSE 0
    BY DEF SelectLastInSeq
  <2>2. I # {} => Max(I) # 0
    <3> SUFFICES ASSUME I # {} PROVE Max(I) # 0
      OBVIOUS
    <3>1. Max(I) \in I
      <4>1. I \subseteq 0..n
        BY <1>1
      <4> HIDE DEF I, n
      <4> QED BY <1>1, <4>1, GreatestElement DEF Max
    <3> QED BY <3>1
  <2>3. Table(type) = IF m = 0 THEN <<>> ELSE image.shdr[m].items
    BY DEF Table
  <2> HIDE DEF m, I
  <2> QED BY <2>1, <2>2, <2>3
<1>3. I # {} => Max(I) \in I
  <2>1. I \subseteq 0..n
    BY <1>1
  <2> HIDE DEF I, n
  <2> QED BY <1>1, <2>1, GreatestElement DEF Max
<1> HIDE DEF I
<1> QED BY <1>1, <1>2, <1>3

LEMMA RelocationIs ==
  ASSUME NEW data \in DOMAIN elf, image \in elf[data]
  PROVE  /\ Len(RelTable) \in Nat
         /\ \A j \in 1..Len(RelTable) :
               /\ RelTable[j] \in Relocations(image)
               /\ RelTable[j].offset \in Address /\ RelTable[j].sym \in Nat
<1>1. CASE Sections(image, SHT_REL) = {}
  <2>1. RelTable = <<>>
    BY <1>1, TableIs DEF RelTable
  <2>2. Len(RelTable) = 0
    BY <2>1, EmptySeq
  <2> QED BY <2>2
<1>2. CASE Sections(image, SHT_REL) # {}
  <2>1. PICK k \in Sections(image, SHT_REL) : RelTable = image.shdr[k].items
    BY <1>2, TableIs DEF RelTable
  <2> DEFINE items == image.shdr[k].items
  <2>2. /\ Len(items) \in Nat /\ ToSet(items) = {items[j] : j \in 1..Len(items)}
        /\ \A j \in 1..Len(items) : items[j].offset \in Address /\ items[j].sym \in Nat
    BY SectionsAre
  <2>3. ToSet(items) \subseteq Relocations(image)
    BY DEF Relocations
  <2> HIDE DEF items
  <2>4. RelTable = items
    BY <2>1 DEF items
  <2> QED BY <2>2, <2>3, <2>4
<1> QED BY <1>1, <1>2

\* A linked program has no table but the ones that relocate finds.
LEMMA LinkedTables ==
  ASSUME NEW data \in DOMAIN elf, image \in elf[data], IsLinked(image, data)
  PROVE  /\ Relocations(image) = {RelTable[j] : j \in 1..Len(RelTable)}
         /\ \A j, l \in 1..Len(RelTable) :
               j # l => Field(RelTable[j]) \intersect Field(RelTable[l]) = {}
         /\ Sections(image, SHT_SYNSYM) # {} =>
               /\ SymTable = SymbolsOf(image)
               /\ \A n \in Nat : n < Len(SymTable) => SymTable[n + 1].value \in Address
<1>0. \A type \in {SHT_REL, SHT_SYNSYM} : \A j, k \in Sections(image, type) : j = k
  BY DEF IsLinked
<1>1. /\ Relocations(image) = {RelTable[j] : j \in 1..Len(RelTable)}
      /\ \A j, l \in 1..Len(RelTable) :
            j # l => Field(RelTable[j]) \intersect Field(RelTable[l]) = {}
  <2>1. CASE Sections(image, SHT_REL) = {}
    <3>1. RelTable = <<>>
      BY <2>1, TableIs DEF RelTable
    <3>2. Len(RelTable) = 0
      BY <3>1, EmptySeq
    <3> QED BY <2>1, <3>2 DEF Relocations
  <2>2. CASE Sections(image, SHT_REL) # {}
    <3>1. PICK k \in Sections(image, SHT_REL) : RelTable = image.shdr[k].items
      BY <2>2, TableIs DEF RelTable
    <3>2. Relocations(image) = ToSet(RelTable)
      <4>1. Sections(image, SHT_REL) = {k}
        BY <1>0
      <4> QED BY <3>1, <4>1 DEF Relocations
    <3>3. /\ ToSet(RelTable) = {RelTable[j] : j \in 1..Len(RelTable)}
          /\ DOMAIN RelTable = 1..Len(RelTable)
      <4> DEFINE items == image.shdr[k].items
      <4>1. ToSet(items) = {items[j] : j \in 1..Len(items)} /\ DOMAIN items = 1..Len(items)
        BY SectionsAre
      <4>2. RelTable = items
        BY <3>1
      <4> HIDE DEF items
      <4> QED BY <4>1, <4>2
    <3>4. \A j, l \in DOMAIN RelTable : j # l => Field(RelTable[j]) \intersect Field(RelTable[l]) = {}
      BY <3>1 DEF IsLinked
    <3> QED BY <3>2, <3>3, <3>4
  <2> QED BY <2>1, <2>2
<1>2. ASSUME Sections(image, SHT_SYNSYM) # {}
      PROVE  /\ SymTable = SymbolsOf(image)
             /\ \A n \in Nat : n < Len(SymTable) => SymTable[n + 1].value \in Address
  <2>1. PICK k \in Sections(image, SHT_SYNSYM) : SymTable = image.shdr[k].items
    BY <1>2, TableIs DEF SymTable
  <2>2. (CHOOSE l \in Sections(image, SHT_SYNSYM) : TRUE) = k
    BY <1>0
  <2>3. /\ Len(SymTable) \in Nat
        /\ \A j \in 1..Len(SymTable) : SymTable[j].value \in Address
    BY <2>1, SectionsAre
  <2>4. \A n \in Nat : n < Len(SymTable) => n + 1 \in 1..Len(SymTable)
    BY <2>3
  <2> QED BY <2>1, <2>2, <2>3, <2>4 DEF SymbolsOf
<1> QED BY <1>1, <1>2

\* What a lookup means is in a file, or nothing.
LEMMA DataIsFile ==
  ASSUME NEW c, c.fs \in FS_DEVICE
  PROVE  DataOf(c) \in DOMAIN elf
<1>1. CASE Named(c) = {}
  BY <1>1, LoaderAssumption DEF DataOf
<1>2. CASE Named(c) # {}
  <2> DEFINE j == CHOOSE j \in Named(c) : \A l \in Named(c) : j <= l
  <2>1. Named(c) \subseteq Nat /\ Named(c) \subseteq Member(c.fs)
    BY Places DEF Named
  <2>2. \E m \in Named(c) : \A l \in Named(c) : m <= l
    BY <1>2, <2>1, LeastElement
  <2>3. j \in Named(c)
    BY <2>2
  <2>4. DataOf(c) = archive[c.fs][j].data
    BY <1>2 DEF DataOf
  <2> HIDE DEF j
  <2> QED BY <2>1, <2>3, <2>4, LoaderAssumption
<1> QED BY <1>1, <1>2

LEMMA SameData ==
  ASSUME NEW c, NEW e, c.fs = e.fs, c.name = e.name
  PROVE  DataOf(c) = DataOf(e)
BY DEF DataOf, Named

\* A step of a lookup leaves its question alone, and finds files only on
\* devices.
LEMMA TarfsAsks ==
  ASSUME FilesInv, QuestionInv, Tarfs
  PROVE  /\ Question'.op = Question.op /\ Question'.path = Question.path
         /\ Question'.fs = Question.fs /\ Question'.name = Question.name
         /\ Question'.offset = Question.offset /\ Question'.size = Question.size
         /\ ret' # NoReturn /\ ret'.ok => ret'.of.fs \in FS_DEVICE
         /\ UNCHANGED mounts
<1>1. call # NoCall => call \in Asked /\ call.fs \in FS_DEVICE
  BY DEF FilesInv, CallInv, OnItsWay, Asked
<1>2. CASE WalkOn
  <2>1. /\ call \in Asked /\ call # NoCall /\ UNCHANGED <<mounts, ret>>
        /\ call' = [call EXCEPT !.cursor = @ + Past(Seen)]
    BY <1>1, <1>2 DEF WalkOn, Walking
  <2>2. /\ call'.op = call.op /\ call'.path = call.path /\ call'.fs = call.fs
        /\ call'.name = call.name /\ call'.offset = call.offset /\ call'.size = call.size
    BY <2>1 DEF Asked
  <2>3. call' # NoCall
    <3>1. call'.op # "none" /\ NoCall.op = "none"
      BY <2>1, <2>2 DEF Asked, NoCall
    <3> QED BY <3>1
  <2> QED BY <2>1, <2>2, <2>3 DEF Question, QuestionInv
<1>3. ASSUME NEW ok, NEW n, NEW buf, call # NoCall, Returned(call, ok, n, buf), UNCHANGED mounts
      PROVE  /\ Question' = call /\ Question = call
             /\ ret'.of.fs \in FS_DEVICE
             /\ UNCHANGED mounts
  BY <1>1, <1>3 DEF Returned, Question
<1>4. CASE WalkFound
  <2>1. Question' = call /\ Question = call /\ ret'.of.fs \in FS_DEVICE /\ UNCHANGED mounts
    BY <1>3, <1>4 DEF WalkFound, Walking
  <2> QED BY <2>1
<1>5. CASE WalkEnd
  <2>1. Question' = call /\ Question = call /\ ret'.of.fs \in FS_DEVICE /\ UNCHANGED mounts
    BY <1>3, <1>5 DEF WalkEnd
  <2> QED BY <2>1
<1> QED BY <1>2, <1>4, <1>5 DEF Tarfs

LEMMA BeginAsks ==
  ASSUME MountInv, NEW path, NEW offset, NEW size, NEW op \in {"fstat", "read"},
         Begin(op, path, offset, size)
  PROVE  /\ Question'.op = op /\ Question'.path = path
         /\ Question'.offset = offset /\ Question'.size = size
         /\ Led(Question') /\ UNCHANGED mounts
         /\ ret' # NoReturn => ~ret'.ok
<1> DEFINE k == find(path)
           c == [op |-> op, path |-> path, offset |-> offset, size |-> size, cursor |-> 0,
                 fs   |-> IF k = 0 THEN "none" ELSE mounts[k].fs,
                 name |-> IF k = 0 THEN path
                          ELSE SubSeq(path, Len(mounts[k].path) + 1, Len(path))]
<1>1. c.op = op /\ c.path = path /\ c.offset = offset /\ c.size = size /\ Led(c)
  BY DEF Led
<1>2. c # NoCall
  <2>1. c.op # "none" /\ NoCall.op = "none"
    BY <1>1 DEF NoCall
  <2> QED BY <2>1
<1>3. CASE k = 0
  <2>1. Returned(c, FALSE, 0, <<>>) /\ UNCHANGED mounts
    BY <1>3 DEF Begin
  <2> HIDE DEF c
  <2>2. Question' = c /\ ~ret'.ok
    BY <2>1 DEF Returned, Question
  <2> QED BY <1>1, <2>1, <2>2
<1>4. CASE k # 0
  <2>1. call' = c /\ ret' = NoReturn /\ UNCHANGED mounts
    BY <1>4 DEF Begin
  <2> HIDE DEF c
  <2>2. Question' = c
    BY <1>2, <2>1 DEF Question
  <2> QED BY <1>1, <2>1, <2>2
<1> QED BY <1>3, <1>4

LEMMA LedKept ==
  ASSUME NEW c, Led(c), UNCHANGED mounts
  PROVE  /\ c.fs = IF find(c.path)' = 0 THEN "none" ELSE mounts'[find(c.path)'].fs
         /\ c.name = IF find(c.path)' = 0 THEN c.path
                     ELSE SubSeq(c.path, Len(mounts'[find(c.path)'].path) + 1, Len(c.path))
<1>1. find(c.path)' = find(c.path)
  BY DEF find, SelectInSeq
<1> QED BY <1>1 DEF Led

LEMMA LedAgain ==
  ASSUME NEW c, NEW e, Led(c), UNCHANGED mounts, e = Question',
         e.path = c.path, e.fs = c.fs, e.name = c.name
  PROVE  Led(Question)'
<1>1. /\ e.fs = IF find(e.path)' = 0 THEN "none" ELSE mounts'[find(e.path)'].fs
      /\ e.name = IF find(e.path)' = 0 THEN e.path
                  ELSE SubSeq(e.path, Len(mounts'[find(e.path)'].path) + 1, Len(e.path))
  BY LedKept
<1> QED BY <1>1 DEF Led

\* fstat has answered with the length of what read will be asked for.
LEMMA ReadAsksForAll ==
  ASSUME LoaderInv, QuestionInv, Fstat, phase' = "read"
  PROVE  QuestionInv'
<1>1. /\ FilesInv /\ MountInv /\ call = NoCall /\ ret # NoReturn /\ phase = "fstat"
      /\ ret.ok /\ Begin("read", ret.of.path, 0, ret.n)
  BY DEF LoaderInv, FilesInv, WaitInv, Answering, Fstat, Return
<1> DEFINE c == ret.of
           e == Question'
<1>2. /\ c = Question /\ Led(c) /\ c.op = "fstat" /\ c.offset = 0 /\ c.size = 0
      /\ c.fs \in FS_DEVICE
  BY <1>1 DEF Question, QuestionInv
<1>3. AnswersRight(ret) /\ ret.n = Len(DataOf(c))
  <2>1. AnswersRight(ret)
    BY <1>1 DEF FilesInv, RetInv, Sound
  <2>2. 0 + 0 < Wrap
    BY FilesAssumption
  <2> QED BY <1>2, <2>1, <2>2 DEF AnswersRight
<1>4. /\ e.op = "read" /\ e.path = c.path /\ e.offset = 0 /\ e.size = ret.n /\ Led(e)
      /\ ret' # NoReturn => ~ret'.ok
  BY <1>1, BeginAsks
<1>5. Answering'
  BY <1>1, BeginAnswers
<1>6. e.fs = c.fs /\ e.name = c.name
  BY <1>2, <1>4 DEF Led
<1>7. DataOf(e) = DataOf(c) /\ DataOf(Question)' = DataOf(e)
  <2>1. DataOf(Question)' = DataOf(e)
    BY DEF DataOf, Named
  <2> QED BY <1>6, <2>1, SameData
<1> HIDE DEF c
<1> QED BY <1>2, <1>3, <1>4, <1>5, <1>6, <1>7 DEF QuestionInv

LEMMA QuestionStep == LoaderInv /\ QuestionInv /\ [Next]_vars => QuestionInv'
<1> SUFFICES ASSUME LoaderInv, QuestionInv, [Next]_vars PROVE QuestionInv'
  OBVIOUS
<1>0. FilesInv /\ MountInv
  BY DEF LoaderInv, FilesInv
<1>1. CASE phase = "idle" /\ Client /\ UNCHANGED lvars
  <2>1. phase' = "idle"
    BY <1>1 DEF lvars
  <2>2. ASSUME NEW p, NEW d, mount(p, d) PROVE QuestionInv'
    BY <2>1, <2>2 DEF mount, QuestionInv
  <2>3. ASSUME NEW op \in {"fstat", "read"}, NEW p, NEW o, NEW s, Begin(op, p, o, s) PROVE QuestionInv'
    BY <1>0, <2>1, <2>3, BeginAsks DEF QuestionInv
  <2>4. ASSUME NEW p, Begin("write", p, 0, 1) PROVE QuestionInv'
    <3>1. \E c : Returned(c, FALSE, 0, <<>>) \/ Returned(c, FALSE, -1, <<>>)
      BY <2>4 DEF Begin
    <3>2. ~ret'.ok
      BY <3>1 DEF Returned
    <3> QED BY <2>1, <3>2 DEF QuestionInv
  <2> QED BY <1>1, <2>2, <2>3, <2>4 DEF Client
<1>2. CASE Tarfs /\ UNCHANGED lvars
  <2>1. phase' = phase
    BY <1>2 DEF lvars
  <2>2. /\ Question'.op = Question.op /\ Question'.path = Question.path
        /\ Question'.fs = Question.fs /\ Question'.name = Question.name
        /\ Question'.offset = Question.offset /\ Question'.size = Question.size
        /\ ret' # NoReturn /\ ret'.ok => ret'.of.fs \in FS_DEVICE
        /\ UNCHANGED mounts
    BY <1>0, <1>2, TarfsAsks
  <2>3. Answering'
    BY <1>0, <1>2, CallGoesOn
  <2>4. Led(Question) => Led(Question)'
    BY <2>2, LedAgain
  <2>5. DataOf(Question)' = DataOf(Question)
    <3>1. DataOf(Question)' = DataOf(Question')
      BY DEF DataOf, Named
    <3> QED BY <2>2, <3>1, SameData
  <2> QED BY <2>1, <2>2, <2>3, <2>4, <2>5 DEF QuestionInv
<1>3. ASSUME NEW path \in Program, load_program(path) PROVE QuestionInv'
  <2>1. phase' = "fstat" /\ Begin("fstat", path, 0, 0)
    BY <1>3 DEF load_program
  <2>2. /\ Question'.op = "fstat" /\ Question'.offset = 0 /\ Question'.size = 0
        /\ Led(Question') /\ UNCHANGED mounts
        /\ ret' # NoReturn => ~ret'.ok
    BY <1>0, <2>1, BeginAsks
  <2>3. Answering'
    BY <2>1, BeginAnswers
  <2>4. Led(Question)'
    <3> DEFINE e == Question'
    <3>1. Led(e) /\ UNCHANGED mounts /\ e = Question'
      BY <2>2
    <3> HIDE DEF e
    <3> QED BY <3>1, LedAgain
  <2> QED BY <2>1, <2>2, <2>3, <2>4 DEF QuestionInv
<1>4. CASE Fstat
  <2>1. CASE phase' = "read"
    BY <1>4, <2>1, ReadAsksForAll
  <2>2. CASE phase' # "read"
    BY <1>4, <2>2 DEF Fstat, Return, fvars, QuestionInv
  <2> QED BY <2>1, <2>2
<1>5. CASE Load /\ ~Fstat
  <2>1. UNCHANGED fvars /\ phase' \notin {"fstat", "read"}
    BY <1>5 DEF Load, Read, SkipHeader, AtHeader, RefuseHeader, LoadSegment, AppendFails, OverRead, Relocate,
           RelocateOne, RelocateGivesUp, RelocateDone, ExtractSymbol, Finish, Return
  <2> QED BY <2>1 DEF fvars, QuestionInv
<1>6. CASE UNCHANGED vars
  <2>1. UNCHANGED <<phase, mounts, call, ret>>
    BY <1>6 DEF vars, fvars, lvars
  <2>2. Question' = Question /\ Answering' = Answering
    BY <2>1 DEF Question, Answering
  <2>3. DataOf(Question)' = DataOf(Question)
    BY <2>2 DEF DataOf, Named
  <2>4. Led(Question) => Led(Question)'
    BY <2>1, <2>2, LedAgain
  <2> QED BY <2>1, <2>2, <2>3, <2>4 DEF QuestionInv
<1> QED BY <1>1, <1>2, <1>3, <1>4, <1>5, <1>6 DEF Next

\* What is read is all of the file.
LEMMA WholeFileRead ==
  ASSUME LoaderInv, QuestionInv, phase = "read", call = NoCall
  PROVE  ret.buf \in DOMAIN elf
<1> DEFINE c == ret.of
           data == DataOf(c)
<1>1. /\ ret # NoReturn /\ c.op = "read" /\ c.offset = 0 /\ c.size = Len(data) /\ c.fs \in FS_DEVICE
  BY DEF QuestionInv, Question, Answering
<1>2. data \in DOMAIN elf
  BY <1>1, DataIsFile
<1>3. AnswersRight(ret)
  BY <1>1 DEF LoaderInv, FilesInv, RetInv, Sound
<1> HIDE DEF c, data
<1>4. data \in Seq(Byte) /\ Len(data) \in Nat /\ Len(data) < Wrap
  BY <1>2, FileIs
<1>5. ret.buf = PartOf(data, c)
  BY <1>1, <1>3, <1>4 DEF AnswersRight, c, data
<1>6. PartOf(data, c) = SubSeq(data, 1, Len(data))
  BY <1>1, <1>4 DEF PartOf
<1>7. SubSeq(data, 1, Len(data)) = data
  BY <1>4, SubSeqFull
<1> QED BY <1>2, <1>5, <1>6, <1>7

-----------------------------------------------------------------------------
(* The memory that the loader touches *)

Segment == {s \in [vaddr : Nat, base : Nat, size : Nat] : s.base = s.vaddr}

Backed(h) == h.type = PT_LOAD => IsBacked(h.vaddr, h.memsz, marked)

\* Segments are where they are linked, and those that are loaded are on
\* marked pages.
FaultInv ==
    /\ segments \in Seq(Segment)
    /\ phase \in {"segments", "relocate", "symbols", "fault"} =>
          buffer \in DOMAIN elf /\ image \in elf[buffer]
    /\ phase = "segments" =>
          i \in Nat /\ i > 0 /\ \A j \in 1..Len(image.phdr) : j < i => Backed(image.phdr[j])
    /\ phase = "relocate" =>
          i \in Nat /\ i > 0 /\ \A j \in 1..Len(image.phdr) : Backed(image.phdr[j])
    /\ FaultsExplained

\* An address is in one of the segments or in none.
LEMMA SegmentIs ==
  ASSUME segments \in Seq(Segment), NEW a \in Nat, SegmentOf(a) # 0
  PROVE  LET s == segments[SegmentOf(a)] IN s.vaddr \in Nat /\ s.base = s.vaddr
<1> DEFINE k == SegmentOf(a)
           hit == {j \in 1..Len(segments) :
                     a >= segments[j].vaddr
                     /\ a <= (segments[j].vaddr + segments[j].size) % W}
<1>1. k = IF hit # {} THEN Min(hit) ELSE 0
  BY DEF SegmentOf, SelectInSeq
<1>2. hit \subseteq Nat
  OBVIOUS
<1>3. hit # {} => Min(hit) \in hit
  <2> HIDE DEF hit
  <2> QED BY <1>2, LeastElement DEF Min
<1>4. k \in 1..Len(segments)
  BY <1>1, <1>3
<1> HIDE DEF k, hit
<1>5. segments[k] \in Segment
  BY <1>4, ElementOfSeq
<1> QED BY <1>5 DEF Segment, k

LEMMA TranslateIs ==
  ASSUME segments \in Seq(Segment), NEW a \in Nat, a < W
  PROVE  translate_addr(a) \in {0, a}
<1> DEFINE s == segments[SegmentOf(a)]
<1>1. CASE SegmentOf(a) = 0
  BY <1>1 DEF translate_addr
<1>2. CASE SegmentOf(a) # 0
  <2>1. s.vaddr \in Nat /\ s.base = s.vaddr
    BY <1>2, SegmentIs
  <2>2. translate_addr(a) = (a - s.vaddr + s.base) % W
    BY <1>2 DEF translate_addr
  <2> HIDE DEF s
  <2>3. a - s.vaddr + s.base = a
    BY <2>1
  <2>4. a % W = a
    <3>1. W \in Nat /\ W > 0
      BY LoaderAssumption
    <3> QED BY <3>1, ModSmall
  <2> QED BY <2>2, <2>3, <2>4
<1> QED BY <1>1, <1>2

\* The header at i.
LEMMA HeaderAt ==
  ASSUME FaultInv, AtHeader
  PROVE  LET h == image.phdr[i] IN
         /\ buffer \in DOMAIN elf /\ image \in elf[buffer] /\ i \in 1..Len(image.phdr)
         /\ h.type = PT_LOAD =>
               /\ h \in LoadHeaders(image)
               /\ h.vaddr \in Nat /\ h.memsz \in Nat /\ h.filesz \in Nat /\ h.offset \in Nat
               /\ h.vaddr + RoundUp(h.memsz) < W
<1>1. /\ buffer \in DOMAIN elf /\ image \in elf[buffer]
      /\ i \in Nat /\ i > 0 /\ i <= Len(image.phdr)
  BY DEF FaultInv, AtHeader
<1>2. Len(image.phdr) \in Nat /\ ToSet(image.phdr) = {image.phdr[j] : j \in 1..Len(image.phdr)}
  BY <1>1, Images
<1>3. i \in 1..Len(image.phdr) /\ (image.phdr[i].type = PT_LOAD => image.phdr[i] \in LoadHeaders(image))
  BY <1>1, <1>2 DEF LoadHeaders
<1> QED BY <1>1, <1>3, Images

\* Marks are added, never taken away.
LEMMA StillBacked ==
  ASSUME NEW h, Backed(h), marked \subseteq marked'
  PROVE  h.type = PT_LOAD => IsBacked(h.vaddr, h.memsz, marked')
BY DEF Backed, IsBacked

LEMMA NextHeader ==
  ASSUME FaultInv, AtHeader, UNCHANGED <<phase, buffer, image>>, marked \subseteq marked', i' = i + 1,
         segments' \in Seq(Segment),
         LET h == image.phdr[i] IN h.type = PT_LOAD => IsBacked(h.vaddr, h.memsz, marked')
  PROVE  FaultInv'
<1>1. phase = "segments" /\ i \in Nat /\ i > 0 /\ buffer \in DOMAIN elf /\ image' = image
  BY DEF AtHeader, FaultInv
<1>2. ASSUME NEW j \in 1..Len(image.phdr), j < i + 1
      PROVE  image.phdr[j].type = PT_LOAD =>
                IsBacked(image.phdr[j].vaddr, image.phdr[j].memsz, marked')
  <2>1. CASE j < i
    BY <1>1, <2>1, StillBacked DEF FaultInv
  <2>2. CASE j = i
    BY <2>2
  <2> QED BY <1>1, <1>2, <2>1, <2>2
<1>3. \A j \in 1..Len(image'.phdr) : j < i' => Backed(image.phdr[j])'
  BY <1>1, <1>2 DEF Backed
<1> QED BY <1>1, <1>3 DEF FaultInv, FaultsExplained

LEMMA SegmentStep ==
  ASSUME FaultInv, LoadSegment
  PROVE  FaultInv'
<1> DEFINE h == image.phdr[i]
           s == [vaddr |-> h.vaddr, base |-> h.vaddr, size |-> RoundUp(h.memsz)]
           pages == marked \union Pages(s.base, s.size)
<1>1. /\ AtHeader /\ h.type = PT_LOAD /\ UNCHANGED <<buffer, image>>
      /\ segments' = Append(segments, s) /\ marked' = pages
      /\ \/ IsBacked(s.base, h.memsz, pages) /\ i' = i + 1 /\ UNCHANGED phase
         \/ ~IsBacked(s.base, h.memsz, pages) /\ phase' = "fault"
  BY DEF LoadSegment
<1>2. /\ buffer \in DOMAIN elf /\ image \in elf[buffer] /\ h \in LoadHeaders(image)
      /\ h.vaddr \in Nat /\ h.memsz \in Nat /\ h.vaddr + RoundUp(h.memsz) < W
  BY <1>1, HeaderAt
<1>3. segments' \in Seq(Segment)
  <2>1. RoundUp(h.memsz) \in Nat
    BY <1>2, RoundUpIs
  <2>2. s \in Segment
    BY <1>2, <2>1 DEF Segment
  <2> QED BY <1>1, <2>2, AppendProperties DEF FaultInv
<1>4. CASE IsBacked(s.base, h.memsz, pages) /\ i' = i + 1 /\ UNCHANGED phase
  BY <1>1, <1>3, <1>4, NextHeader
<1>5. CASE ~IsBacked(s.base, h.memsz, pages) /\ phase' = "fault"
  <2>1. Spreads(h)
    <3> SUFFICES ASSUME ~Spreads(h) PROVE FALSE
      OBVIOUS
    <3> DEFINE first == h.vaddr \div PAGE
               last  == (h.vaddr + h.memsz - 1) \div PAGE
               need  == (h.memsz + PAGE - 1) \div PAGE
    <3>1. h.memsz > 0 => last - first < need
      <4>1. PAGE \in Nat /\ PAGE > 0
        BY LoaderAssumption
      <4>2. h.memsz > 0 => h.vaddr + h.memsz - 1 \in Nat /\ h.memsz + PAGE - 1 \in Nat
        BY <1>2, <4>1
      <4>3. h.memsz > 0 => first \in Nat /\ last \in Nat /\ need \in Nat
        BY <1>2, <4>1, <4>2
      <4>4. h.memsz > 0 => ~(last - first >= need)
        BY DEF Spreads
      <4> HIDE DEF first, last, need, h
      <4> QED BY <4>3, <4>4
    <3>2. Pages(h.vaddr, RoundUp(h.memsz)) \subseteq pages
      OBVIOUS
    <3> HIDE DEF h, pages
    <3> QED BY <1>2, <1>5, <3>1, <3>2, FittingIsBacked DEF h
  <2>2. FaultsExplained'
    BY <1>1, <1>2, <2>1 DEF FaultsExplained
  <2> QED BY <1>1, <1>2, <1>3, <1>5, <2>2 DEF FaultInv
<1> QED BY <1>1, <1>4, <1>5

LEMMA SameTables ==
  ASSUME UNCHANGED image
  PROVE  RelTable' = RelTable /\ SymTable' = SymTable
BY DEF RelTable, SymTable, Table, SelectLastInSeq

\* A relocation inside a segment patches a page that is marked.
LEMMA RelocateStep ==
  ASSUME FaultInv, RelocateOne
  PROVE  FaultInv'
<1> DEFINE r == RelTable[i]
           p == translate_addr(r.offset)
<1>1. /\ phase = "relocate" /\ i <= Len(RelTable) /\ CanPatch(r)
      /\ UNCHANGED <<buffer, image, segments, marked>>
      /\ \/ i' = i + 1 /\ UNCHANGED phase
         \/ ~IsBacked(p, WORD, marked) /\ phase' = "fault"
  BY DEF RelocateOne
<1>2. /\ buffer \in DOMAIN elf /\ image \in elf[buffer] /\ i \in Nat /\ i > 0
      /\ \A j \in 1..Len(image.phdr) : Backed(image.phdr[j])
  BY <1>1 DEF FaultInv
<1>3. CASE i' = i + 1 /\ UNCHANGED phase
  BY <1>1, <1>2, <1>3 DEF FaultInv, FaultsExplained, Backed
<1>4. CASE ~IsBacked(p, WORD, marked) /\ phase' = "fault"
  <2>1. Len(RelTable) \in Nat
    BY <1>2, RelocationIs
  <2>2. i \in 1..Len(RelTable)
    BY <1>1, <1>2, <2>1
  <2>3. r \in Relocations(image) /\ r.offset \in Address
    BY <1>2, <2>2, RelocationIs
  <2>4. W \in Nat /\ W > 0 /\ WORD \in Nat /\ WORD > 0
    BY LoaderAssumption
  <2>5. r.offset \in Nat /\ r.offset < W
    BY <2>3, <2>4 DEF Address
  <2>6. p = r.offset
    BY <1>1, <2>5, TranslateIs DEF FaultInv, CanPatch
  <2> HIDE DEF r
  <2>7. ASSUME NEW h \in LoadHeaders(image), r.offset >= h.vaddr, r.offset + WORD <= h.vaddr + h.memsz
        PROVE  FALSE
    <3>1. h.vaddr \in Nat /\ h.memsz \in Nat
      BY <1>2, Images
    <3>2. IsBacked(h.vaddr, h.memsz, marked)
      <4>1. PICK j \in 1..Len(image.phdr) : h = image.phdr[j]
        BY <1>2, Images DEF LoadHeaders
      <4>2. h.type = PT_LOAD
        BY DEF LoadHeaders
      <4> QED BY <1>2, <4>1, <4>2 DEF Backed
    <3>3. \A x \in r.offset..r.offset + WORD - 1 : x \in h.vaddr..h.vaddr + h.memsz - 1
      BY <2>4, <2>5, <2>7, <3>1
    <3> QED BY <1>4, <2>6, <3>2, <3>3 DEF IsBacked
  <2>8. ~FieldInside(image, r)
    BY <2>7 DEF FieldInside
  <2>9. FaultsExplained'
    BY <1>1, <2>3, <2>8 DEF FaultsExplained
  <2> QED BY <1>1, <1>2, <1>4, <2>9 DEF FaultInv
<1> QED BY <1>1, <1>3, <1>4

LEMMA OverReadStep ==
  ASSUME FaultInv, OverRead
  PROVE  FaultInv'
<1>1. phase' = "fault" /\ UNCHANGED <<buffer, image, segments>>
  BY DEF OverRead
<1>2. buffer \in DOMAIN elf /\ image \in elf[buffer]
  BY DEF OverRead, AtHeader, FaultInv
<1>3. CASE ~image.whole
  BY <1>1, <1>2, <1>3 DEF FaultInv, FaultsExplained
<1>4. CASE image.whole
  <2> DEFINE h == image.phdr[i]
  <2>1. AtHeader /\ h.type = PT_LOAD /\ h.offset + h.filesz > Len(buffer)
    BY <1>4 DEF OverRead
  <2>2. h \in LoadHeaders(image)
    BY <2>1, HeaderAt
  <2> HIDE DEF h
  <2>3. FaultsExplained'
    BY <1>1, <2>1, <2>2 DEF FaultsExplained
  <2> QED BY <1>1, <1>2, <2>3 DEF FaultInv
<1> QED BY <1>3, <1>4

LEMMA FaultStep ==
  LoaderInv /\ QuestionInv /\ FaultInv /\ [Next]_vars => FaultInv'
<1> SUFFICES ASSUME LoaderInv, QuestionInv, FaultInv, [Next]_vars PROVE FaultInv'
  OBVIOUS
<1>1. CASE UNCHANGED lvars
  BY <1>1 DEF lvars, FaultInv, FaultsExplained, Backed
<1>2. ASSUME UNCHANGED segments, phase' \notin {"segments", "relocate", "symbols", "fault"} PROVE FaultInv'
  BY <1>2 DEF FaultInv, FaultsExplained
<1>3. ASSUME NEW path \in Program, load_program(path) PROVE FaultInv'
  BY <1>2, <1>3 DEF load_program
<1>4. CASE Fstat
  BY <1>2, <1>4 DEF Fstat, Return
<1>5. CASE Read
  <2>1. ret.buf \in DOMAIN elf /\ UNCHANGED segments
    BY <1>5, WholeFileRead DEF Read
  <2>2. CASE phase' = "segments" /\ i' = 1 /\ buffer' = ret.buf /\ image' \in elf[ret.buf]
    <3>1. \A j \in 1..Len(image'.phdr) : ~(j < i')
      BY <2>2
    <3> QED BY <2>1, <2>2, <3>1 DEF FaultInv, FaultsExplained
  <2>3. CASE phase' = "done"
    BY <1>2, <2>1, <2>3
  <2> QED BY <1>5, <2>2, <2>3 DEF Read, Return
<1>6. CASE SkipHeader
  <2>1. image.phdr[i].type # PT_LOAD /\ UNCHANGED <<phase, buffer, image, segments, marked>> /\ i' = i + 1
    BY <1>6 DEF SkipHeader
  <2>2. segments' \in Seq(Segment)
    BY <2>1 DEF FaultInv
  <2> QED BY <1>6, <2>1, <2>2, NextHeader DEF SkipHeader
<1>7. CASE LoadSegment
  BY <1>7, SegmentStep
<1>8. CASE Relocate
  <2>1. phase = "segments" /\ i > Len(image.phdr) /\ UNCHANGED <<buffer, image, segments, marked>>
        /\ phase' = "relocate" /\ i' = 1
    BY <1>8 DEF Relocate
  <2>2. buffer \in DOMAIN elf /\ image \in elf[buffer] /\ i \in Nat
    BY <2>1 DEF FaultInv
  <2>3. Len(image.phdr) \in Nat
    BY <2>2, Images
  <2>4. \A j \in 1..Len(image.phdr) : Backed(image.phdr[j])
    BY <2>1, <2>2, <2>3 DEF FaultInv
  <2> QED BY <2>1, <2>2, <2>4 DEF FaultInv, FaultsExplained, Backed
<1>9. CASE RelocateOne
  BY <1>9, RelocateStep
<1>10. CASE RelocateDone \/ ExtractSymbol
  <2>1. phase \in {"relocate", "symbols"} /\ phase' = "symbols" /\ UNCHANGED <<buffer, image, segments>>
    BY <1>10 DEF RelocateDone, ExtractSymbol
  <2> QED BY <2>1 DEF FaultInv, FaultsExplained
<1>11. CASE RefuseHeader \/ AppendFails \/ RelocateGivesUp \/ Finish
  <2>1. UNCHANGED segments /\ phase' \notin {"segments", "relocate", "symbols", "fault"}
    BY <1>11 DEF RefuseHeader, AppendFails, RelocateGivesUp, Finish, Return
  <2> QED BY <1>2, <2>1
<1>12. CASE OverRead
  BY <1>12, OverReadStep
<1> QED BY <1>1, <1>3, <1>4, <1>5, <1>6, <1>7, <1>8, <1>9, <1>10, <1>11, <1>12 DEF Next, Load, vars

-----------------------------------------------------------------------------
(* What a linked program is in memory *)

In(h, a) == a >= h.vaddr /\ a < h.vaddr + h.memsz

LEMMA InsideIs ==
  ASSUME NEW data \in DOMAIN elf, NEW f \in elf[data], NEW a \in Nat
  PROVE  /\ Inside(f, a) <=> \E h \in LoadHeaders(f) : In(h, a)
         /\ Inside(f, a) <=> \E j \in 1..Len(f.phdr) : f.phdr[j].type = PT_LOAD /\ In(f.phdr[j], a)
         /\ Inside(f, a) => a < W
<1>1. ToSet(f.phdr) = {f.phdr[j] : j \in 1..Len(f.phdr)}
  BY Images
<1>2. Inside(f, a) <=> \E h \in LoadHeaders(f) : In(h, a)
  BY DEF Inside, In
<1>3. ASSUME NEW h \in LoadHeaders(f), In(h, a) PROVE a < W
  <2>1. h.vaddr \in Nat /\ h.memsz \in Nat /\ h.vaddr + h.memsz < W /\ W \in Nat
    BY Images, LoaderAssumption
  <2> QED BY <1>3, <2>1 DEF In
<1>4. (\E h \in LoadHeaders(f) : In(h, a)) <=>
      \E j \in 1..Len(f.phdr) : f.phdr[j].type = PT_LOAD /\ In(f.phdr[j], a)
  BY <1>1 DEF LoadHeaders
<1> QED BY <1>2, <1>3, <1>4

\* Segments share no address, so what is stored at one is what its segment
\* says.
LEMMA StoredIs ==
  ASSUME NEW data \in DOMAIN elf, NEW f \in elf[data], IsLinked(f, data), NEW h \in LoadHeaders(f),
         NEW a \in Nat, In(h, a)
  PROVE  Stored(f, data, a) =
            IF a < h.vaddr + h.filesz THEN data[h.offset + a - h.vaddr + 1] ELSE 0
<1> DEFINE own == CHOOSE g \in LoadHeaders(f) : a >= g.vaddr /\ a < g.vaddr + g.memsz
<1>1. ASSUME NEW g \in LoadHeaders(f), In(g, a) PROVE g = h
  <2>1. g.vaddr \in Nat /\ g.memsz \in Nat /\ h.vaddr \in Nat /\ h.memsz \in Nat
    BY Images
  <2>2. ~(g.vaddr + g.memsz <= h.vaddr) /\ ~(h.vaddr + h.memsz <= g.vaddr)
    BY <1>1, <2>1 DEF In
  <2> QED BY <2>2 DEF IsLinked
<1>2. own = h
  BY <1>1 DEF In
<1>3. Inside(f, a)
  BY DEF Inside, In
<1>4. Stored(f, data, a) = IF a < own.vaddr + own.filesz THEN data[own.offset + a - own.vaddr + 1] ELSE 0
  BY <1>3 DEF Stored
<1> HIDE DEF own
<1> QED BY <1>2, <1>4

LEMMA StoredIsByte ==
  ASSUME NEW data \in DOMAIN elf, NEW f \in elf[data], IsLinked(f, data), NEW a \in Nat
  PROVE  Stored(f, data, a) \in Byte
<1> DEFINE h == CHOOSE g \in LoadHeaders(f) : a >= g.vaddr /\ a < g.vaddr + g.memsz
<1>0. 0 \in Byte
  BY LoaderAssumption
<1>1. CASE ~Inside(f, a)
  BY <1>0, <1>1 DEF Stored
<1>2. CASE Inside(f, a)
  <2>1. h \in LoadHeaders(f) /\ a >= h.vaddr
    BY <1>2 DEF Inside
  <2>2. Stored(f, data, a) = IF a < h.vaddr + h.filesz THEN data[h.offset + a - h.vaddr + 1] ELSE 0
    BY <1>2 DEF Stored
  <2> HIDE DEF h
  <2>3. h.offset + h.filesz <= Len(data)
    BY <2>1 DEF IsLinked
  <2>4. /\ h.vaddr \in Nat /\ h.filesz \in Nat /\ h.offset \in Nat
        /\ data \in Seq(Byte) /\ Len(data) \in Nat
    BY <2>1, Images, FileIs
  <2>5. CASE a < h.vaddr + h.filesz
    <3>1. h.offset + a - h.vaddr + 1 \in 1..Len(data)
      BY <2>1, <2>3, <2>4, <2>5
    <3>2. data[h.offset + a - h.vaddr + 1] \in Byte
      BY <2>4, <3>1, ElementOfSeq
    <3> QED BY <2>2, <2>5, <3>2
  <2> QED BY <1>0, <2>2, <2>5
<1> QED BY <1>1, <1>2

-----------------------------------------------------------------------------
(* Numbers in memory *)

\* Memories with the same cells have the same number there.
LEMMA SameWord ==
  ASSUME NEW p \in Nat, NEW m, NEW n, \A a \in p..p + WORD - 1 : m[a] = n[a]
  PROVE  WordAt(m, p) = WordAt(n, p)
<1>1. WORD \in Nat
  BY LoaderAssumption
<1>2. \A j \in 0..WORD - 1 : m[p + j] = n[p + j]
  <2> SUFFICES ASSUME NEW j \in 0..WORD - 1 PROVE m[p + j] = n[p + j]
    OBVIOUS
  <2>1. p + j \in p..p + WORD - 1
    BY <1>1
  <2> QED BY <2>1
<1>3. [j \in 0..WORD - 1 |-> m[p + j]] = [j \in 0..WORD - 1 |-> n[p + j]]
  BY <1>2
<1> QED BY <1>3 DEF WordAt

LEMMA WordIsAddress ==
  ASSUME NEW p \in Nat, NEW m, \A a \in p..p + WORD - 1 : m[a] \in Byte
  PROVE  WordAt(m, p) \in Address
<1>1. WORD \in Nat /\ word \in [[0..WORD - 1 -> Byte] -> Address]
  BY LoaderAssumption
<1>2. ASSUME NEW j \in 0..WORD - 1 PROVE m[p + j] \in Byte
  <2>1. p + j \in p..p + WORD - 1
    BY <1>1
  <2> QED BY <2>1
<1>3. [j \in 0..WORD - 1 |-> m[p + j]] \in [0..WORD - 1 -> Byte]
  BY <1>2
<1> QED BY <1>1, <1>3 DEF WordAt

\* A number is there once its cells are.
LEMMA WordStored ==
  ASSUME NEW p \in Nat, NEW m, NEW v \in Address, \A a \in p..p + WORD - 1 : m[a] = CellsOf(v)[a - p]
  PROVE  WordAt(m, p) = v
<1> DEFINE c == CellsOf(v)
<1>1. WORD \in Nat /\ word \in [[0..WORD - 1 -> Byte] -> Address]
  BY LoaderAssumption
<1>2. c \in DOMAIN word /\ word[c] = v
  <2>1. \E d \in DOMAIN word : word[d] = v
    BY LoaderAssumption, Zenon
  <2> QED BY <2>1 DEF CellsOf
<1>3. c \in [0..WORD - 1 -> Byte]
  BY <1>1, <1>2
<1> HIDE DEF c
<1>4. ASSUME NEW j \in 0..WORD - 1 PROVE m[p + j] = c[j]
  <2>1. p + j \in p..p + WORD - 1 /\ p + j - p = j
    BY <1>1
  <2> QED BY <2>1 DEF c
<1>5. [j \in 0..WORD - 1 |-> m[p + j]] = c
  BY <1>3, <1>4
<1> QED BY <1>2, <1>5 DEF WordAt

LEMMA ModIn ==
  ASSUME NEW x \in Int, NEW w \in Nat, w > 0
  PROVE  x % w \in 0..w - 1
OBVIOUS

LEMMA ModShift ==
  ASSUME NEW x \in Int, NEW w \in Nat, w > 0
  PROVE  (x + w) % w = x % w
<1> DEFINE q == x \div w
           e == (x + w) \div w
           r == x % w
           s == (x + w) % w
<1>1. q \in Int /\ r \in Int /\ x = w * q + r /\ 0 <= r /\ r < w
  BY SMTT(30)
<1>2. e \in Int /\ s \in Int /\ x + w = w * e + s /\ 0 <= s /\ s < w
  BY SMTT(30)
<1> HIDE DEF q, e, r, s
<1> DEFINE d == e - q
<1>3. d \in Int /\ w * e = w * q + w * d /\ w * d \in Int /\ w * q \in Int
  BY <1>1, <1>2, SMTT(30)
<1>4. w * d + s = w + r
  BY <1>1, <1>2, <1>3
<1> HIDE DEF d
<1>5. CASE d <= 0
  <2>1. w * d <= 0
    BY <1>3, <1>5, SMTT(30)
  <2> QED BY <1>1, <1>2, <1>3, <1>4, <2>1
<1>6. CASE d >= 2
  <2>1. w * d >= w + w
    BY <1>3, <1>6, SMTT(30)
  <2> QED BY <1>1, <1>2, <1>3, <1>4, <2>1
<1>7. CASE d = 1
  <2>1. s = r
    BY <1>1, <1>2, <1>4, <1>7
  <2> QED BY <2>1 DEF s, r
<1> QED BY <1>3, <1>5, <1>6, <1>7

-----------------------------------------------------------------------------
(* The memory while a program is loaded *)

Loading == {"segments", "relocate", "symbols", "entry"}
Before == {"idle", "fstat", "read"}

\* Headers below n hold a.
LoadedAt(n, a) ==
    \E j \in 1..Len(image.phdr) : j < n /\ image.phdr[j].type = PT_LOAD /\ In(image.phdr[j], a)

\* The relocations below n have been made, and nothing else has changed.
PatchedBelow(n) ==
    /\ \A j \in 1..Len(RelTable) : j < n =>
          WordAt(mem, RelTable[j].offset) = Relocated(image, buffer, RelTable[j])
    /\ \A a \in Address :
          (\A j \in 1..Len(RelTable) : j < n => a \notin Field(RelTable[j])) =>
             mem[a] = Stored(image, buffer, a)

\* The loader has noted the segment.
Placed(h) ==
    h.type = PT_LOAD =>
        \E k \in 1..Len(segments) :
            segments[k].vaddr = h.vaddr /\ segments[k].size = RoundUp(h.memsz)

\* Segments, then relocations, become what they are expected to be one by
\* one; a linked program never makes relocate give up.
MemoryInv ==
    /\ phase = "segments" /\ IsLinked(image, buffer) =>
          \A a \in Address : mem[a] = IF LoadedAt(i, a) THEN Stored(image, buffer, a) ELSE 0
    /\ phase = "relocate" /\ IsLinked(image, buffer) => PatchedBelow(i)
    /\ phase = "symbols" /\ IsLinked(image, buffer) => PatchedBelow(Len(RelTable) + 1)
    /\ phase = "entry" => ~IsLinked(image, buffer)

ImageInv ==
    /\ DOMAIN mem = Address
    /\ phase \in Before => mem = [a \in Address |-> 0]
    /\ phase \notin Before => call = NoCall
    /\ phase \in Loading => buffer \in DOMAIN elf /\ image \in elf[buffer] /\ buffer = ret.buf
    /\ phase = "segments" => \A j \in 1..Len(image.phdr) : j < i => Placed(image.phdr[j])
    /\ phase \in Loading \ {"segments"} =>
          \A j \in 1..Len(image.phdr) : Placed(image.phdr[j]) /\ Backed(image.phdr[j])
    /\ MemoryInv
    /\ result = TRUE => phase = "done"
    /\ ImageRight

AllInv == LoaderInv /\ QuestionInv /\ FaultInv /\ ImageInv

\* An address in a segment that is noted is where it is linked.
LEMMA TranslateInside ==
  ASSUME segments \in Seq(Segment), buffer \in DOMAIN elf, image \in elf[buffer],
         \A j \in 1..Len(image.phdr) : Placed(image.phdr[j]),
         NEW a \in Nat, Inside(image, a)
  PROVE  translate_addr(a) = a /\ a \in Address
<1> DEFINE hit == {l \in 1..Len(segments) :
                     a >= segments[l].vaddr
                     /\ a <= (segments[l].vaddr + segments[l].size) % W}
<1>1. a < W
  BY InsideIs
<1>2. PICK j \in 1..Len(image.phdr) : image.phdr[j].type = PT_LOAD /\ In(image.phdr[j], a)
  BY InsideIs
<1> DEFINE h == image.phdr[j]
<1>3. h \in LoadHeaders(image)
  BY <1>2, Images DEF LoadHeaders
<1>4. /\ h.vaddr \in Nat /\ h.memsz \in Nat /\ h.vaddr + RoundUp(h.memsz) < W
      /\ RoundUp(h.memsz) \in Nat /\ h.memsz <= RoundUp(h.memsz)
  BY <1>3, Images, RoundUpIs
<1>5. PICK k \in 1..Len(segments) :
         segments[k].vaddr = h.vaddr /\ segments[k].size = RoundUp(h.memsz)
  BY <1>2 DEF Placed
<1>6. k \in hit
  <2>1. (h.vaddr + RoundUp(h.memsz)) % W = h.vaddr + RoundUp(h.memsz)
    <3>1. W \in Nat /\ W > 0
      BY LoaderAssumption
    <3>2. h.vaddr + RoundUp(h.memsz) \in Nat
      BY <1>4
    <3> QED BY <1>4, <3>1, <3>2, ModSmall
  <2>2. a >= h.vaddr /\ a <= h.vaddr + RoundUp(h.memsz)
    BY <1>2, <1>4 DEF In
  <2> HIDE DEF h
  <2> QED BY <1>5, <2>1, <2>2
<1>7. SegmentOf(a) = IF hit # {} THEN Min(hit) ELSE 0
  BY DEF SegmentOf, SelectInSeq
<1>8. hit \subseteq Nat /\ 0 \notin hit
  OBVIOUS
<1> HIDE DEF hit, h
<1>9. SegmentOf(a) \in hit
  BY <1>6, <1>7, <1>8, LeastElement DEF Min
<1>10. SegmentOf(a) \in 1..Len(segments) /\ SegmentOf(a) # 0
  BY <1>8, <1>9 DEF hit
<1> DEFINE s == segments[SegmentOf(a)]
<1>11. s.vaddr \in Nat /\ s.base = s.vaddr
  BY <1>10, ElementOfSeq DEF Segment
<1>12. translate_addr(a) = (a - s.vaddr + s.base) % W
  BY <1>10 DEF translate_addr
<1>13. a - s.vaddr + s.base = a
  BY <1>11
<1>14. W \in Nat /\ W > 0
  BY LoaderAssumption
<1>15. a % W = a
  BY <1>1, <1>14, ModSmall
<1> HIDE DEF s
<1> QED BY <1>1, <1>12, <1>13, <1>14, <1>15 DEF Address

LEMMA NoBase ==
  ASSUME segments \in Seq(Segment), NEW a \in Nat
  PROVE  get_base(a) = 0
<1> DEFINE s == segments[SegmentOf(a)]
<1>1. CASE SegmentOf(a) = 0
  BY <1>1 DEF get_base
<1>2. CASE SegmentOf(a) # 0
  <2>1. s.vaddr \in Nat /\ s.base = s.vaddr
    BY <1>2, SegmentIs
  <2>2. get_base(a) = (s.base - s.vaddr) % W
    BY <1>2 DEF get_base
  <2> HIDE DEF s
  <2>3. s.base - s.vaddr = 0 /\ W \in Nat /\ W > 0
    BY <2>1, LoaderAssumption
  <2>4. 0 % W = 0
    BY <2>3, ModSmall
  <2> QED BY <2>2, <2>3, <2>4
<1> QED BY <1>1, <1>2

\* Before there is a file, and after an end without success.
LEMMA NothingLoaded ==
  ASSUME phase' \in Before, mem' = [a \in Address |-> 0], result' # TRUE
  PROVE  ImageInv'
BY DEF Before, Loading, ImageInv, MemoryInv, ImageRight

LEMMA Stopped ==
  ASSUME phase' \in {"done", "fault", "null"}, DOMAIN mem' = Address, call' = NoCall, result' # TRUE
  PROVE  ImageInv'
BY DEF Before, Loading, ImageInv, MemoryInv, ImageRight

LEMMA ImageInit == Init => ImageInv
BY LoaderAssumption DEF Init, Before, Loading, ImageInv, MemoryInv, ImageRight

\* What has been patched rests on the memory and the file alone.
LEMMA PatchedKept ==
  ASSUME UNCHANGED <<image, buffer, mem>>, NEW n, PatchedBelow(n)
  PROVE  \A m : m' = n => PatchedBelow(m)'
<1>1. RelTable' = RelTable
  BY SameTables
<1> QED BY <1>1 DEF PatchedBelow

LEMMA LoaderIdle ==
  ASSUME ImageInv, UNCHANGED lvars, phase = "idle" \/ Tarfs \/ UNCHANGED fvars
  PROVE  ImageInv'
<1>1. CASE phase \in Before
  BY <1>1, NothingLoaded DEF ImageInv, Before, lvars
<1>2. CASE phase \notin Before
  <2>1. ~Tarfs /\ phase # "idle"
    BY <1>2 DEF ImageInv, Before, Tarfs, WalkOn, WalkFound, WalkEnd, Walking
  <2>2. UNCHANGED <<mounts, call, ret, phase, i, buffer, image, segments, marked, mem, entrypoint, result>>
    BY <2>1 DEF lvars, fvars
  <2>3. RelTable' = RelTable
    BY <2>2, SameTables
  <2> QED BY <2>2, <2>3 DEF ImageInv, MemoryInv, ImageRight, LoadedAt, PatchedBelow, Placed, Backed
<1> QED BY <1>1, <1>2

LEMMA StartImage ==
  ASSUME ImageInv, NEW path \in Program, load_program(path)
  PROVE  ImageInv'
BY NothingLoaded DEF load_program, ImageInv, Before

LEMMA FstatImage ==
  ASSUME ImageInv, Fstat
  PROVE  ImageInv'
<1>1. phase = "fstat" /\ UNCHANGED mem /\ mem = [a \in Address |-> 0] /\ result # TRUE
  BY DEF Fstat, ImageInv, Before
<1>2. CASE phase' = "read" /\ UNCHANGED result
  BY <1>1, <1>2, NothingLoaded DEF Before
<1>3. CASE Return(FALSE) /\ UNCHANGED fvars
  BY <1>1, <1>3, Stopped DEF Return, Fstat, fvars
<1> QED BY <1>2, <1>3 DEF Fstat

LEMMA ReadImage ==
  ASSUME LoaderInv, QuestionInv, ImageInv, Read
  PROVE  ImageInv'
<1>1. /\ phase = "read" /\ call = NoCall /\ UNCHANGED <<mounts, call, ret, mem>>
      /\ mem = [a \in Address |-> 0] /\ result # TRUE /\ ret.buf \in DOMAIN elf
  BY WholeFileRead DEF Read, ImageInv, Before, fvars
<1>2. CASE phase' = "segments" /\ i' = 1 /\ buffer' = ret.buf /\ image' \in elf[ret.buf] /\ UNCHANGED result
  <2>1. \A j \in 1..Len(image'.phdr) : ~(j < i')
    BY <1>2
  <2>2. \A a \in Address : ~LoadedAt(i, a)'
    BY <2>1 DEF LoadedAt
  <2>3. MemoryInv'
    BY <1>1, <1>2, <2>2 DEF MemoryInv
  <2> QED BY <1>1, <1>2, <2>1, <2>3 DEF ImageInv, ImageRight, Before, Loading
<1>3. CASE Return(FALSE)
  BY <1>1, <1>3, Stopped DEF Return
<1> QED BY <1>2, <1>3 DEF Read

\* What is loaded when one more header has been.
LEMMA LoadedNext ==
  ASSUME NEW a, NEW n \in 1..Len(image.phdr)
  PROVE  LoadedAt(n + 1, a) <=>
            LoadedAt(n, a) \/ (image.phdr[n].type = PT_LOAD /\ In(image.phdr[n], a))
<1>1. ASSUME NEW j \in 1..Len(image.phdr) PROVE j < n + 1 <=> j < n \/ j = n
  OBVIOUS
<1> QED BY <1>1 DEF LoadedAt

LEMMA SkipImage ==
  ASSUME FaultInv, ImageInv, SkipHeader
  PROVE  ImageInv'
<1>1. /\ phase = "segments" /\ image.phdr[i].type # PT_LOAD /\ i' = i + 1 /\ i \in 1..Len(image.phdr)
      /\ UNCHANGED <<mounts, call, ret, phase, buffer, image, segments, marked, mem, entrypoint, result>>
  BY HeaderAt DEF SkipHeader, AtHeader, fvars
<1>2. \A a : LoadedAt(i, a)' <=> LoadedAt(i, a)
  <2>1. \A a : LoadedAt(i, a)' <=> LoadedAt(i + 1, a)
    BY <1>1 DEF LoadedAt
  <2> QED BY <1>1, <2>1, LoadedNext
<1>3. MemoryInv'
  BY <1>1, <1>2 DEF ImageInv, MemoryInv
<1>4. \A j \in 1..Len(image.phdr) : j < i + 1 => Placed(image.phdr[j])'
  <2> SUFFICES ASSUME NEW j \in 1..Len(image.phdr), j < i + 1 PROVE Placed(image.phdr[j])'
    OBVIOUS
  <2>1. j < i \/ j = i
    BY <1>1
  <2> QED BY <1>1, <2>1 DEF ImageInv, Placed
<1> QED BY <1>1, <1>3, <1>4 DEF ImageInv, ImageRight, Loading, Before

LEMMA PlacedNext ==
  ASSUME FaultInv, AtHeader, image.phdr[i].type = PT_LOAD, NEW s \in Segment,
         s.vaddr = image.phdr[i].vaddr, s.size = RoundUp(image.phdr[i].memsz),
         segments' = Append(segments, s), UNCHANGED image,
         \A j \in 1..Len(image.phdr) : j < i => Placed(image.phdr[j])
  PROVE  \A j \in 1..Len(image.phdr) : j < i + 1 => Placed(image.phdr[j])'
<1> DEFINE n == Len(segments)
<1>1. segments \in Seq(Segment)
  BY DEF FaultInv
<1>2. n \in Nat
  BY <1>1, LenProperties
<1>3. Len(segments') = n + 1 /\ segments'[n + 1] = s
      /\ \A k \in 1..n : segments'[k] = segments[k]
  BY <1>1, AppendProperties
<1> HIDE DEF n
<1> SUFFICES ASSUME NEW j \in 1..Len(image.phdr), j < i + 1, image.phdr[j].type = PT_LOAD
             PROVE  \E k \in 1..Len(segments') :
                       /\ segments'[k].vaddr = image.phdr[j].vaddr
                       /\ segments'[k].size = RoundUp(image.phdr[j].memsz)
  BY DEF Placed
<1>4. CASE j < i
  <2>1. PICK k \in 1..n : /\ segments[k].vaddr = image.phdr[j].vaddr
                          /\ segments[k].size = RoundUp(image.phdr[j].memsz)
    BY <1>4 DEF Placed, n
  <2>2. k \in 1..Len(segments')
    BY <1>2, <1>3
  <2> QED BY <1>3, <2>1, <2>2
<1>5. CASE j = i
  <2>1. n + 1 \in 1..Len(segments')
    BY <1>2, <1>3
  <2> QED BY <1>3, <1>5, <2>1
<1>6. i \in Nat
  BY HeaderAt
<1> QED BY <1>4, <1>5, <1>6

LEMMA SegmentImage ==
  ASSUME FaultInv, ImageInv, LoadSegment
  PROVE  ImageInv'
<1> DEFINE h == image.phdr[i]
           s == [vaddr |-> h.vaddr, base |-> h.vaddr, size |-> RoundUp(h.memsz)]
           behind == Len(buffer) + 1..h.offset + h.filesz
<1>1. /\ AtHeader /\ h.type = PT_LOAD /\ h.memsz >= h.filesz
      /\ segments' = Append(segments, s)
      /\ UNCHANGED <<mounts, call, ret, buffer, image, entrypoint, result>>
  BY DEF LoadSegment, fvars
<1>2. /\ phase = "segments" /\ buffer \in DOMAIN elf /\ image \in elf[buffer] /\ i \in 1..Len(image.phdr)
      /\ h \in LoadHeaders(image)
      /\ call = NoCall /\ result # TRUE /\ buffer = ret.buf /\ DOMAIN mem = Address
  BY <1>1, HeaderAt DEF AtHeader, ImageInv, Before, Loading
<1>3. CASE phase' = "fault" /\ UNCHANGED mem
  BY <1>1, <1>2, <1>3, Stopped
<1>4. ASSUME NEW stale,
             mem' = [a \in Address |->
                       LET k == h.offset + a - h.vaddr + 1
                       IN IF a \in h.vaddr..h.vaddr + h.filesz - 1
                          THEN IF k \in behind THEN stale[k] ELSE buffer[k]
                          ELSE IF a \in h.vaddr..h.vaddr + h.memsz - 1 THEN 0 ELSE mem[a]],
             i' = i + 1, UNCHANGED phase
      PROVE  ImageInv'
  <2>1. \A j \in 1..Len(image.phdr) : j < i + 1 => Placed(image.phdr[j])'
    <3>1. s.vaddr = h.vaddr /\ s.size = RoundUp(h.memsz)
      OBVIOUS
    <3>2. \A j \in 1..Len(image.phdr) : j < i => Placed(image.phdr[j])
      BY <1>2 DEF ImageInv
    <3>3. s \in Segment
      BY <1>2, Images, RoundUpIs DEF Segment
    <3> HIDE DEF s
    <3> QED BY <1>1, <3>1, <3>2, <3>3, PlacedNext
  <2>2. ASSUME IsLinked(image, buffer), NEW a \in Address
        PROVE  mem'[a] = IF LoadedAt(i + 1, a) THEN Stored(image, buffer, a) ELSE 0
    <3> DEFINE k == h.offset + a - h.vaddr + 1
    <3>1. mem[a] = IF LoadedAt(i, a) THEN Stored(image, buffer, a) ELSE 0
      BY <1>2, <2>2 DEF ImageInv, MemoryInv
    <3>2. LoadedAt(i + 1, a) <=> LoadedAt(i, a) \/ In(h, a)
      BY <1>1, <1>2, LoadedNext
    <3>3. a \in Nat
      BY LoaderAssumption DEF Address
    <3>4. /\ h.vaddr \in Nat /\ h.memsz \in Nat /\ h.filesz \in Nat /\ h.offset \in Nat
          /\ Len(buffer) \in Nat /\ h.offset + h.filesz <= Len(buffer)
      BY <1>2, <2>2, Images, FileIs DEF IsLinked
    <3>5. mem'[a] = IF a \in h.vaddr..h.vaddr + h.filesz - 1 THEN buffer[k]
                    ELSE IF a \in h.vaddr..h.vaddr + h.memsz - 1 THEN 0 ELSE mem[a]
      <4>1. mem'[a] = IF a \in h.vaddr..h.vaddr + h.filesz - 1
                      THEN IF k \in behind THEN stale[k] ELSE buffer[k]
                      ELSE IF a \in h.vaddr..h.vaddr + h.memsz - 1 THEN 0 ELSE mem[a]
        BY <1>4
      <4>2. k \notin behind
        <5> HIDE DEF h
        <5> QED BY <3>3, <3>4
      <4> QED BY <4>1, <4>2
    <3>6. CASE In(h, a)
      <4>1. Stored(image, buffer, a) = IF a < h.vaddr + h.filesz THEN buffer[k] ELSE 0
        BY <1>2, <2>2, <3>3, <3>6, StoredIs
      <4>2. a >= h.vaddr /\ a < h.vaddr + h.memsz
        BY <3>6 DEF In
      <4> HIDE DEF h, k
      <4>3. a \in h.vaddr..h.vaddr + h.memsz - 1
            /\ (a \in h.vaddr..h.vaddr + h.filesz - 1 <=> a < h.vaddr + h.filesz)
        BY <3>3, <3>4, <4>2
      <4> QED BY <3>2, <3>5, <3>6, <4>1, <4>3
    <3>7. CASE ~In(h, a)
      <4>1. ~(a >= h.vaddr /\ a < h.vaddr + h.memsz)
        BY <3>7 DEF In
      <4>2. h.memsz >= h.filesz
        BY <1>1
      <4> HIDE DEF h, k
      <4>3. a \notin h.vaddr..h.vaddr + h.memsz - 1 /\ a \notin h.vaddr..h.vaddr + h.filesz - 1
        BY <3>3, <3>4, <4>1, <4>2
      <4> QED BY <3>1, <3>2, <3>5, <3>7, <4>3
    <3> QED BY <3>6, <3>7
  <2>3. MemoryInv'
    <3>1. \A a : LoadedAt(i, a)' <=> LoadedAt(i + 1, a)
      BY <1>1, <1>4 DEF LoadedAt
    <3> QED BY <1>1, <1>2, <1>4, <2>2, <3>1 DEF MemoryInv
  <2>4. DOMAIN mem' = Address
    BY <1>4
  <2> HIDE DEF h
  <2> QED BY <1>1, <1>2, <1>4, <2>1, <2>3, <2>4 DEF ImageInv, ImageRight, Loading, Before
<1>5. \/ phase' = "fault" /\ UNCHANGED mem
      \/ /\ i' = i + 1 /\ UNCHANGED phase
         /\ \E stale \in [behind -> Stale] :
               mem' = [a \in Address |->
                         LET k == h.offset + a - h.vaddr + 1
                         IN IF a \in h.vaddr..h.vaddr + h.filesz - 1
                            THEN IF k \in behind THEN stale[k] ELSE buffer[k]
                            ELSE IF a \in h.vaddr..h.vaddr + h.memsz - 1 THEN 0 ELSE mem[a]]
  BY DEF LoadSegment
<1> QED BY <1>3, <1>4, <1>5

LEMMA RelocateImage ==
  ASSUME FaultInv, ImageInv, Relocate
  PROVE  ImageInv'
<1>1. /\ phase = "segments" /\ i > Len(image.phdr) /\ phase' = "relocate" /\ i' = 1
      /\ UNCHANGED <<mounts, call, ret, buffer, image, segments, marked, mem, entrypoint, result>>
  BY DEF Relocate, fvars
<1>2. /\ buffer \in DOMAIN elf /\ image \in elf[buffer] /\ buffer = ret.buf
      /\ i \in Nat /\ call = NoCall /\ result # TRUE
  BY <1>1 DEF ImageInv, FaultInv, Loading, Before
<1>3. Len(image.phdr) \in Nat
  BY <1>2, Images
<1>4. \A j \in 1..Len(image.phdr) : j < i
  BY <1>1, <1>2, <1>3
<1>5. \A j \in 1..Len(image.phdr) : Placed(image.phdr[j]) /\ Backed(image.phdr[j])
  BY <1>1, <1>4 DEF ImageInv, FaultInv
<1>6. ASSUME IsLinked(image, buffer), NEW a \in Address
      PROVE  mem[a] = Stored(image, buffer, a)
  <2>1. a \in Nat
    BY LoaderAssumption DEF Address
  <2>2. LoadedAt(i, a) <=> Inside(image, a)
    BY <1>2, <1>4, <2>1, InsideIs DEF LoadedAt
  <2>3. ~Inside(image, a) => Stored(image, buffer, a) = 0
    BY DEF Stored
  <2> QED BY <1>1, <1>6, <2>2, <2>3 DEF ImageInv, MemoryInv
<1>7. IsLinked(image, buffer) => PatchedBelow(1)
  <2>1. \A j \in 1..Len(RelTable) : ~(j < 1)
    OBVIOUS
  <2> QED BY <1>6, <2>1 DEF PatchedBelow
<1>8. MemoryInv'
  <2>1. IsLinked(image, buffer) => PatchedBelow(i)'
    BY <1>1, <1>7, PatchedKept
  <2> QED BY <1>1, <2>1 DEF MemoryInv
<1>9. \A j \in 1..Len(image.phdr) : Placed(image.phdr[j])' /\ Backed(image.phdr[j])'
  BY <1>1, <1>5 DEF Placed, Backed
<1> QED BY <1>1, <1>2, <1>8, <1>9 DEF ImageInv, ImageRight, Loading, Before

\* In a linked program, a relocation can be made, and is what is expected.
LEMMA LinkedRelocation ==
  ASSUME FaultInv, ImageInv, phase = "relocate", IsLinked(image, buffer), NEW j \in 1..Len(RelTable)
  PROVE  LET r == RelTable[j]
             a == r.offset
         IN /\ CanPatch(r) /\ translate_addr(a) = a /\ a \in Nat /\ Field(r) \subseteq Address
            /\ (\A x \in Field(r) : mem[x] = Stored(image, buffer, x)) =>
                  Patch(r, a) = Relocated(image, buffer, r) /\ Patch(r, a) \in Address
<1> DEFINE r == RelTable[j]
           a == r.offset
           S == SymbolsOf(image)[r.sym + 1].value
           A == Addend(image, buffer, r)
<1>0. W \in Nat /\ W > 0 /\ WORD \in Nat /\ WORD > 0
  BY LoaderAssumption
<1>1. /\ segments \in Seq(Segment) /\ buffer \in DOMAIN elf /\ image \in elf[buffer]
      /\ \A k \in 1..Len(image.phdr) : Placed(image.phdr[k])
  BY DEF FaultInv, ImageInv, Loading
<1>2. r \in Relocations(image) /\ a \in Address /\ r.sym \in Nat
  BY <1>1, RelocationIs
<1>3. a \in Nat
  BY <1>0, <1>2 DEF Address
<1>4. /\ r.type \in {"32", "PC32", "RELATIVE"} /\ FieldInside(image, r) /\ a # 0
      /\ r.type = "PC32" => A = W - WORD
      /\ r.type # "RELATIVE" =>
            /\ Sections(image, SHT_SYNSYM) # {} /\ r.sym < Len(SymbolsOf(image))
            /\ Inside(image, S) /\ S # 0
  BY <1>2 DEF IsLinked
<1>5. Inside(image, a) /\ Field(r) \subseteq Address
  <2>1. PICK h \in LoadHeaders(image) : a >= h.vaddr /\ a + WORD <= h.vaddr + h.memsz
    BY <1>4 DEF FieldInside
  <2>2. h.vaddr \in Nat /\ h.memsz \in Nat /\ h.vaddr + h.memsz < W
    BY <1>1, Images
  <2>3. a < h.vaddr + h.memsz /\ \A x \in a..a + WORD - 1 : x \in 0..W - 1
    <3> HIDE DEF a
    <3> QED BY <1>0, <1>3, <2>1, <2>2
  <2> QED BY <2>1, <2>3 DEF Inside, Field, Address
<1>6. translate_addr(a) = a
  BY <1>1, <1>3, <1>5, TranslateInside
<1>7. r.type # "RELATIVE" => /\ r.sym < Len(SymTable) /\ SymTable[r.sym + 1].value = S
                             /\ S \in Nat /\ Value(r) = S
  <2> SUFFICES ASSUME r.type # "RELATIVE"
               PROVE  /\ r.sym < Len(SymTable) /\ SymTable[r.sym + 1].value = S
                      /\ S \in Nat /\ Value(r) = S
    OBVIOUS
  <2>1. SymTable = SymbolsOf(image) /\ \A n \in Nat : n < Len(SymTable) => SymTable[n + 1].value \in Address
    BY <1>1, <1>4, LinkedTables
  <2>2. r.sym < Len(SymTable) /\ SymTable[r.sym + 1].value = S /\ S \in Nat
    BY <1>0, <1>2, <1>4, <2>1 DEF Address
  <2>3. translate_addr(S) = S
    <3> HIDE DEF S
    <3> QED BY <1>1, <1>4, <2>2, TranslateInside
  <2> QED BY <1>4, <2>2, <2>3 DEF Value, Sym
<1>8. CanPatch(r)
  BY <1>4, <1>6, <1>7 DEF CanPatch
<1>9. ASSUME \A x \in Field(r) : mem[x] = Stored(image, buffer, x)
      PROVE  Patch(r, a) = Relocated(image, buffer, r) /\ Patch(r, a) \in Address
  <2> DEFINE stored == [x \in Address |-> Stored(image, buffer, x)]
  <2>1. \A x \in Field(r) : stored[x] = Stored(image, buffer, x) /\ stored[x] \in Byte
    <3> SUFFICES ASSUME NEW x \in Field(r)
                 PROVE  stored[x] = Stored(image, buffer, x) /\ stored[x] \in Byte
      OBVIOUS
    <3>1. x \in Address /\ x \in Nat
      BY <1>0, <1>5 DEF Address
    <3> QED BY <1>1, <3>1, StoredIsByte
  <2>2. A = WordAt(stored, a)
    BY DEF Addend
  <2> HIDE DEF stored
  <2>3. A = WordAt(mem, a)
    <3>1. \A x \in a..a + WORD - 1 : mem[x] = stored[x]
      BY <1>9, <2>1 DEF Field
    <3> HIDE DEF a, A
    <3> QED BY <1>3, <2>2, <3>1, SameWord
  <2>4. A \in Nat /\ A < W
    <3>1. \A x \in a..a + WORD - 1 : stored[x] \in Byte
      BY <2>1 DEF Field
    <3>2. WordAt(stored, a) \in Address
      <4> HIDE DEF a
      <4> QED BY <1>3, <3>1, WordIsAddress
    <3> HIDE DEF A, a
    <3> QED BY <1>0, <2>2, <3>2 DEF Address
  <2>5. CASE r.type = "RELATIVE"
    <3>1. Patch(r, a) = (WordAt(mem, a) + get_base(a)) % W /\ Relocated(image, buffer, r) = A
      BY <2>5 DEF Patch, Relocated
    <3>2. get_base(a) = 0
      BY <1>1, <1>3, NoBase
    <3>3. A % W = A
      <4> HIDE DEF A
      <4> QED BY <1>0, <2>4, ModSmall
    <3> HIDE DEF A, a
    <3> QED BY <1>0, <2>3, <2>4, <3>1, <3>2, <3>3 DEF Address
  <2>6. CASE r.type = "32"
    <3>1. Patch(r, a) = (WordAt(mem, a) + Value(r)) % W /\ Relocated(image, buffer, r) = (S + A) % W
      BY <2>6 DEF Patch, Relocated
    <3>2. S \in Nat /\ Value(r) = S
      BY <1>7, <2>6
    <3> HIDE DEF A, S, a
    <3>3. WordAt(mem, a) + Value(r) = S + A /\ S + A \in Int
      BY <2>3, <2>4, <3>2
    <3> QED BY <1>0, <3>1, <3>3, ModIn DEF Address
  <2>7. CASE r.type = "PC32"
    <3>1. Patch(r, a) = (Value(r) - (a + WORD)) % W /\ Relocated(image, buffer, r) = (S + A - a) % W
      BY <2>7 DEF Patch, Relocated
    <3>2. S \in Nat /\ Value(r) = S /\ A = W - WORD
      BY <1>4, <1>7, <2>7
    <3> HIDE DEF A, S, a
    <3> DEFINE x == S - (a + WORD)
    <3>3. x \in Int /\ S + A - a = x + W
      BY <1>0, <1>3, <3>2
    <3> HIDE DEF x
    <3>4. (x + W) % W = x % W /\ x % W \in 0..W - 1
      BY <1>0, <3>3, ModShift, ModIn
    <3> QED BY <3>1, <3>2, <3>3, <3>4 DEF Address, x
  <2> QED BY <1>4, <2>5, <2>6, <2>7
<1> QED BY <1>3, <1>5, <1>6, <1>8, <1>9


\* One more field has its number, and no other place changes.
LEMMA PatchedNext ==
  ASSUME FaultInv, ImageInv, phase = "relocate", IsLinked(image, buffer), i \in 1..Len(RelTable),
         UNCHANGED <<image, buffer>>, i' = i + 1,
         LET r == RelTable[i]
             a == r.offset
         IN mem' = [x \in Address |-> IF x \in a..a + WORD - 1 THEN CellsOf(Patch(r, a))[x - a] ELSE mem[x]]
  PROVE  PatchedBelow(i)'
<1> DEFINE r == RelTable[i]
           a == r.offset
<1>1. PatchedBelow(i) /\ buffer \in DOMAIN elf /\ image \in elf[buffer] /\ i \in Nat
  BY DEF ImageInv, MemoryInv, Loading, FaultInv
<1>2. /\ Len(RelTable) \in Nat
      /\ \A j, l \in 1..Len(RelTable) : j # l => Field(RelTable[j]) \intersect Field(RelTable[l]) = {}
  BY <1>1, RelocationIs, LinkedTables
<1>3. /\ a \in Nat /\ Field(r) \subseteq Address
      /\ (\A x \in Field(r) : mem[x] = Stored(image, buffer, x)) =>
            Patch(r, a) = Relocated(image, buffer, r) /\ Patch(r, a) \in Address
  BY LinkedRelocation
<1>4. \A j \in 1..Len(RelTable) : j < i + 1 <=> j < i \/ j = i
  BY <1>1
<1>5. Field(r) = a..a + WORD - 1
  BY DEF Field
<1>6. /\ \A x \in Field(r) : mem'[x] = CellsOf(Patch(r, a))[x - a]
      /\ \A x \in Address \ Field(r) : mem'[x] = mem[x]
  BY <1>3, <1>5
<1>7. Patch(r, a) = Relocated(image, buffer, r) /\ Patch(r, a) \in Address
  <2>1. \A x \in Field(r) : \A j \in 1..Len(RelTable) : j < i => x \notin Field(RelTable[j])
    BY <1>1, <1>2
  <2>2. \A x \in Field(r) : mem[x] = Stored(image, buffer, x)
    BY <1>1, <1>3, <2>1 DEF PatchedBelow
  <2> QED BY <1>3, <2>2
<1> HIDE DEF r, a
<1>8. ASSUME NEW j \in 1..Len(RelTable), j < i + 1
      PROVE  WordAt(mem', RelTable[j].offset) = Relocated(image, buffer, RelTable[j])
  <2>1. CASE j = i
    <3> DEFINE v == Patch(r, a)
    <3>1. v \in Address /\ \A x \in a..a + WORD - 1 : mem'[x] = CellsOf(v)[x - a]
      BY <1>5, <1>6, <1>7
    <3> DEFINE m == mem'
    <3>2. v \in Address /\ a \in Nat /\ \A x \in a..a + WORD - 1 : m[x] = CellsOf(v)[x - a]
      BY <1>3, <3>1
    <3> HIDE DEF v, m
    <3>3. WordAt(m, a) = v
      BY <3>2, WordStored, Zenon
    <3> QED BY <1>7, <2>1, <3>3 DEF r, a, v, m
  <2>2. CASE j < i
    <3> DEFINE q == RelTable[j]
    <3>1. q.offset \in Nat /\ Field(q) \subseteq Address
      BY LinkedRelocation
    <3>2. Field(q) \intersect Field(r) = {}
      <4>1. j # i
        BY <1>1, <1>2, <2>2
      <4> QED BY <1>2, <4>1 DEF r
    <3>3. Field(q) = q.offset..q.offset + WORD - 1
      BY DEF Field
    <3> HIDE DEF q
    <3>4. \A x \in q.offset..q.offset + WORD - 1 : mem'[x] = mem[x]
      BY <1>6, <3>1, <3>2, <3>3
    <3>5. WordAt(mem', q.offset) = WordAt(mem, q.offset)
      BY <3>1, <3>4, SameWord
    <3>6. WordAt(mem, q.offset) = Relocated(image, buffer, q)
      BY <1>1, <2>2 DEF PatchedBelow, q
    <3> QED BY <3>5, <3>6 DEF q
  <2> QED BY <1>4, <1>8, <2>1, <2>2
<1>9. ASSUME NEW x \in Address, \A j \in 1..Len(RelTable) : j < i + 1 => x \notin Field(RelTable[j])
      PROVE  mem'[x] = Stored(image, buffer, x)
  <2>1. x \notin Field(r) /\ \A j \in 1..Len(RelTable) : j < i => x \notin Field(RelTable[j])
    BY <1>1, <1>4, <1>9 DEF r
  <2>2. mem[x] = Stored(image, buffer, x)
    BY <1>1, <2>1 DEF PatchedBelow
  <2> QED BY <1>6, <2>1, <2>2
<1>10. RelTable' = RelTable
  BY SameTables
<1> QED BY <1>8, <1>9, <1>10 DEF PatchedBelow

LEMMA RelocateOneImage ==
  ASSUME FaultInv, ImageInv, RelocateOne
  PROVE  ImageInv'
<1> DEFINE r == RelTable[i]
           p == translate_addr(r.offset)
           patched == [x \in Address |->
                         IF x \in p..p + WORD - 1 THEN CellsOf(Patch(r, p))[x - p] ELSE mem[x]]
<1>1. /\ phase = "relocate" /\ i <= Len(RelTable)
      /\ \/ mem' = patched /\ i' = i + 1 /\ UNCHANGED phase
         \/ phase' = "fault" /\ UNCHANGED mem
      /\ UNCHANGED <<mounts, call, ret, buffer, image, segments, marked, entrypoint, result>>
  BY DEF RelocateOne, fvars
<1>2. /\ buffer \in DOMAIN elf /\ image \in elf[buffer] /\ buffer = ret.buf
      /\ i \in Nat /\ i > 0 /\ call = NoCall /\ result # TRUE /\ DOMAIN mem = Address
  BY <1>1 DEF ImageInv, FaultInv, Loading, Before
<1>3. i \in 1..Len(RelTable)
  <2>1. Len(RelTable) \in Nat
    BY <1>2, RelocationIs
  <2> QED BY <1>1, <1>2, <2>1
<1>4. CASE phase' = "fault" /\ UNCHANGED mem
  BY <1>1, <1>2, <1>4, Stopped
<1>5. CASE mem' = patched /\ i' = i + 1 /\ UNCHANGED phase
  <2>1. DOMAIN mem' = Address
    BY <1>5
  <2>2. IsLinked(image, buffer) => PatchedBelow(i)'
    <3> SUFFICES ASSUME IsLinked(image, buffer) PROVE PatchedBelow(i)'
      OBVIOUS
    <3>1. p = r.offset
      BY <1>1, <1>3, LinkedRelocation
    <3>2. mem' = [x \in Address |-> IF x \in r.offset..r.offset + WORD - 1
                                    THEN CellsOf(Patch(r, r.offset))[x - r.offset] ELSE mem[x]]
      BY <1>5, <3>1
    <3> QED BY <1>1, <1>3, <1>5, <3>2, PatchedNext
  <2> HIDE DEF patched
  <2>3. MemoryInv'
    BY <1>1, <1>5, <2>2 DEF MemoryInv
  <2>4. \A j \in 1..Len(image.phdr) : Placed(image.phdr[j])' /\ Backed(image.phdr[j])'
    BY <1>1 DEF ImageInv, Loading, Placed, Backed
  <2> QED BY <1>1, <1>2, <1>5, <2>1, <2>3, <2>4 DEF ImageInv, ImageRight, Loading, Before
<1> QED BY <1>1, <1>4, <1>5

LEMMA GiveUpImage ==
  ASSUME FaultInv, ImageInv, RelocateGivesUp
  PROVE  ImageInv'
<1>1. /\ phase = "relocate" /\ i <= Len(RelTable) /\ ~CanPatch(RelTable[i]) /\ phase' = "entry"
      /\ UNCHANGED <<mounts, call, ret, i, buffer, image, segments, marked, mem, entrypoint, result>>
  BY DEF RelocateGivesUp, fvars
<1>2. /\ buffer \in DOMAIN elf /\ image \in elf[buffer] /\ buffer = ret.buf
      /\ i \in Nat /\ i > 0 /\ call = NoCall /\ result # TRUE
  BY <1>1 DEF ImageInv, FaultInv, Loading, Before
<1>3. ~IsLinked(image, buffer)
  <2>1. Len(RelTable) \in Nat
    BY <1>2, RelocationIs
  <2>2. i \in 1..Len(RelTable)
    BY <1>1, <1>2, <2>1
  <2> QED BY <1>1, <2>2, LinkedRelocation
<1>4. \A j \in 1..Len(image.phdr) : Placed(image.phdr[j])' /\ Backed(image.phdr[j])'
  BY <1>1 DEF ImageInv, Loading, Placed, Backed
<1> QED BY <1>1, <1>2, <1>3, <1>4 DEF ImageInv, MemoryInv, ImageRight, Loading, Before

LEMMA RelocatedImage ==
  ASSUME FaultInv, ImageInv, RelocateDone
  PROVE  ImageInv'
<1>1. /\ phase = "relocate" /\ i > Len(RelTable) /\ phase' = "symbols"
      /\ UNCHANGED <<mounts, call, ret, buffer, image, segments, marked, mem, entrypoint, result>>
  BY DEF RelocateDone, fvars
<1>2. /\ buffer \in DOMAIN elf /\ image \in elf[buffer] /\ buffer = ret.buf
      /\ i \in Nat /\ call = NoCall /\ result # TRUE
  BY <1>1 DEF ImageInv, FaultInv, Loading, Before
<1>3. Len(RelTable) \in Nat
  BY <1>2, RelocationIs
<1>4. IsLinked(image, buffer) => PatchedBelow(Len(RelTable) + 1)
  <2>1. \A j \in 1..Len(RelTable) : j < i /\ j < Len(RelTable) + 1
    BY <1>1, <1>2, <1>3
  <2> QED BY <1>1, <2>1 DEF ImageInv, MemoryInv, PatchedBelow
<1>5. MemoryInv'
  <2>1. RelTable' = RelTable
    BY <1>1, SameTables
  <2>2. IsLinked(image, buffer) => PatchedBelow(Len(RelTable) + 1)'
    BY <1>1, <1>4, <2>1 DEF PatchedBelow
  <2> QED BY <1>1, <2>2 DEF MemoryInv
<1>6. \A j \in 1..Len(image.phdr) : Placed(image.phdr[j])' /\ Backed(image.phdr[j])'
  BY <1>1 DEF ImageInv, Loading, Placed, Backed
<1> QED BY <1>1, <1>2, <1>5, <1>6 DEF ImageInv, ImageRight, Loading, Before

LEMMA SymbolImage ==
  ASSUME ImageInv, ExtractSymbol
  PROVE  ImageInv'
<1>1. /\ phase = "symbols"
      /\ UNCHANGED <<mounts, call, ret, phase, buffer, image, segments, marked, mem, entrypoint, result>>
  BY DEF ExtractSymbol, fvars
<1>2. \A j \in 1..Len(image.phdr) : Placed(image.phdr[j])' /\ Backed(image.phdr[j])'
  BY <1>1 DEF ImageInv, Loading, Placed, Backed
<1>3. MemoryInv'
  <2>1. RelTable' = RelTable
    BY <1>1, SameTables
  <2> QED BY <1>1, <2>1 DEF ImageInv, MemoryInv, PatchedBelow
<1> QED BY <1>1, <1>2, <1>3 DEF ImageInv, ImageRight, Loading, Before

\* The program is entered at a place in one of its segments.
LEMMA FinishImage ==
  ASSUME FaultInv, ImageInv, Finish
  PROVE  ImageInv'
<1>1. /\ phase \in {"symbols", "entry"} /\ phase' = "done" /\ entrypoint' = translate_addr(image.entry)
      /\ result' = TRUE /\ UNCHANGED <<mounts, call, ret, image, marked, mem>>
  BY DEF Finish, Return, fvars
<1>2. /\ buffer \in DOMAIN elf /\ image \in elf[buffer] /\ buffer = ret.buf /\ call = NoCall
      /\ DOMAIN mem = Address /\ segments \in Seq(Segment)
      /\ \A j \in 1..Len(image.phdr) : Placed(image.phdr[j]) /\ Backed(image.phdr[j])
  BY <1>1 DEF ImageInv, FaultInv, Loading, Before
<1>3. ASSUME IsLinked(image, buffer)
      PROVE  /\ \A r \in Relocations(image) : WordAt(mem, r.offset) = Relocated(image, buffer, r)
             /\ \A a \in Address : (\A r \in Relocations(image) : a \notin Field(r)) =>
                                       mem[a] = Stored(image, buffer, a)
  <2>1. PatchedBelow(Len(RelTable) + 1)
    BY <1>1, <1>3 DEF ImageInv, MemoryInv
  <2>2. Relocations(image) = {RelTable[j] : j \in 1..Len(RelTable)} /\ Len(RelTable) \in Nat
    BY <1>2, <1>3, LinkedTables, RelocationIs
  <2>3. \A j \in 1..Len(RelTable) : j < Len(RelTable) + 1
    BY <2>2
  <2> QED BY <2>1, <2>2, <2>3 DEF PatchedBelow
<1>4. ASSUME Inside(image, image.entry)
      PROVE  entrypoint' = image.entry /\ entrypoint' \div PAGE \in marked
  <2>1. image.entry \in Nat
    <3>1. image.entry \in Address /\ W \in Nat
      BY <1>2, Images, LoaderAssumption
    <3> QED BY <3>1 DEF Address
  <2>2. translate_addr(image.entry) = image.entry
    BY <1>2, <1>4, <2>1, TranslateInside
  <2>3. PICK j \in 1..Len(image.phdr) : image.phdr[j].type = PT_LOAD /\ In(image.phdr[j], image.entry)
    BY <1>2, <1>4, <2>1, InsideIs
  <2> DEFINE h == image.phdr[j]
  <2>4. h \in LoadHeaders(image)
    BY <1>2, <2>3, Images DEF LoadHeaders
  <2>5. h.vaddr \in Nat /\ h.memsz \in Nat
    BY <1>2, <2>4, Images
  <2>6. IsBacked(h.vaddr, h.memsz, marked)
    BY <1>2, <2>3 DEF Backed
  <2>7. image.entry \in h.vaddr..h.vaddr + h.memsz - 1
    <3>1. image.entry >= h.vaddr /\ image.entry < h.vaddr + h.memsz
      BY <2>3 DEF In
    <3> HIDE DEF h
    <3> QED BY <2>1, <2>5, <3>1
  <2> HIDE DEF h
  <2> QED BY <1>1, <2>2, <2>6, <2>7 DEF IsBacked
<1>5. ImageRight'
  BY <1>1, <1>2, <1>3, <1>4 DEF ImageRight
<1> QED BY <1>1, <1>2, <1>5 DEF ImageInv, MemoryInv, Loading, Before

LEMMA ImageStep == AllInv /\ [Next]_vars => ImageInv'
<1> SUFFICES ASSUME AllInv, [Next]_vars PROVE ImageInv'
  OBVIOUS
<1>1. LoaderInv /\ QuestionInv /\ FaultInv /\ ImageInv
  BY DEF AllInv
<1>2. CASE UNCHANGED lvars /\ (phase = "idle" \/ Tarfs \/ UNCHANGED fvars)
  BY <1>1, <1>2, LoaderIdle
<1>3. ASSUME NEW path \in Program, load_program(path) PROVE ImageInv'
  BY <1>1, <1>3, StartImage
<1>4. CASE RefuseHeader \/ AppendFails \/ OverRead
  <2>1. /\ phase' \in {"done", "fault", "null"} /\ UNCHANGED <<call, mem>> /\ result' # TRUE
        /\ phase \in {"segments", "relocate", "symbols"}
    BY <1>1, <1>4 DEF RefuseHeader, AppendFails, OverRead, AtHeader, Return, fvars, ImageInv
  <2>2. DOMAIN mem = Address /\ call = NoCall
    BY <1>1, <2>1 DEF ImageInv, Before
  <2> QED BY <2>1, <2>2, Stopped
<1>5. CASE Load
  BY <1>1, <1>4, <1>5, FstatImage, ReadImage, SkipImage, SegmentImage, RelocateImage, RelocateOneImage,
     GiveUpImage, RelocatedImage, SymbolImage, FinishImage DEF Load
<1> QED BY <1>2, <1>3, <1>5 DEF Next, vars

\* The inductive invariant of the loader.
LEMMA LoadInvariance == Spec => []AllInv
<1>1. Init => AllInv
  <2>1. Init => FaultInv
    BY EmptySeq DEF Init, FaultInv, FaultsExplained
  <2>2. Init => QuestionInv
    BY DEF Init, FilesInit, QuestionInv
  <2> QED BY <2>1, <2>2, InitLoader, ImageInit DEF AllInv
<1>2. AllInv /\ [Next]_vars => AllInv'
  BY LoaderStep, QuestionStep, FaultStep, ImageStep DEF AllInv
<1> QED BY <1>1, <1>2, PTL DEF Spec

-----------------------------------------------------------------------------
(* The theorems *)

\* The mount table and the lookups stay what they are with the loader as the
\* reader of files.
THEOREM LoaderTyped == Spec => []FilesTypeOK
<1>1. AllInv => FilesTypeOK
  BY FilesAsSaid DEF AllInv, LoaderInv
<1> QED BY <1>1, LoadInvariance, PTL

\* What the loader asks of the files is answered as LookupRight says, the
\* whole of a file included, which it asks for by the length fstat returned.
THEOREM LoaderIsAnswered == Spec => []LookupRight
<1>1. AllInv => LookupRight
  BY FilesAsSaid DEF AllInv, LoaderInv
<1> QED BY <1>1, LoadInvariance, PTL

\* If load_program touches a page that it may not, the file is the reason:
\* a segment on more pages than its size takes, a relocation whose number is
\* not all in one segment, or more said than the file holds.
THEOREM FaultsHaveReasons == Spec => []FaultsExplained
<1>1. AllInv => FaultsExplained
  BY DEF AllInv, FaultInv
<1> QED BY <1>1, LoadInvariance, PTL

\* Whatever a linked program holds and wherever its segments go, when
\* load_program succeeds every relocation of the file has been made once, to
\* the value that the comments in relocate give it, the rest of memory is what
\* the file says, and the entry point is on a page that the program has.
THEOREM ProgramsLoadRight == Spec => []ImageRight
<1>1. AllInv => ImageRight
  BY DEF AllInv, ImageInv
<1> QED BY <1>1, LoadInvariance, PTL

=============================================================================
