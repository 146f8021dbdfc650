---------------------------- MODULE Frames_proofs ----------------------------
(***************************************************************************)
(* What MCFrames checks on one memory map, proved for every map of         *)
(* disjoint entries, every page size and every number of entries per page. *)
(***************************************************************************)
EXTENDS Frames, FiniteSetTheorems, SequenceTheorems, TLAPS

-----------------------------------------------------------------------------
(* Multiples of the page size *)

Aligned(f, P) == (f \div P) * P = f

LEMMA DivBounds ==
  ASSUME NEW a \in Nat, NEW P \in Nat \ {0}
  PROVE  /\ a \div P \in Nat
         /\ P * (a \div P) <= a /\ a < P * (a \div P) + P
OBVIOUS

LEMMA MulAligned ==
  ASSUME NEW P \in Nat \ {0}, NEW q \in Nat
  PROVE  P * q \in Nat /\ P * q = q * P /\ Aligned(P * q, P)
<1>1. P * q \in Nat /\ P * q = q * P /\ (P * q) \div P = q
  OBVIOUS
<1> QED BY <1>1 DEF Aligned

LEMMA MulOrder ==
  ASSUME NEW P \in Nat \ {0}, NEW q \in Int, NEW r \in Int, P * r < P * q + P
  PROVE  r <= q /\ P * r <= P * q
<1>1. CASE r <= q
  <2>1. PICK d \in Nat : q = r + d
    BY <1>1
  <2>2. P * q = P * r + P * d /\ P * d \in Nat
    BY <2>1
  <2> QED BY <1>1, <2>2
<1>2. CASE r >= q + 1
  <2>1. PICK d \in Nat : r = q + 1 + d
    BY <1>2
  <2>2. P * r = P * q + P + P * d /\ P * d \in Nat
    BY <2>1
  <2> QED BY <2>2
<1> QED BY <1>1, <1>2

\* Two multiples closer than a page are in order.
LEMMA AlignedOrder ==
  ASSUME NEW P \in Nat \ {0}, NEW f \in Nat, NEW g \in Nat,
         Aligned(f, P), Aligned(g, P), f < g + P
  PROVE  f <= g
<1>1. f \div P \in Nat /\ g \div P \in Nat
  OBVIOUS
<1>2. f = P * (f \div P) /\ g = P * (g \div P)
  BY <1>1 DEF Aligned
<1>3. P * (f \div P) < P * (g \div P) + P
  BY <1>2
<1> HIDE DEF Aligned
<1>4. P * (f \div P) <= P * (g \div P)
  BY <1>1, <1>3, MulOrder
<1> QED BY <1>2, <1>4

LEMMA AlignedNext ==
  ASSUME NEW P \in Nat \ {0}, NEW f \in Nat, Aligned(f, P)
  PROVE  Aligned(f + P, P)
<1>1. f \div P \in Nat /\ f = P * (f \div P)
  BY DEF Aligned
<1>2. f \div P + 1 \in Nat /\ f + P = P * (f \div P + 1)
  BY <1>1
<1>3. Aligned(P * (f \div P + 1), P)
  BY <1>2, MulAligned
<1> QED BY <1>2, <1>3

\* The start of the loop over an entry is the first whole page.
LEMMA RoundUp ==
  ASSUME NEW a \in Nat, NEW P \in Nat \ {0}
  PROVE  /\ ((a + P - 1) \div P) * P \in Nat
         /\ Aligned(((a + P - 1) \div P) * P, P)
         /\ a <= ((a + P - 1) \div P) * P
         /\ \A f \in Nat : Aligned(f, P) /\ a <= f => ((a + P - 1) \div P) * P <= f
<1> DEFINE x == a + P - 1
           r == x \div P
           u == P * r
<1>1. x \in Nat
  OBVIOUS
<1>2. r \in Nat /\ u <= x /\ x < u + P
  BY <1>1, DivBounds
<1>3. u \in Nat /\ u = r * P /\ Aligned(u, P)
  BY <1>2, MulAligned
<1>4. x = a + P - 1
  OBVIOUS
<1> HIDE DEF x, u
<1>5. a <= u
  BY <1>2, <1>3, <1>4
<1>6. ASSUME NEW f \in Nat, Aligned(f, P), a <= f PROVE u <= f
  BY <1>2, <1>3, <1>4, <1>6, AlignedOrder
<1>7. ((a + P - 1) \div P) * P = u
  BY <1>3 DEF x
<1> QED BY <1>3, <1>5, <1>6, <1>7

\* Its end is behind the last whole page.
LEMMA RoundDown ==
  ASSUME NEW b \in Nat, NEW P \in Nat \ {0}
  PROVE  /\ (b \div P) * P \in Nat
         /\ \A f \in Nat : Aligned(f, P) => (f < (b \div P) * P <=> f + P <= b)
<1> DEFINE r == b \div P
           d == P * r
<1>1. r \in Nat /\ d <= b /\ b < d + P
  BY DivBounds
<1>2. d \in Nat /\ d = r * P /\ Aligned(d, P)
  BY <1>1, MulAligned
<1> HIDE DEF d
<1>3. ASSUME NEW f \in Nat, Aligned(f, P), f < d PROVE f + P <= b
  <2>1. Aligned(f + P, P) /\ f + P \in Nat
    BY <1>3, AlignedNext
  <2>2. f + P <= d
    BY <1>2, <1>3, <2>1, AlignedOrder
  <2> QED BY <1>1, <1>2, <1>3, <2>2
<1>4. ASSUME NEW f \in Nat, Aligned(f, P), f + P <= b PROVE f < d
  BY <1>1, <1>2, <1>4
<1> QED BY <1>2, <1>3, <1>4

-----------------------------------------------------------------------------
(* The inductive invariant *)

\* Where the loop of mmu_init is.
Where ==
    /\ entry \in Entry => Aligned(start, PageSize) /\ First(entry) <= start
    /\ pc \in {"read", "store"} =>
          /\ entry \in Entry /\ Map[entry].type = Available
          /\ start < Past(entry) /\ Wanted(start)

\* How far the stack has grown, and how much of it can be in use.
Grown ==
    /\ DOMAIN backing = 0..(IF pc = "read" THEN pt_index - 1 ELSE pt_index)
    /\ backing[0] = FirstPage
    /\ pc = "scan" => PerPage * pt_index <= index /\ index <= PerPage * pt_index + PerPage
    /\ pc = "read" => index = PerPage * pt_index /\ index > 0 /\ pt_index \in ondemand
    /\ pc = "store" => index = PerPage * pt_index - 1
    /\ pc # "up" => out = {}
    /\ pc = "up" => /\ IsFiniteSet(out)
                    /\ index + Cardinality(out) <= PerPage * pt_index + PerPage

IInv == TypeOK /\ Where /\ Grown /\ OneUse

-----------------------------------------------------------------------------
(* The loop meets every usable frame once *)

LEMMA EntryBounds ==
  ASSUME NEW j \in Entry
  PROVE  /\ Map[j].addr \in Nat /\ Map[j].len \in Nat /\ Map[j].type \in Nat
         /\ Map[j].addr + Map[j].len \in Nat
         /\ First(j) \in Nat /\ Aligned(First(j), PageSize) /\ Map[j].addr <= First(j)
         /\ Past(j) \in Nat
         /\ \A f \in Nat : Aligned(f, PageSize) =>
               /\ Map[j].addr <= f => First(j) <= f
               /\ f < Past(j) <=> f + PageSize <= Map[j].addr + Map[j].len
<1>1. Map[j] \in [type : Nat, addr : Nat, len : Nat]
  <2>1. Map \in Seq([type : Nat, addr : Nat, len : Nat])
    BY FramesAssumption
  <2>2. j \in 1..Len(Map)
    BY <2>1, LenProperties DEF Entry
  <2> QED BY <2>1, <2>2, ElementOfSeq
<1>2. PageSize \in Nat \ {0}
  BY FramesAssumption
<1>3. Map[j].addr \in Nat /\ Map[j].len \in Nat /\ Map[j].type \in Nat
      /\ Map[j].addr + Map[j].len \in Nat
  BY <1>1
<1>4. /\ First(j) \in Nat /\ Aligned(First(j), PageSize) /\ Map[j].addr <= First(j)
      /\ \A f \in Nat : Aligned(f, PageSize) /\ Map[j].addr <= f => First(j) <= f
  BY <1>2, <1>3, RoundUp DEF First
<1>5. /\ Past(j) \in Nat
      /\ \A f \in Nat : Aligned(f, PageSize) =>
          (f < Past(j) <=> f + PageSize <= Map[j].addr + Map[j].len)
  BY <1>2, <1>3, RoundDown DEF Past
<1> QED BY <1>3, <1>4, <1>5

\* The frames of an entry are what the loop over it comes to and wants.
LEMMA UsableIs ==
  ASSUME NEW j \in Entry, NEW f
  PROVE  f \in Usable(j) <=>
            /\ Map[j].type = Available /\ f \in Nat /\ Aligned(f, PageSize)
            /\ First(j) <= f /\ f < Past(j) /\ Wanted(f)
<1>1. PageSize \in Nat \ {0}
  BY FramesAssumption
<1>2. CASE f \in Nat
  BY <1>1, <1>2, EntryBounds DEF Usable, Wanted, Aligned
<1>3. CASE f \notin Nat
  BY <1>3, EntryBounds DEF Usable
<1> QED BY <1>2, <1>3

LEMMA UsableApart ==
  ASSUME NEW j \in Entry, NEW k \in Entry, j # k
  PROVE  Usable(j) \intersect Usable(k) = {}
<1>1. SUFFICES ASSUME NEW f, f \in Usable(j), f \in Usable(k) PROVE FALSE
  OBVIOUS
<1>2. /\ Map[j].addr <= f /\ f < Map[j].addr + Map[j].len /\ f \in Int
      /\ Map[k].addr <= f /\ f < Map[k].addr + Map[k].len
  BY <1>1, EntryBounds DEF Usable
<1>3. \/ Map[j].addr + Map[j].len <= Map[k].addr
      \/ Map[k].addr + Map[k].len <= Map[j].addr
  BY FramesAssumption
<1> QED BY <1>2, <1>3, EntryBounds

LEMMA EntryRange == Entry = 1..Len(Map) /\ Len(Map) \in Nat
BY FramesAssumption, LenProperties DEF Entry

LEMMA InScanned ==
  \A f : f \in Scanned <=>
            \/ \E j \in Entry : j < entry /\ f \in Usable(j)
            \/ entry \in Entry /\ f \in Usable(entry) /\ f < start
BY DEF Scanned

LEMMA InScannedNext ==
  \A f : f \in Scanned' <=>
            \/ \E j \in Entry : j < entry' /\ f \in Usable(j)
            \/ entry' \in Entry /\ f \in Usable(entry') /\ f < start'
BY DEF Scanned

LEMMA ScannedRange == \A f \in Scanned : f \in Nat /\ f >= KEnd
BY InScanned, UsableIs DEF Wanted

\* Nothing is left of an entry when the loop goes on to the next.
LEMMA ScanEntry ==
  ASSUME TypeOK, NextEntry
  PROVE  Scanned' = Scanned
<1>1. entry \in Entry /\ entry' = entry + 1 /\ entry \in Nat /\ start \in Nat
  BY EntryRange DEF NextEntry, TypeOK
<1>2. \A f \in Usable(entry) : f \in Nat /\ f < start
  <2>1. \A f \in Usable(entry) :
           f \in Nat /\ f < Past(entry) /\ Map[entry].type = Available
    BY <1>1, UsableIs
  <2>2. Past(entry) \in Int
    BY <1>1, EntryBounds
  <2> QED BY <1>1, <2>1, <2>2 DEF NextEntry
<1>3. entry' \in Entry => \A f \in Usable(entry') : ~(f < start')
  <2>1. entry' \in Entry => start' = First(entry')
    BY <1>1 DEF NextEntry
  <2>2. entry' \in Entry => \A f \in Usable(entry') : f \in Nat /\ First(entry') <= f
    BY UsableIs
  <2>3. entry' \in Entry => First(entry') \in Nat
    BY EntryBounds
  <2> QED BY <2>1, <2>2, <2>3
<1>4. \A f : f \in Scanned' <=> \E j \in Entry : j < entry + 1 /\ f \in Usable(j)
  BY <1>1, <1>3, InScannedNext
<1>5. \A j \in Entry : j < entry + 1 <=> j < entry \/ j = entry
  BY <1>1, EntryRange
<1>6. \A f : f \in Scanned <=> \E j \in Entry : j < entry + 1 /\ f \in Usable(j)
  BY <1>1, <1>2, <1>5, InScanned
<1> QED BY <1>4, <1>6

\* Of the frames below start + PageSize, start is the only new one.
LEMMA ScanFrame ==
  ASSUME TypeOK, Where, entry \in Entry, start < Past(entry),
         Map[entry].type = Available,
         entry' = entry, start' = start + PageSize
  PROVE  /\ Scanned' = Scanned \union (IF Wanted(start) THEN {start} ELSE {})
         /\ start \notin Scanned
<1>1. /\ start \in Nat /\ PageSize \in Nat \ {0} /\ Aligned(start, PageSize)
      /\ First(entry) <= start /\ entry \in Nat
  BY FramesAssumption, EntryRange DEF TypeOK, Where
<1>2. \A f \in Usable(entry) : f < start + PageSize <=> f < start \/ f = start
  <2>1. SUFFICES ASSUME NEW f \in Usable(entry) 
                 PROVE  f < start + PageSize <=> f < start \/ f = start
    OBVIOUS
  <2>2. f \in Nat /\ Aligned(f, PageSize)
    BY UsableIs
  <2>3. f < start + PageSize => f <= start
    BY <1>1, <2>2, AlignedOrder
  <2> QED BY <1>1, <2>2, <2>3
<1>3. start \in Usable(entry) <=> Wanted(start)
  BY <1>1, UsableIs
<1>4. \A f : f \in Scanned' <=> f \in Scanned \/ (Wanted(start) /\ f = start)
  <2>1. \A f : f \in Usable(entry) /\ f < start + PageSize <=>
                  (f \in Usable(entry) /\ f < start) \/ (Wanted(start) /\ f = start)
    BY <1>1, <1>2, <1>3
  <2> QED BY <2>1, InScanned, InScannedNext
<1>5. start \notin Scanned
  <2>1. start \in Usable(entry) => \A j \in Entry : j < entry => start \notin Usable(j)
    BY <1>1, EntryRange, UsableApart
  <2>2. ~(start < start)
    BY <1>1
  <2>3. \A j \in Entry : start \in Usable(j) => start \in Usable(entry)
    BY <1>1, <1>3, UsableIs
  <2> QED BY <2>1, <2>2, <2>3, InScanned
<1> QED BY <1>4, <1>5

-----------------------------------------------------------------------------
(* Pushing and popping *)

Stacked == {frames[k] : k \in 0..(index - 1)}
Own     == {backing[k] : k \in DOMAIN backing \ {0}}

StackSet   == \A j, k \in 0..(index - 1) : j # k => frames[j] # frames[k]
BackingSet == \A j, k \in DOMAIN backing : j # k => backing[j] # backing[k]

LEMMA OneUseIs ==
  OneUse <=> /\ StackSet /\ BackingSet
             /\ Stacked \intersect Own = {} /\ Stacked \intersect out = {}
             /\ Own \intersect out = {}
             /\ Stacked \union Own \union out = Scanned
BY DEF OneUse, StackSet, BackingSet, Stacked, Own

LEMMA OneUseNext ==
  OneUse' <=> /\ StackSet' /\ BackingSet'
              /\ Stacked' \intersect Own' = {} /\ Stacked' \intersect out' = {}
              /\ Own' \intersect out' = {}
              /\ Stacked' \union Own' \union out' = Scanned'
BY DEF OneUse, StackSet, BackingSet, Stacked, Own

\* Popping takes the top entry out of the set of free frames.
LEMMA Pop ==
  ASSUME TypeOK, StackSet, index > 0, index' = index - 1, frames' = frames
  PROVE  /\ frames[index - 1] \in Stacked
         /\ Stacked' = Stacked \ {frames[index - 1]} /\ StackSet'
         /\ frames[index - 1] \in Nat
<1>1. index \in Nat /\ index - 1 \in 0..(index - 1) /\ index - 1 \in DOMAIN frames
  BY DEF TypeOK
<1>2. 0..(index' - 1) = 0..(index - 1) \ {index - 1}
  BY <1>1
<1>3. Stacked' = {frames[k] : k \in 0..(index - 1) \ {index - 1}}
  BY <1>2 DEF Stacked
<1>4. Stacked' = Stacked \ {frames[index - 1]}
  BY <1>1, <1>3 DEF Stacked, StackSet
<1>5. StackSet'
  BY <1>2 DEF StackSet
<1> QED BY <1>1, <1>4, <1>5 DEF Stacked, TypeOK

\* Pushing adds a frame to it, if it is not there already.
LEMMA Push ==
  ASSUME TypeOK, StackSet, NEW f \in Nat, f \notin Stacked,
         frames' = Written(index, f), index' = index + 1
  PROVE  /\ Stacked' = Stacked \union {f} /\ StackSet'
         /\ DOMAIN frames' \subseteq Nat /\ \A k \in DOMAIN frames' : frames'[k] \in Nat
         /\ index' \in Nat /\ 0..(index' - 1) \subseteq DOMAIN frames'
<1>1. index \in Nat /\ 0..(index' - 1) = 0..(index - 1) \union {index}
  BY DEF TypeOK
<1>2. /\ DOMAIN frames' = DOMAIN frames \union {index}
      /\ \A k \in DOMAIN frames' : frames'[k] = IF k = index THEN f ELSE frames[k]
  BY DEF Written
<1>3. \A k \in 0..(index - 1) : k \in DOMAIN frames /\ frames'[k] = frames[k]
  BY <1>1, <1>2 DEF TypeOK
<1>4. frames'[index] = f /\ index \notin 0..(index - 1)
  BY <1>1, <1>2
<1>5. Stacked' = Stacked \union {f}
  BY <1>1, <1>3, <1>4 DEF Stacked
<1>6. StackSet'
  BY <1>1, <1>3, <1>4 DEF Stacked, StackSet
<1> QED BY <1>1, <1>2, <1>5, <1>6 DEF TypeOK

-----------------------------------------------------------------------------
(* The steps *)

\* The page of an entry, and the pages below a bound.
LEMMA PageOfIs ==
  ASSUME NEW k \in Nat, NEW q \in Nat
  PROVE  /\ PageOf(k) \in Nat
         /\ PerPage * q <= k /\ k < PerPage * q + PerPage => PageOf(k) = q
         /\ k < PerPage * q + PerPage => PageOf(k) <= q
<1>1. PerPage \in Nat \ {0}
  BY FramesAssumption
<1>2. /\ PageOf(k) \in Nat /\ PerPage * PageOf(k) <= k
      /\ k < PerPage * PageOf(k) + PerPage
  BY <1>1, DivBounds DEF PageOf
<1> HIDE DEF PageOf
<1> DEFINE r == PageOf(k)
           x == PerPage * q
           y == PerPage * r
<1>3. x \in Int /\ y \in Int /\ r \in Int /\ y <= k /\ k < y + PerPage
  BY <1>1, <1>2
<1>4. (y < x + PerPage => r <= q) /\ (x < y + PerPage => q <= r)
  BY <1>1, <1>3, MulOrder
<1> HIDE DEF x, y
<1>5. (k < x + PerPage => r <= q) /\ (x <= k => q <= r)
  BY <1>1, <1>3, <1>4
<1>6. r \in Nat /\ (x <= k /\ k < x + PerPage => r = q) /\ (k < x + PerPage => r <= q)
  BY <1>2, <1>3, <1>5
<1> QED BY <1>6 DEF x

\* PerPage * pt_index, the number of the first entry of the last page.
Base(q) == PerPage * q

LEMMA BaseIs ==
  /\ PerPage \in Nat \ {0} /\ Base(0) = 0
  /\ \A q \in Nat : Base(q) \in Nat /\ Base(q + 1) = Base(q) + PerPage
BY FramesAssumption DEF Base

LEMMA BaseNat ==
  ASSUME NEW q \in Nat
  PROVE  Base(q) \in Int /\ Base(q) >= 0 /\ PerPage \in Int /\ PerPage > 0
BY BaseIs

LEMMA GrownIs ==
  Grown <=>
    /\ DOMAIN backing = 0..(IF pc = "read" THEN pt_index - 1 ELSE pt_index)
    /\ backing[0] = FirstPage
    /\ pc = "scan" => Base(pt_index) <= index /\ index <= Base(pt_index) + PerPage
    /\ pc = "read" => index = Base(pt_index) /\ index > 0 /\ pt_index \in ondemand
    /\ pc = "store" => index = Base(pt_index) - 1
    /\ pc # "up" => out = {}
    /\ pc = "up" => /\ IsFiniteSet(out)
                    /\ index + Cardinality(out) <= Base(pt_index) + PerPage
BY DEF Grown, Base

LEMMA GrownNext ==
  Grown' <=>
    /\ DOMAIN backing' = 0..(IF pc' = "read" THEN pt_index' - 1 ELSE pt_index')
    /\ backing'[0] = FirstPage
    /\ pc' = "scan" => Base(pt_index') <= index' /\ index' <= Base(pt_index') + PerPage
    /\ pc' = "read" => index' = Base(pt_index') /\ index' > 0 /\ pt_index' \in ondemand'
    /\ pc' = "store" => index' = Base(pt_index') - 1
    /\ pc' # "up" => out' = {}
    /\ pc' = "up" => /\ IsFiniteSet(out')
                     /\ index' + Cardinality(out') <= Base(pt_index') + PerPage
BY DEF Grown, Base

LEMMA InitIInv == Init => IInv
<1> SUFFICES ASSUME Init PROVE IInv
  OBVIOUS
<1>1. start \in Nat /\ entry \in 1..(Len(Map) + 1)
  BY EntryRange, EntryBounds DEF Init
<1>2. TypeOK
  BY <1>1, FramesAssumption DEF Init, TypeOK
<1>3. Where
  BY EntryBounds DEF Init, Where
<1>4. Grown
  BY BaseIs, GrownIs DEF Init
<1>5. Scanned = {}
  <2>1. \A j \in Entry : ~(j < 1)
    BY EntryRange
  <2>2. 1 \in Entry => \A f \in Usable(1) : ~(f < First(1))
    BY UsableIs, EntryBounds
  <2> QED BY <2>1, <2>2, InScanned DEF Init
<1>6. OneUse
  BY <1>5 DEF Init, OneUse
<1> QED BY <1>2, <1>3, <1>4, <1>6 DEF IInv

LEMMA NextEntryStep == IInv /\ NextEntry => IInv'
<1> SUFFICES ASSUME IInv, NextEntry PROVE IInv'
  OBVIOUS
<1>1. TypeOK /\ Where /\ Grown /\ OneUse
  BY DEF IInv
<1>2. entry' \in 1..(Len(Map) + 1) /\ start' \in Nat
  BY <1>1, EntryRange, EntryBounds DEF NextEntry, TypeOK
<1>3. TypeOK'
  BY <1>1, <1>2 DEF TypeOK, NextEntry
<1>4. Where'
  <2>1. entry' \in Entry => start' = First(entry')
    BY DEF NextEntry
  <2>2. entry' \in Entry => Aligned(start', PageSize) /\ First(entry') <= start'
    BY <2>1, EntryBounds
  <2> QED BY <2>2 DEF Where, NextEntry
<1>5. Grown'
  BY <1>1 DEF Grown, NextEntry
<1>6. OneUse'
  BY <1>1, ScanEntry DEF OneUse, NextEntry
<1> QED BY <1>3, <1>4, <1>5, <1>6 DEF IInv

\* Going on to the next frame of an entry.
LEMMA WhereNext ==
  ASSUME TypeOK, Where, entry \in Entry,
         entry' = entry, start' = start + PageSize, pc' = "scan"
  PROVE  Where' /\ start' \in Nat
<1>1. start \in Nat /\ PageSize \in Nat \ {0} /\ Aligned(start, PageSize)
      /\ First(entry) <= start /\ First(entry) \in Nat
  BY FramesAssumption, EntryBounds DEF TypeOK, Where
<1>2. Aligned(start', PageSize) /\ First(entry') <= start'
  BY <1>1, AlignedNext
<1> QED BY <1>1, <1>2 DEF Where

LEMMA SkipFrameStep == IInv /\ SkipFrame => IInv'
<1> SUFFICES ASSUME IInv, SkipFrame PROVE IInv'
  OBVIOUS
<1>1. TypeOK /\ Where /\ Grown /\ OneUse
  BY DEF IInv
<1>2. Where' /\ start' \in Nat
  BY <1>1, WhereNext DEF SkipFrame, AtFrame
<1>3. TypeOK'
  BY <1>1, <1>2 DEF TypeOK, SkipFrame
<1>4. Grown'
  BY <1>1 DEF Grown, SkipFrame
<1>5. Scanned' = Scanned
  BY <1>1, ScanFrame DEF SkipFrame, AtFrame
<1>6. OneUse'
  BY <1>1, <1>5 DEF OneUse, SkipFrame
<1> QED BY <1>2, <1>3, <1>4, <1>6 DEF IInv

LEMMA GrowStep == IInv /\ Grow => IInv'
<1> SUFFICES ASSUME IInv, Grow PROVE IInv'
  OBVIOUS
<1>1. TypeOK /\ Where /\ Grown /\ OneUse
  BY DEF IInv
<1>2. index \in Nat /\ pt_index \in Nat /\ pc = "scan"
  BY <1>1 DEF TypeOK, Grow, AtFrame
<1>3. pt_index' = pt_index + 1 /\ index = Base(pt_index') /\ index > 0
  <2>1. Base(pt_index) <= index /\ index <= Base(pt_index) + PerPage
    BY <1>1, <1>2, GrownIs
  <2>2. ~(index < Base(pt_index) + PerPage)
    BY <1>2, <2>1, PageOfIs DEF Grow, Base
  <2>3. index = Base(pt_index + 1) /\ index > 0
    <3>1. Base(pt_index) \in Int /\ Base(pt_index) >= 0 /\ PerPage \in Int /\ PerPage > 0
      BY <1>2, BaseNat
    <3>2. Base(pt_index + 1) = Base(pt_index) + PerPage
      BY <1>2, BaseIs
    <3> QED BY <1>2, <2>1, <2>2, <3>1, <3>2
  <2>4. Base(pt_index + 1) <= index /\ index < Base(pt_index + 1) + PerPage
    BY <1>2, <2>3, BaseIs
  <2>5. PageOf(index) = pt_index + 1
    BY <1>2, <2>4, PageOfIs DEF Base
  <2> QED BY <2>3, <2>5 DEF Grow
<1>4. TypeOK'
  BY <1>1, <1>2, <1>3 DEF TypeOK, Grow
<1>5. Where'
  BY <1>1 DEF Where, Grow, AtFrame, Wanted
<1>6. Grown'
  <2>1. DOMAIN backing = 0..pt_index /\ backing[0] = FirstPage /\ out = {}
    BY <1>1, <1>2, GrownIs
  <2>2. pt_index' - 1 = pt_index
    BY <1>2, <1>3
  <2> QED BY <1>3, <2>1, <2>2, GrownNext DEF Grow
<1>7. Scanned' = Scanned
  BY DEF Scanned, Grow
<1>8. OneUse'
  BY <1>1, <1>7 DEF OneUse, Grow
<1> QED BY <1>4, <1>5, <1>6, <1>8 DEF IInv

\* While mmu_init runs all its frames are scanned, above the first page.
LEMMA ReadNewPageStep == IInv /\ ReadNewPage => IInv'
<1> SUFFICES ASSUME IInv, ReadNewPage PROVE IInv'
  OBVIOUS
<1> DEFINE f == frames[index - 1]
<1>1. TypeOK /\ Where /\ Grown /\ OneUse
  BY DEF IInv
<1>2. /\ index \in Nat /\ pt_index \in Nat /\ pc = "read" /\ index > 0
      /\ index' = index - 1 /\ frames' = frames
  BY <1>1 DEF TypeOK, ReadNewPage
<1>3. /\ DOMAIN backing = 0..(pt_index - 1) /\ backing[0] = FirstPage
      /\ index = Base(pt_index) /\ pt_index \in ondemand /\ out = {}
  BY <1>1, <1>2, GrownIs
<1>4. PageOf(index) = pt_index /\ pt_index > 0
  <2>1. Base(pt_index) <= index /\ index < Base(pt_index) + PerPage
    <3>1. Base(pt_index) \in Int /\ PerPage \in Int /\ PerPage > 0
      BY <1>2, BaseNat
    <3>2. index = Base(pt_index)
      BY <1>3
    <3> QED BY <3>1, <3>2
  <2>2. PageOf(index) = pt_index
    BY <1>2, <2>1, PageOfIs DEF Base
  <2> QED BY <1>2, <1>3, <2>2, BaseIs
<1>5. /\ StackSet /\ BackingSet /\ Stacked \intersect Own = {}
      /\ Stacked \union Own = Scanned
  BY <1>1, <1>3, OneUseIs
<1>6. f \in Stacked /\ Stacked' = Stacked \ {f} /\ StackSet' /\ f \in Nat
  BY <1>1, <1>2, <1>5, Pop
<1>7. /\ DOMAIN backing' = 0..pt_index
      /\ \A k \in 0..pt_index : backing'[k] = IF k = pt_index THEN f ELSE backing[k]
  <2>1. 0..(pt_index - 1) \union {pt_index} = 0..pt_index
    BY <1>2
  <2> QED BY <1>3, <1>4, <2>1 DEF ReadNewPage
<1>8. TypeOK'
  <2>1. 0..(index' - 1) \subseteq 0..(index - 1) /\ index' \in Nat
    BY <1>2
  <2>2. DOMAIN backing' \subseteq Nat /\ \A k \in DOMAIN backing' : backing'[k] \in Nat
    BY <1>1, <1>2, <1>3, <1>6, <1>7 DEF TypeOK
  <2> QED BY <1>1, <1>2, <2>1, <2>2 DEF TypeOK, ReadNewPage
<1>9. Where'
  BY <1>1 DEF Where, ReadNewPage, Wanted
<1>10. Grown'
  <2>1. backing'[0] = FirstPage
    BY <1>2, <1>3, <1>4, <1>7
  <2> QED BY <1>2, <1>3, <1>7, <2>1, GrownNext DEF ReadNewPage
<1>11. Scanned' = Scanned
  BY DEF Scanned, ReadNewPage
<1>12. Own' = Own \union {f}
  <2>1. 0..pt_index \ {0} = (0..(pt_index - 1) \ {0}) \union {pt_index}
    BY <1>2, <1>4
  <2>2. \A k \in 0..(pt_index - 1) : k # pt_index /\ k \in 0..pt_index
    BY <1>2
  <2>3. Own' = {backing'[k] : k \in 0..pt_index \ {0}}
    BY <1>7 DEF Own
  <2>4. Own = {backing[k] : k \in 0..(pt_index - 1) \ {0}}
    BY <1>3 DEF Own
  <2> QED BY <1>2, <1>7, <2>1, <2>2, <2>3, <2>4
<1>13. BackingSet'
  <2>1. f # FirstPage
    BY <1>5, <1>6, ScannedRange, FramesAssumption
  <2>2. \A k \in 0..(pt_index - 1) : backing[k] # f
    <3>1. \A k \in 0..(pt_index - 1) : k # 0 => backing[k] \in Own
      BY <1>3 DEF Own
    <3> QED BY <1>3, <1>5, <1>6, <2>1, <3>1
  <2>3. \A k \in 0..pt_index : k = pt_index \/ k \in 0..(pt_index - 1)
    BY <1>2
  <2> QED BY <1>3, <1>5, <1>7, <2>2, <2>3 DEF BackingSet
<1>14. OneUse'
  BY <1>3, <1>5, <1>6, <1>11, <1>12, <1>13, OneUseNext DEF ReadNewPage
<1> QED BY <1>8, <1>9, <1>10, <1>14 DEF IInv

LEMMA StoreStep == IInv /\ Store => IInv'
<1> SUFFICES ASSUME IInv, Store PROVE IInv'
  OBVIOUS
<1>1. TypeOK /\ Where /\ Grown /\ OneUse
  BY DEF IInv
<1>2. /\ entry \in Entry /\ Map[entry].type = Available
      /\ start < Past(entry) /\ Wanted(start)
  BY <1>1 DEF Store, Where, AtFrame
<1>3. /\ entry' = entry /\ start' = start + PageSize /\ pc' = "scan"
      /\ frames' = Written(index, start) /\ index' = index + 1
      /\ ondemand' = ondemand /\ backing' = backing /\ pt_index' = pt_index /\ out' = out
  BY DEF Store
<1>4. Scanned' = Scanned \union {start} /\ start \notin Scanned
  BY <1>1, <1>2, <1>3, ScanFrame
<1>5. /\ index \in Nat /\ pt_index \in Nat /\ start \in Nat
  BY <1>1 DEF TypeOK
<1>6. /\ StackSet /\ BackingSet /\ Stacked \intersect Own = {}
      /\ Stacked \intersect out = {} /\ Own \intersect out = {}
      /\ Stacked \union Own \union out = Scanned
  BY <1>1, OneUseIs
<1>7. start \notin Stacked
  BY <1>4, <1>6
<1>8. /\ Stacked' = Stacked \union {start} /\ StackSet'
      /\ DOMAIN frames' \subseteq Nat /\ \A k \in DOMAIN frames' : frames'[k] \in Nat
      /\ index' \in Nat /\ 0..(index' - 1) \subseteq DOMAIN frames'
  BY <1>1, <1>3, <1>5, <1>6, <1>7, Push
<1>9. Where' /\ start' \in Nat
  BY <1>1, <1>2, <1>3, WhereNext
<1>10. TypeOK'
  BY <1>1, <1>3, <1>8, <1>9 DEF TypeOK
<1>11. Grown'
  <2>1. Base(pt_index) <= index + 1 /\ index + 1 <= Base(pt_index) + PerPage
    <3>1. CASE pc = "store"
      <4>1. index = Base(pt_index) - 1
        BY <1>1, <3>1, GrownIs
      <4> QED BY <1>5, <4>1, BaseNat
    <3>2. CASE pc = "scan" /\ pt_index = PageOf(index)
      <4>1. Base(pt_index) <= index /\ index <= Base(pt_index) + PerPage
        BY <1>1, <3>2, GrownIs
      <4>2. index # Base(pt_index) + PerPage
        <5>1. SUFFICES ASSUME index = Base(pt_index) + PerPage PROVE FALSE
          OBVIOUS
        <5>2. Base(pt_index + 1) <= index /\ index < Base(pt_index + 1) + PerPage
          BY <1>5, <5>1, BaseIs
        <5>3. PageOf(index) = pt_index + 1
          BY <1>5, <5>2, PageOfIs DEF Base
        <5> QED BY <1>5, <3>2, <5>3
      <4> QED BY <1>5, <4>1, <4>2, BaseNat
    <3> QED BY <3>1, <3>2 DEF Store, AtFrame
  <2>2. DOMAIN backing = 0..pt_index /\ backing[0] = FirstPage /\ out = {}
    BY <1>1, GrownIs DEF Store, AtFrame
  <2> QED BY <1>3, <2>1, <2>2, GrownNext
<1>12. Own' = Own /\ BackingSet' /\ start \notin Own /\ start \notin out
  BY <1>3, <1>4, <1>6 DEF Own, BackingSet
<1>13. OneUse'
  BY <1>3, <1>4, <1>6, <1>8, <1>12, OneUseNext
<1> QED BY <1>9, <1>10, <1>11, <1>13 DEF IInv

LEMMA InitDoneStep == IInv /\ InitDone => IInv'
<1> SUFFICES ASSUME IInv, InitDone PROVE IInv'
  OBVIOUS
<1>1. TypeOK /\ Where /\ Grown /\ OneUse
  BY DEF IInv
<1>2. TypeOK' /\ Where'
  BY <1>1 DEF TypeOK, Where, InitDone
<1>3. Grown'
  <2>1. /\ DOMAIN backing = 0..pt_index /\ backing[0] = FirstPage /\ out = {}
        /\ index <= Base(pt_index) + PerPage
    BY <1>1, GrownIs DEF InitDone
  <2>2. IsFiniteSet(out) /\ Cardinality(out) = 0
    BY <2>1, FS_EmptySet
  <2>3. index + 0 = index
    BY <1>1 DEF TypeOK
  <2> QED BY <2>1, <2>2, <2>3, GrownNext DEF InitDone
<1>4. Scanned' = Scanned
  BY DEF Scanned, InitDone
<1>5. OneUse'
  BY <1>1, <1>4 DEF OneUse, InitDone
<1> QED BY <1>2, <1>3, <1>5 DEF IInv

LEMMA AllocStep == IInv /\ mmu_alloc => IInv'
<1> SUFFICES ASSUME IInv, mmu_alloc PROVE IInv'
  OBVIOUS
<1> DEFINE f == frames[index - 1]
<1>1. TypeOK /\ Where /\ Grown /\ OneUse
  BY DEF IInv
<1>2. /\ index \in Nat /\ index > 0 /\ index' = index - 1 /\ frames' = frames
      /\ pc = "up" /\ pc' = "up" /\ out' = out \union {f}
      /\ backing' = backing /\ pt_index' = pt_index
  BY <1>1 DEF TypeOK, mmu_alloc
<1>3. /\ StackSet /\ BackingSet /\ Stacked \intersect Own = {}
      /\ Stacked \intersect out = {} /\ Own \intersect out = {}
      /\ Stacked \union Own \union out = Scanned
  BY <1>1, OneUseIs
<1>4. f \in Stacked /\ Stacked' = Stacked \ {f} /\ StackSet' /\ f \in Nat
  BY <1>1, <1>2, <1>3, Pop
<1>5. TypeOK'
  <2>1. 0..(index' - 1) \subseteq 0..(index - 1) /\ index' \in Nat
    BY <1>2
  <2> QED BY <1>1, <1>2, <1>4, <2>1 DEF TypeOK, mmu_alloc
<1>6. Where'
  BY <1>1 DEF Where, mmu_alloc
<1>7. Grown'
  <2>1. /\ DOMAIN backing = 0..pt_index /\ backing[0] = FirstPage
        /\ IsFiniteSet(out) /\ index + Cardinality(out) <= Base(pt_index) + PerPage
    BY <1>1, <1>2, GrownIs
  <2>2. f \notin out
    BY <1>3, <1>4
  <2>3. IsFiniteSet(out') /\ Cardinality(out') = Cardinality(out) + 1
        /\ Cardinality(out) \in Nat
    BY <1>2, <2>1, <2>2, FS_AddElement, FS_CardinalityType
  <2>4. index' + Cardinality(out') = index + Cardinality(out)
    BY <1>2, <2>3
  <2> QED BY <1>2, <2>1, <2>3, <2>4, GrownNext
<1>8. Scanned' = Scanned /\ Own' = Own /\ BackingSet'
  BY <1>2, <1>3 DEF Scanned, Own, BackingSet, mmu_alloc
<1>9. OneUse'
  BY <1>2, <1>3, <1>4, <1>8, OneUseNext
<1> QED BY <1>5, <1>6, <1>7, <1>9 DEF IInv

LEMMA FreeStep == \A f \in out : IInv /\ mmu_free(f) => IInv'
<1> SUFFICES ASSUME NEW f \in out, IInv, mmu_free(f) PROVE IInv'
  OBVIOUS
<1>1. TypeOK /\ Where /\ Grown /\ OneUse
  BY DEF IInv
<1>2. /\ index \in Nat /\ f \in Nat /\ index' = index + 1
      /\ frames' = Written(index, f)
      /\ pc = "up" /\ pc' = "up" /\ out' = out \ {f}
      /\ backing' = backing /\ pt_index' = pt_index
  BY <1>1 DEF TypeOK, mmu_free
<1>3. /\ StackSet /\ BackingSet /\ Stacked \intersect Own = {}
      /\ Stacked \intersect out = {} /\ Own \intersect out = {}
      /\ Stacked \union Own \union out = Scanned
  BY <1>1, OneUseIs
<1>4. /\ Stacked' = Stacked \union {f} /\ StackSet'
      /\ DOMAIN frames' \subseteq Nat /\ \A k \in DOMAIN frames' : frames'[k] \in Nat
      /\ index' \in Nat /\ 0..(index' - 1) \subseteq DOMAIN frames'
  <2>1. f \notin Stacked
    BY <1>3
  <2> QED BY <1>1, <1>2, <1>3, <2>1, Push
<1>5. TypeOK'
  BY <1>1, <1>2, <1>4 DEF TypeOK, mmu_free
<1>6. Where'
  BY <1>1 DEF Where, mmu_free
<1>7. Grown'
  <2>1. /\ DOMAIN backing = 0..pt_index /\ backing[0] = FirstPage
        /\ IsFiniteSet(out) /\ index + Cardinality(out) <= Base(pt_index) + PerPage
    BY <1>1, <1>2, GrownIs
  <2>2. IsFiniteSet(out') /\ Cardinality(out') = Cardinality(out) - 1
        /\ Cardinality(out) \in Nat
    BY <1>2, <2>1, FS_RemoveElement, FS_CardinalityType
  <2>3. index' + Cardinality(out') = index + Cardinality(out)
    BY <1>2, <2>2
  <2> QED BY <1>2, <2>1, <2>2, <2>3, GrownNext
<1>8. Scanned' = Scanned /\ Own' = Own /\ BackingSet'
  BY <1>2, <1>3 DEF Scanned, Own, BackingSet, mmu_free
<1>9. OneUse'
  BY <1>2, <1>3, <1>4, <1>8, OneUseNext
<1> QED BY <1>5, <1>6, <1>7, <1>9 DEF IInv

LEMMA UnchangedStep == IInv /\ UNCHANGED vars => IInv'
<1> SUFFICES ASSUME IInv, UNCHANGED vars PROVE IInv'
  OBVIOUS
<1>1. Scanned' = Scanned
  BY DEF Scanned, vars
<1>2. TypeOK' /\ Where'
  BY DEF IInv, TypeOK, Where, Wanted, vars
<1>3. Grown'
  BY DEF IInv, Grown, vars
<1>4. OneUse'
  BY <1>1 DEF IInv, OneUse, vars
<1> QED BY <1>2, <1>3, <1>4 DEF IInv

LEMMA NextIInv == IInv /\ [Next]_vars => IInv'
BY NextEntryStep, SkipFrameStep, GrowStep, ReadNewPageStep, StoreStep,
   InitDoneStep, AllocStep, FreeStep, UnchangedStep DEF Next

-----------------------------------------------------------------------------
(* The theorems *)

\* The inductive invariant: where the loop of mmu_init is, how many pages
\* the stack has, and that no frame has two uses.
THEOREM FramesInvariance == Spec => []IInv
BY InitIInv, NextIInv, PTL DEF Spec

\* mmu_init, mmu_alloc and mmu_free keep the index and the entries of the
\* stack in range.
THEOREM FramesTyped == Spec => []TypeOK
<1>1. IInv => TypeOK
  BY DEF IInv
<1> QED BY <1>1, FramesInvariance, PTL

\* Whatever the memory map: each whole available frame outside the kernel
\* enters the stack once, and has one use from then on, although the stack
\* feeds on itself while mmu_init builds it.
THEOREM FrameOneUse == Spec => []OneUse
<1>1. IInv => OneUse
  BY DEF IInv
<1> QED BY <1>1, FramesInvariance, PTL

\* No access to the stack, in mmu_init, mmu_alloc or mmu_free, reaches a
\* page that is not present or about to be backed by the fault of mmu_init.
THEOREM StackAlwaysPresent == Spec => []StackPresent
<1>1. IInv => StackPresent
  <2> SUFFICES ASSUME IInv PROVE StackPresent
    OBVIOUS
  <2>1. index \in Nat /\ pt_index \in Nat /\ Grown
    BY DEF IInv, TypeOK
  <2>2. \A k \in Nat : k < Base(pt_index) + PerPage => PageOf(k) \in 0..pt_index
    BY <2>1, PageOfIs DEF Base
  <2>3. pc # "read" => DOMAIN backing = 0..pt_index
    BY <2>1, GrownIs
  <2>4. pc = "store" => PageOf(index) \in DOMAIN backing
    <3>1. pc = "store" => index < Base(pt_index) + PerPage
      BY <2>1, GrownIs, BaseNat
    <3> QED BY <2>1, <2>2, <2>3, <3>1
  <2>5. AtFrame /\ pt_index = PageOf(index) => PageOf(index) \in DOMAIN backing
    BY <2>1, <2>3 DEF AtFrame
  <2>6. pc = "read" => PageOf(index) \in ondemand /\ index > 0
    <3>1. pc = "read" => /\ Base(pt_index) <= index /\ index < Base(pt_index) + PerPage
                         /\ pt_index \in ondemand /\ index > 0
      BY <2>1, GrownIs, BaseNat
    <3> QED BY <2>1, <3>1, PageOfIs DEF Base
  <2>7. pc = "up" => \A k \in 0..(index + Cardinality(out) - 1) :
                         PageOf(k) \in DOMAIN backing
    <3> SUFFICES ASSUME pc = "up", NEW k \in 0..(index + Cardinality(out) - 1)
                 PROVE  PageOf(k) \in DOMAIN backing
      OBVIOUS
    <3>1. IsFiniteSet(out) /\ index + Cardinality(out) <= Base(pt_index) + PerPage
      BY <2>1, GrownIs
    <3>2. k \in Nat /\ k < Base(pt_index) + PerPage
      <4>1. Cardinality(out) \in Nat
        BY <3>1, FS_CardinalityType
      <4> QED BY <2>1, <3>1, <4>1, BaseNat
    <3> QED BY <2>2, <2>3, <3>2
  <2> QED BY <2>4, <2>5, <2>6, <2>7 DEF StackPresent
<1> QED BY <1>1, FramesInvariance, PTL
=============================================================================
