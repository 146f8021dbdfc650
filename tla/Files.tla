-------------------------------- MODULE Files --------------------------------
(***************************************************************************)
(* Files: the mount table (vfs.cpp), the archive on it (tarfs.c) and the   *)
(* disk under that (ramdisk.c).  Paths and names are sequences of          *)
(* characters.  A file holds cells; a header or BLOCK cells fill a block   *)
(* of the disk, and zero blocks follow the last member, as tar writes them.*)
(*                                                                         *)
(* A lookup walks the headers from the start of the disk, one per step.    *)
(***************************************************************************)
EXTENDS Integers, Sequences, SequencesExt, FiniteSets

CONSTANTS
    FS_DEVICE,            \* the devices that can be mounted
    MountPoint, Path,     \* paths that mount and the readers are given
    Amount,               \* offsets and sizes that readers ask for
    archive,              \* per device: the members, [name, data]
    at,                   \* per device: the blocks of their headers, and the end
    disksize,             \* per device: blocks of the disk
    BLOCK,                \* cells in a block (512 bytes)
    Wrap,                 \* 2^64
    PathSize, MaxEntries  \* sizeof path, entries of the mount table

Member(d) == 1..Len(archive[d])
End(d) == at[d][Len(archive[d]) + 1]

\* A plausible slip: a file that fills its last block is given one more.
Padded_OneMore(n) == n \div BLOCK + 1

\* (filelen + 511) >> 9
Padded(n) == (n + BLOCK - 1) \div BLOCK

Char == UNION {ToSet(p) : p \in Path \union MountPoint}

ASSUME FilesAssumption ==
    /\ BLOCK \in Nat \ {0} /\ Wrap \in Nat \ {0} /\ PathSize \in Nat \ {0}
    /\ MaxEntries \in Nat /\ Amount \subseteq Nat
    /\ Path \union MountPoint \subseteq Seq(Char) /\ "none" \notin FS_DEVICE
    /\ \A d \in FS_DEVICE :
          /\ archive[d] \in Seq([name : Seq(Char), data : Seq(Nat)])
          /\ \A i \in Member(d) : archive[d][i].name # <<>>
          /\ at[d] \in [1..(Len(archive[d]) + 1) -> Nat]
          /\ disksize[d] \in Nat /\ disksize[d] >= End(d)

\* Where tar puts the headers.
ASSUME LayoutAssumption ==
    \A d \in FS_DEVICE :
        /\ at[d][1] = 0
        /\ \A i \in Member(d) :
              at[d][i + 1] = at[d][i] + 1 + (Len(archive[d][i].data) + BLOCK - 1) \div BLOCK

VARIABLES
    mounts,  \* VFS::_entries: [path, fs]
    call,    \* the lookup under way: [op, path, fs, name, offset,
             \* size, cursor]
    ret      \* the last answer: [of, ok, n, buf]

fvars == <<mounts, call, ret>>

NoCall == [op |-> "none"]
NoReturn == [of |-> NoCall]

Returned(c, ok, n, buf) ==
    /\ call' = NoCall
    /\ ret' = [of |-> c, ok |-> ok, n |-> n, buf |-> buf]

-----------------------------------------------------------------------------
(* vfs.cpp *)

\* A plausible slip: the entries are searched from the last to the first.
find_Last(path) == SelectLastInSeq(mounts, LAMBDA e : IsPrefix(e.path, path))

\* The first entry whose path the given one starts with, 0 if there is none.
find(path) == SelectInSeq(mounts, LAMBDA e : IsPrefix(e.path, path))

\* A plausible slip: a path that does not fit is copied whole.
Copied_Whole(path) == path

\* kstrncpy keeps what fits before the terminator.
Copied(path) == SubSeq(path, 1, IF Len(path) < PathSize THEN Len(path) ELSE PathSize - 1)

mount(path, d) ==
    /\ Len(mounts) < MaxEntries
    /\ mounts' = Append(mounts, [path |-> Copied(path), fs |-> d])
    /\ UNCHANGED <<call, ret>>

\* vfs.fstat, vfs.read and vfs.write up to the driver.
Begin(op, path, offset, size) ==
    LET i == find(path)
        c == [op |-> op, path |-> path, offset |-> offset, size |-> size, cursor |-> 0,
              fs   |-> IF i = 0 THEN "none" ELSE mounts[i].fs,
              name |-> IF i = 0 THEN path
                       ELSE SubSeq(path, Len(mounts[i].path) + 1, Len(path))]
    IN /\ call = NoCall
       /\ \/ i = 0 /\ Returned(c, FALSE, 0, <<>>)
          \/ i # 0 /\ op = "write" /\ Returned(c, FALSE, -1, <<>>)
          \/ i # 0 /\ op # "write" /\ call' = c /\ ret' = NoReturn
       /\ UNCHANGED mounts

-----------------------------------------------------------------------------
(* ramdisk.c *)

\* A cell of the disk, counted from its start: data, or 0 in what pads it.
Cell(d, x) ==
    LET own == {i \in Member(d) : x \in (at[d][i] + 1) * BLOCK..at[d][i + 1] * BLOCK - 1}
    IN IF own = {} THEN 0
       ELSE LET i == CHOOSE i \in own : TRUE
                k == x - (at[d][i] + 1) * BLOCK + 1
            IN IF k \in DOMAIN archive[d][i].data THEN archive[d][i].data[k] ELSE 0

\* How much of size is read at offset from something limit long.
Clipped(offset, size, limit) ==
    IF offset >= limit THEN 0
    ELSE IF (offset + size) % Wrap > limit THEN limit - offset ELSE size

ramdisk_read(d, offset, size) ==
    [i \in 1..Clipped(offset, size, disksize[d] * BLOCK) |-> Cell(d, offset + i - 1)]

\* What the block at c says if it is taken for a header.  Data is no name
\* that anybody asks for and no length.
Header(d, c) ==
    LET here == {i \in Member(d) : at[d][i] = c}
    IN IF here # {} THEN LET i == CHOOSE i \in here : TRUE
                         IN [name |-> archive[d][i].name, filelen |-> Len(archive[d][i].data)]
       ELSE [name |-> IF c >= End(d) THEN <<>> ELSE <<"data">>, filelen |-> 0]

-----------------------------------------------------------------------------
(* tarfs.c: fstat and read share the walk *)

\* A plausible slip: without the block of the header itself.
Past_DataOnly(h) == Padded(h.filelen)

\* cursor += the length, padded; cursor += 512
Past(h) == 1 + Padded(h.filelen)

Seen == Header(call.fs, call.cursor)
Walking == call # NoCall /\ call.cursor < disksize[call.fs]

\* Another file: pass its header and its data.
WalkOn ==
    /\ Walking /\ Seen.name # call.name
    /\ call' = [call EXCEPT !.cursor = @ + Past(Seen)]
    /\ UNCHANGED <<mounts, ret>>

\* A plausible slip: the length of the file does not limit a read.
Wanted_All(c, filelen) == IF c.offset >= filelen THEN 0 ELSE c.size

Wanted(c, filelen) == Clipped(c.offset, c.size, filelen)

WalkFound ==
    LET buf == ramdisk_read(call.fs, (call.cursor + 1) * BLOCK + call.offset,
                            Wanted(call, Seen.filelen))
    IN /\ Walking /\ Seen.name = call.name
       /\ IF call.op = "fstat" THEN Returned(call, TRUE, Seen.filelen, <<>>)
          ELSE Returned(call, TRUE, Len(buf), buf)
       /\ UNCHANGED mounts

WalkEnd ==
    /\ call # NoCall /\ ~Walking
    /\ Returned(call, FALSE, 0, <<>>)
    /\ UNCHANGED mounts

-----------------------------------------------------------------------------
Tarfs == WalkOn \/ WalkFound \/ WalkEnd

\* Answers leave nothing behind, so one call on each table of mounts shows as
\* much as many would.
Client ==
    /\ call = NoCall /\ ret = NoReturn
    /\ \/ \E p \in MountPoint, d \in FS_DEVICE : mount(p, d)
       \/ \E p \in Path : Begin("fstat", p, 0, 0) \/ Begin("write", p, 0, 1)
       \/ \E p \in Path, o, s \in Amount : Begin("read", p, o, s)

FilesInit == mounts = <<>> /\ call = NoCall /\ ret = NoReturn
FilesNext == Client \/ Tarfs
FilesSpec == FilesInit /\ [][FilesNext]_fvars

-----------------------------------------------------------------------------
(* Properties *)

\* The mount table stays within its array, and a lookup is only ever under
\* way on a mounted device.
FilesTypeOK ==
    /\ Len(mounts) <= MaxEntries
    /\ \A i \in DOMAIN mounts : Len(mounts[i].path) < PathSize /\ mounts[i].fs \in FS_DEVICE
    /\ call # NoCall => /\ call.op \in {"fstat", "read"} /\ call.cursor \in Nat
                        /\ \E i \in DOMAIN mounts : mounts[i].fs = call.fs

\* The walk of tarfs_fstat and tarfs_read takes nothing for a header but
\* headers and the zero blocks at the end, whatever the files hold.
CursorAtHeader ==
    call # NoCall =>
        call.cursor >= End(call.fs) \/ \E i \in Member(call.fs) : call.cursor = at[call.fs][i]

\* The members that a call may mean, the data of the first and the part of
\* it that was asked for; what r answers agrees with them.
Named(c) == {i \in Member(c.fs) : archive[c.fs][i].name = c.name}
DataOf(c) ==
    IF Named(c) = {} THEN <<>>
    ELSE archive[c.fs][CHOOSE i \in Named(c) : \A j \in Named(c) : i <= j].data
PartOf(data, c) ==
    SubSeq(data, c.offset + 1,
           IF c.offset + c.size < Len(data) THEN c.offset + c.size ELSE Len(data))
AnswersRight(r) ==
    LET c == r.of IN
    c.fs \in FS_DEVICE /\ c.op # "write" /\ c.offset + c.size < Wrap =>
        /\ r.ok <=> Named(c) # {} \/ (c.name = <<>> /\ End(c.fs) < disksize[c.fs])
        /\ c.op = "fstat" => r.n = Len(DataOf(c))
        /\ c.op = "read" => r.buf = PartOf(DataOf(c), c) /\ r.n = Len(r.buf)

\* A lookup answers with the first member of its name, its length and the
\* part of its data that was asked for, nothing if there is no such member,
\* and an empty file for the mount point itself if a zero block ends the
\* archive.  The sum of offset and size must not wrap.
LookupRight == ret # NoReturn => AnswersRight(ret)

\* A mount never changes what a path that already leads somewhere leads to.
MountsStable ==
    [][\A p \in Path : find(p) # 0 => find(p)' # 0 /\ mounts'[find(p)'] = mounts[find(p)]]_fvars

\* Every lookup ends: the cursor passes a header with each step.
LookupEnds == call # NoCall ~> call = NoCall
=============================================================================
