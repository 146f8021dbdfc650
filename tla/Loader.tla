------------------------------- MODULE Loader -------------------------------
(***************************************************************************)
(* The program loader (ld.cpp) on top of Files: a thread of a new process  *)
(* reads an ELF file into a buffer, copies its segments to where they are  *)
(* linked, relocates them and finds the entry point.  Sizes and addresses  *)
(* are counted in cells, addresses modulo 2^w, and WORD cells are a number. *)
(*                                                                         *)
(* The structures of elf.h are laid over the buffer without a look at its  *)
(* length.  What they find is given with the file: one thing if all of     *)
(* them lie inside it, else any of several, as the heap behind has it.     *)
(*                                                                         *)
(* Nobody else touches the buffer, the vectors or the memory of the        *)
(* process, so its thread is the only one here; before it starts, other    *)
(* code of the kernel uses the files.  kmalloc may return NULL any time.   *)
(***************************************************************************)
EXTENDS Files

CONSTANTS
    Program,            \* the paths of programs
    elf,                \* what may be found in a file: [valid, whole, entry, phdr, shdr]
    W, PAGE,            \* 2^32, 4096
    Byte, WORD, word,   \* cells, sizeof uint32_t, and the number in WORD of them
    Stale,              \* what the heap has behind the buffer
    NoBuffer, Unset     \* not allocated, not initialized

PT_LOAD    == "load"
SHT_REL    == "rel"
SHT_SYNSYM == "synsym"

VARIABLES
    phase,      \* where load_program is
    i,          \* the header, relocation or symbol it is at
    buffer,     \* the file
    image,      \* what is found in it
    segments, symbols,  \* kvectors
    marked,     \* pages that mmu_mmap has marked
    mem,        \* the memory of the process
    entrypoint, result

lvars == <<phase, i, buffer, image, segments, symbols, marked, mem, entrypoint, result>>
vars == <<fvars, lvars>>

Address == 0..W - 1

-----------------------------------------------------------------------------
(* Addresses *)

\* The first segment that the address is in, with both of its ends.
SegmentOf(a) ==
    SelectInSeq(segments,
                LAMBDA s : a >= s.vaddr /\ a <= (s.vaddr + s.size) % W)

translate_addr(a) ==
    LET k == SegmentOf(a) IN
    IF k = 0 THEN 0 ELSE (a - segments[k].vaddr + segments[k].base) % W

get_base(a) ==
    LET k == SegmentOf(a) IN
    IF k = 0 THEN 0 ELSE (segments[k].base - segments[k].vaddr) % W

get_addr(name) ==
    LET k == SelectInSeq(symbols, LAMBDA s : s.name = name)
    IN IF k = 0 THEN 0 ELSE symbols[k].addr

\* A plausible slip: rounded down.
RoundUp_Down(n) == (n \div PAGE) * PAGE

RoundUp(n) == ((n + PAGE - 1) \div PAGE) * PAGE

\* mmu_mmap marks the pages of base, base + 4096 and so on below size.
Pages(base, size) == {((base + off) % W) \div PAGE : off \in {PAGE * k : k \in 0..size \div PAGE - 1}}

IsBacked(a, n, pages) == \A x \in a..a + n - 1 : x \div PAGE \in pages

\* The number at p, and the cells that hold a number.
WordAt(memory, p) == word[[j \in 0..WORD - 1 |-> memory[p + j]]]
CellsOf(n) == CHOOSE c \in DOMAIN word : word[c] = n

\* A segment with its pages ends below the end of memory.
ASSUME LoaderAssumption ==
    /\ Program \subseteq Path
    /\ W \in Nat \ {0} /\ PAGE \in Nat \ {0} /\ W % PAGE = 0
    /\ 0 \in Byte /\ Stale \subseteq Byte /\ WORD \in Nat \ {0}
    /\ word \in [[0..WORD - 1 -> Byte] -> Address]
    /\ \A n \in Address : \E c \in DOMAIN word : word[c] = n
    /\ Unset # TRUE /\ NoBuffer \notin DOMAIN elf /\ <<>> \in DOMAIN elf
    /\ \A d \in FS_DEVICE : \A k \in Member(d) : archive[d][k].data \in DOMAIN elf
    /\ \A data \in DOMAIN elf :
          /\ data \in Seq(Byte) /\ Len(data) < Wrap /\ elf[data] # {}
          /\ \A f \in elf[data] :
                /\ f.phdr \in Seq(ToSet(f.phdr)) /\ f.shdr \in Seq(ToSet(f.shdr))
                /\ f.entry \in Address
                /\ \A h \in ToSet(f.phdr) : h.type = PT_LOAD =>
                      /\ {h.offset, h.vaddr, h.filesz, h.memsz} \subseteq Nat
                      /\ h.vaddr + RoundUp(h.memsz) < W
                /\ \A t \in ToSet(f.shdr) : t.type \in {SHT_REL, SHT_SYNSYM} =>
                      /\ t.items \in Seq(ToSet(t.items))
                      /\ t.type = SHT_REL => \A r \in ToSet(t.items) : r.offset \in Address /\ r.sym \in Nat
                      /\ t.type = SHT_SYNSYM => \A y \in ToSet(t.items) : y.value \in Address

-----------------------------------------------------------------------------
(* load_program *)

\* The last section of a type is the one that counts.  The names are taken
\* to follow the symbols, but none is ever read: get_addr has no symbols yet.
Table(type) ==
    LET k == SelectLastInSeq(image.shdr, LAMBDA t : t.type = type)
    IN IF k = 0 THEN <<>> ELSE image.shdr[k].items

RelTable == Table(SHT_REL)
SymTable == Table(SHT_SYNSYM)

Return(ok) == phase' = "done" /\ result' = ok /\ buffer' = NoBuffer

load_program(path) ==
    /\ phase = "idle" /\ ret = NoReturn /\ Begin("fstat", path, 0, 0)
    /\ phase' = "fstat"
    /\ UNCHANGED <<i, buffer, image, segments, symbols, marked, mem, entrypoint, result>>

\* kmalloc, which may fail, and on to vfs.read.
Fstat ==
    /\ phase = "fstat" /\ call = NoCall
    /\ \/ /\ ret.ok /\ Begin("read", ret.of.path, 0, ret.n)
          /\ phase' = "read" /\ buffer' = <<>>
          /\ UNCHANGED result
       \/ Return(FALSE) /\ UNCHANGED fvars
    /\ UNCHANGED <<i, image, segments, symbols, marked, mem, entrypoint>>

\* The whole file must be there; magic number, machine and type.
Read ==
    /\ phase = "read" /\ call = NoCall
    /\ \/ /\ ret.n = ret.of.size
          /\ \E f \in elf[ret.buf] : f.valid /\ image' = f
          /\ phase' = "segments" /\ i' = 1 /\ buffer' = ret.buf
          /\ UNCHANGED result
       \/ /\ ret.n = ret.of.size => \E f \in elf[ret.buf] : ~f.valid
          /\ Return(FALSE) /\ UNCHANGED <<i, image>>
    /\ UNCHANGED <<fvars, segments, symbols, marked, mem, entrypoint>>

AtHeader == phase = "segments" /\ i <= Len(image.phdr)

SkipHeader ==
    /\ AtHeader /\ image.phdr[i].type # PT_LOAD
    /\ i' = i + 1
    /\ UNCHANGED <<fvars, phase, buffer, image, segments, symbols, marked, mem, entrypoint, result>>

RefuseHeader ==
    LET h == image.phdr[i] IN
    /\ AtHeader /\ h.type = PT_LOAD /\ h.memsz < h.filesz
    /\ Return(FALSE)
    /\ UNCHANGED <<fvars, i, image, segments, symbols, marked, mem, entrypoint>>

\* append, mmu_mmap, kmemcpy and kmemset.  A page that is not marked ends in
\* the page fault handler with cli; hlt.
LoadSegment ==
    LET h      == image.phdr[i]
        s      == [vaddr |-> h.vaddr, base |-> h.vaddr, size |-> RoundUp(h.memsz)]
        pages  == marked \union Pages(s.base, s.size)
        behind == Len(buffer) + 1..h.offset + h.filesz
    IN /\ AtHeader /\ h.type = PT_LOAD /\ h.memsz >= h.filesz
       /\ segments' = Append(segments, s)
       /\ marked' = pages
       /\ \/ /\ IsBacked(s.base, h.memsz, pages)
             /\ \E stale \in [behind -> Stale] :
                   mem' = [a \in Address |->
                             LET k == h.offset + a - s.base + 1
                             IN IF a \in s.base..s.base + h.filesz - 1
                                THEN IF k \in behind THEN stale[k] ELSE buffer[k]
                                ELSE IF a \in s.base..s.base + h.memsz - 1 THEN 0 ELSE mem[a]]
             /\ i' = i + 1 /\ UNCHANGED phase
          \/ /\ ~IsBacked(s.base, h.memsz, pages)
             /\ phase' = "fault" /\ UNCHANGED <<mem, i>>
       /\ UNCHANGED <<fvars, buffer, image, symbols, entrypoint, result>>

\* append allocates every item, and writes there even if kmalloc returns NULL.
\* (Its array is count + 4 bytes for as many pointers; what the 13th and the
\* next ones overwrite behind the smallest block of kmalloc is not modelled.)
AppendFails ==
    /\ \/ AtHeader /\ image.phdr[i].type = PT_LOAD /\ image.phdr[i].memsz >= image.phdr[i].filesz
       \/ phase = "symbols" /\ i <= Len(SymTable) /\ SymTable[i].name # 0
    /\ phase' = "null"
    /\ UNCHANGED <<fvars, i, buffer, image, segments, symbols, marked, mem, entrypoint, result>>

\* Behind the buffer a structure, or what a header says is in the file, may
\* reach a page that the heap does not have.
OverRead ==
    /\ \/ phase \in {"segments", "relocate", "symbols"} /\ ~image.whole
       \/ /\ AtHeader /\ image.phdr[i].type = PT_LOAD
          /\ image.phdr[i].memsz >= image.phdr[i].filesz
          /\ image.phdr[i].offset + image.phdr[i].filesz > Len(buffer)
    /\ phase' = "fault"
    /\ UNCHANGED <<fvars, i, buffer, image, segments, symbols, marked, mem, entrypoint, result>>

-----------------------------------------------------------------------------
(* relocate.  Its result is ignored: where it gives up, load_program goes on *)

Relocate ==
    /\ phase = "segments" /\ i > Len(image.phdr)
    /\ phase' = "relocate" /\ i' = 1
    /\ UNCHANGED <<fvars, buffer, image, segments, symbols, marked, mem, entrypoint, result>>

Sym(r) == SymTable[r.sym + 1]

\* S: a function that is not defined in the program has the value 0.
Value(r) ==
    IF Sym(r).value = 0 /\ r.type = "PC32" THEN get_addr(Sym(r).name)
    ELSE translate_addr(Sym(r).value)

CanPatch(r) ==
    /\ translate_addr(r.offset) # 0
    /\ \/ r.type = "RELATIVE"
       \/ r.type \in {"32", "PC32"} /\ r.sym < Len(SymTable) /\ Value(r) # 0

\* A plausible slip: the value replaces the addend.
Patch_NoAddend(r, p) ==
    (CASE r.type = "32"       -> Value(r)
       [] r.type = "PC32"     -> Value(r) - (p + WORD)
       [] r.type = "RELATIVE" -> WordAt(mem, p) + get_base(r.offset)) % W

Patch(r, p) ==
    (CASE r.type = "32"       -> WordAt(mem, p) + Value(r)
       [] r.type = "PC32"     -> Value(r) - (p + WORD)
       [] r.type = "RELATIVE" -> WordAt(mem, p) + get_base(r.offset)) % W

RelocateOne ==
    LET r == RelTable[i]
        p == translate_addr(r.offset)
    IN /\ phase = "relocate" /\ i <= Len(RelTable) /\ CanPatch(r)
       /\ \/ /\ IsBacked(p, WORD, marked)
             /\ mem' = [a \in Address |->
                          IF a \in p..p + WORD - 1 THEN CellsOf(Patch(r, p))[a - p] ELSE mem[a]]
             /\ i' = i + 1 /\ UNCHANGED phase
          \/ /\ ~IsBacked(p, WORD, marked)
             /\ phase' = "fault" /\ UNCHANGED <<mem, i>>
       /\ UNCHANGED <<fvars, buffer, image, segments, symbols, marked, entrypoint, result>>

\* A symbol that is out of range or has no address, an address outside the
\* segments, or a type that is not supported.
RelocateGivesUp ==
    /\ phase = "relocate" /\ i <= Len(RelTable) /\ ~CanPatch(RelTable[i])
    /\ phase' = "entry"
    /\ UNCHANGED <<fvars, i, buffer, image, segments, symbols, marked, mem, entrypoint, result>>

RelocateDone ==
    /\ phase = "relocate" /\ i > Len(RelTable)
    /\ phase' = "symbols" /\ i' = 1
    /\ UNCHANGED <<fvars, buffer, image, segments, symbols, marked, mem, entrypoint, result>>

ExtractSymbol ==
    LET s == SymTable[i] IN
    /\ phase = "symbols" /\ i <= Len(SymTable)
    /\ symbols' = IF s.name = 0 THEN symbols
                  ELSE Append(symbols, [name |-> s.name, addr |-> translate_addr(s.value)])
    /\ i' = i + 1
    /\ UNCHANGED <<fvars, phase, buffer, image, segments, marked, mem, entrypoint, result>>

Finish ==
    /\ phase = "entry" \/ (phase = "symbols" /\ i > Len(SymTable))
    /\ entrypoint' = translate_addr(image.entry)
    /\ Return(TRUE)
    /\ UNCHANGED <<fvars, i, image, segments, symbols, marked, mem>>

-----------------------------------------------------------------------------
Init ==
    /\ FilesInit
    /\ phase = "idle" /\ i = 0 /\ buffer = NoBuffer /\ image = Unset
    /\ segments = <<>> /\ symbols = <<>>
    /\ marked = {} /\ mem = [a \in Address |-> 0]
    /\ entrypoint = Unset /\ result = Unset

Load ==
    \/ Fstat \/ Read
    \/ SkipHeader \/ RefuseHeader \/ LoadSegment \/ AppendFails \/ OverRead
    \/ Relocate \/ RelocateOne \/ RelocateGivesUp \/ RelocateDone
    \/ ExtractSymbol \/ Finish

Next ==
    \/ phase = "idle" /\ Client /\ UNCHANGED lvars
    \/ Tarfs /\ UNCHANGED lvars
    \/ \E path \in Program : load_program(path)
    \/ Load

Spec == Init /\ [][Next]_vars

\* Code that runs goes on: a lookup and the loader, not the callers.
Fairness == WF_vars(Tarfs /\ UNCHANGED lvars) /\ WF_vars(Load)
FairSpec == Spec /\ Fairness

-----------------------------------------------------------------------------
(* Properties *)

LoadHeaders(f) == {h \in ToSet(f.phdr) : h.type = PT_LOAD}
Inside(f, a) == \E h \in LoadHeaders(f) : a >= h.vaddr /\ a < h.vaddr + h.memsz

\* All relocations that the file has, whichever of them the loader finds.
Sections(f, type) == {k \in DOMAIN f.shdr : f.shdr[k].type = type}
Relocations(f) == UNION {ToSet(f.shdr[k].items) : k \in Sections(f, SHT_REL)}
SymbolsOf(f) == f.shdr[CHOOSE k \in Sections(f, SHT_SYNSYM) : TRUE].items

Field(r) == r.offset..r.offset + WORD - 1
FieldInside(f, r) ==
    \E h \in LoadHeaders(f) : r.offset >= h.vaddr /\ r.offset + WORD <= h.vaddr + h.memsz

\* What the ELF file says of the memory at a, and of the number there.
Stored(f, data, a) ==
    IF ~Inside(f, a) THEN 0
    ELSE LET h == CHOOSE h \in LoadHeaders(f) : a >= h.vaddr /\ a < h.vaddr + h.memsz
         IN IF a < h.vaddr + h.filesz THEN data[h.offset + a - h.vaddr + 1] ELSE 0
Addend(f, data, r) == WordAt([a \in Address |-> Stored(f, data, a)], r.offset)

\* A program as a linker makes it: it is all in the file, its segments do not
\* overlap, and one table of relocations has places in them that do not
\* overlap either, of types that the loader knows, with symbols of the
\* program, PC-relative ones counted from the end of the place as in a call.
IsLinked(f, data) ==
    /\ f.whole
    /\ \A h \in LoadHeaders(f) : h.offset + h.filesz <= Len(data)
    /\ \A g, h \in LoadHeaders(f) :
          g = h \/ g.vaddr + g.memsz <= h.vaddr \/ h.vaddr + h.memsz <= g.vaddr
    /\ \A type \in {SHT_REL, SHT_SYNSYM} : \A j, k \in Sections(f, type) : j = k
    /\ \A k \in Sections(f, SHT_REL) : \A j, l \in DOMAIN f.shdr[k].items :
          j # l => Field(f.shdr[k].items[j]) \intersect Field(f.shdr[k].items[l]) = {}
    /\ \A r \in Relocations(f) :
          /\ r.type \in {"32", "PC32", "RELATIVE"} /\ FieldInside(f, r) /\ r.offset # 0
          /\ r.type = "PC32" => Addend(f, data, r) = W - WORD
          /\ r.type # "RELATIVE" =>
                /\ Sections(f, SHT_SYNSYM) # {} /\ r.sym < Len(SymbolsOf(f))
                /\ Inside(f, SymbolsOf(f)[r.sym + 1].value) /\ SymbolsOf(f)[r.sym + 1].value # 0

\* The number at a relocation, as the comments in relocate have it:
\* base + S + A, base + S + A - p, B + A, with a base of 0.
Relocated(f, data, r) ==
    LET S == SymbolsOf(f)[r.sym + 1].value
        A == Addend(f, data, r)
    IN CASE r.type = "32"       -> (S + A) % W
         [] r.type = "PC32"     -> (S + A - r.offset) % W
         [] r.type = "RELATIVE" -> A

\* Once a linked program is loaded, every relocation that its file has, found
\* or not, has been applied once and by the rule for its type, and the rest
\* of memory is as the file says: its segments, zeroes behind them, nothing
\* else touched.  Every program is entered where its header says, in a page
\* that can be touched.
ImageRight ==
    result = TRUE =>
        /\ IsLinked(image, ret.buf) =>
              /\ \A r \in Relocations(image) : WordAt(mem, r.offset) = Relocated(image, ret.buf, r)
              /\ \A a \in Address : (\A r \in Relocations(image) : a \notin Field(r)) =>
                                        mem[a] = Stored(image, ret.buf, a)
        /\ Inside(image, image.entry) =>
              entrypoint = image.entry /\ entrypoint \div PAGE \in marked

\* A segment on more pages than its size takes, as its start is not on one.
Spreads(h) ==
    /\ h.memsz > 0
    /\ (h.vaddr + h.memsz - 1) \div PAGE - h.vaddr \div PAGE >= (h.memsz + PAGE - 1) \div PAGE

\* Only such a segment, a relocation that is not all in one segment, or a
\* file that says more than it holds makes the loader touch a page that it
\* may not.  Segments off a page are fine as long as their pages suffice.
FaultsExplained ==
    phase = "fault" =>
        \/ \E h \in LoadHeaders(image) : Spreads(h) \/ h.offset + h.filesz > Len(buffer)
        \/ \E r \in Relocations(image) : ~FieldInside(image, r)
        \/ ~image.whole

\* Lookups end, and so does load_program, which has freed its buffer by then
\* unless it never returns.
LoadEnds ==
    /\ LookupEnds
    /\ phase = "fstat" ~> phase \in {"fault", "null"} \/ (phase = "done" /\ buffer = NoBuffer)
=============================================================================
