------------------------------ MODULE MCLoader ------------------------------
(* Two archives: one as tar makes it, with a zero block at its end, one that *)
(* ends with its disk.  Addresses are two octal digits.  The programs: a     *)
(* linked one with the three types of relocation, one of them across pages;  *)
(* one that is not aligned, one with a broken second header, one that says   *)
(* more than it holds and has two tables of relocations, one with a function *)
(* that is not defined, one with a relocation at its very end; and no ELF    *)
(* file, where whatever is behind the buffer is found.                       *)
EXTENDS Loader, TLC

CONSTANTS root, dir, x, y, z, tar, cut

MCDevice == {tar, cut}
MCMountPoint == {<<root>>, <<root, dir>>, <<root, dir, dir>>}
MCPath == {<<root>>, <<root, x>>, <<root, y>>, <<root, z>>, <<root, dir, x>>,
           <<root, dir, y>>, <<root, dir, z>>, <<dir, x>>, <<root, dir, dir, x>>}
MCProgram == MCPath \ {<<root>>}
MCAmount == {0, 1, 3, 63}

MCByte == 0..7
MCStale == {0, 5}
MCWord == [c \in [0..1 -> MCByte] |-> c[0] + 8 * c[1]]

Linked    == <<1, 2, 3, 6, 7, 6, 7, 3>>
Unaligned == <<7, 6, 5, 4>>
Broken    == <<5, 5, 5>>
NoElf     == <<>>
Short     == <<3, 1>>
External  == <<2, 4, 6, 7, 1>>
AtEnd     == <<6, 6, 1, 1>>

File(name, data) == [name |-> name, data |-> data]
MCArchive ==
    (tar :> <<File(<<x>>, Linked), File(<<y>>, NoElf), File(<<dir, x>>, Broken),
              File(<<z>>, Short), File(<<x>>, Broken)>>) @@
    (cut :> <<File(<<y>>, Unaligned), File(<<x>>, External), File(<<z>>, AtEnd)>>)
MCAt == (tar :> <<0, 4, 5, 7, 9, 11>>) @@ (cut :> <<0, 3, 6, 9>>)
MCDisksize == (tar :> 12) @@ (cut :> 9)

Load1(offset, vaddr, filesz, memsz) ==
    [type |-> "load", offset |-> offset, vaddr |-> vaddr, filesz |-> filesz, memsz |-> memsz]
Note == [type |-> "note"]
Rel(type, sym, offset) == [type |-> type, sym |-> sym, offset |-> offset]
Symbol(name, value) == [name |-> name, value |-> value]
Rels(items) == [type |-> "rel", items |-> items]
Syms(items) == [type |-> "synsym", items |-> items]
Code == [type |-> "progbits"]
Elf(entry, phdr, shdr) ==
    [valid |-> TRUE, whole |-> TRUE, entry |-> entry, phdr |-> phdr, shdr |-> shdr]

MCElf ==
    (Linked :> {Elf(12, <<Load1(0, 8, 6, 7), Note, Load1(6, 17, 2, 3)>>,
                    <<Code, Rels(<<Rel("32", 1, 8), Rel("PC32", 2, 11), Rel("RELATIVE", 0, 17)>>),
                      Syms(<<Symbol(0, 0), Symbol(1, 17), Symbol(2, 12)>>)>>)}) @@
    (Unaligned :> {Elf(6, <<Load1(0, 6, 4, 4)>>, <<>>)}) @@
    (Broken :> {Elf(4, <<Load1(0, 4, 2, 3), Load1(0, 8, 3, 2)>>, <<>>)}) @@
    (NoElf :> {[Elf(0, <<>>, <<>>) EXCEPT !.valid = FALSE],
               [Elf(9, <<Load1(1, 9, 1, 1)>>, <<Rels(<<Rel("COPY", 0, 9)>>)>>) EXCEPT !.whole = FALSE]}) @@
    (Short :> {Elf(5, <<Load1(0, 4, 3, 4)>>,
                   <<Rels(<<Rel("32", 0, 4)>>), Syms(<<Symbol(1, 4), Symbol(0, 5)>>),
                     Rels(<<Rel("32", 0, 6)>>)>>)}) @@
    (External :> {Elf(10, <<Load1(0, 8, 5, 5)>>,
                      <<Syms(<<Symbol(0, 0), Symbol(1, 12), Symbol(2, 0)>>),
                        Rels(<<Rel("32", 1, 8), Rel("PC32", 2, 10)>>)>>)}) @@
    (AtEnd :> {Elf(8, <<Load1(0, 4, 4, 4)>>, <<Syms(<<Symbol(1, 5)>>), Rels(<<Rel("32", 0, 7)>>)>>)})
=============================================================================
