---------------------------- MODULE MCAddressSpace ----------------------------
(* Two processes, as kmain makes, with a page each.  k3 lies in a slot that *)
(* boot.s gives no table.  One frame less than all the directories, tables   *)
(* and pages take together: which of them goes without is open.              *)
EXTENDS AddressSpace, TLC

CONSTANTS p1, p2, k1, k2, k3, c, u1,
          S960, S961, S959, S0, f1, f2, f3, f4, f5, f6, f7, f8

MCProcess == {p1, p2}
MCUser == {u1}
MCPool == <<f1, f2, f3, f4, f5, f6, f7, f8>>
MCKernelSlot == {S960, S961, S959}
MCUserSlot == {S0}

BootKernel == {k1, k2}
GrownKernel == {k1, k3}

SlotOf(kernel) ==
    [v \in kernel \union MCUser \union {c} |->
        IF v = k3 THEN S961 ELSE IF v \in kernel THEN S960
        ELSE IF v = c THEN S959 ELSE S0]
BootSlots == SlotOf(BootKernel)
GrownSlots == SlotOf(GrownKernel)

Alike == Permutations(MCProcess) \union Permutations(BootKernel)
=============================================================================
