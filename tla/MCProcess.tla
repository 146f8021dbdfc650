----------------------------- MODULE MCProcess -----------------------------
(* Two processes, as kmain makes, with a heap of four pages. *)
EXTENDS Process, TLC

CONSTANTS p1, p2

MCChild == {p1, p2}
MCStack == {14}
MCCtors == <<-1, 11>>
MCDtors == <<0, 12, 13>>
MCArgument == {0, 9, 62}

Alike == Permutations(MCChild)
=============================================================================
