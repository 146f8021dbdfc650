------------------------------ MODULE MCKmalloc ------------------------------
(* Small instances of Kmalloc for TLC: two threads, requests that just do    *)
(* not fit 64 bytes, that just fit and just do not fit 1024 bytes, and one   *)
(* longer, so that the first large block is not always the answer; the heap  *)
(* starts inside a page of 1024 bytes and runs out after three to six blocks.*)
EXTENDS Kmalloc, TLC

CONSTANTS t1, t2

MCCaller == {t1, t2}
Symmetry == Permutations(MCCaller)
=============================================================================
