------------------------------- MODULE MCFrames -------------------------------
(* Pages of 4 units; two entries fit in a page of the stack, so that it    *)
(* grows three times.  The map is not sorted, has entries that begin and   *)
(* end inside a page, one that is not available, one below the kernel's    *)
(* end and one that reaches above the limit.                               *)
EXTENDS Frames

MCMap == <<[type |-> 1, addr |-> 0,  len |-> 10],
           [type |-> 2, addr |-> 10, len |-> 4],
           [type |-> 1, addr |-> 50, len |-> 15],
           [type |-> 1, addr |-> 14, len |-> 31]>>
=============================================================================
