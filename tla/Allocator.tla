------------------------------ MODULE Allocator ------------------------------
(***************************************************************************)
(* What kmalloc and kfree promise their callers, the threads of the        *)
(* kernel: a request is either refused or answered with a block that is    *)
(* at least as long as asked for and shares no byte with a block anybody   *)
(* still holds.  Kmalloc is shown to implement this.                       *)
(***************************************************************************)
EXTENDS Integers

CONSTANTS Caller, NoRequest

VARIABLES
    want,   \* what each caller has asked for and not got yet
    held    \* the blocks given out: [by |-> , base |-> , len |-> ]

Disjoint(b, c) == b.base + b.len <= c.base \/ c.base + c.len <= b.base

Init == want = [t \in Caller |-> NoRequest] /\ held = {}

Request(t) ==
    /\ want[t] = NoRequest
    /\ want' = [want EXCEPT ![t] = want'[t]]
    /\ UNCHANGED held

Grant(t) ==
    /\ want[t] # NoRequest
    /\ want' = [want EXCEPT ![t] = NoRequest]
    /\ \E b \in held' \ held :
         /\ b.by = t /\ b.len >= want[t]
         /\ \A c \in held : Disjoint(b, c)
         /\ held' = held \union {b}

Refuse(t) ==
    /\ want[t] # NoRequest
    /\ want' = [want EXCEPT ![t] = NoRequest]
    /\ UNCHANGED held

Release == \E b \in held : held' = held \ {b} /\ UNCHANGED want

Next == Release \/ \E t \in Caller : Request(t) \/ Grant(t) \/ Refuse(t)

Spec == Init /\ [][Next]_<<want, held>>
=============================================================================
