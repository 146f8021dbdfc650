----------------------------- MODULE MCScheduler -----------------------------
(* Small instances of Scheduler for TLC: the three kernel threads at the    *)
(* idle priority and two processes above them, with quanta of 1 and 2 ticks *)
(* so that turns end by preemption, by sleeping and by exiting.             *)
EXTENDS Scheduler, TLC

CONSTANTS p1, p2

MCProcess  == {p1, p2}
MCPriority == [t \in {Main, Idle, Cleaner, p1, p2} |->
                 IF t \in {p1, p2} THEN 1 ELSE 3]
MCQuota    == [t \in {Main, Idle, Cleaner, p1, p2} |->
                 IF t \in {Main, p1} THEN 2 ELSE 1]
=============================================================================
