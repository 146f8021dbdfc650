----------------------------- MODULE MCSchedLists -----------------------------
(* Small instances of SchedLists for TLC, with the priorities and quanta of  *)
(* MCScheduler on a scheduler of two priorities.                             *)
EXTENDS SchedLists, TLC

CONSTANTS p1, p2

MCProcess  == {p1, p2}
MCPriority == [t \in {Main, Idle, Cleaner, p1, p2} |->
                 IF t \in {p1, p2} THEN 0 ELSE 1]
MCQuota    == [t \in {Main, Idle, Cleaner, p1, p2} |->
                 IF t \in {Main, p1} THEN 2 ELSE IF t = p2 THEN 3 ELSE 1]
=============================================================================
