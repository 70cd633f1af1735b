---------------------------- MODULE MCEventStore ----------------------------
(* Model values for the durable store: a and b run in one process, which   *)
(* may start a reaper, c in a second one. Of each, one writes events.      *)
EXTENDS EventStoreProps

CONSTANTS a, b, c, p, q, theTask, k, x, y

Workers == {a, b, c}
Stores == {p, q}
Placed == [w \in Worker |-> IF w = c THEN q ELSE p]
Writers == {a, c}
Reapers == {p}
Tasks == {theTask}
Keys == {k}
Values == {x, y}
=============================================================================
