----------------------------- MODULE MCTaskQueue -----------------------------
(* Model values for the task queue. In Pair both tasks have one idempotency  *)
(* key and b is the more urgent; in UrgentPair none has a key, and c is the  *)
(* more urgent.                                                              *)
EXTENDS TaskQueueProps

CONSTANTS a, b, c, key, none

UrgentPair == {a, c}
Pair == {a, b}
OnlyA == {a}
OneKey == {key}
SharedKey == [t \in Task |-> key]
NoKeys == {}
Keyless == [t \in Task |-> none]
Fails == {FALSE}
Either == BOOLEAN
TwoLevels == [t \in Task |-> IF t = c THEN 0 ELSE 2]
BFirst == [t \in Task |-> IF t = b THEN 0 ELSE 2]
=============================================================================
