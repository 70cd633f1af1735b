---------------------------- MODULE MCRegisters ----------------------------
(* Values for the replicated registers.                                    *)
EXTENDS RegistersProps

CONSTANTS text, null, nothing

ThreeReplicas == {1, 2, 3}
Texts == {text}
OneRef == {"f"}
TwoRefs == {"f", "g"}
OneTime == {0}
TwoTimes == {0, 1}
=============================================================================
