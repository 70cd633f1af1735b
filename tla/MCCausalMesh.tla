---------------------------- MODULE MCCausalMesh ----------------------------
(* Values for the causal mesh.                                               *)
EXTENDS CausalMeshProps

CONSTANTS nothing

TwoNodes == {1, 2}
OneNode == {1}
OneRef == {"f"}
TwoTimes == [n \in Node |-> IF n = 1 THEN {0, 1} ELSE {1}]
=============================================================================
