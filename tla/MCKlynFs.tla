------------------------------ MODULE MCKlynFs ------------------------------
(* Instances of KlynFs for TLC, and what it checks of them.                *)
EXTENDS KlynFsProps, TLC

CONSTANTS t1, t2, f1

TwoSymmetric == Permutations({t1, t2})
=============================================================================
