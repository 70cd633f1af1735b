-------------------------- MODULE MCManagedProcess --------------------------
(* The managed process with small bounds.                                  *)
EXTENDS ManagedProcessProps
=============================================================================
