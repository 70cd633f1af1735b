------------------------------ MODULE MCDaemon ------------------------------
(* Model values for three clients of the daemon.                           *)
EXTENDS DaemonProps

CONSTANTS c1, c2, c3

ThreeConn == {c1, c2, c3}
AllMethods == {"observe", "shutdown", "fs"}
=============================================================================
