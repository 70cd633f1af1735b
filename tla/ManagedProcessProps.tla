------------------------ MODULE ManagedProcessProps ------------------------
(* What a managed process must guarantee.                                  *)
EXTENDS ManagedProcess, FiniteSets

\* Every variable has its type.
TypeOK ==
    /\ state \in CanStart \cup CanStop \cup {"FAILED"}
    /\ stopRequested \in BOOLEAN /\ stack \in Seq(Rest)
    /\ listening \in BOOLEAN /\ down \in BOOLEAN
    /\ overlapped \in BOOLEAN /\ interrupted \in BOOLEAN
    /\ restartCount \in 0 .. MaxRestarts
    /\ timers \subseteq 0 .. restartCount /\ restartTimer \in timers \cup {0}
    /\ proc \in {0} \cup Child
    /\ child \in [Child -> Pending \cup Over \cup Closed \cup {"none", "alive"}]
    /\ doomed \subseteq Child
    /\ forces \in [Child -> Nat]
    /\ starts \in 0 .. MaxStarts /\ stops \in 0 .. MaxStops

Born == {c \in Child : child[c] # "none"}

Live == {c \in Child : child[c] \in {"launched", "alive"}}

\* process-manager.ts:186-206, 269-288, 386-433: there is at most one child, the
\* one the process knows of: none while a restart is pending, and none that is
\* alive when the process is STOPPED or has FAILED. That takes two things of the
\* callers: start is only called of a process that is PENDING or STOPPED and
\* whose children have all been closed, and not by a listener of a call that is
\* not over; stop is not called by a listener of STARTING (:200), RESTARTING
\* (:412) or restart-scheduled (:420), where it comes before the child or the
\* timer it is meant for.
OneChild ==
    ~overlapped /\ ~interrupted =>
        /\ Live \subseteq {proc}
        /\ timers # {} \/ state \in {"STOPPED", "FAILED"} => Live = {}

\* :186-206, 429: a process that was told to stop gets no new child before it is
\* told to start, whatever timers the calls before have left behind, unless the
\* stop comes from a listener as above.
StoppedStaysDown ==
    [][(\E c \in Child : child[c] = "none" /\ child'[c] # "none")
            => ~stopRequested' \/ interrupted]_vars

Promised == {i \in DOMAIN stack : stack[i] \in {"spawn", "arm"}}

\* :186-206, 391-404, 427: whoever calls start and stop, and whenever, also
\* while a restart is pending and out of any listener: a start and a counted
\* restart bring one child at most, be it there, with a timer, or still to come
\* of a call that is not over.
RestartsAreCounted ==
    Cardinality(Born) + Cardinality(timers) + Cardinality(Promised) <= starts + restartCount

\* :341-385: a stop that finds its child running gets it STOPPED, by force if the
\* child does not listen, unless start is called meanwhile, or a listener of
\* STARTING or of a restart called it.
StopEnds ==
    (stopRequested /\ proc \in Live /\ ~interrupted)
        ~> (state = "STOPPED" \/ ~stopRequested \/ interrupted \/ down)

\* A stop waits for the close of a child that a signal killed, which has come.
Hangs == state = "STOPPING" /\ proc # 0 /\ child[proc] = "killedClosed"

\* :269-288, 341-351, 386-433: a process that crashed is started again, given up
\* or stopped; it does not stay between two children. There is one exception: a
\* stop that comes between them, after a child that a signal killed and that
\* therefore has no exit code (:346), waits for a second close for ever.
CrashIsHandled ==
    state \in {"CRASHED", "RESTARTING"}
        ~> (state \in {"STARTING", "RUNNING", "STOPPED", "FAILED"} \/ Hangs \/ down)
=============================================================================
