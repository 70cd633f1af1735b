--------------------------- MODULE ManagedProcess ---------------------------
(* kernel/process-manager.ts: one managed process, its children one after the *)
(* other. Calls of start and stop, events of a child and timers are steps.    *)
(* Events are emitted in the middle of start, of stop and of a crash, and a   *)
(* listener may call start and stop there: what is left to be done then is on *)
(* a stack, each piece a step of its own. The lines a child writes, the       *)
(* memory monitor, and the manager, which looks processes up by name, are     *)
(* left out.                                                                  *)
EXTENDS Integers, Sequences, SequencesExt

CONSTANTS
    MaxRestarts,    \* config.maxRestarts
    MaxStarts,      \* bound: calls of start
    MaxStops        \* bound: calls of stop

ASSUME ManagedAssumption ==
    MaxRestarts \in Nat /\ MaxStarts \in Nat /\ MaxStops \in Nat

VARIABLES
    state, stopRequested, restartCount,
    restartTimer,   \* the timer the process knows of, or 0
    timers,         \* the restart timers that are armed
    proc,           \* the child it knows of, or 0
    child,          \* what each child has come to
    doomed,         \* children that were sent SIGKILL
    forces,         \* armed timers of stops that wait for the child
    stack,          \* what is left to do of the calls that are emitting an event
    listening,      \* somebody listens to the error event
    down,           \* nobody did, and the kernel died of it
    starts, stops,  \* calls so far
    overlapped,     \* history: start came too early
    interrupted     \* history: a listener called stop where it is not expected

calls == <<starts, stops>>
vars  == <<state, stopRequested, restartCount, restartTimer, timers, proc, child, doomed,
           forces, stack, listening, down, calls, overlapped, interrupted>>

Child == 1 .. MaxStarts + MaxRestarts

\* A child is launched, or absent when there is nothing to run; the death of one
\* that ran is by exit or by signal; its close event comes last.
Pending  == {"launched", "absent"}
Over     == {"errored", "exited", "killed"}
Closed   == {"erroredClosed", "exitedClosed", "killedClosed"}
Came     == [errored |-> "erroredClosed", exited |-> "exitedClosed", killed |-> "killedClosed"]
CanStart == {"PENDING", "STOPPING", "STOPPED", "CRASHED", "RESTARTING"}
CanStop  == {"STARTING", "RUNNING", "STOPPING", "CRASHED", "RESTARTING"}

\* Stop's signals, and what else may be left to do.
Signals == {"term", "kill"}
Rest    == Signals \cup {"spawn", "schedule", "arm"}

Init ==
    /\ state = "PENDING" /\ stopRequested = FALSE /\ restartCount = 0
    /\ restartTimer = 0 /\ timers = {}
    /\ proc = 0 /\ child = [c \in Child |-> "none"]
    /\ doomed = {} /\ forces = [c \in Child |-> 0]
    /\ stack = <<>> /\ listening \in BOOLEAN /\ down = FALSE
    /\ starts = 0 /\ stops = 0 /\ overlapped = FALSE /\ interrupted = FALSE

\* No call is under way: the event loop runs.
Idle == ~down /\ stack = <<>>

\* The call that emitted last goes on with rest.
Resumes(rest) == ~down /\ stack # <<>> /\ Last(stack) = rest

Unborn(c) == child[c] = "none" /\ \A b \in Child : b < c => child[b] # "none"

\* doSpawn: spawn throws, or returns a child that will say what became of it.
DoSpawn ==
    \/ state' = "FAILED" /\ UNCHANGED <<proc, child>>
    \/ \E c \in Child, what \in Pending :
        /\ Unborn(c)
        /\ child' = [child EXCEPT ![c] = what]
        /\ proc' = c
        /\ UNCHANGED state

Quiet == \A c \in Child : child[c] \in Closed \cup {"none"}

\* The listeners hear of STARTING before there is a child.
Start ==
    /\ ~down /\ starts < MaxStarts /\ state \in CanStart
    /\ starts' = starts + 1
    /\ stopRequested' = FALSE
    /\ state' = "STARTING"
    /\ stack' = Append(stack, "spawn")
    /\ overlapped' = (overlapped \/ state \notin {"PENDING", "STOPPED"} \/ ~Quiet \/ stack # <<>>)
    /\ UNCHANGED <<restartCount, restartTimer, timers, proc, child, doomed, forces, listening,
                   down, stops, interrupted>>

Spawn ==
    /\ Resumes("spawn")
    /\ stack' = Front(stack)
    /\ DoSpawn
    /\ UNCHANGED <<stopRequested, restartCount, restartTimer, timers, doomed, forces, listening,
                   down, calls, overlapped, interrupted>>

-----------------------------------------------------------------------------
(* What a child tells. A close event that nobody asked for is a crash.        *)

\* Bug: a child of a restart is not noticed to run.
BugOnSpawn == IF state = "STARTING" THEN "RUNNING" ELSE state

OnSpawn == "RUNNING"

Spawned(c) ==
    /\ Idle /\ child[c] = "launched"
    /\ child' = [child EXCEPT ![c] = "alive"]
    /\ state' = OnSpawn
    /\ UNCHANGED <<stopRequested, restartCount, restartTimer, timers, proc, doomed, forces,
                   stack, listening, down, calls, overlapped, interrupted>>

\* An error event with no listener is thrown.
SpawnError(c) ==
    /\ Idle /\ child[c] = "absent"
    /\ child' = [child EXCEPT ![c] = "errored"]
    /\ IF state = "STARTING"
       THEN state' = "FAILED" /\ UNCHANGED down
       ELSE down' = ~listening /\ UNCHANGED state
    /\ UNCHANGED <<stopRequested, restartCount, restartTimer, timers, proc, doomed, forces,
                   stack, listening, calls, overlapped, interrupted>>

\* Its exit code is set between two calls.
Dies(c) ==
    /\ stack = <<>> /\ child[c] = "alive"
    /\ \E how \in {"exited", "killed"} : child' = [child EXCEPT ![c] = how]
    /\ UNCHANGED <<state, stopRequested, restartCount, restartTimer, timers, proc, doomed, forces,
                   stack, listening, down, calls, overlapped, interrupted>>

Close(c) ==
    /\ Idle /\ child[c] \in Over
    /\ child' = [child EXCEPT ![c] = Came[@]]
    /\ forces' = [forces EXCEPT ![c] = 0]
    /\ state' = IF stopRequested THEN "STOPPED" ELSE "CRASHED"
    /\ stack' = IF stopRequested THEN <<>> ELSE <<"schedule">>
    /\ UNCHANGED <<stopRequested, restartCount, restartTimer, timers, proc, doomed,
                   listening, down, calls, overlapped, interrupted>>

MayRestart == restartCount < MaxRestarts

\* Bug: a restart is not counted.
BugCounted == restartCount

Counted == restartCount + 1

\* The listeners of the crash have been called; those of the restart come next,
\* and only then is there a timer, whatever they have called.
ScheduleRestart ==
    /\ Resumes("schedule")
    /\ \/ stopRequested /\ stack' = Front(stack) /\ UNCHANGED <<state, restartCount>>
       \/ /\ ~stopRequested /\ ~MayRestart
          /\ state' = "FAILED" /\ stack' = Front(stack) /\ UNCHANGED restartCount
       \/ /\ ~stopRequested /\ MayRestart
          /\ state' = "RESTARTING" /\ stack' = Append(Front(stack), "arm")
          /\ restartCount' = Counted
    /\ UNCHANGED <<stopRequested, restartTimer, timers, proc, child, doomed, forces, listening,
                   down, calls, overlapped, interrupted>>

ArmRestart ==
    /\ Resumes("arm")
    /\ stack' = Front(stack)
    /\ restartTimer' = restartCount
    /\ timers' = timers \cup {restartCount}
    /\ UNCHANGED <<state, stopRequested, restartCount, proc, child, doomed, forces, listening,
                   down, calls, overlapped, interrupted>>

Wanted == ~stopRequested

RestartTimer(t) ==
    /\ Idle /\ t \in timers
    /\ timers' = timers \ {t}
    /\ restartTimer' = 0
    /\ IF Wanted THEN DoSpawn ELSE UNCHANGED <<state, proc, child>>
    /\ UNCHANGED <<stopRequested, restartCount, doomed, forces, stack, listening, down, calls,
                   overlapped, interrupted>>

-----------------------------------------------------------------------------
(* stop, which looks for the exit code that a child killed by a signal does   *)
(* not have, and the timer that kills the child the process then knows of.    *)

HasExitCode(c) == child[c] \in {"errored", "exited", "erroredClosed", "exitedClosed"}

Gone == proc = 0 \/ HasExitCode(proc)

\* Bug: the pending restart is left to happen.
BugPendingAfterStop == timers

PendingAfterStop == timers \ {restartTimer}

\* The child the process knows of by now is sent the signal.
Send(signal) ==
    IF signal = "term"
    THEN forces' = [forces EXCEPT ![proc] = @ + 1] /\ UNCHANGED doomed
    ELSE doomed' = doomed \cup {proc} /\ UNCHANGED forces

\* The listeners hear of STOPPING before the signal, unless it is not new.
Stop(signal) ==
    /\ ~down /\ stops < MaxStops /\ state \in CanStop
    /\ stops' = stops + 1
    /\ timers' = PendingAfterStop
    /\ restartTimer' = 0
    /\ stopRequested' = TRUE
    /\ interrupted' = (interrupted \/ \E i \in DOMAIN stack : stack[i] \in {"spawn", "arm"})
    /\ state' = IF Gone THEN "STOPPED" ELSE "STOPPING"
    /\ IF ~Gone /\ state = "STOPPING" THEN Send(signal) ELSE UNCHANGED <<forces, doomed>>
    /\ stack' = IF Gone \/ state = "STOPPING" THEN stack ELSE Append(stack, signal)
    /\ UNCHANGED <<restartCount, proc, child, listening, down, starts, overlapped>>

Signal(signal) ==
    /\ Resumes(signal)
    /\ stack' = Front(stack)
    /\ Send(signal)
    /\ UNCHANGED <<state, stopRequested, restartCount, restartTimer, timers, proc, child,
                   listening, down, calls, overlapped, interrupted>>

\* Bug: it only asks again.
BugKilled == {}

Killed == {c \in {proc} \ {0} : ~HasExitCode(c)}

ForceTimer(c) ==
    /\ Idle /\ forces[c] > 0
    /\ forces' = [forces EXCEPT ![c] = @ - 1]
    /\ doomed' = doomed \cup Killed
    /\ UNCHANGED <<state, stopRequested, restartCount, restartTimer, timers, proc, child,
                   stack, listening, down, calls, overlapped, interrupted>>

-----------------------------------------------------------------------------
Timeout == (\E t \in 1 .. MaxRestarts : RestartTimer(t)) \/ \E c \in Child : ForceTimer(c)

Event(c) == Spawned(c) \/ SpawnError(c) \/ Close(c)

Resume == Spawn \/ ScheduleRestart \/ ArmRestart \/ \E signal \in Signals : Signal(signal)

Next ==
    \/ Start \/ Resume \/ Timeout
    \/ \E signal \in Signals : Stop(signal)
    \/ \E c \in Child : Event(c) \/ Dies(c)

\* Calls go on, timers fire, events come, and SIGKILL kills.
Fairness ==
    /\ WF_vars(Resume)
    /\ \A t \in 1 .. MaxRestarts : WF_vars(RestartTimer(t))
    /\ \A c \in Child : WF_vars(ForceTimer(c)) /\ WF_vars(Event(c))
    /\ \A c \in Child : WF_vars(c \in doomed /\ Dies(c))

Spec == Init /\ [][Next]_vars

FairSpec == Spec /\ Fairness
=============================================================================
