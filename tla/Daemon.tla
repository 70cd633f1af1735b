------------------------------- MODULE Daemon -------------------------------
(***************************************************************************)
(* The IPC daemon of crates/klyn-daemon: the accept loop of serve, one     *)
(* thread per connection running serve_connection, and the Lifecycle they  *)
(* share, which counts requests and connections in flight so that a        *)
(* shutdown can wait for them.                                             *)
(*                                                                         *)
(* A step is one critical section of the lifecycle's mutex, or one         *)
(* interaction with the socket.                                            *)
(***************************************************************************)
EXTENDS Naturals, Sequences, FiniteSets, Sifting

CONSTANTS
    Conn,        \* the connections clients make, each with one request
    Methods,     \* which of "observe", "shutdown", "fs" are asked for
    MaxThreads,  \* MAX_CONNECTION_THREADS
    MaxFaults    \* bound on panics, failures of the system, lost policies

ASSUME ConnAssumption == IsFiniteSet(Conn)
ASSUME ThreadAssumption == MaxThreads \in Nat \ {0} /\ MaxFaults \in Nat

VARIABLES
    life,      \* StateData.state
    inFlight,  \* StateData.in_flight_requests
    active,    \* StateData.active_connections
    wake,      \* the condvar: the predicate of complete_shutdown is due
    server,    \* where the thread that runs serve stands
    outcome,   \* what serve returned
    workers,   \* the join handles that serve keeps, in order
    pc,        \* where a connection stands
    method,    \* what it asked for
    reply,     \* what it is answered
    leased,    \* its thread holds a RequestLease
    panicked,  \* its thread is unwinding
    faults     \* failures so far

lifecycle == <<life, inFlight, active, wake>>
loop      == <<server, outcome, workers>>
request   == <<method, reply, leased, panicked>>
vars      == <<lifecycle, loop, pc, request, faults>>

Init ==
    /\ life = "Starting"
    /\ inFlight = 0
    /\ active = 0
    /\ wake = TRUE
    /\ server = "boot"
    /\ outcome = "none"
    /\ workers = <<>>
    /\ pc = [c \in Conn |-> "away"]
    /\ method = [c \in Conn |-> "none"]
    /\ reply = [c \in Conn |-> "none"]
    /\ leased = [c \in Conn |-> FALSE]
    /\ panicked = [c \in Conn |-> FALSE]
    /\ faults = 0

-----------------------------------------------------------------------------
(* The lifecycle.                                                          *)

NotifyAll == wake' = TRUE

\* Lifecycle::fail, whose callers ignore that it refuses a stopped daemon.
Fail ==
    IF life \in {"Stopped", "Failed"}
    THEN UNCHANGED <<life, wake>>
    ELSE life' = "Failed" /\ NotifyAll

Quiet == inFlight = 0 /\ active = 0

\* Bug: the waiter is woken by the last request, not the last connection.
BugNotifyIfQuiet(f, a) == wake' = (wake \/ (f = 0 /\ a # 0))

NotifyIfQuiet(f, a) == wake' = (wake \/ (f = 0 /\ a = 0))

Fault == faults < MaxFaults /\ faults' = faults + 1

Goto(c, from, to) == pc[c] = from /\ pc' = [pc EXCEPT ![c] = to]

-----------------------------------------------------------------------------
(* serve_connection, on its own thread                                     *)

\* A client connects; the listening socket is there until serve returns.
Connect(c) ==
    /\ server # "returned"
    /\ Goto(c, "away", "backlog")
    /\ UNCHANGED <<lifecycle, loop, request, faults>>

AdmitsConnections == life \in {"Ready", "Draining"}

BeginConnection(c) ==
    /\ \/ /\ AdmitsConnections
          /\ Goto(c, "spawned", "reading")
          /\ active' = active + 1
       \/ /\ ~AdmitsConnections
          /\ Goto(c, "spawned", "done")
          /\ UNCHANGED active
    /\ UNCHANGED <<life, inFlight, wake, loop, request, faults>>

\* read_frame and decode_request give a request, or something to refuse, or
\* the peer's end is gone; nothing limits how long the peer may take.
Receive(c) ==
    /\ \/ /\ Goto(c, "reading", "deciding")
          /\ \E m \in Methods : method' = [method EXCEPT ![c] = m]
          /\ UNCHANGED reply
       \/ /\ Goto(c, "reading", "replying")
          /\ reply' = [reply EXCEPT ![c] = "invalid"]
          /\ UNCHANGED method
       \/ /\ Goto(c, "reading", "closing")
          /\ UNCHANGED <<method, reply>>
    /\ UNCHANGED <<lifecycle, loop, leased, panicked, faults>>

\* dispatch_with_lease up to the lease: a policy that cannot be evaluated
\* fails the whole daemon.
Authorize(c) ==
    /\ \/ /\ Goto(c, "deciding", "admitting")
          /\ UNCHANGED <<life, wake, reply, faults>>
       \/ /\ Goto(c, "deciding", "replying")
          /\ \E r \in {"invalid", "denied"} : reply' = [reply EXCEPT ![c] = r]
          /\ UNCHANGED <<life, wake, faults>>
       \/ /\ Goto(c, "deciding", "replying")
          /\ reply' = [reply EXCEPT ![c] = "unavailable"]
          /\ Fault
          /\ Fail
    /\ UNCHANGED <<inFlight, active, loop, method, leased, panicked>>

AdmitsRequests == life = "Ready"

BeginRequest(c) ==
    /\ \/ /\ AdmitsRequests
          /\ Goto(c, "admitting", "running")
          /\ inFlight' = inFlight + 1
          /\ leased' = [leased EXCEPT ![c] = TRUE]
          /\ UNCHANGED reply
       \/ /\ ~AdmitsRequests
          /\ Goto(c, "admitting", "replying")
          /\ reply' = [reply EXCEPT ![c] = "refused"]
          /\ UNCHANGED <<inFlight, leased>>
    /\ UNCHANGED <<life, active, wake, loop, method, panicked, faults>>

\* Bug: begin_draining takes a second shutdown for the first.
BugMayDrain == life \in {"Ready", "Draining"}

MayDrain == life = "Ready"

\* The operation itself; a shutdown is Lifecycle::begin_draining.
Execute(c) ==
    /\ Goto(c, "running", "replying")
    /\ \/ /\ method[c] = "shutdown"
          /\ MayDrain
          /\ life' = "Draining"
          /\ NotifyAll
          /\ reply' = [reply EXCEPT ![c] = "ok"]
       \/ /\ method[c] = "shutdown"
          /\ ~MayDrain
          /\ reply' = [reply EXCEPT ![c] = "refused"]
          /\ UNCHANGED <<life, wake>>
       \/ /\ method[c] # "shutdown"
          /\ reply' = [reply EXCEPT ![c] = "ok"]
          /\ UNCHANGED <<life, wake>>
    /\ UNCHANGED <<inFlight, active, loop, method, leased, panicked, faults>>

\* The operation panics, and unwinding drops the leases one after the other.
Panic(c) ==
    /\ Goto(c, "running", "releasing")
    /\ Fault
    /\ panicked' = [panicked EXCEPT ![c] = TRUE]
    /\ UNCHANGED <<lifecycle, loop, method, reply, leased>>

\* Where the thread goes on once the response is written, or cannot be.
AfterWrite(c) == IF leased[c] THEN "releasing" ELSE "closing"

WriteResponse(c) ==
    /\ Goto(c, "replying", AfterWrite(c))
    /\ UNCHANGED <<lifecycle, loop, request, faults>>

\* Bug: the last lease is not counted down.
BugCountDown(n) == IF n > 1 THEN n - 1 ELSE n

CountDown(n) == IF n > 0 THEN n - 1 ELSE n

\* RequestLease::drop; a counter that is zero already fails the daemon.
ReleaseRequest(c) ==
    /\ Goto(c, "releasing", "closing")
    /\ leased' = [leased EXCEPT ![c] = FALSE]
    /\ inFlight' = CountDown(inFlight)
    /\ life' = IF inFlight = 0 THEN "Failed" ELSE life
    /\ NotifyIfQuiet(inFlight', active)
    /\ UNCHANGED <<active, loop, method, reply, panicked, faults>>

\* ConnectionLease::drop, the last thing the thread does
ReleaseConnection(c) ==
    /\ Goto(c, "closing", IF panicked[c] THEN "panicked" ELSE "done")
    /\ active' = CountDown(active)
    /\ life' = IF active = 0 THEN "Failed" ELSE life
    /\ NotifyIfQuiet(inFlight, active')
    /\ UNCHANGED <<inFlight, loop, request, faults>>

-----------------------------------------------------------------------------
(* serve                                                                   *)

\* Returning drops the socket, and whoever waited in its backlog is cut off.
Return(result) ==
    /\ server' = "returned"
    /\ outcome' = result

HangUp == [c \in Conn |-> IF pc[c] = "backlog" THEN "dropped" ELSE pc[c]]

Boot ==
    /\ server = "boot"
    /\ \/ /\ life' = "Ready"
          /\ NotifyAll
          /\ server' = "polling"
          /\ UNCHANGED <<outcome, pc, faults>>
       \/ /\ Fault
          /\ Return("io")
          /\ pc' = HangUp
          /\ UNCHANGED <<life, wake>>
    /\ UNCHANGED <<inFlight, active, workers, request>>

\* The state is read, and acted upon after the mutex is released.
Poll ==
    /\ server = "polling"
    /\ \/ /\ life = "Ready"
          /\ server' = "accepting"
          /\ UNCHANGED <<outcome, pc>>
       \/ /\ life = "Draining"
          /\ server' = "shutting"
          /\ UNCHANGED <<outcome, pc>>
       \/ /\ life = "Failed"
          /\ Return("failed")
          /\ pc' = HangUp
    /\ UNCHANGED <<lifecycle, workers, request, faults>>

Finished(c) == pc[c] \in {"done", "panicked"}

Unfinished(c) == ~Finished(c)

Panicked(c) == pc[c] = "panicked"

\* Bug: reaping lets go of the threads that still run.
BugReaped == <<>>

\* reap_finished_workers
Reaped == Sifted(workers, {c \in Conn : Unfinished(c)})

AnyPanicked == \E i \in DOMAIN workers : Panicked(workers[i])

\* Bug: a thread more than there may be.
BugFull == Len(Reaped) > MaxThreads

Full == Len(Reaped) >= MaxThreads

Accept ==
    /\ server = "accepting"
    /\ \/ /\ \E c \in Conn :
                /\ pc[c] = "backlog"
                /\ ~AnyPanicked
                /\ workers' = IF Full THEN Reaped ELSE Append(Reaped, c)
                /\ pc' = [pc EXCEPT ![c] = IF Full THEN "dropped" ELSE "spawned"]
          /\ server' = "polling"
          /\ UNCHANGED <<life, wake, outcome, faults>>
       \/ /\ \E c \in Conn : pc[c] = "backlog"
          /\ AnyPanicked
          /\ Fail
          /\ Return("panicked")
          /\ pc' = HangUp
          /\ UNCHANGED <<workers, faults>>
       \/ /\ \A c \in Conn : pc[c] # "backlog"
          /\ server' = "polling"
          /\ UNCHANGED <<life, wake, outcome, workers, pc, faults>>
       \/ /\ Fault       \* accept, or the start of a thread, fails
          /\ Fail
          /\ Return("io")
          /\ pc' = HangUp
          /\ UNCHANGED workers
    /\ UNCHANGED <<inFlight, active, request>>

\* complete_shutdown up to its first look at the leases
BeginShutdown ==
    /\ server = "shutting"
    /\ \/ /\ life = "Draining"
          /\ server' = "draining"
          /\ wake' = TRUE
          /\ UNCHANGED <<outcome, pc>>
       \/ /\ life # "Draining"
          /\ Return("failed")
          /\ pc' = HangUp
          /\ UNCHANGED wake
    /\ UNCHANGED <<life, inFlight, active, workers, request, faults>>

Drained == Quiet

\* The predicate is evaluated when the wait begins and after each wake-up.
Drain ==
    /\ server = "draining"
    /\ wake
    /\ \/ /\ life = "Draining"
          /\ Drained
          /\ life' = "Stopped"
          /\ server' = "joining"
          /\ UNCHANGED <<wake, outcome, pc>>
       \/ /\ life = "Draining"
          /\ ~Drained
          /\ wake' = FALSE
          /\ UNCHANGED <<life, server, outcome, pc>>
       \/ /\ life = "Failed"
          /\ Return("failed")
          /\ pc' = HangUp
          /\ UNCHANGED <<life, wake>>
    /\ UNCHANGED <<inFlight, active, workers, request, faults>>

\* Bug: the deadline only makes the thread look at the leases again.
BugDrainTimeout ==
    /\ server = "draining"
    /\ ~wake
    /\ NotifyAll
    /\ UNCHANGED <<life, inFlight, active, loop, pc, request, faults>>

\* The deadline passes while the leases are still out; had they come back
\* unnoticed, the predicate would be evaluated once more.
DrainTimeout ==
    /\ server = "draining"
    /\ ~wake
    /\ IF life = "Draining" /\ ~Drained
       THEN life' = "Failed" /\ Return("timeout") /\ pc' = HangUp
       ELSE UNCHANGED <<life, server, outcome, pc>>
    /\ NotifyAll
    /\ UNCHANGED <<inFlight, active, workers, request, faults>>

\* Stopped: the threads are joined in order.
Join ==
    /\ server = "joining"
    /\ \/ /\ workers # <<>>
          /\ Finished(Head(workers))
          /\ ~Panicked(Head(workers))
          /\ workers' = Tail(workers)
          /\ UNCHANGED <<life, wake, server, outcome, pc>>
       \/ /\ workers # <<>>
          /\ Panicked(Head(workers))
          /\ Fail
          /\ Return("panicked")
          /\ pc' = HangUp
          /\ UNCHANGED workers
       \/ /\ workers = <<>>
          /\ Return("ok")
          /\ pc' = HangUp
          /\ UNCHANGED <<life, wake, workers>>
    /\ UNCHANGED <<inFlight, active, request, faults>>

-----------------------------------------------------------------------------
\* What a connection's thread does of its own accord.
Advance(c) ==
    \/ BeginConnection(c)
    \/ Authorize(c)
    \/ BeginRequest(c)
    \/ Execute(c)
    \/ Panic(c)
    \/ WriteResponse(c)
    \/ ReleaseRequest(c)
    \/ ReleaseConnection(c)

Serve ==
    \/ Boot
    \/ Poll
    \/ Accept
    \/ BeginShutdown
    \/ Drain
    \/ DrainTimeout
    \/ Join

Next ==
    \/ \E c \in Conn : Connect(c) \/ Receive(c) \/ Advance(c)
    \/ Serve

Spec == Init /\ [][Next]_vars

\* The serving thread runs, and a thread that was started begins; a client
\* may keep its connection idle, and an operation may take for ever.
FairSpec ==
    /\ Spec
    /\ WF_vars(Serve)
    /\ \A c \in Conn : WF_vars(BeginConnection(c))
=============================================================================
