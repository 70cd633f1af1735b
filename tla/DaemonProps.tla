---------------------------- MODULE DaemonProps ----------------------------
(* What the daemon must guarantee.                                         *)
EXTENDS Daemon

\* Every variable has its type; how many handles serve keeps is said by
\* ThreadsAreBounded.
TypeOK ==
    /\ life \in {"Starting", "Ready", "Draining", "Stopped", "Failed"}
    /\ inFlight \in Nat
    /\ active \in Nat
    /\ wake \in BOOLEAN
    /\ server \in {"boot", "polling", "accepting", "shutting", "draining",
                   "joining", "returned"}
    /\ outcome \in {"none", "ok", "io", "failed", "timeout", "panicked"}
    /\ workers \in Seq(Conn)
    /\ pc \in [Conn -> {"away", "backlog", "spawned", "reading", "deciding",
                        "admitting", "running", "replying", "releasing",
                        "closing", "done", "panicked", "dropped"}]
    /\ method \in [Conn -> Methods \cup {"none"}]
    /\ reply \in [Conn -> {"none", "ok", "invalid", "denied", "unavailable", "refused"}]
    /\ leased \in [Conn -> BOOLEAN]
    /\ panicked \in [Conn -> BOOLEAN]
    /\ faults \in Nat

\* The connections whose thread holds a ConnectionLease.
Open(c) == pc[c] \in {"reading", "deciding", "admitting", "running",
                      "replying", "releasing", "closing"}

\* The counters are the leases that are out, whatever panics or is refused in
\* between: they never underflow, and no lease keeps a shutdown waiting that
\* nobody holds.
LeasesAreCounted ==
    /\ inFlight = Cardinality({c \in Conn : leased[c]})
    /\ active = Cardinality({c \in Conn : Open(c)})

\* lifecycle.rs:136: shutdown is not reported as Stopped while a response is
\* being written, nor while an operation runs.
StoppedIsQuiet == life = "Stopped" => \A c \in Conn : ~Open(c)

\* The thread that waits for the leases sleeps only while some are out and
\* nothing has failed: no wake-up is lost.
NoLostWakeup ==
    (server = "draining" /\ ~wake) => (life = "Draining" /\ ~Quiet)

\* Two clients that ask for the shutdown at once are not both told that they
\* started it, and a client that was told so sees the daemon go down.
OneShutdown ==
    /\ \A c, d \in Conn :
          (c # d /\ method[c] = "shutdown" /\ method[d] = "shutdown")
              => ~(reply[c] = "ok" /\ reply[d] = "ok")
    /\ \A c \in Conn :
          (method[c] = "shutdown" /\ reply[c] = "ok")
              => life \in {"Draining", "Stopped", "Failed"}

\* The daemon never has more connection threads than it may, though it only
\* reaps the finished ones when it accepts.
ThreadsAreBounded ==
    server # "returned" =>
        Cardinality({c \in Conn : pc[c] = "spawned" \/ Open(c)}) <= MaxThreads

\* When serve has returned nothing is admitted any more, and when it has
\* returned Ok no thread of a connection is left behind.
NothingAfterReturn ==
    server = "returned" =>
        /\ life \notin {"Ready", "Draining"}
        /\ outcome = "ok" => \A c \in Conn : pc[c] # "spawned" /\ ~Open(c)

\* A daemon that has stopped or failed stays so, and one that drains never
\* admits another request: the states only go forward.
LifecycleGoesForward ==
    [][/\ <<life, life'>> \in { <<"Starting", "Ready">>, <<"Ready", "Draining">>,
                                <<"Ready", "Failed">>, <<"Draining", "Stopped">>,
                                <<"Draining", "Failed">>} \/ life' = life
       /\ life # "Ready" => \A c \in Conn : leased'[c] => leased[c]]_vars

\* A shutdown ends, whatever clients keep their connections open and whatever
\* operations hang, and so does a daemon that failed: serve returns.
ShutdownEnds == (life \in {"Draining", "Failed"}) ~> (server = "returned")
=============================================================================
