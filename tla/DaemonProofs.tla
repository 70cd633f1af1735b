---------------------------- MODULE DaemonProofs ----------------------------
(***************************************************************************)
(* Theorems about the daemon's lifecycle, for any number of clients.       *)
(***************************************************************************)
EXTENDS DaemonProps, SiftingProofs

Serving == {c \in Conn : Open(c)}
Leased  == {c \in Conn : leased[c]}

\* The counters are the leases that are out, a request lease lies within a
\* connection lease, and nobody holds one once the daemon has stopped.
LeaseInv ==
    /\ life \in {"Starting", "Ready", "Draining", "Stopped", "Failed"}
    /\ inFlight \in Nat
    /\ active \in Nat
    /\ wake \in BOOLEAN
    /\ pc \in [Conn -> {"away", "backlog", "spawned", "reading", "deciding",
                        "admitting", "running", "replying", "releasing",
                        "closing", "done", "panicked", "dropped"}]
    /\ leased \in [Conn -> BOOLEAN]
    /\ inFlight = Cardinality(Leased)
    /\ active = Cardinality(Serving)
    /\ \A c \in Conn : leased[c] => pc[c] \in {"running", "replying", "releasing"}
    /\ \A c \in Conn : pc[c] \in {"running", "releasing"} => leased[c]
    /\ life = "Stopped" => Serving = {}

\* Adding or removing one element changes a cardinality by one.
LEMMA OneMore ==
    ASSUME NEW S \in SUBSET Conn, NEW c \in Conn
    PROVE  /\ Cardinality(S) \in Nat
           /\ c \notin S => Cardinality(S \cup {c}) = Cardinality(S) + 1
           /\ c \in S => /\ Cardinality(S \ {c}) = Cardinality(S) - 1
                         /\ Cardinality(S) > 0
<1>1. IsFiniteSet(S)
  BY ConnAssumption, FS_Subset
<1>2. Cardinality(S) \in Nat
  BY <1>1, FS_CardinalityType
<1>3. c \notin S => Cardinality(S \cup {c}) = Cardinality(S) + 1
  BY <1>1, FS_AddElement
<1>4. c \in S => Cardinality(S \ {c}) = Cardinality(S) - 1
  BY <1>1, FS_RemoveElement
<1>5. c \in S => Cardinality(S) > 0
  BY <1>1, <1>2, FS_EmptySet
<1>. QED BY <1>2, <1>3, <1>4, <1>5

\* A set of connections that counts as zero is empty: what lets a Stopped
\* lifecycle conclude from its counters that nobody is being served.
LEMMA NobodyLeft ==
    ASSUME NEW S \in SUBSET Conn, Cardinality(S) = 0
    PROVE  S = {}
BY ConnAssumption, FS_Subset, FS_EmptySet

\* Steps of the serving thread, and a client's connect, leave the leases alone.
LEMMA LeasesUntouched ==
    ASSUME LeaseInv, UNCHANGED <<inFlight, active, leased>>,
           life' \in {"Starting", "Ready", "Draining", "Failed", life},
           wake' \in BOOLEAN, pc' \in [Conn -> {"away", "backlog", "spawned",
              "reading", "deciding", "admitting", "running", "replying",
              "releasing", "closing", "done", "panicked", "dropped"}],
           \A c \in Conn : \/ pc'[c] = pc[c]
                           \/ ~Open(c) /\ ~Open(c)'
                           \/ /\ Open(c) /\ Open(c)'
                              /\ leased[c] <=> pc'[c] \in {"running", "replying", "releasing"}
                           \/ /\ Open(c) /\ ~leased[c]
                              /\ pc'[c] \in {"deciding", "admitting", "replying", "closing"}
    PROVE  LeaseInv'
<1>1. Serving' = Serving
  BY DEF Serving, Open
<1>2. Leased' = Leased
  BY DEF Leased
<1>. QED BY <1>1, <1>2 DEF LeaseInv, Open

\* The counters never underflow and no lease is forgotten.
THEOREM LeasesCorrect == Spec => []LeaseInv
<1>1. Init => LeaseInv
  <2>. SUFFICES ASSUME Init PROVE LeaseInv
    OBVIOUS
  <2>1. Serving = {} /\ Leased = {}
    BY DEF Init, Serving, Leased, Open
  <2>. QED BY <2>1, FS_EmptySet DEF Init, LeaseInv
<1>2. LeaseInv /\ [Next]_vars => LeaseInv'
  <2>. SUFFICES ASSUME LeaseInv, [Next]_vars
                PROVE  LeaseInv'
    OBVIOUS
  <2>. USE DEF Goto, request, loop, lifecycle
  <2>1. ASSUME NEW c \in Conn, Connect(c) PROVE LeaseInv'
    BY <2>1, LeasesUntouched DEF Connect, Open, LeaseInv
  <2>2. ASSUME NEW c \in Conn, Receive(c) PROVE LeaseInv'
    BY <2>2, LeasesUntouched DEF Receive, Open, LeaseInv
  <2>3. ASSUME NEW c \in Conn, BeginConnection(c) PROVE LeaseInv'
    <3>1. CASE ~AdmitsConnections
      BY <2>3, <3>1, LeasesUntouched DEF BeginConnection, Open, LeaseInv
    <3>2. CASE AdmitsConnections
      <4>1. Serving' = Serving \cup {c} /\ c \notin Serving
        BY <2>3, <3>2 DEF BeginConnection, Serving, Open, LeaseInv
      <4>2. Leased' = Leased
        BY <2>3 DEF BeginConnection, Leased
      <4>3. Cardinality(Serving') = Cardinality(Serving) + 1
        BY <4>1, OneMore DEF Serving
      <4>. QED BY <2>3, <3>2, <4>2, <4>3 DEF BeginConnection, AdmitsConnections, LeaseInv
    <3>. QED BY <3>1, <3>2
  <2>4. ASSUME NEW c \in Conn, Authorize(c) PROVE LeaseInv'
    BY <2>4, LeasesUntouched DEF Authorize, Fail, NotifyAll, Open, LeaseInv
  <2>5. ASSUME NEW c \in Conn, BeginRequest(c) PROVE LeaseInv'
    <3>1. CASE ~AdmitsRequests
      BY <2>5, <3>1, LeasesUntouched DEF BeginRequest, Open, LeaseInv
    <3>2. CASE AdmitsRequests
      <4>1. Leased' = Leased \cup {c} /\ c \notin Leased
        BY <2>5, <3>2 DEF BeginRequest, Leased, LeaseInv
      <4>2. Serving' = Serving
        BY <2>5, <3>2 DEF BeginRequest, Serving, Open, LeaseInv
      <4>3. Cardinality(Leased') = Cardinality(Leased) + 1
        BY <4>1, OneMore DEF Leased
      <4>4. /\ pc' = [pc EXCEPT ![c] = "running"]
            /\ leased' = [leased EXCEPT ![c] = TRUE]
            /\ pc' \in [Conn -> {"away", "backlog", "spawned", "reading", "deciding",
                        "admitting", "running", "replying", "releasing",
                        "closing", "done", "panicked", "dropped"}]
            /\ leased' \in [Conn -> BOOLEAN]
        BY <2>5, <3>2 DEF BeginRequest, LeaseInv
      <4>5. inFlight' = Cardinality(Leased)' /\ inFlight' \in Nat
        BY <2>5, <3>2, <4>3 DEF BeginRequest, LeaseInv
      <4>6. UNCHANGED <<life, active, wake>>
        BY <2>5 DEF BeginRequest
      <4>7. /\ \A d \in Conn : leased'[d] => pc'[d] \in {"running", "replying", "releasing"}
            /\ \A d \in Conn : pc'[d] \in {"running", "releasing"} => leased'[d]
        BY <4>4 DEF LeaseInv
      <4>. QED BY <4>2, <4>4, <4>5, <4>6, <4>7 DEF LeaseInv
    <3>. QED BY <3>1, <3>2
  <2>6. ASSUME NEW c \in Conn, Execute(c) PROVE LeaseInv'
    BY <2>6, LeasesUntouched DEF Execute, NotifyAll, Open, LeaseInv
  <2>7. ASSUME NEW c \in Conn, Panic(c) PROVE LeaseInv'
    BY <2>7, LeasesUntouched DEF Panic, Open, LeaseInv
  <2>8. ASSUME NEW c \in Conn, WriteResponse(c) PROVE LeaseInv'
    BY <2>8, LeasesUntouched DEF WriteResponse, AfterWrite, Open, LeaseInv
  <2>9. ASSUME NEW c \in Conn, ReleaseRequest(c) PROVE LeaseInv'
    <3>1. Leased' = Leased \ {c} /\ c \in Leased
      BY <2>9 DEF ReleaseRequest, Leased, LeaseInv
    <3>2. Serving' = Serving
      BY <2>9 DEF ReleaseRequest, Serving, Open, LeaseInv
    <3>3. inFlight > 0 /\ Cardinality(Leased') = inFlight - 1
      BY <3>1, OneMore DEF Leased, LeaseInv
    <3>. QED BY <2>9, <3>2, <3>3 DEF ReleaseRequest, CountDown, NotifyIfQuiet, LeaseInv
  <2>10. ASSUME NEW c \in Conn, ReleaseConnection(c) PROVE LeaseInv'
    <3>1. Serving' = Serving \ {c} /\ c \in Serving
      BY <2>10 DEF ReleaseConnection, Serving, Open, LeaseInv
    <3>2. Leased' = Leased
      BY <2>10 DEF ReleaseConnection, Leased
    <3>3. active > 0 /\ Cardinality(Serving') = active - 1
      BY <3>1, OneMore DEF Serving, LeaseInv
    <3>4. ~leased[c]
      BY <2>10 DEF ReleaseConnection, LeaseInv
    <3>. QED BY <2>10, <3>1, <3>2, <3>3, <3>4
             DEF ReleaseConnection, CountDown, NotifyIfQuiet, LeaseInv
  <2>. USE DEF Return, HangUp, Fail, NotifyAll
  <2>11. CASE Boot
    BY <2>11, LeasesUntouched DEF Boot, Open, LeaseInv
  <2>12. CASE Poll
    BY <2>12, LeasesUntouched DEF Poll, Open, LeaseInv
  <2>13. CASE Accept
    BY <2>13, LeasesUntouched DEF Accept, Open, LeaseInv
  <2>14. CASE BeginShutdown
    BY <2>14, LeasesUntouched DEF BeginShutdown, Open, LeaseInv
  <2>15. CASE Drain
    <3>1. CASE life = "Draining" /\ Drained
      <4>1. Serving = {}
        BY <3>1, NobodyLeft DEF Drained, Quiet, LeaseInv, Serving
      <4>2. Serving' = Serving /\ Leased' = Leased
        BY <2>15, <3>1 DEF Drain, Serving, Leased, Open
      <4>. QED BY <2>15, <3>1, <4>1, <4>2 DEF Drain, LeaseInv
    <3>2. CASE ~(life = "Draining" /\ Drained)
      BY <2>15, <3>2, LeasesUntouched DEF Drain, Open, LeaseInv
    <3>. QED BY <3>1, <3>2
  <2>16. CASE DrainTimeout
    BY <2>16, LeasesUntouched DEF DrainTimeout, Open, LeaseInv
  <2>17. CASE Join
    BY <2>17, LeasesUntouched DEF Join, Open, LeaseInv
  <2>18. CASE UNCHANGED vars
    BY <2>18, LeasesUntouched DEF vars, Open, LeaseInv
  <2>. QED BY <2>1, <2>2, <2>3, <2>4, <2>5, <2>6, <2>7, <2>8, <2>9, <2>10, <2>11,
              <2>12, <2>13, <2>14, <2>15, <2>16, <2>17, <2>18
           DEF Next, Advance, Serve
<1>. QED BY <1>1, <1>2, PTL DEF Spec

-----------------------------------------------------------------------------
\* The counters of the lifecycle are exactly the leases that are out.
THEOREM CountersAreLeases == Spec => []LeasesAreCounted
<1>1. LeaseInv => LeasesAreCounted
  BY DEF LeaseInv, LeasesAreCounted, Serving, Leased
<1>. QED BY <1>1, LeasesCorrect, PTL

\* Stopped is never reported while an operation runs or is being answered.
THEOREM StopIsQuiet == Spec => []StoppedIsQuiet
<1>1. LeaseInv => StoppedIsQuiet
  BY DEF LeaseInv, StoppedIsQuiet, Serving
<1>. QED BY <1>1, LeasesCorrect, PTL

\* complete_shutdown sleeps only while it has a reason to.
THEOREM WakeupsAreKept == Spec => []NoLostWakeup
<1>1. Init => NoLostWakeup
  BY DEF Init, NoLostWakeup
<1>2. LeaseInv /\ NoLostWakeup /\ [Next]_vars => NoLostWakeup'
  <2>. SUFFICES ASSUME LeaseInv, NoLostWakeup, [Next]_vars
                PROVE  NoLostWakeup'
    OBVIOUS
  <2>. USE DEF NoLostWakeup, Quiet, Goto, request, loop, lifecycle
  <2>0. inFlight \in Nat /\ active \in Nat /\ wake \in BOOLEAN
    BY DEF LeaseInv
  <2>1. ASSUME NEW c \in Conn, Connect(c) \/ Receive(c) PROVE NoLostWakeup'
    BY <2>1 DEF Connect, Receive
  <2>2. ASSUME NEW c \in Conn, BeginConnection(c) \/ BeginRequest(c) PROVE NoLostWakeup'
    BY <2>0, <2>2 DEF BeginConnection, BeginRequest
  <2>3. ASSUME NEW c \in Conn, Authorize(c) \/ Execute(c) PROVE NoLostWakeup'
    BY <2>3 DEF Authorize, Execute, Fail, NotifyAll
  <2>4. ASSUME NEW c \in Conn, Panic(c) \/ WriteResponse(c) PROVE NoLostWakeup'
    BY <2>4 DEF Panic, WriteResponse
  <2>5. ASSUME NEW c \in Conn, ReleaseRequest(c) PROVE NoLostWakeup'
    <3>1. c \in Leased
      BY <2>5 DEF ReleaseRequest, Leased, LeaseInv
    <3>2. inFlight > 0
      BY <3>1, OneMore DEF Leased, LeaseInv
    <3>3. /\ life' = life /\ active' = active /\ server' = server
          /\ wake' = (wake \/ (inFlight' = 0 /\ active = 0))
      BY <2>0, <2>5, <3>2 DEF ReleaseRequest, NotifyIfQuiet
    <3>. QED BY <3>3, Zenon DEF NoLostWakeup, Quiet
  <2>6. ASSUME NEW c \in Conn, ReleaseConnection(c) PROVE NoLostWakeup'
    <3>1. c \in Serving
      BY <2>6 DEF ReleaseConnection, Serving, Open
    <3>2. active > 0
      BY <3>1, OneMore DEF Serving, LeaseInv
    <3>3. /\ life' = life /\ inFlight' = inFlight /\ server' = server
          /\ wake' = (wake \/ (inFlight = 0 /\ active' = 0))
      BY <2>0, <2>6, <3>2 DEF ReleaseConnection, NotifyIfQuiet
    <3>. QED BY <3>3, Zenon DEF NoLostWakeup, Quiet
  <2>7. CASE Boot \/ Poll \/ Accept \/ BeginShutdown \/ Join
    BY <2>7 DEF Boot, Poll, Accept, BeginShutdown, Join, Return
  <2>8. CASE Drain \/ DrainTimeout
    BY <2>8 DEF Drain, Drained, DrainTimeout, Return, NotifyAll
  <2>9. CASE UNCHANGED vars
    BY <2>9 DEF vars
  <2>. QED BY <2>1, <2>2, <2>3, <2>4, <2>5, <2>6, <2>7, <2>8, <2>9
           DEF Next, Advance, Serve
<1>. QED BY <1>1, <1>2, LeasesCorrect, PTL DEF Spec

-----------------------------------------------------------------------------
(* Where the serving thread stands decides where the lifecycle can be.     *)

Places == {"away", "backlog", "spawned", "reading", "deciding", "admitting", "running",
           "replying", "releasing", "closing", "done", "panicked", "dropped"}

ServerInv ==
    /\ server \in {"boot", "polling", "accepting", "shutting", "draining", "joining", "returned"}
    /\ server = "boot" => life = "Starting" /\ \A c \in Conn : pc[c] \in {"away", "backlog"}
    /\ server \in {"polling", "accepting"} => life \in {"Ready", "Draining", "Failed"}
    /\ server \in {"shutting", "draining"} => life \in {"Draining", "Failed"}
    /\ server = "joining" => life = "Stopped"
    /\ server = "returned" => life \notin {"Ready", "Draining"}
    /\ life = "Starting" => \A c \in Conn : pc[c] \in {"away", "backlog", "dropped"}

\* A lease that is dropped is one that was counted: the lifecycle stays.
LEMMA ReleaseKeepsLife ==
    ASSUME LeaseInv, NEW c \in Conn, ReleaseRequest(c) \/ ReleaseConnection(c)
    PROVE  life' = life
<1>1. CASE ReleaseRequest(c)
  <2>1. c \in Leased
    BY <1>1 DEF ReleaseRequest, Goto, Leased, LeaseInv
  <2>2. inFlight > 0
    BY <2>1, OneMore DEF Leased, LeaseInv
  <2>. QED BY <1>1, <2>2 DEF ReleaseRequest
<1>2. CASE ReleaseConnection(c)
  <2>1. c \in Serving
    BY <1>2 DEF ReleaseConnection, Goto, Serving, Open
  <2>2. active > 0
    BY <2>1, OneMore DEF Serving, LeaseInv
  <2>. QED BY <1>2, <2>2 DEF ReleaseConnection
<1>. QED BY <1>1, <1>2

\* Every step keeps ServerInv.
LEMMA ServerStep ==
    ASSUME LeaseInv, ServerInv, [Next]_vars
    PROVE  ServerInv'
<1>0. pc \in [Conn -> Places]
  BY DEF LeaseInv, Places
<1>. USE DEF Goto, request, loop, lifecycle, Fail, NotifyAll, Return
<1>1. ASSUME NEW c \in Conn, Connect(c)
      PROVE  ServerInv'
  BY <1>0, <1>1 DEF Connect, ServerInv
<1>2. ASSUME NEW c \in Conn, life' = life, server' = server, pc[c] \notin {"away", "backlog", "dropped"}
      PROVE  ServerInv'
  BY <1>2 DEF ServerInv
<1>3. ASSUME NEW c \in Conn, Receive(c) \/ BeginConnection(c) \/ BeginRequest(c) \/ Panic(c)
                             \/ WriteResponse(c) \/ ReleaseRequest(c) \/ ReleaseConnection(c)
      PROVE  ServerInv'
  <2>1. life' = life
    BY <1>3, ReleaseKeepsLife DEF Receive, BeginConnection, BeginRequest, Panic, WriteResponse
  <2>2. server' = server /\ pc[c] \notin {"away", "backlog", "dropped"}
    BY <1>3 DEF Receive, BeginConnection, BeginRequest, Panic, WriteResponse, ReleaseRequest,
                ReleaseConnection
  <2>. QED BY <1>2, <2>1, <2>2
<1>4. ASSUME NEW c \in Conn, Authorize(c)
      PROVE  ServerInv'
  <2>1. life # "Starting" /\ server' = server
    BY <1>4 DEF Authorize, ServerInv
  <2>2. life' = life \/ (life' = "Failed" /\ life # "Stopped")
    BY <1>4 DEF Authorize
  <2>. QED BY <2>1, <2>2 DEF ServerInv
<1>5. ASSUME NEW c \in Conn, Execute(c)
      PROVE  ServerInv'
  <2>1. life # "Starting" /\ server' = server
    BY <1>5 DEF Execute, ServerInv
  <2>2. life' = life \/ (life = "Ready" /\ life' = "Draining")
    BY <1>5 DEF Execute, MayDrain
  <2>. QED BY <2>1, <2>2 DEF ServerInv
<1>6. CASE Boot
  BY <1>0, <1>6 DEF Boot, ServerInv, HangUp
<1>7. CASE Poll
  BY <1>7 DEF Poll, ServerInv
<1>8. CASE Accept
  <2>1. life # "Starting" /\ life # "Stopped" /\ server = "accepting" /\ server' \in {"polling", "returned"}
        /\ \/ life' = life /\ server' = "polling"
           \/ life' = "Failed"
    BY <1>8 DEF Accept, ServerInv
  <2>. QED BY <2>1 DEF ServerInv
<1>9. CASE BeginShutdown \/ Drain \/ DrainTimeout
  BY <1>9 DEF BeginShutdown, Drain, DrainTimeout, ServerInv
<1>10. CASE Join
  BY <1>10 DEF Join, ServerInv
<1>11. CASE UNCHANGED vars
  BY <1>11 DEF vars, ServerInv
<1>. QED BY <1>1, <1>3, <1>4, <1>5, <1>6, <1>7, <1>8, <1>9, <1>10, <1>11 DEF Next, Advance, Serve

\* The serving thread and the lifecycle agree on how far a shutdown has come;
\* when serve has returned nothing is admitted.
THEOREM ServerCorrect == Spec => []ServerInv
<1>1. Init => ServerInv
  BY DEF Init, ServerInv
<1>2. LeaseInv /\ ServerInv /\ [Next]_vars => ServerInv'
  BY ServerStep
<1>. QED BY <1>1, <1>2, LeasesCorrect, PTL DEF Spec

\* The states of the lifecycle only go forward.
THEOREM LifecycleIsForward == Spec => LifecycleGoesForward
<1> DEFINE Forward == /\ <<life, life'>> \in { <<"Starting", "Ready">>, <<"Ready", "Draining">>,
                                <<"Ready", "Failed">>, <<"Draining", "Stopped">>,
                                <<"Draining", "Failed">>} \/ life' = life
                      /\ life # "Ready" => \A c \in Conn : leased'[c] => leased[c]
<1>1. LeaseInv /\ ServerInv /\ [Next]_vars => [Forward]_vars
  <2>. SUFFICES ASSUME LeaseInv, ServerInv, Next
                PROVE  Forward
    OBVIOUS
  <2>. USE DEF Goto, request, loop, lifecycle, Fail, NotifyAll, Return
  <2>1. ASSUME NEW c \in Conn, Connect(c) \/ Receive(c) \/ BeginConnection(c) \/ Panic(c) \/ WriteResponse(c)
        PROVE  Forward
    BY <2>1 DEF Connect, Receive, BeginConnection, Panic, WriteResponse
  <2>2. ASSUME NEW c \in Conn, BeginRequest(c)
        PROVE  Forward
    BY <2>2 DEF BeginRequest, AdmitsRequests
  <2>3. ASSUME NEW c \in Conn, Authorize(c) \/ Execute(c)
        PROVE  Forward
    <3>1. life # "Starting" /\ leased' = leased
      BY <2>3 DEF Authorize, Execute, ServerInv
    <3>2. life' = life \/ (life = "Ready" /\ life' = "Draining") \/ (life # "Stopped" /\ life' = "Failed")
      BY <2>3 DEF Authorize, Execute, MayDrain
    <3>. QED BY <3>1, <3>2 DEF LeaseInv
  <2>4. ASSUME NEW c \in Conn, ReleaseRequest(c) \/ ReleaseConnection(c)
        PROVE  Forward
    <3>1. life' = life
      BY <2>4, ReleaseKeepsLife
    <3>2. \A d \in Conn : leased'[d] => leased[d]
      BY <2>4 DEF ReleaseRequest, ReleaseConnection, LeaseInv
    <3>. QED BY <3>1, <3>2
  <2>5. CASE Boot \/ Poll \/ BeginShutdown \/ Drain \/ DrainTimeout
    BY <2>5 DEF Boot, Poll, BeginShutdown, Drain, DrainTimeout, ServerInv
  <2>6. CASE Accept
    <3>1. leased' = leased /\ life \in {"Ready", "Draining", "Failed"} /\ life' \in {life, "Failed"}
      BY <2>6 DEF Accept, ServerInv
    <3>. QED BY <3>1
  <2>7. CASE Join
    BY <2>7 DEF Join, ServerInv
  <2>. QED BY <2>1, <2>2, <2>3, <2>4, <2>5, <2>6, <2>7 DEF Next, Advance, Serve
<1>. QED BY <1>1, LeasesCorrect, ServerCorrect, PTL DEF Spec, LifecycleGoesForward

-----------------------------------------------------------------------------
(* One shutdown: a connection is answered once, after it has asked.        *)

AnswerInv ==
    /\ reply \in [Conn -> {"none", "ok", "invalid", "denied", "unavailable", "refused"}]
    /\ method \in [Conn -> Methods \cup {"none"}]
    /\ \A c \in Conn : pc[c] \in {"away", "backlog", "spawned", "reading", "deciding", "admitting",
                                  "running"} => reply[c] = "none"
    /\ OneShutdown

\* A step that gives nobody the answer ok, and does not take the lifecycle back.
LEMMA NobodyIsTold ==
    ASSUME AnswerInv, Conn # {} => life' = life \/ life' \in {"Draining", "Stopped", "Failed"},
           \A c \in Conn : method'[c] = "shutdown" /\ reply'[c] = "ok"
                               => method[c] = "shutdown" /\ reply[c] = "ok"
    PROVE  OneShutdown'
BY DEF AnswerInv, OneShutdown

\* Every step keeps AnswerInv.
LEMMA AnswerStep ==
    ASSUME LeaseInv, ServerInv, AnswerInv, [Next]_vars
    PROVE  AnswerInv'
<1>0. /\ pc \in [Conn -> Places] /\ method \in [Conn -> Methods \cup {"none"}]
      /\ reply \in [Conn -> {"none", "ok", "invalid", "denied", "unavailable", "refused"}]
  BY DEF LeaseInv, AnswerInv, Places
<1>. USE DEF Goto, request, loop, lifecycle, Fail, NotifyAll, Return
<1>1. ASSUME NEW c \in Conn, Connect(c) \/ BeginConnection(c) \/ Panic(c) \/ WriteResponse(c)
                             \/ ReleaseRequest(c) \/ ReleaseConnection(c)
      PROVE  AnswerInv'
  <2>1. UNCHANGED <<method, reply, life>>
    BY <1>1, ReleaseKeepsLife DEF Connect, BeginConnection, Panic, WriteResponse, ReleaseRequest,
                                  ReleaseConnection
  <2>2. \A d \in Conn : d # c => pc'[d] = pc[d]
    BY <1>0, <1>1 DEF Connect, BeginConnection, Panic, WriteResponse, ReleaseRequest, ReleaseConnection
  <2>3. pc'[c] \in {"away", "backlog", "spawned", "reading", "deciding", "admitting", "running"}
            => pc[c] \in {"away", "backlog", "spawned", "reading", "deciding", "admitting", "running"}
    BY <1>0, <1>1 DEF Connect, BeginConnection, Panic, WriteResponse, ReleaseRequest,
                      ReleaseConnection, AfterWrite
  <2>4. OneShutdown'
    BY <2>1, NobodyIsTold
  <2>. QED BY <2>1, <2>2, <2>3, <2>4 DEF AnswerInv
<1>2. ASSUME NEW c \in Conn, Receive(c)
      PROVE  AnswerInv'
  <2>1. life' = life /\ reply[c] = "none"
    BY <1>2 DEF Receive, AnswerInv
  <2>2. OneShutdown'
    BY <1>0, <1>2, <2>1, NobodyIsTold DEF Receive
  <2>. QED BY <1>0, <1>2, <2>1, <2>2 DEF Receive, AnswerInv
<1>3. ASSUME NEW c \in Conn, Authorize(c) \/ BeginRequest(c)
      PROVE  AnswerInv'
  <2>1. life' = life \/ life' = "Failed"
    BY <1>3 DEF Authorize, BeginRequest
  <2>2. OneShutdown'
    BY <1>0, <1>3, <2>1, NobodyIsTold DEF Authorize, BeginRequest
  <2>. QED BY <1>0, <1>3, <2>2 DEF Authorize, BeginRequest, AnswerInv
<1>4. ASSUME NEW c \in Conn, Execute(c)
      PROVE  AnswerInv'
  <2>1. /\ pc' = [pc EXCEPT ![c] = "replying"] /\ method' = method
        /\ \E r \in {"ok", "refused"} : reply' = [reply EXCEPT ![c] = r]
    BY <1>4 DEF Execute
  <2>2. OneShutdown'
    <3>1. CASE method[c] = "shutdown" /\ MayDrain
      <4>1. \A d \in Conn : ~(method[d] = "shutdown" /\ reply[d] = "ok")
        BY <3>1 DEF AnswerInv, OneShutdown, MayDrain
      <4>2. life' = "Draining" /\ \A d \in Conn : d # c => reply'[d] = reply[d]
        BY <1>0, <1>4, <2>1, <3>1 DEF Execute
      <4>. QED BY <2>1, <4>1, <4>2 DEF OneShutdown
    <3>2. CASE method[c] = "shutdown" /\ ~MayDrain
      BY <1>0, <1>4, <2>1, <3>2, NobodyIsTold DEF Execute
    <3>3. CASE method[c] # "shutdown"
      BY <1>0, <1>4, <2>1, <3>3, NobodyIsTold DEF Execute
    <3>. QED BY <3>1, <3>2, <3>3
  <2>. QED BY <1>0, <2>1, <2>2 DEF AnswerInv
<1>5. ASSUME Serve
      PROVE  AnswerInv'
  <2>1. UNCHANGED <<method, reply>>
    BY <1>5 DEF Serve, Boot, Poll, Accept, BeginShutdown, Drain, DrainTimeout, Join
  <2>2. \A c \in Conn : pc'[c] = pc[c] \/ pc'[c] = "dropped" \/ pc[c] = "backlog"
    BY <1>0, <1>5 DEF Serve, Boot, Poll, Accept, BeginShutdown, Drain, DrainTimeout, Join, HangUp
  <2>3. CASE Boot
    <3>1. \A c \in Conn : reply[c] = "none"
      BY <2>3 DEF Boot, ServerInv, AnswerInv, OneShutdown
    <3>. QED BY <2>1, <2>2, <3>1 DEF AnswerInv, OneShutdown
  <2>4. CASE ~Boot
    <3>1. life' = life \/ life' \in {"Stopped", "Failed"}
      BY <1>5, <2>4 DEF Serve, Poll, Accept, BeginShutdown, Drain, DrainTimeout, Join
    <3>2. OneShutdown'
      BY <2>1, <3>1, NobodyIsTold
    <3>. QED BY <2>1, <2>2, <3>2 DEF AnswerInv
  <2>. QED BY <2>3, <2>4
<1>6. CASE UNCHANGED vars
  BY <1>6 DEF vars, AnswerInv, OneShutdown
<1>. QED BY <1>1, <1>2, <1>3, <1>4, <1>5, <1>6 DEF Next, Advance

\* Of two clients that ask for the shutdown one is told that it started it,
\* and the daemon goes down.
THEOREM ShutdownIsOne == Spec => []OneShutdown
<1>1. Init => AnswerInv
  BY DEF Init, AnswerInv, OneShutdown
<1>2. LeaseInv /\ ServerInv /\ AnswerInv /\ [Next]_vars => AnswerInv'
  BY AnswerStep
<1>3. AnswerInv => OneShutdown
  BY DEF AnswerInv
<1>. QED BY <1>1, <1>2, <1>3, LeasesCorrect, ServerCorrect, PTL DEF Spec

-----------------------------------------------------------------------------
(* The handles that serve keeps are those of the threads, though threads   *)
(* end without the serving thread, and handles are dropped only when it    *)
(* accepts or joins.                                                       *)

Threads == {c \in Conn : pc[c] = "spawned" \/ Open(c)}

HasHandle(c) == \E i \in DOMAIN workers : workers[i] = c

WorkersInv ==
    /\ workers \in Seq(Conn)
    /\ Len(workers) <= MaxThreads
    /\ server # "returned" => \A c \in Threads : HasHandle(c)
    /\ (server = "returned" /\ outcome = "ok") => Threads = {}

\* A step that starts no thread and keeps the handles.
LEMMA ThreadsOnlyEnd ==
    ASSUME WorkersInv, workers' = workers, Threads' \subseteq Threads,
           \/ server' = server /\ outcome' = outcome
           \/ server # "returned" /\ (server' = "returned" => outcome' # "ok")
    PROVE  WorkersInv'
BY DEF WorkersInv, HasHandle

\* Reaping keeps the handles of the threads, and makes room only for those
\* that it drops.
LEMMA ReapedKeepsThreads ==
    ASSUME WorkersInv, server # "returned"
    PROVE  /\ Reaped \in Seq(Conn) /\ Len(Reaped) <= MaxThreads
           /\ \A c \in Threads : \E i \in DOMAIN Reaped : Reaped[i] = c
<1> DEFINE kept == {c \in Conn : Unfinished(c)}
<1>1. workers \in Seq(Conn) /\ Reaped = Sifted(workers, kept)
  BY DEF WorkersInv, Reaped
<1>2. /\ Reaped \in Seq(Conn) /\ Len(Reaped) <= Len(workers)
      /\ \E f \in [DOMAIN Reaped -> DOMAIN workers] :
            /\ \A k \in DOMAIN f : Reaped[k] = workers[f[k]]
            /\ \A i \in DOMAIN workers : workers[i] \in kept => \E k \in DOMAIN f : f[k] = i
  <2> HIDE DEF kept
  <2>. QED BY <1>1, SiftedKeeps
<1>3. Threads \subseteq kept
  BY DEF Threads, Unfinished, Finished, Open
<1>4. \A c \in Threads : \E i \in DOMAIN workers : workers[i] = c
  BY DEF WorkersInv, HasHandle
<1>5. Len(Reaped) <= MaxThreads
  BY <1>1, <1>2, ThreadAssumption DEF WorkersInv
<1>. QED BY <1>2, <1>3, <1>4, <1>5

\* Every step keeps WorkersInv.
LEMMA WorkersStep ==
    ASSUME LeaseInv, ServerInv, WorkersInv, [Next]_vars
    PROVE  WorkersInv'
<1>0. pc \in [Conn -> Places]
  BY DEF LeaseInv, Places
<1>. USE DEF Goto, request, loop, lifecycle, Return
<1>1. ASSUME NEW c \in Conn, Connect(c) \/ Receive(c) \/ Advance(c)
      PROVE  WorkersInv'
  <2>1. UNCHANGED <<server, outcome, workers>>
    BY <1>1 DEF Connect, Receive, Advance, BeginConnection, Authorize, BeginRequest, Execute, Panic,
                WriteResponse, ReleaseRequest, ReleaseConnection
  <2>2. Threads' \subseteq Threads
    <3>1. \A d \in Conn : d # c => pc'[d] = pc[d]
      BY <1>0, <1>1 DEF Connect, Receive, Advance, BeginConnection, Authorize, BeginRequest, Execute,
                        Panic, WriteResponse, ReleaseRequest, ReleaseConnection
    <3>2. pc[c] \notin {"away"} => c \in Threads
      BY <1>1 DEF Connect, Receive, Advance, BeginConnection, Authorize, BeginRequest, Execute,
                  Panic, WriteResponse, ReleaseRequest, ReleaseConnection, Threads, Open
    <3>3. pc[c] = "away" => pc'[c] = "backlog"
      BY <1>0, <1>1 DEF Connect, Receive, Advance, BeginConnection, Authorize, BeginRequest, Execute,
                        Panic, WriteResponse, ReleaseRequest, ReleaseConnection
    <3>. QED BY <3>1, <3>2, <3>3 DEF Threads, Open
  <2>. QED BY <2>1, <2>2, ThreadsOnlyEnd
<1>2. ASSUME pc' = pc \/ pc' = HangUp
      PROVE  Threads' \subseteq Threads
  BY <1>0, <1>2 DEF HangUp, Threads, Open
<1>3. CASE Boot \/ Poll \/ BeginShutdown \/ Drain \/ DrainTimeout
  <2>1. /\ workers' = workers /\ server # "returned"
        /\ server' = "returned" => outcome' # "ok"
        /\ pc' = pc \/ pc' = HangUp
    BY <1>3 DEF Boot, Poll, BeginShutdown, Drain, DrainTimeout
  <2>. QED BY <1>2, <2>1, ThreadsOnlyEnd
<1>4. CASE Accept
  <2>1. server = "accepting" /\ outcome' \in {outcome, "panicked", "io"}
    BY <1>4 DEF Accept
  <2>2. ASSUME NEW c \in Conn, pc[c] = "backlog", server' = "polling",
               workers' = IF Full THEN Reaped ELSE Append(Reaped, c),
               pc' = [pc EXCEPT ![c] = IF Full THEN "dropped" ELSE "spawned"]
        PROVE  WorkersInv'
    <3>1. /\ Reaped \in Seq(Conn) /\ Len(Reaped) <= MaxThreads
          /\ \A d \in Threads : \E i \in DOMAIN Reaped : Reaped[i] = d
      BY <2>1, ReapedKeepsThreads
    <3>2. CASE Full
      <4>1. Threads' \subseteq Threads
        BY <1>0, <2>2, <3>2 DEF Threads, Open
      <4>. QED BY <2>2, <3>1, <3>2, <4>1 DEF WorkersInv, HasHandle
    <3>3. CASE ~Full
      <4>1. Threads' \subseteq Threads \cup {c}
        BY <1>0, <2>2, <3>3 DEF Threads, Open
      <4>2. /\ workers' \in Seq(Conn) /\ Len(workers') = Len(Reaped) + 1
            /\ \A i \in 1 .. Len(Reaped) : workers'[i] = Reaped[i]
            /\ workers'[Len(Reaped) + 1] = c
            /\ DOMAIN workers' = 1 .. Len(Reaped) + 1
            /\ DOMAIN Reaped = 1 .. Len(Reaped) /\ Len(Reaped) \in Nat
        BY <2>2, <3>1, <3>3, AppendProperties, LenProperties
      <4>3. Len(workers') <= MaxThreads
        BY <3>3, <4>2, ThreadAssumption DEF Full
      <4>4. \A d \in Threads \cup {c} : \E i \in DOMAIN workers' : workers'[i] = d
        BY <3>1, <4>2
      <4>. QED BY <2>2, <4>1, <4>2, <4>3, <4>4 DEF WorkersInv, HasHandle
    <3>. QED BY <3>2, <3>3
  <2>3. ASSUME workers' = workers, pc' = pc \/ pc' = HangUp, server' = "returned" => outcome' # "ok"
        PROVE  WorkersInv'
    BY <1>2, <2>1, <2>3, ThreadsOnlyEnd
  <2>. QED BY <1>4, <2>2, <2>3 DEF Accept
<1>5. CASE Join
  <2>1. server = "joining" /\ (pc' = pc \/ pc' = HangUp)
    BY <1>5 DEF Join
  <2>2. Threads' \subseteq Threads
    BY <1>2, <2>1
  <2>3. CASE workers = <<>>
    <3>1. Threads = {}
      BY <2>1, <2>3 DEF WorkersInv, HasHandle
    <3>2. workers' = workers
      BY <1>5, <2>3 DEF Join
    <3>. QED BY <2>2, <3>1, <3>2 DEF WorkersInv, HasHandle
  <2>4. CASE workers # <<>> /\ server' = "returned"
    <3>1. workers' = workers /\ outcome' = "panicked"
      BY <1>5, <2>1, <2>4 DEF Join
    <3>. QED BY <2>1, <2>2, <2>4, <3>1, ThreadsOnlyEnd
  <2>5. CASE workers # <<>> /\ server' # "returned"
    <3>1. workers' = Tail(workers) /\ Finished(Head(workers)) /\ server' = server
      BY <1>5, <2>5 DEF Join
    <3>2. /\ workers' \in Seq(Conn) /\ Len(workers') = Len(workers) - 1
          /\ \A i \in 1 .. Len(workers') : workers'[i] = workers[i + 1]
          /\ workers \in Seq(Conn) /\ Len(workers) \in Nat
          /\ DOMAIN workers = 1 .. Len(workers) /\ DOMAIN workers' = 1 .. Len(workers')
      BY <2>5, <3>1, HeadTailProperties, LenProperties DEF WorkersInv
    <3>3. ASSUME NEW c \in Threads
          PROVE  \E i \in DOMAIN workers' : workers'[i] = c
      <4>1. PICK i \in DOMAIN workers : workers[i] = c
        BY <2>1 DEF WorkersInv, HasHandle
      <4>2. i # 1
        BY <2>5, <3>1, <3>2, <4>1 DEF Finished, Threads, Open
      <4>3. i - 1 \in DOMAIN workers' /\ workers'[i - 1] = workers[i]
        BY <3>2, <4>1, <4>2
      <4>. QED BY <4>1, <4>3
    <3>4. Len(workers') <= MaxThreads
      BY <3>2, ThreadAssumption DEF WorkersInv
    <3>. QED BY <2>2, <2>5, <3>1, <3>2, <3>3, <3>4 DEF WorkersInv, HasHandle
  <2>. QED BY <2>3, <2>4, <2>5
<1>6. CASE UNCHANGED vars
  BY <1>6, ThreadsOnlyEnd DEF vars, Threads, Open
<1>. QED BY <1>1, <1>3, <1>4, <1>5, <1>6 DEF Next, Serve

\* The handles account for the threads.
THEOREM WorkersCorrect == Spec => []WorkersInv
<1>1. Init => WorkersInv
  BY ThreadAssumption DEF Init, WorkersInv, Threads, Open
<1>2. LeaseInv /\ ServerInv /\ WorkersInv /\ [Next]_vars => WorkersInv'
  BY WorkersStep
<1>. QED BY <1>1, <1>2, LeasesCorrect, ServerCorrect, PTL DEF Spec

\* There are never more connection threads than MAX_CONNECTION_THREADS.
THEOREM ThreadsBounded == Spec => []ThreadsAreBounded
<1>1. WorkersInv => ThreadsAreBounded
  <2>. SUFFICES ASSUME WorkersInv, server # "returned"
                PROVE  Cardinality(Threads) <= MaxThreads
    BY DEF ThreadsAreBounded, Threads
  <2> DEFINE places == {i \in DOMAIN workers : workers[i] \in Threads}
  <2>1. /\ workers \in Seq(Conn) /\ Len(workers) \in Nat /\ DOMAIN workers = 1 .. Len(workers)
        /\ Len(workers) <= MaxThreads
    BY LenProperties DEF WorkersInv
  <2>2. IsFiniteSet(1 .. Len(workers)) /\ Cardinality(1 .. Len(workers)) = Len(workers)
    <3>1. 1 \in Int /\ Len(workers) \in Int
      BY <2>1
    <3>2. IsFiniteSet(1 .. Len(workers))
          /\ Cardinality(1 .. Len(workers)) = IF 1 > Len(workers) THEN 0 ELSE Len(workers) - 1 + 1
      BY <3>1, FS_Interval
    <3>. QED BY <2>1, <3>2
  <2>3. IsFiniteSet(places) /\ Cardinality(places) <= Len(workers) /\ Cardinality(places) \in Nat
    BY <2>1, <2>2, FS_Subset, FS_CardinalityType
  <2> DEFINE f == [i \in places |-> workers[i]]
  <2>4. f \in Surjection(places, Threads)
    BY DEF Surjection, WorkersInv, HasHandle
  <2>5. Cardinality(Threads) <= Cardinality(places)
    <3> HIDE DEF f, places
    <3>. QED BY <2>3, <2>4, FS_Surjection
  <2>6. Cardinality(Threads) \in Nat
    BY OneMore, ConnAssumption, FS_Subset, FS_CardinalityType DEF Threads
  <2>. QED BY <2>1, <2>3, <2>5, <2>6, ThreadAssumption
<1>. QED BY <1>1, WorkersCorrect, PTL

\* When serve has returned nothing is admitted, and after Ok no thread is left.
THEOREM NothingIsLeft == Spec => []NothingAfterReturn
<1>1. ServerInv /\ WorkersInv => NothingAfterReturn
  BY DEF ServerInv, WorkersInv, NothingAfterReturn, Threads
<1>. QED BY <1>1, ServerCorrect, WorkersCorrect, PTL

\* Every variable of the daemon keeps its type, for any number of clients.
THEOREM TypeCorrect == Spec => []TypeOK
<1>1. Init => TypeOK
  BY DEF Init, TypeOK
<1>2. TypeOK /\ LeaseInv' /\ WorkersInv' /\ [Next]_vars => TypeOK'
  <2>. SUFFICES ASSUME TypeOK, LeaseInv', WorkersInv', [Next]_vars
                PROVE  TypeOK'
    OBVIOUS
  <2>0. workers' \in Seq(Conn)
    BY DEF WorkersInv
  <2>. USE <2>0 DEF TypeOK, LeaseInv, Goto, Fault, request, loop, lifecycle
  <2>1. ASSUME NEW c \in Conn, Connect(c) PROVE TypeOK'
    BY <2>1 DEF Connect
  <2>2. ASSUME NEW c \in Conn, Receive(c) PROVE TypeOK'
    BY <2>2 DEF Receive
  <2>3. ASSUME NEW c \in Conn, BeginConnection(c) PROVE TypeOK'
    BY <2>3 DEF BeginConnection
  <2>4. ASSUME NEW c \in Conn, Authorize(c) PROVE TypeOK'
    BY <2>4 DEF Authorize
  <2>5. ASSUME NEW c \in Conn, BeginRequest(c) PROVE TypeOK'
    BY <2>5 DEF BeginRequest
  <2>6. ASSUME NEW c \in Conn, Execute(c) PROVE TypeOK'
    BY <2>6 DEF Execute
  <2>7. ASSUME NEW c \in Conn, Panic(c) PROVE TypeOK'
    BY <2>7 DEF Panic
  <2>8. ASSUME NEW c \in Conn, WriteResponse(c) PROVE TypeOK'
    BY <2>8 DEF WriteResponse
  <2>9. ASSUME NEW c \in Conn, ReleaseRequest(c) PROVE TypeOK'
    BY <2>9 DEF ReleaseRequest
  <2>10. ASSUME NEW c \in Conn, ReleaseConnection(c) PROVE TypeOK'
    BY <2>10 DEF ReleaseConnection
  <2>. USE DEF Return
  <2>11. CASE Boot
    BY <2>11 DEF Boot
  <2>12. CASE Poll
    BY <2>12 DEF Poll
  <2>13. CASE Accept
    BY <2>13 DEF Accept
  <2>14. CASE BeginShutdown
    BY <2>14 DEF BeginShutdown
  <2>15. CASE Drain
    BY <2>15 DEF Drain
  <2>16. CASE DrainTimeout
    BY <2>16 DEF DrainTimeout
  <2>17. CASE Join
    BY <2>17 DEF Join
  <2>18. CASE UNCHANGED vars
    BY <2>18 DEF vars
  <2>. QED BY <2>1, <2>2, <2>3, <2>4, <2>5, <2>6, <2>7, <2>8, <2>9, <2>10, <2>11,
              <2>12, <2>13, <2>14, <2>15, <2>16, <2>17, <2>18
           DEF Next, Advance, Serve
<1>. QED BY <1>1, <1>2, LeasesCorrect, WorkersCorrect, PTL DEF Spec
=============================================================================
