---------------------------- MODULE MailboxProps ----------------------------
(* What a mailbox must guarantee.                                          *)
EXTENDS Mailbox

InFlight == {loops[l].message : l \in {k \in Loop : Busy(k)}}

\* Every variable has its type; the dead letters are never more than DlqMax.
TypeOK ==
    /\ up \in BOOLEAN
    /\ polling \in BOOLEAN
    /\ timer \in Loop \cup {NoLoop}
    /\ \A l \in Loop :
          IF Busy(l)
          THEN loops[l] \in [how : {"done", "failed", "handled"},
                             message : Message, left : 0 .. Batch - 1]
          ELSE loops[l] \in {Resting("none"), Resting("timer")}
    /\ queue \in Seq(Message)
    /\ dlq \in Seq(Message) /\ Len(dlq) <= DlqMax
    /\ waiters \subseteq Request
    /\ request \in [Request -> {"none", "sent", "waiting", "timeout", "closed", "lost",
                                "got request", "got reply"}]
    /\ writable \in BOOLEAN
    /\ file \in Seq(Message) /\ saved \in 0 .. Len(file)
    /\ sent \subseteq Message
    /\ expired \subseteq sent
    /\ heard \subseteq sent
    /\ settled \subseteq sent
    /\ spent \in [stops : 0 .. MaxStops, crashes : 0 .. MaxCrashes]

\* A message is in one place, the queue, a cycle that awaits its handlers, or
\* settled, however many cycles interleave: none is handed out twice by one
\* process, and without a crash none disappears.
OnePlace ==
    /\ Cardinality(Range(queue)) = Len(queue)
    /\ Cardinality(InFlight) = Cardinality({l \in Loop : Busy(l)})
    /\ Range(queue) \cap InFlight = {}
    /\ (Range(queue) \cup InFlight) \cap settled = {}
    /\ spent.crashes = 0 => sent = Range(queue) \cup InFlight \cup settled

\* What nobody handles ends in the dead-letter queue, the last messages at
\* least; it is not dropped.
UnheardIsDead ==
    \A m \in settled : (m \in Plains /\ m.id \in Unheard) =>
        m \in Range(dlq) \/ Len(dlq) = DlqMax

\* The promise of a request is settled once: a waiter is there exactly as long
\* as its caller waits, so an answer that comes after the timeout or after
\* close finds nobody, and no waiter is leaked.
WaitersAreWaiting == waiters = {r \in Request : request[r] = "waiting"}

\* start is called when the mailbox polls already, and again while a cycle
\* that stop could not interrupt is still awaiting a handler: only the latter
\* adds a poll loop.
LoopsAreBounded ==
    Cardinality({l \in Loop : loops[l].how # "none"}) <= 1 + spent.stops

\* The caller of request hears something in the end.
RequestEnds ==
    \A r \in Request : request[r] = "sent" ~> request[r] \notin {"sent", "waiting"}

\* While the mailbox polls, every message in the queue is delivered or ends among
\* the dead letters, those of an earlier process too, whichever loops an earlier
\* stop has left. Nothing is said of a mailbox that nobody has started, or that
\* was stopped or closed and is not started again: its messages wait.
EveryMessageSettles ==
    \A m \in Message : (polling /\ m \in Range(queue)) ~> (~polling \/ m \in settled)
=============================================================================
