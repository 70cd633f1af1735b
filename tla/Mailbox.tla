------------------------------- MODULE Mailbox -------------------------------
(***************************************************************************)
(* The mailbox of kernel/ipc-mailbox.ts: a priority queue of messages that *)
(* a poll loop hands to asynchronous handlers, requests that wait for a    *)
(* reply with the same correlation id, a dead-letter queue, and a file to  *)
(* which messages are appended when they are sent and from which the next  *)
(* process takes them over.                                                *)
(*                                                                         *)
(* A step is what the event loop does between two awaits. Sending, to this *)
(* or another name, puts the message in this mailbox's own queue.          *)
(***************************************************************************)
EXTENDS Naturals, Sequences, FiniteSets, FiniteSetsExt, SequencesExt, Sifting

CONSTANTS
    Plain,      \* messages that expect no reply
    Request,    \* correlation ids of the requests
    Unheard,    \* the plain messages of types nobody handles
    Loop,       \* poll loops that may come to exist
    Batch,      \* BATCH_LIMIT, messages in a poll cycle
    DlqMax,     \* DLQ_MAX_SIZE
    NoLoop,     \* #pollTimer is null
    MaxStops,   \* bound on calls of stop
    MaxCrashes, \* bound on crashes
    MaxExpired  \* bound on messages that outlive their ttl

ASSUME MailboxAssumption ==
    /\ Unheard \subseteq Plain
    /\ NoLoop \notin Loop /\ IsFiniteSet(Loop)
    /\ {Batch, DlqMax} \subseteq Nat \ {0}
    /\ {MaxStops, MaxCrashes, MaxExpired} \subseteq Nat

Plains   == {[kind |-> "plain", id |-> p] : p \in Plain}
Requests == {[kind |-> "request", id |-> r] : r \in Request}
Replies  == {[kind |-> "reply", id |-> r] : r \in Request}
Message  == Plains \cup Requests \cup Replies
Nothing  == [kind |-> "nothing", id |-> NoLoop]

\* A loop that does not exist ("none"), or waits for its timer ("timer").
Resting(how) == [how |-> how, message |-> Nothing, left |-> 0]

VARIABLES
    up,       \* there is a process
    polling,  \* #running
    timer,    \* #pollTimer: the loop whose timer was set last
    loops,    \* what a poll loop does: [how, message, left]
    queue,    \* #queue, in order of arrival
    dlq,      \* #dlq
    waiters,  \* #replyWaiters
    request,  \* where a request stands, for its caller
    writable, \* there is a #persistStream
    file,     \* what was given to it
    saved,    \* how much of it has reached the file
    sent,     \* messages sent
    expired,  \* messages whose ttl has passed
    heard,    \* messages that were handed to a handler
    settled,  \* messages delivered or dead, in this process
    spent     \* [stops, crashes]

poll   == <<polling, timer, loops>>
letter == <<queue, dlq, waiters, request, settled>>
disk   == <<writable, file, saved>>
ghosts == <<sent, expired, heard, spent>>
vars   == <<up, poll, letter, disk, ghosts>>

Init ==
    /\ up = TRUE
    /\ polling = FALSE
    /\ timer = NoLoop
    /\ loops = [l \in Loop |-> Resting("none")]
    /\ queue = <<>>
    /\ dlq = <<>>
    /\ waiters = {}
    /\ request = [r \in Request |-> "none"]
    /\ writable = TRUE
    /\ file = <<>>
    /\ saved = 0
    /\ sent = {}
    /\ expired = {}
    /\ heard = {}
    /\ settled = {}
    /\ spent = [stops |-> 0, crashes |-> 0]

-----------------------------------------------------------------------------
(* Sending.                                                                *)

\* send
Send(m) ==
    /\ up
    /\ m \notin sent
    /\ queue' = Append(queue, m)
    /\ file' = IF writable THEN Append(file, m) ELSE file
    /\ sent' = sent \cup {m}

SendPlain(m) ==
    /\ m \in Plains
    /\ Send(m)
    /\ UNCHANGED <<up, poll, dlq, waiters, request, settled, writable, saved, expired, heard, spent>>

\* request up to its await: the message is queued, nobody waits yet.
SendRequest(r) ==
    /\ Send([kind |-> "request", id |-> r])
    /\ request' = [request EXCEPT ![r] = "sent"]
    /\ UNCHANGED <<up, poll, dlq, waiters, settled, writable, saved, expired, heard, spent>>

\* The rest of request: the waiter and its timer.
AwaitReply(r) ==
    /\ up
    /\ request[r] = "sent"
    /\ request' = [request EXCEPT ![r] = "waiting"]
    /\ waiters' = waiters \cup {r}
    /\ UNCHANGED <<up, poll, queue, dlq, settled, disk, ghosts>>

\* Bug: the waiter stays when its request has timed out.
BugAfterTimeout(r) == waiters

AfterTimeout(r) == waiters \ {r}

TimeOut(r) ==
    /\ up
    /\ r \in waiters
    /\ request' = [request EXCEPT ![r] = "timeout"]
    /\ waiters' = AfterTimeout(r)
    /\ UNCHANGED <<up, poll, queue, dlq, settled, disk, ghosts>>

\* reply, by a handler of the request, now or later
Reply(r) ==
    /\ [kind |-> "request", id |-> r] \in heard
    /\ Send([kind |-> "reply", id |-> r])
    /\ UNCHANGED <<up, poll, dlq, waiters, request, settled, writable, saved, expired, heard, spent>>

-----------------------------------------------------------------------------
(* The poll loops.                                                         *)

\* Bug: a cycle does not arrange for the next.
BugSchedule(l) == loops' = [loops EXCEPT ![l] = Resting("none")] /\ UNCHANGED timer

\* #schedulePoll, for the loop l
Schedule(l) ==
    IF polling
    THEN /\ loops' = [loops EXCEPT ![l] = Resting("timer")]
         /\ timer' = l
    ELSE /\ loops' = [loops EXCEPT ![l] = Resting("none")]
         /\ UNCHANGED timer

\* Bug: start does not look whether the mailbox is polling already.
BugMayStart == TRUE

MayStart == ~polling

Start ==
    /\ up
    /\ MayStart
    /\ polling' = TRUE
    /\ \E l \in Loop :
          /\ loops[l].how = "none"
          /\ loops' = [loops EXCEPT ![l] = Resting("timer")]
          /\ timer' = l
    /\ UNCHANGED <<up, letter, disk, ghosts>>

\* The timer that was set last is cleared; a cycle that has begun goes on.
StopPolling ==
    /\ polling' = FALSE
    /\ timer' = NoLoop
    /\ loops' = [l \in Loop |-> IF l = timer /\ loops[l].how = "timer"
                                THEN Resting("none")
                                ELSE loops[l]]

Stop ==
    /\ up
    /\ polling
    /\ spent.stops < MaxStops
    /\ spent' = [spent EXCEPT !.stops = @ + 1]
    /\ StopPolling
    /\ UNCHANGED <<up, letter, disk, sent, expired, heard>>

\* Bug: close forgets the waiters and their timers without telling them.
BugAfterClose == request

AfterClose == [r \in Request |-> IF r \in waiters THEN "closed" ELSE request[r]]

\* close, after which the file is no longer written.
Close ==
    /\ up
    /\ spent.stops < MaxStops
    /\ spent' = [spent EXCEPT !.stops = @ + 1]
    /\ StopPolling
    /\ request' = AfterClose
    /\ waiters' = {}
    /\ writable' = FALSE
    /\ UNCHANGED <<up, queue, dlq, settled, file, saved, sent, expired, heard>>

\* #pushDLQ drops the oldest entries.
Trim(d) == IF Len(d) > DlqMax THEN SubSeq(d, Len(d) + 1 - DlqMax, Len(d)) ELSE d

\* dequeue: replies are sent with high priority, the rest with the normal one.
First(q) ==
    LET urgent == {i \in DOMAIN q : q[i] \in Replies}
    IN Min(IF urgent # {} THEN urgent ELSE DOMAIN q)

\* Bug: the message is looked at and left in the queue.
BugWithout(q, i) == q

Without(q, i) == RemoveAt(q, i)

\* What ends a request: another copy of it that is delivered, or its reply.
Got == [request |-> "got request", reply |-> "got reply"]

\* drainExpired: the bucket of the replies is swept first.
Late == Sifted(queue, expired \cap Replies) \o Sifted(queue, expired \ Replies)

InTime(q) == Sifted(q, Range(q) \ expired)

\* A cycle of loop l goes on with the messages q, `left` more of them: it
\* ends, or takes the first and dispatches it up to the await.
TakeOrEnd(l, q, left) ==
    \/ /\ q = <<>> \/ left = 0
       /\ queue' = q
       /\ Schedule(l)
       /\ UNCHANGED <<waiters, request, heard>>
    \/ /\ q # <<>> /\ left > 0
       /\ LET m == q[First(q)]
              Goes(how) == loops' = [loops EXCEPT ![l] =
                              [how |-> how, message |-> m, left |-> left - 1]]
          IN /\ queue' = Without(q, First(q))
             /\ UNCHANGED timer
             /\ \/ /\ m \notin Plains /\ m.id \in waiters
                   /\ waiters' = waiters \ {m.id}
                   /\ request' = [request EXCEPT ![m.id] = Got[m.kind]]
                   /\ Goes("done")
                   /\ UNCHANGED heard
                \/ /\ m \in Plains \/ m.id \notin waiters
                   /\ m \in Replies \/ m.id \in Unheard
                   /\ Goes("failed")
                   /\ UNCHANGED <<waiters, request, heard>>
                \/ /\ m \in Plains \/ m.id \notin waiters
                   /\ ~(m \in Replies \/ m.id \in Unheard)
                   /\ Goes("handled")
                   /\ heard' = heard \cup {m}
                   /\ UNCHANGED <<waiters, request>>

\* The timer fires: a cycle evicts what has expired and begins.
Fire(l) ==
    /\ up
    /\ loops[l].how = "timer"
    /\ dlq' = Trim(dlq \o Late)
    /\ settled' = settled \cup Range(Late)
    /\ \E q \in {InTime(queue)} : TakeOrEnd(l, q, Batch)
    /\ UNCHANGED <<up, polling, disk, sent, expired, spent>>

Busy(l) == loops[l].how \notin {"none", "timer"}

\* Bug: the message that could not be delivered is not recorded.
BugDead(m) == dlq

Dead(m) == Trim(Append(dlq, m))

\* The dispatch is over; a handler may have thrown.
Settle(l) ==
    /\ up
    /\ Busy(l)
    /\ \/ /\ loops[l].how \in {"done", "handled"}
          /\ UNCHANGED dlq
       \/ /\ loops[l].how \in {"failed", "handled"}
          /\ dlq' = Dead(loops[l].message)
    /\ settled' = settled \cup {loops[l].message}
    /\ TakeOrEnd(l, queue, loops[l].left)
    /\ UNCHANGED <<up, polling, disk, sent, expired, spent>>

-----------------------------------------------------------------------------
(* Time, the disk, and the end of the process.                             *)

Expire(m) ==
    /\ m \in sent \ expired
    /\ Cardinality(expired) < MaxExpired
    /\ expired' = expired \cup {m}
    /\ UNCHANGED <<up, poll, letter, disk, sent, heard, spent>>

\* The stream writes when it gets to it.
Save ==
    /\ up
    /\ saved < Len(file)
    /\ saved' = Len(file)
    /\ UNCHANGED <<up, poll, letter, writable, file, ghosts>>

Crash ==
    /\ up
    /\ spent.crashes < MaxCrashes
    /\ spent' = [spent EXCEPT !.crashes = @ + 1]
    /\ up' = FALSE
    /\ polling' = FALSE
    /\ timer' = NoLoop
    /\ loops' = [l \in Loop |-> Resting("none")]
    /\ queue' = <<>>
    /\ dlq' = <<>>
    /\ waiters' = {}
    /\ settled' = {}
    /\ request' = [r \in Request |-> IF request[r] = "none" THEN "none" ELSE "lost"]
    /\ file' = SubSeq(file, 1, saved)
    /\ UNCHANGED <<writable, saved, sent, expired, heard>>

\* The constructor: #loadPersistedMessages truncates the file that it loaded.
Restart ==
    /\ ~up
    /\ up' = TRUE
    /\ queue' = InTime(file)
    /\ file' = <<>>
    /\ saved' = 0
    /\ writable' = TRUE
    /\ UNCHANGED <<poll, dlq, waiters, request, settled, ghosts>>

-----------------------------------------------------------------------------
Next ==
    \/ \E m \in Plains : SendPlain(m)
    \/ \E r \in Request : SendRequest(r) \/ AwaitReply(r) \/ TimeOut(r) \/ Reply(r)
    \/ Start \/ Stop \/ Close
    \/ \E l \in Loop : Fire(l) \/ Settle(l)
    \/ \E m \in Message : Expire(m)
    \/ Save \/ Crash \/ Restart

Spec == Init /\ [][Next]_vars

\* Timers fire, awaits resume and handlers settle. Nobody need start the mailbox.
FairSpec ==
    /\ Spec
    /\ \A r \in Request : WF_vars(AwaitReply(r)) /\ WF_vars(TimeOut(r))
    /\ \A l \in Loop : WF_vars(Fire(l)) /\ WF_vars(Settle(l))
=============================================================================
