------------------------------ MODULE TaskQueue ------------------------------
(***************************************************************************)
(* The persistent task queue of kernel/task-queue.ts: tasks wait in        *)
(* priority buckets, a poll cycle hands them to asynchronous handlers,     *)
(* failures are retried or end in the dead-letter queue, and every change  *)
(* is an event that is buffered and later appended to the log of the day,  *)
(* from which a new process recovers.                                      *)
(*                                                                         *)
(* A step is one callback of the event loop; the poll cycle is split at    *)
(* its dispatches, between which nothing but time can pass.                *)
(***************************************************************************)
EXTENDS Naturals, Sequences, FiniteSets, FiniteSetsExt, SequencesExt, Sifting

CONSTANTS
    Task,           \* the tasks that callers may enqueue, each with a fresh id
    Key,            \* idempotency keys
    NoKey,
    KeyOf,          \* the idempotencyKey of a task, or NoKey
    Level,          \* its priority: a lower level goes first
    Handled,        \* the tasks for whose type a handler is registered
    Mortal,         \* those whose ttl may pass
    MaxRetries,     \* maxRetries
    Concurrency,    \* the slots for running tasks
    DlqMax,         \* DEFAULTS.DLQ_MAX
    Kept,           \* events kept when they cannot be appended: 200
    Imports,        \* whether the import of ./backoff.js may succeed, or fail
    MaxCancels,     \* bound on cancelled tasks
    MaxStops,       \* bound on calls of stop
    MaxErrors,      \* bound on failed appends
    MaxRestarts,    \* bound on processes after the first
    MaxDays         \* bound on midnights

ASSUME TaskAssumption ==
    /\ IsFiniteSet(Task)
    /\ KeyOf \in [Task -> Key \cup {NoKey}] /\ NoKey \notin Key
    /\ Level \in [Task -> 0 .. 4]
    /\ Handled \subseteq Task /\ Mortal \subseteq Task
    /\ Imports \subseteq BOOLEAN
    /\ {MaxRetries, MaxCancels, MaxStops, MaxErrors, MaxRestarts, MaxDays} \subseteq Nat
    /\ {Concurrency, DlqMax, Kept} \subseteq Nat \ {0}

VARIABLES
    up,         \* there is a process
    loaded,     \* its import of ./backoff.js succeeded
    active,     \* #active: the poll and flush timers are set
    cycle,      \* the poll cycle: "idle", "filling" slots, "calling" a handler
    queue,      \* #queue, in order of arrival: [task, attempts]
    running,    \* #running: [task, attempts]
    keys,       \* #idempotencySet
    dlq,        \* #dlq, oldest first
    buffer,     \* #writeBuffer: [task, state, attempts]
    log,        \* the events that can be read in the log of today
    edge,       \* its last line: "whole", cut off in the middle ("half"), or an
                \* event that can be read and only lacks its newline ("bare")
    forgotten,  \* tasks with an event that was dropped, was spoilt by a line cut
                \* off, or is in an older log
    due,        \* tasks whose scheduledAt has passed
    expired,    \* tasks whose ttl has passed
    accepted,   \* tasks that were enqueued, ever
    ended,      \* [DONE, EXPIRED, CANCELLED, DLQ -> the tasks that got there]
    used        \* how much of each bound is used up

memory  == <<queue, running, keys, dlq, buffer>>
store   == <<log, edge, forgotten>>
clock   == <<due, expired>>
history == <<accepted, ended, used>>
process == <<up, loaded>>
vars    == <<process, active, cycle, memory, store, clock, history>>

Ends == {"DONE", "EXPIRED", "CANCELLED", "DLQ"}

Init ==
    /\ up = TRUE
    /\ loaded \in Imports
    /\ active = FALSE
    /\ cycle = "idle"
    /\ queue = <<>>
    /\ running = {}
    /\ keys = {}
    /\ dlq = <<>>
    /\ buffer = <<>>
    /\ log = <<>>
    /\ edge = "whole"
    /\ forgotten = {}
    /\ due = {}
    /\ expired = {}
    /\ accepted = {}
    /\ ended = [e \in Ends |-> {}]
    /\ used = [b \in {"cancel", "stop", "error", "restart", "day"} |-> 0]

-----------------------------------------------------------------------------
(* Helpers.                                                                *)

Entry(t, n) == [task |-> t, attempts |-> n]

Event(x, state) == [task |-> x.task, state |-> state, attempts |-> x.attempts]

TasksOf(xs) == {x.task : x \in xs}

Queued == TasksOf(Range(queue))

Running == TasksOf(running)

Spend(b, max) == used[b] < max /\ used' = [used EXCEPT ![b] = @ + 1]

Ended(e, ts) == ended' = [ended EXCEPT ![e] = @ \cup ts]

Forget(ts) == forgotten' = forgotten \cup ts

FreeKeys(ts) == keys' = keys \ {KeyOf[t] : t \in ts}

\* Between two callbacks of the event loop.
Idle == up /\ cycle = "idle"

\* Bug: an entry more than the queue may hold.
BugMakeRoom == IF Len(dlq) > DlqMax THEN Tail(dlq) ELSE dlq

\* A full dead-letter queue drops its oldest entry.
MakeRoom == IF Len(dlq) >= DlqMax THEN Tail(dlq) ELSE dlq

\* #pushDLQ
PushDLQ(x) ==
    /\ dlq' = Append(MakeRoom, x.task)
    /\ Ended("DLQ", {x.task})

-----------------------------------------------------------------------------
(* The public interface.                                                   *)

\* A key that is taken makes enqueue return null; a new task is due at once
\* or at its scheduledAt.
Enqueue(t) ==
    /\ Idle
    /\ t \notin accepted
    /\ KeyOf[t] \notin keys
    /\ keys' = keys \cup ({KeyOf[t]} \ {NoKey})
    /\ queue' = Append(queue, Entry(t, 0))
    /\ buffer' = Append(buffer, Event(Entry(t, 0), "QUEUED"))
    /\ accepted' = accepted \cup {t}
    /\ due' \in {due, due \cup {t}}
    /\ UNCHANGED <<process, active, cycle, running, dlq, store, expired, ended, used>>

\* A task without a title or a type is refused after its key was taken.
EnqueueInvalid(k) ==
    /\ Idle
    /\ k \notin keys
    /\ keys' = keys \cup {k}
    /\ UNCHANGED <<process, active, cycle, queue, running, dlq, buffer, store, clock, history>>

\* cancel records the end of the task and frees its key; the task itself is
\* left in its bucket.
Cancel(t) ==
    /\ Idle
    /\ \E i \in DOMAIN queue :
          /\ queue[i].task = t
          /\ buffer' = Append(buffer, Event(queue[i], "CANCELLED"))
    /\ FreeKeys({t})
    /\ Ended("CANCELLED", {t})
    /\ Spend("cancel", MaxCancels)
    /\ UNCHANGED <<process, active, cycle, queue, running, dlq, store, clock, accepted>>

Start ==
    /\ Idle
    /\ ~active
    /\ active' = TRUE
    /\ UNCHANGED <<process, cycle, memory, store, clock, history>>

ClearDLQ ==
    /\ Idle
    /\ dlq # <<>>
    /\ dlq' = <<>>
    /\ UNCHANGED <<process, active, cycle, queue, running, keys, buffer, store, clock, history>>

-----------------------------------------------------------------------------
(* The store.                                                              *)

\* Bug: events that could not be appended are dropped.
BugUnwritten == <<>>

\* What stays in the buffer when the append fails.
Unwritten == SubSeq(buffer, Max({1, Len(buffer) + 1 - Kept}), Len(buffer))

\* The oldest events make way.
Dropped == {buffer[i].task : i \in {j \in DOMAIN buffer : j + Kept <= Len(buffer)}}

\* How an append that breaks off after n events may end: there, or with the
\* newline of the last one missing, or in the middle of the next one.
Endings(n) == {"whole"} \cup {e \in {"bare"} : n > 0} \cup {e \in {"half"} : n < Len(buffer)}

\* An append continues the line that an earlier one left open.
Glued(n, end) == edge # "whole" /\ (n > 0 \/ end = "half")

\* The tasks of the events on that line, which nobody can parse any more.
Spoilt(n, end) ==
    {t \in Task :
        /\ Glued(n, end)
        /\ \/ edge = "bare" /\ t = Last(log).task
           \/ n > 0 /\ t = buffer[1].task}

\* n events and the given end reach the disk.
Write(n, end) ==
    /\ log' = (IF Glued(n, end) /\ edge = "bare" THEN Front(log) ELSE log)
                  \o SubSeq(buffer, IF Glued(n, end) THEN 2 ELSE 1, n)
    /\ edge' = IF n = 0 /\ end = "whole" THEN edge
               ELSE IF Glued(n, end) /\ n = 1 /\ end = "bare" THEN "half"
               ELSE end

\* #flushEvents. Events that could not be appended return to the buffer, the
\* ones that reached the disk as well; an event that cannot be stringified
\* throws before the try, and the batch is gone.
AppendEvents(spent) ==
    \/ /\ Write(Len(buffer), "whole")
       /\ Forget(Spoilt(Len(buffer), "whole"))
       /\ buffer' = <<>>
       /\ used' = spent
    \/ /\ buffer # <<>>
       /\ used["error"] < MaxErrors
       /\ used' = [spent EXCEPT !["error"] = @ + 1]
       /\ \/ /\ \E n \in 0 .. Len(buffer) : \E end \in Endings(n) :
                   Write(n, end) /\ Forget(Dropped \cup Spoilt(n, end))
             /\ buffer' = Unwritten
          \/ /\ Forget(TasksOf(Range(buffer)))
             /\ buffer' = <<>>
             /\ UNCHANGED <<log, edge>>

Flush ==
    /\ Idle
    /\ active
    /\ buffer # <<>>
    /\ AppendEvents(used)
    /\ UNCHANGED <<process, active, cycle, queue, running, keys, dlq, clock, accepted, ended>>

\* stop flushes once more, started or not; handlers that are running go on.
Stop ==
    /\ Idle
    /\ used["stop"] < MaxStops
    /\ active' = FALSE
    /\ AppendEvents([used EXCEPT !["stop"] = @ + 1])
    /\ UNCHANGED <<process, cycle, queue, running, keys, dlq, clock, accepted, ended>>

-----------------------------------------------------------------------------
(* The poll cycle.                                                         *)

\* The cycle begins by evicting what is past its ttl.
Evict ==
    /\ Idle
    /\ active
    /\ queue # <<>>
    /\ LET late == Sifted(queue, {x \in Range(queue) : x.task \in expired})
       IN /\ queue' = Sifted(queue, {x \in Range(queue) : x.task \notin expired})
          /\ buffer' = buffer \o [i \in DOMAIN late |-> Event(late[i], "EXPIRED")]
          /\ FreeKeys(TasksOf(Range(late)))
          /\ Ended("EXPIRED", TasksOf(Range(late)))
    /\ cycle' = "filling"
    /\ UNCHANGED <<process, active, running, dlq, store, clock, accepted, used>>

\* Bug: a task more than there are slots.
BugSlotFree == Cardinality(running) <= Concurrency

\* Bug: the last slot is never used.
BugLastSlot == Cardinality(running) + 1 < Concurrency

SlotFree == Cardinality(running) < Concurrency

Ready == {i \in DOMAIN queue : queue[i].task \in due}

\* The first of the most urgent tasks that are due.
NextUp ==
    CHOOSE i \in Ready : \A j \in Ready \ {i} :
        LET li == Level[queue[i].task]
            lj == Level[queue[j].task]
        IN li < lj \/ (li = lj /\ i < j)

\* Bug: the task that is dispatched stays in its bucket.
BugDequeued(i) == queue

Dequeued(i) == RemoveAt(queue, i)

\* #executeTask up to its await. A task nobody can handle is dead at once,
\* and keeps its key.
Dispatch ==
    /\ cycle = "filling"
    /\ SlotFree
    /\ Ready # {}
    /\ LET x == queue[NextUp]
           y == Entry(x.task, x.attempts + 1)
       IN /\ queue' = Dequeued(NextUp)
          /\ buffer' = Append(buffer, Event(y, "RUNNING"))
          /\ \/ /\ x.task \in Handled
                /\ running' = running \cup {y}
                /\ cycle' = "calling"
                /\ UNCHANGED <<dlq, ended>>
             \/ /\ x.task \notin Handled
                /\ PushDLQ(y)
                /\ UNCHANGED <<running, cycle>>
    /\ UNCHANGED <<process, active, keys, store, clock, accepted, used>>

\* The handler has returned a promise, or a result that is awaited like one.
Await ==
    /\ cycle = "calling"
    /\ cycle' = "filling"
    /\ UNCHANGED <<process, active, memory, store, clock, history>>

EndCycle ==
    /\ cycle = "filling"
    /\ ~SlotFree \/ Ready = {}
    /\ cycle' = "idle"
    /\ UNCHANGED <<process, active, memory, store, clock, history>>

-----------------------------------------------------------------------------
(* A handler settles.                                                      *)

HandlerReturns(x) ==
    /\ Idle
    /\ x \in running
    /\ running' = running \ {x}
    /\ FreeKeys({x.task})
    /\ buffer' = Append(buffer, Event(x, "DONE"))
    /\ Ended("DONE", {x.task})
    /\ UNCHANGED <<process, active, cycle, queue, dlq, store, clock, accepted, used>>

\* Bug: an attempt more than the retries allow.
BugCanRetry(x) == x.attempts <= MaxRetries + 1

CanRetry(x) == x.attempts <= MaxRetries

\* What waits for the retry; the attempt counts.
Retried(x) == Entry(x.task, x.attempts)

\* Bug: a task that waits for its retry gives up its key.
BugKeysAfterRetry(x) == keys \ {KeyOf[x.task]}

KeysAfterRetry(x) == keys

\* A promise is rejected, or the handler that is being called throws.
Rejected(x) ==
    \/ Idle /\ UNCHANGED cycle
    \/ cycle = "calling" /\ Last(buffer) = Event(x, "RUNNING") /\ cycle' = "filling"

\* #handleFailure. The import of the backoff binds a name of its own inside
\* its block: when it succeeds the outer computeBackoff stays undefined, the
\* retry throws, and executeTask's caller drops the rejection.
HandlerThrows(x) ==
    /\ x \in running
    /\ Rejected(x)
    /\ running' = running \ {x}
    /\ \/ /\ CanRetry(x)
          /\ loaded
          /\ UNCHANGED <<queue, keys, dlq, buffer, due, ended>>
       \/ /\ CanRetry(x)
          /\ ~loaded
          /\ queue' = Append(queue, Retried(x))
          /\ keys' = KeysAfterRetry(x)
          /\ buffer' = Append(buffer, Event(x, "QUEUED"))
          /\ due' \in {due, due \ {x.task}}
          /\ UNCHANGED <<dlq, ended>>
       \/ /\ ~CanRetry(x)
          /\ FreeKeys({x.task})
          /\ PushDLQ(x)
          /\ UNCHANGED <<queue, buffer, due>>
    /\ UNCHANGED <<process, active, store, expired, accepted, used>>

-----------------------------------------------------------------------------
(* Time, and the end of the process.                                       *)

BecomesDue(t) ==
    /\ t \in accepted \ due
    /\ due' = due \cup {t}
    /\ UNCHANGED <<process, active, cycle, memory, store, expired, history>>

Expires(t) ==
    /\ t \in (accepted \cap Mortal) \ expired
    /\ expired' = expired \cup {t}
    /\ UNCHANGED <<process, active, cycle, memory, store, due, history>>

\* From midnight on, events go to a new log, and only that one is recovered.
Midnight ==
    /\ cycle = "idle"
    /\ log # <<>> \/ edge # "whole"
    /\ log' = <<>>
    /\ edge' = "whole"
    /\ Forget(TasksOf(Range(log)))
    /\ Spend("day", MaxDays)
    /\ UNCHANGED <<process, active, cycle, memory, clock, accepted, ended>>

\* The process ends, in the middle of an append or of a line perhaps.
Crash ==
    /\ up
    /\ used["restart"] < MaxRestarts
    /\ up' = FALSE
    /\ active' = FALSE
    /\ cycle' = "idle"
    /\ queue' = <<>>
    /\ running' = {}
    /\ keys' = {}
    /\ dlq' = <<>>
    /\ buffer' = <<>>
    /\ \E n \in 0 .. Len(buffer) : \E end \in Endings(n) :
          /\ cycle = "idle" \/ (n = 0 /\ end = "whole")
          /\ Write(n, end)
          /\ Forget(Spoilt(n, end))
    /\ UNCHANGED <<loaded, clock, history>>

Traces(events, t) == {i \in DOMAIN events : events[i].task = t}

\* Bug: a task that is done is not among the ended ones.
BugEndedStates == {"CANCELLED", "DLQ", "EXPIRED"}

\* terminalStates
EndedStates == {"DONE", "CANCELLED", "DLQ", "EXPIRED"}

\* The tasks that are recovered from a log.
Recoverable(events) ==
    {t \in Task \ expired :
        /\ Traces(events, t) # {}
        /\ \A i \in Traces(events, t) : events[i].state \notin EndedStates}

\* The last event of a task.
Newest(events, t) == events[Max(Traces(events, t))]

\* The constructor: TaskStore.recover and #recoverTasks, in the order in which
\* the tasks were first logged.
Restart ==
    /\ ~up
    /\ Spend("restart", MaxRestarts)
    /\ up' = TRUE
    /\ loaded' \in Imports
    /\ LET firsts  == InOrder({Min(Traces(log, t)) : t \in Recoverable(log)})
           task(n) == log[firsts[n]].task
       IN queue' = [n \in DOMAIN firsts |->
                       Entry(task(n), Newest(log, task(n)).attempts)]
    /\ keys' = {KeyOf[t] : t \in Recoverable(log)} \ {NoKey}
    /\ due' = due \cup Recoverable(log)
    /\ UNCHANGED <<active, cycle, running, dlq, buffer, store, expired, accepted, ended>>

-----------------------------------------------------------------------------
Poll == Evict \/ Dispatch \/ Await \/ EndCycle

Settle(x) == HandlerReturns(x) \/ HandlerThrows(x)

Next ==
    \/ \E t \in Task : Enqueue(t) \/ Cancel(t) \/ BecomesDue(t) \/ Expires(t)
    \/ \E k \in Key : EnqueueInvalid(k)
    \/ Start \/ Stop \/ ClearDLQ
    \/ Poll
    \/ Flush
    \/ \E x \in running : Settle(x)
    \/ Midnight \/ Crash \/ Restart

Spec == Init /\ [][Next]_vars

\* The timers fire, time passes, and the queue is started by whoever creates
\* it. Every handler settles: strongly fair, for its callback is in the event
\* loop's queue and runs between two poll cycles.
FairSpec ==
    /\ Spec
    /\ WF_vars(Poll)
    /\ WF_vars(Start)
    /\ WF_vars(Restart)
    /\ \A t \in Task :
          /\ WF_vars(BecomesDue(t))
          /\ SF_vars(\E x \in running : x.task = t /\ Settle(x))
=============================================================================
