--------------------------- MODULE TaskQueueProps ---------------------------
(* What the task queue must guarantee.                                     *)
EXTENDS TaskQueue

\* Every variable has its type; the dead letters are never more than DlqMax.
TypeOK ==
    /\ up \in BOOLEAN
    /\ loaded \in Imports
    /\ active \in BOOLEAN
    /\ cycle \in {"idle", "filling", "calling"}
    /\ queue \in Seq([task : Task, attempts : Nat])
    /\ running \subseteq [task : Task, attempts : Nat \ {0}]
    /\ keys \subseteq Key
    /\ dlq \in Seq(Task) /\ Len(dlq) <= DlqMax
    /\ \A events \in {buffer, log} :
          events \in Seq([task : Task,
                          state : {"QUEUED", "RUNNING"} \cup Ends,
                          attempts : Nat])
    /\ edge \in {"whole", "half", "bare"}
    /\ edge = "bare" => log # <<>>
    /\ due \subseteq accepted
    /\ expired \subseteq accepted
    /\ accepted \subseteq Task
    /\ forgotten \subseteq accepted
    /\ ended \in [Ends -> SUBSET Task]
    /\ used \in [{"cancel", "stop", "error", "restart", "day"} -> Nat]

Live == Queued \cup Running

\* A task is in one place: it does not wait twice, nor wait for a retry while
\* its handler runs, nor run twice, whatever was recovered; and no more tasks
\* run than there are slots.
OnePlace ==
    /\ \A i, j \in DOMAIN queue : queue[i].task = queue[j].task => i = j
    /\ Queued \cap Running = {}
    /\ Cardinality(Running) = Cardinality(running)
    /\ Cardinality(running) <= Concurrency

\* The log of the day and the events not yet written account for the queue: a
\* process that started now from both would find every task that waits or runs,
\* with its attempts, and apart from dead tasks nothing else (and those whose
\* retry an imported backoff made throw). No retry, no stop, no append that is
\* written in part and then again leaves a hole, and a line that a crash or a
\* failed append cuts off costs no more than the events the next append joins
\* to it. (Left out are the tasks of those events, for a torn line swallows the
\* first event of the next append; the cancelled tasks, which stay in the queue
\* by mistake; and those of whom an event was dropped after a failed append,
\* lost with a batch that could not be stringified, or lies in an older log.)
LogIsFaithful ==
    up =>
        LET events == log \o buffer
        IN /\ Live \ (expired \cup ended["CANCELLED"] \cup forgotten) \subseteq Recoverable(events)
           /\ ~loaded => Recoverable(events) \subseteq Live \cup ended["DLQ"] \cup forgotten
           /\ \A x \in Range(queue) \cup running :
                 x.task \notin forgotten => Newest(events, x.task).attempts = x.attempts

\* A task that waits or runs holds its idempotency key, and holds it alone: two
\* tasks with one key are never both under way. (Until a task is cancelled: that
\* one gives up its key and stays in the queue. And a restart revives tasks that
\* are dead, for no event says so, and those whose end was dropped from the
\* buffer, or spoilt on disk, beside a task that has got their key in the meantime.)
OneTaskPerKey ==
    /\ ended["CANCELLED"] = {}
    /\ used["restart"] = 0 \/ ended["DLQ"] \cup forgotten = {}
    => \A x, y \in Range(queue) \cup running :
           KeyOf[x.task] # NoKey =>
               /\ KeyOf[x.task] \in keys
               /\ KeyOf[x.task] = KeyOf[y.task] => x.task = y.task

\* A task gets an attempt and its retries, and after each restart at most one
\* attempt more: a retry that was recovered does not start anew.
AttemptsAreBounded ==
    \A x \in running : x.attempts <= MaxRetries + 1 + used["restart"]

Begins(t) == t \in Running' \ Running

\* When the end of a task is on disk, done or expired, no later process runs it
\* again.
EndedIsOver ==
    [][\A i \in DOMAIN log :
          log[i].state \in {"DONE", "EXPIRED"} => ~Begins(log[i].task)]_vars

\* While the process lives, every task that waits or runs is eventually done,
\* or given up with a record of it, over stops and starts, and a cancelled one as
\* well, for it stays in its bucket; so no retry is forgotten, where the inline
\* backoff is in use. (An imported one makes every first retry throw, and the
\* task is lost without a record.)
EveryTaskEnds ==
    \A t \in Task :
        up /\ ~loaded /\ t \in Live
            ~> ~up \/ t \in ended["DONE"] \cup ended["DLQ"] \cup ended["EXPIRED"]
=============================================================================
