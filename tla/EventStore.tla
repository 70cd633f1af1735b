----------------------------- MODULE EventStore -----------------------------
(***************************************************************************)
(* The durable store of packages/execution-runtime: the SqliteAgentEvent-  *)
(* Store of sqlite-event-store.ts under the workers of lease-scheduler.ts. *)
(* Several processes open the same database.  In each, withLock lets one   *)
(* operation at a time run; between processes only an SQL statement or a   *)
(* transaction is atomic.  So append and setValue, which select before     *)
(* they open their transaction, are two steps, and claimPendingTask, which *)
(* reads the row again afterwards, is three.                               *)
(*                                                                         *)
(* Time is abstracted to whether a lease is live (lease_until > now); ties *)
(* in ORDER BY created_at are broken in any way.  Events and state are     *)
(* those of one agent; those of different agents share nothing.            *)
(***************************************************************************)
EXTENDS Naturals, FiniteSets

CONSTANTS
    Store,          \* the processes that may open the database
    Worker,         \* worker ids
    Nobody,         \* worker_id IS NULL
    StoreOf,        \* the process in which a worker runs
    Writer,         \* the workers that write events
    Reaper,         \* the processes that may start a reaper
    Task,           \* idempotency keys
    Unfenced,       \* the tasks that may also be ended by completeTask, failTask
    Key, Value,     \* what setValue sets
    Unset,
    MaxAttempts,    \* bound on the claims of a task
    MaxEvents,      \* bound on the events
    MaxOpens        \* bound on how often the database is opened

ASSUME StoreAssumption ==
    /\ IsFiniteSet(Worker) /\ Nobody \notin Worker
    /\ StoreOf \in [Worker -> Store]
    /\ Writer \subseteq Worker /\ Reaper \subseteq Store
    /\ Unfenced \subseteq Task
    /\ Unset \notin Value
    /\ {MaxAttempts, MaxEvents, MaxOpens} \subseteq Nat

VARIABLES
    status,     \* table task_queue: status, "NONE" before the insert
    holder,     \* worker_id
    token,      \* fencing_token
    live,       \* the tasks with lease_until > now
    attempts,
    recoveries, \* recovery_count
    claim,      \* per worker: what its claimPendingTask has selected, and whether it is done
    jobs,       \* per worker: the tasks it was handed and has not yet ended
    events,     \* table events: [seq, version, key, value], version 0 if appended
    state,      \* table agent_state: [version, values]
    draft,      \* per worker: the event its append or setValue has prepared
    up,         \* the processes with an open store
    reaping,    \* those in which a scheduler's reaper has its timer
    overlapped, \* two processes have had it open at the same time
    opens       \* how often it was opened

row   == <<status, holder, token, live, attempts, recoveries>>
agent == <<events, state, draft>>
procs == <<up, reaping, overlapped, opens>>
vars  == <<row, claim, jobs, agent, procs>>

NoClaim == [task |-> Nobody, token |-> 0, done |-> FALSE]
NoValues == [k \in Key |-> Unset]
NoDraft == [seq |-> 0, version |-> 0, key |-> Unset, value |-> Unset, values |-> NoValues]

Init ==
    /\ status = [t \in Task |-> "NONE"]
    /\ holder = [t \in Task |-> Nobody]
    /\ token = [t \in Task |-> 0]
    /\ live = {}
    /\ attempts = [t \in Task |-> 0]
    /\ recoveries = [t \in Task |-> 0]
    /\ claim = [w \in Worker |-> NoClaim]
    /\ jobs = [w \in Worker |-> {}]
    /\ events = {}
    /\ state = [version |-> 0, values |-> NoValues]
    /\ draft = [w \in Worker |-> NoDraft]
    /\ up = {}
    /\ reaping = {}
    /\ overlapped = FALSE
    /\ opens = 0

-----------------------------------------------------------------------------
\* The lock of a store is free: none of its workers is inside an operation.
Unlocked(s) ==
    /\ s \in up
    /\ \A w \in Worker : StoreOf[w] = s => claim[w] = NoClaim /\ draft[w] = NoDraft

Running == {t \in Task : status[t] = "RUNNING"}

\* recovery_count = recovery_count + 1
Counted(t) == recoveries[t] + 1

\* These running tasks go back to the queue.
Requeue(ts) ==
    /\ status' = [t \in Task |-> IF t \in ts THEN "PENDING" ELSE status[t]]
    /\ holder' = [t \in Task |-> IF t \in ts THEN Nobody ELSE holder[t]]
    /\ recoveries' = [t \in Task |-> IF t \in ts THEN Counted(t) ELSE recoveries[t]]
    /\ live' = live \ ts
    /\ UNCHANGED <<token, attempts>>

\* open takes back every running task, whoever runs it (recoverPendingTasks).
Open(s) ==
    /\ s \notin up
    /\ opens < MaxOpens
    /\ up' = up \cup {s}
    /\ overlapped' = (overlapped \/ up # {})
    /\ opens' = opens + 1
    /\ Requeue(Running)
    /\ UNCHANGED <<claim, jobs, agent, reaping>>

\* close, or the end of the process: SQLite drops what was not committed.
Ends(s) ==
    /\ s \in up
    /\ up' = up \ {s}
    /\ reaping' = reaping \ {s}
    /\ claim' = [w \in Worker |-> IF StoreOf[w] = s THEN NoClaim ELSE claim[w]]
    /\ jobs' = [w \in Worker |-> IF StoreOf[w] = s THEN {} ELSE jobs[w]]
    /\ draft' = [w \in Worker |-> IF StoreOf[w] = s THEN NoDraft ELSE draft[w]]
    /\ UNCHANGED <<row, events, state, overlapped, opens>>

-----------------------------------------------------------------------------
\* enqueueTask; ON CONFLICT(idempotency_key) DO NOTHING
Enqueue(s, t) ==
    /\ Unlocked(s)
    /\ status[t] = "NONE"
    /\ status' = [status EXCEPT ![t] = "PENDING"]
    /\ UNCHANGED <<holder, token, live, attempts, recoveries, claim, jobs, agent, procs>>

NextToken(t) == token[t] + 1

\* claimPendingTask up to its transaction: the token is computed from what was
\* read.
Select(w, t) ==
    /\ Unlocked(StoreOf[w])
    /\ status[t] = "PENDING"
    /\ attempts[t] < MaxAttempts
    /\ claim' = [claim EXCEPT ![w] = [task |-> t, token |-> NextToken(t), done |-> FALSE]]
    /\ UNCHANGED <<row, jobs, agent, procs>>

\* WHERE id = ? AND status = 'PENDING'
Claimable(t) == status[t] = "PENDING"

\* The transaction of the claim. Whether the UPDATE changed the row is not
\* looked at.
Claim(w) ==
    LET t == claim[w].task
    IN /\ claim[w] # NoClaim /\ ~claim[w].done
       /\ IF Claimable(t)
          THEN /\ status' = [status EXCEPT ![t] = "RUNNING"]
               /\ holder' = [holder EXCEPT ![t] = w]
               /\ token' = [token EXCEPT ![t] = claim[w].token]
               /\ live' = live \cup {t}
               /\ attempts' = [attempts EXCEPT ![t] = attempts[t] + 1]
               /\ UNCHANGED recoveries
          ELSE UNCHANGED row
       /\ claim' = [claim EXCEPT ![w] = [claim[w] EXCEPT !.done = TRUE]]
       /\ UNCHANGED <<jobs, agent, procs>>

\* getTaskRow: the worker is handed the row as it is by now, be it another's.
HandOut(w) ==
    LET t == claim[w].task
    IN /\ claim[w].done
       /\ jobs' = [jobs EXCEPT ![w] = jobs[w] \cup
                     {[task |-> t, token |-> token[t], attempts |-> attempts[t]]}]
       /\ claim' = [claim EXCEPT ![w] = NoClaim]
       /\ UNCHANGED <<row, agent, procs>>

\* Bug: the fencing token is not compared.
BugHolds(w, job) == job.task \in Running \cap live /\ holder[job.task] = w

\* WHERE ... status = 'RUNNING' AND worker_id = ? AND fencing_token = ? AND lease_until > ?
Holds(w, job) ==
    /\ job.task \in Running \cap live
    /\ holder[job.task] = w
    /\ token[job.task] = job.token

End(t, outcome) ==
    /\ status' = [status EXCEPT ![t] = outcome]
    /\ live' = live \ {t}
    /\ UNCHANGED <<holder, token, attempts, recoveries>>

\* complete and fail of the scheduler, or completeTask and failTask, which ask
\* for nothing but a running task. The worker is done with its job though it
\* may be told that it no longer held it.
EndJob(w, job, outcome) ==
    /\ Unlocked(StoreOf[w])
    /\ \/ Holds(w, job) /\ End(job.task, outcome)
       \/ job.task \in Unfenced \cap Running /\ End(job.task, outcome)
       \/ ~Holds(w, job) /\ UNCHANGED row
    /\ jobs' = [jobs EXCEPT ![w] = jobs[w] \ {job}]
    /\ UNCHANGED <<claim, agent, procs>>

\* The lease runs out: no heartbeatTask came before lease_until. (A heartbeat
\* has no other effect than to keep a lease live; it does not revive one.)
RunsOut(t) ==
    /\ t \in live
    /\ live' = live \ {t}
    /\ UNCHANGED <<status, holder, token, attempts, recoveries, claim, jobs, agent, procs>>

\* Bug: the lease is compared the wrong way round.
BugOverdue == Running \cap live

Overdue == Running \ live

\* Nothing starts a reaper but this call.
StartReaper(s) ==
    /\ s \in (up \cap Reaper) \ reaping
    /\ reaping' = reaping \cup {s}
    /\ UNCHANGED <<row, claim, jobs, agent, up, overlapped, opens>>

StopReaper(s) ==
    /\ s \in reaping
    /\ reaping' = reaping \ {s}
    /\ UNCHANGED <<row, claim, jobs, agent, up, overlapped, opens>>

\* reapExpiredLeases: by the reaper's timer, or by reapNow.
Reap(s) ==
    /\ Unlocked(s)
    /\ Overdue # {}
    /\ Requeue(Overdue)
    /\ UNCHANGED <<claim, jobs, agent, procs>>

-----------------------------------------------------------------------------
\* nextSequence, less one: COALESCE(MAX(sequence), 0)
LastSeq == CHOOSE n \in 0 .. MaxEvents : /\ n = 0 \/ \E e \in events : e.seq = n
                                        /\ \A e \in events : e.seq <= n

\* append up to its transaction
PrepareAppend(w) ==
    /\ Unlocked(StoreOf[w])
    /\ LastSeq < MaxEvents
    /\ draft' = [draft EXCEPT ![w] = [seq |-> LastSeq + 1, version |-> 0, key |-> Unset,
                                     value |-> Unset, values |-> NoValues]]
    /\ UNCHANGED <<row, claim, jobs, events, state, procs>>

\* setValue up to its transaction: all values are read, one is replaced.
PrepareSet(w, k, v) ==
    /\ Unlocked(StoreOf[w])
    /\ LastSeq < MaxEvents
    /\ draft' = [draft EXCEPT ![w] =
                   [seq |-> LastSeq + 1, version |-> state.version + 1, key |-> k,
                    value |-> v, values |-> [state.values EXCEPT ![k] = v]]]
    /\ UNCHANGED <<row, claim, jobs, events, state, procs>>

\* Bug: no key of the table is unique.
BugKeysAreFree(d) == TRUE

\* The keys of table events: UNIQUE(tree_id, agent_id, sequence), and the id,
\* which a checkpoint has from its version.
KeysAreFree(d) ==
    \A e \in events : e.seq # d.seq /\ (d.version > 0 => e.version # d.version)

\* The transaction: the event, and for setValue the state with it.
Insert(w) ==
    LET d == draft[w]
    IN /\ d # NoDraft
       /\ KeysAreFree(d)
       /\ events' = events \cup
             {[seq |-> d.seq, version |-> d.version, key |-> d.key, value |-> d.value]}
       /\ state' = IF d.version > 0
                   THEN [version |-> d.version, values |-> d.values]
                   ELSE state
       /\ draft' = [draft EXCEPT ![w] = NoDraft]
       /\ UNCHANGED <<row, claim, jobs, procs>>

\* BEGIN IMMEDIATE or an INSERT throws, and is rolled back: the call fails.
Abandon(w) ==
    /\ (claim[w] # NoClaim /\ ~claim[w].done) \/ draft[w] # NoDraft
    /\ claim' = [claim EXCEPT ![w] = NoClaim]
    /\ draft' = [draft EXCEPT ![w] = NoDraft]
    /\ UNCHANGED <<row, jobs, events, state, procs>>

-----------------------------------------------------------------------------
Next ==
    \/ \E s \in Store : Open(s) \/ Ends(s) \/ StartReaper(s) \/ StopReaper(s) \/ Reap(s)
    \/ \E s \in Store, t \in Task : Enqueue(s, t)
    \/ \E w \in Worker, t \in Task : Select(w, t)
    \/ \E w \in Worker : Claim(w) \/ HandOut(w) \/ Insert(w) \/ Abandon(w)
    \/ \E w \in Writer : PrepareAppend(w) \/ \E k \in Key, v \in Value : PrepareSet(w, k, v)
    \/ \E w \in Worker : \E job \in jobs[w], outcome \in {"COMPLETED", "FAILED"} :
          EndJob(w, job, outcome)
    \/ \E t \in Task : RunsOut(t)

Spec == Init /\ [][Next]_vars

\* A running task that no live process works on: nobody sends its heartbeat.
Unattended(t) ==
    ~\E w \in Worker : \E job \in jobs[w] :
        job.task = t /\ job.token = token[t] /\ holder[t] = w

\* Time passes; the timer of a reaper that is not stopped again fires, and withLock
\* is a queue in which its call gets a turn; an operation under way ends. Nobody
\* need start a reaper, or call reapNow.
Fairness ==
    /\ \A t \in Task : WF_vars(Unattended(t) /\ RunsOut(t))
    /\ \A s \in Store : <>[](s \in reaping) => SF_vars(Reap(s))
    /\ \A w \in Worker : WF_vars(Claim(w) \/ HandOut(w) \/ Insert(w) \/ Abandon(w))

FairSpec == Spec /\ Fairness
=============================================================================
