# Verification of klyn

TLA+ models of the parts of klyn in which something can go wrong that a test would hardly
reach: the transaction engine of the Rust daemon and the daemon itself; the task queue, the
mailboxes and the process manager of the TypeScript kernel; the durable store of the
execution runtime, the replicated registers of the workflow engine, the lock-free ring buffer
of the native kernel and the causal log of the swarm mesh. TLC checks each model on a small
instance; TLAPS proves the safety properties of every one of them, and both refinements, for every
value of the constants.

`PROJECT.json` holds what a tool needs to know: the runs, the source lines each definition
stands for, the hazards line by line, the theorems, and for each property of a run a plausible
bug (the operators called `Bug...`) that violates it. This file is for readers.

Paths are relative to the root of the repository; `src/` stands before each of them in
`PROJECT.json`.

## 1. The system

klyn is two systems side by side and a large amount of material around them.

The **Rust crates** (`crates/`) are a privileged local service. `klyn-daemon` listens on a
Unix socket; its only writer-facing operations are filesystem transactions, made by
`klyn-fs` on top of Git; `klyn-sandbox` is a separate process that hands out descriptors.

The **kernel** (`kernel/`) is a Node process with one event loop: `kernel-entry.ts` boots a
task queue, a process manager and surfaces over HTTP, and makes one mailbox that it never starts. `packages/` holds
libraries beside it: a lease scheduler on SQLite, replicated registers, a workflow engine,
a mesh of nodes. `0.kernel/` is a native addon, of which the ring buffer is used here.

Most of the rest (`genesis/`, `1.brain/`, `.migration-backup/`, `xml_chunks/` ...) is numbered
prototypes, calls to language models, generated stubs, copies and dumps.

### Inventory

For each component: its state, its operations, whom it meets, what is hard, and what makes
it correct. The last column says where it is modelled.

| component | state and operations | interaction, and what is hard | correct if | where |
|---|---|---|---|---|
| klyn-fs (`crates/klyn-fs/src/lib.rs`) | journal of numbered record files; candidate worktrees; a publication ref. begin, write, stage, validate, commit, abort; `open` recovers | threads with transactions of their own share the journal's mutex and the ref; crashes and power losses between any two steps; a sync that fails after its rename; other writers of the ref | nothing published is lost, committed means published, the journal can always be read, recovery settles everything and repeats safely | `KlynFs`, `Publication` |
| klyn-daemon (`lifecycle.rs`, `server.rs`, `lib.rs`) | lifecycle state and two lease counters behind a mutex and a condvar; the accept loop; one thread per connection | shutdown against requests in flight, against panics and against its deadline; a state read before the mutex is released | counters are leases, Stopped is quiet, no wake-up is lost, a shutdown ends | `Daemon` |
| fs service (`fs_service.rs`) | a map from ids to transactions behind one mutex | holds the mutex through every call of klyn-fs; makes a transaction before it takes it | a handle has one owner; nothing is left behind for good | as operations in `Daemon` |
| policy, klyn-protocol | none | pure decisions and decoding | | as outcomes in `Daemon` |
| klyn-sandbox broker | a bounded channel of connections, a fixed number of workers | clients that hang, a channel that is full | bounded, nothing opened unchecked | not modelled |
| task queue (`kernel/task-queue.ts`) | buckets, `#running`, idempotency keys, dead letters, buffered events, a log per day. enqueue, cancel, poll cycle, retry, flush, stop, recover | asynchronous handlers against the poll cycle, buffered events against the end of the process | no task is lost or doubled, a key is held while its task is under way, what ended is not run again | `TaskQueue` |
| mailbox (`kernel/ipc-mailbox.ts`) | queue, waiters, dead letters, a file. send, request, reply, poll cycle, stop, close, load | awaits inside the cycle, stop and start during a cycle, replies against timeouts | a message is in one place, a promise is settled once, nothing waits for ever | `Mailbox` |
| mailbox router (same file) | a map of mailboxes | creates them on first contact without starting them, fans out | what is routed is polled | not modelled |
| process manager (`kernel/process-manager.ts`) | a state, a restart count, timers, the current child. start, stop; spawn, error, exit and close events | restart and force timers, events of earlier children, and calls of start and stop, also from the listeners of its own events, in any order | one child per process, none after a stop, restarts bounded, stops and crashes come to an end | `ManagedProcess` |
| retry and circuit breaker (`kernel/backoff.ts`) | CLOSED, OPEN, HALF_OPEN and counts | the state is read before an await and used after it | nothing in the repository says | not modelled |
| kernel lifecycle (`kernel/src/lifecycle/`) | a transition table; four shutdown phases | a flag set before the first await | one shutdown, all phases | not modelled |
| lease scheduler and event store (`packages/execution-runtime/src/`) | a table of tasks with leases and fencing tokens, the events of an agent and its state. enqueue, claim, heartbeat, complete, fail, reap, append, setValue, open | several processes on one file, selects outside the transaction that uses them, opening while others work, leases that run out under a worker | attempts are accounted for, the token fences, no write is lost, what is left behind is taken back | `EventStore` |
| replicated registers (`packages/workflow-engine/src/crdt_sync.ts`) | registers that keep the last write, Lamport clocks. mutate, applyRemote, applyBatch, merge, snapshot, attach | updates, batches and snapshots late, twice, in any order; a bus that calls back before publish returns; clocks that some operations leave behind | replicas that saw the same agree, a local write takes effect | `Registers` |
| native ring buffer (`0.kernel/src/ringbuf.rs`) | slots and two atomic cursors. push, pop | one producer and one consumer, access by access; an overwriting producer moves the consumer's cursor | a bounded queue | `RingBuffer`, `Fifo` |
| process sandbox (`packages/execution-runtime/src/process-sandbox-manager.ts`) | a child process and its timers | exit against timeout against kill | one outcome | not modelled |
| swarm mesh (`packages/swarm-mesh/src/`, `1.brain/temporal_causality.ts`) | hybrid clocks, event logs, a ledger file per node. record, delta, ingest, heal, restore | deltas late, twice, in any order or lost; a time of day that steps back; a ledger append that fails or tears; restarts | ids tell events apart, stamps follow causes, healed nodes agree, nothing is lost | `CausalMesh` |
| unified memory, workflow engine, kernel surfaces, secrets, logs, HTTP, native bindings | maps, files, counters | little, or input and output only | | not modelled |
| prototypes, generated and archived material | | not called by the above | | not modelled |

`PROJECT.json` lists the same with its reasons, and the hazards with the properties that would
catch each; a hazard without one has a note that says why.

### How the parts interact

    client --socket--> klyn-daemon --fs service--> klyn-fs --> journal, git ref, worktrees
                        Daemon                      KlynFs --refines--> Publication

    callers --enqueue--> task queue --handlers--> agents, --on exit--> event log
                          TaskQueue (its log in it)
    callers --send, request--> mailbox --handlers--> reply --> the same mailbox
                                Mailbox (its file in it)
    start, stop, child events, timers --> managed process --> child processes
                                           ManagedProcess
    lease schedulers of several processes --> one SQLite database
                                               EventStore
    replicas --bus, updates, batches, snapshots--> replicas            Registers
    nodes --deltas--> nodes, each with its ledger file                 CausalMesh
    producer thread --> ring buffer --> consumer thread     RingBuffer --refines--> Fifo

`Daemon` treats an admitted filesystem request as an operation that takes a while and may
panic; `KlynFs` lets any number of threads run the engine's operations at once, which is more
than the daemon's registry mutex allows. So each model covers what the other leaves open.
The TypeScript components modelled here do not call one another; each is a system of its own
actors (callbacks, processes, replicas, nodes), and that is what its module composes.

## 2. The modules

For each component: `X` is the model, `XProps` what it must guarantee, `MCX` its
model values, `XProofs` its inductive invariants and their proofs. The proofs of components that
share much of their data are together: `StoresProofs` has those of `EventStore` and `Registers`,
`QueuesProofs` those of `RingBuffer` and `Mailbox`. So that they can be, the definitions of
`Registers` and `RingBuffer` that every module has are called `RegInit`, `RegNext`, `RegSpec`, `RegTypeOK` and
`RingInit`, `RingNext`, `RingSpec`, `RingTypeOK`. klyn-fs also has `KlynFsInvariant`, the invariants of
the journal and the ref.

`Sifting` says what a loop that removes some elements of a sequence leaves, for the reaping of the
daemon, the eviction and recovery of the task queue and the sweep and recovery of the mailbox: it
chooses the increasing list of the places that stay, and not a recursion over the sequence, about
which nothing could be proved for every sequence. `SiftingProofs` has the lemmas about it, and those
about ranges, appending and removing, that the proofs of four components cite.

### KlynFs

A step is one atomic interaction with what threads share. `pc[t]` says where the thread that
owns `t` stands; a public method that touches the shared parts several times is several
actions, in the order of the code:

| method | actions |
|---|---|
| `begin_transaction` | `BeginRead` (the base), `BeginLog` (Init), `BeginWorktree`, `BeginUndo` when git fails |
| `write_file`, outside edits | `Write`, `OutsideEdit` |
| `stage` | `Stage` |
| `validate` | `ValidateCommit`, `ValidateLog`; `ValidateReject`; `Abort` when either fails |
| `commit` | `CommitPublish` (compare-and-swap), `CommitLog`, `Cleanup`; `CommitLost` when the ref has moved |
| `abort`, drop | `Abort`, `Cleanup`; `Release` |
| `FsEngine::open` | `Open` (replay), `RecoverTerminal`, `RecoverUnfinished`, `RecoverConflict`, `RecoverCleanup`, `RecoverDone` |
| environment | `Crash`, `PowerLoss`, `ForeignPublish` |

Abstractions, and why they are sound:

* `Journal::append` is one step, for its mutex is held throughout. It can succeed, be refused,
  fail without a trace (`write`) or fail after its rename (`dirsync`); the record is then in
  place, not in memory, and its number is used again. A crash may leave any record that some
  thread could have been renaming (`InFlight`). A crash after the rename and the sync and
  before the index is updated is the same as that, for the index is lost anyway.
* A power loss drops the records whose directory entry was not synced. That an *overwritten*
  record comes back is not modelled. Updates of refs and objects by git are taken as atomic
  and durable.
* A tree is one of two contents, a commit the name of its transaction. Refusals that change
  nothing (a ref that is checked out, a path that is not canonical, the lock file of a second
  engine) are left out; other writers only fast-forward the ref.
* Files, their permissions, links and the text of records are left out; what a whitespace
  error or a link does to `validate` is `ValidateReject`.

`Publication` is what the engine promises: transactions see the history as it was when they
began, the first of those that began together to publish wins, each is published as a whole
or never. `KeepsPromise` is `Promise!PubSpec` under the mapping in `KlynFsProps`: `published`
is what is reachable from the ref, and a transaction is aborted once its record or its owner
says so or a crash took it.

### Daemon

A step is one critical section of the lifecycle's mutex, or one interaction with the socket.
`Boot`, `Poll`, `Accept`, `BeginShutdown`, `Drain`, `DrainTimeout` and `Join` are the thread that runs
`serve`; `BeginConnection`, `Receive`, `Authorize`, `BeginRequest`, `Execute`, `Panic`, `WriteResponse`,
`ReleaseRequest` and `ReleaseConnection` are `serve_connection` and the drops of its leases, in the
order in which they run also when a panic unwinds. `wake` is the condvar: it is TRUE when the
predicate of `complete_shutdown` is due to be evaluated, because the wait begins, somebody
notified, or the deadline passed, for `wait_timeout_while` looks once more before it reports a
timeout.

A connection carries one request, as the server closes it after one. The content of
requests and responses is reduced to what the lifecycle tells apart; poisoned mutexes and
the dispatch without a socket are left out.

### TaskQueue

A step is one callback of the event loop. The poll cycle is split at its dispatches (`Evict`,
`Dispatch`, `Await`, `EndCycle`), between which no other callback runs. A handler settles by
`HandlerReturns` or `HandlerThrows`; `cycle = "calling"` is the moment in which a handler is
being called and may throw at once. `Flush` and `Stop` append the buffered events, all
or a part of them before the append fails, and a `Crash` may come anywhere in an append; `Restart` is
the constructor. What is cut off leaves the last line `half`, or `bare` of its newline, and the next
append continues it (`Glued`): nobody can parse that line, so the first event of that append is lost,
and the bare one with it (`Spoilt`). `Midnight` starts a
new log, for only the log of the day is recovered.

`loaded` tells whether `import('./backoff.js')` succeeds. It does as the repository stands;
the inline fallback is the other case, and both are run. Times are reduced to two flags per
task (`due`, `expired`) that time sets once. Handlers are registered beforehand; listeners that
throw, `state.json` (its `saveState` has no caller), pruning of old logs and the
dead-letter file, which nothing reads, are left out. `accepted`, `ended` and `forgotten` are
history variables for the properties. `forgotten` are the tasks of whom the log of the day and the
buffer no longer tell everything: an event was dropped when a failed append found more than
`Kept` in the buffer (`Dropped`), was spoilt by a line cut off (`Spoilt`), went with a batch that
`JSON.stringify` could not take, or lies in the log of an earlier day. Nobody can recover these as
they were, and `LogIsFaithful` is about the others.

`OneTaskPerKey` has two exceptions, both of them what the code does. A cancelled task gives up its
key and stays in the queue. A restart revives the dead, because no event says that a task is
dead, while another task may have got their key; so after a restart the property is about
executions in which nothing was dead and nothing forgotten.

### Mailbox

A step is what the event loop does between two awaits. `Fire` starts a cycle and goes up to
the first await, `Settle` goes on from there; there may be more than one cycle, since `stop`
cannot interrupt the one that is awaiting a handler. `request` is split at its await
(`SendRequest`, `AwaitReply`). `Save` is the file stream getting to its data, `Restart` loads the
file and empties it. A queue is one sequence in order of arrival: `First` is the place of its first
reply, or of its first message if there is none, which is what the buckets of `PriorityQueue` come
to, and `Late` and `InTime` are the two parts `drainExpired` makes of it. The handlers of a message
are one outcome, handled or failed; there are two priorities, and wildcard handlers and `clearDLQ`
are left out. `persistPath` is assumed to be set, which the mailbox of `kernel-entry.ts` does not do.

### EventStore

Several processes (`Store`) open one SQLite database; in each, `withLock` lets one operation at
a time run (`Unlocked`), while between them only a statement or a transaction is atomic. The
operations that select outside their transaction are therefore several steps, and another
process may come between: `claimPendingTask` is `Select`, `Claim` (the UPDATE) and `HandOut`, which reads
the row again and hands it out even when the UPDATE changed nothing; `append` is `PrepareAppend` and
`Insert`, `setValue` is `PrepareSet` and `Insert`. `Open` includes `recoverPendingTasks` and starts no
reaper: `StartReaper` and `StopReaper` are calls of their own, and `Reap` is the timer of a reaper or a
call of `reapNow`. `Ends` is the end of a process with everything it had not committed, `Abandon` a
statement that throws and is rolled back. `Writer` and `Reaper` only bound who does these things.

Time is reduced to whether a lease is live (`live`); `RunsOut` says that a heartbeat did not come
in time. Events and state are those of one agent, as different agents share no row. `attempts` of
a job and `overlapped` (two processes have had the database open at once) are history.

### Registers

`Mutate` is the local write with all subscribers that `publish` calls before it returns; an
`ApplyRemote` brings a single update by another way, `ApplyBatch` any set of updates, `ToWire` takes a
snapshot, which `Merge` and `FromWire` may use much later. `Kept` is `applyUpdate` for one register,
`Beats` is `wins`, and `Leaves` says what is there after several updates in any order. `merge` and
`applyBatch` leave the clock where it is, and so do the actions. `Attach` subscribes without making the
replica publish, as in the code. The log of recent updates and the numbers that `merge` returns are
left out. `seen`, `folded` and `inSync` are history.

### RingBuffer and Fifo

One thread pushes and one pops. Each load or store of a cursor that the other thread moves is a
step, and so is each use of the slots, which a mutex guards. A relaxed load that returns an old
value is a load that was done earlier, and there is one producer and one consumer, so the steps
cover the orders the atomics allow; the write of a slot and the release of the cursor after it are
kept in order. `Fifo` is the promise: a bounded queue with true answers, which in overwrite mode
gives up its oldest item for a new one. `KeepsFifo` maps the buffer to it: an item is in the queue
from the publication of its push to the release of its pop. The promise ends (`Break`) when an
overwriting push meets a pop that is half done, for from there on the buffer is none (section 4).

### ManagedProcess

One `ManagedProcess` object and its children, one after another: `child[c]` is what became of each,
`proc` the one the object knows. `Start`, `Stop`, `Spawned`, `SpawnError`, `Close`, `RestartTimer` and
`ForceTimer` are the calls, the handlers and the timers; `Dies` is the operating system.

The object emits events in the middle of its own functions, and whatever listens may call `start` and
`stop` right there. So a function is cut at each of them, and what it has left to do is on `stack`, on top
of what those have left that called it: `start` says STARTING and then spawns (`Spawn`); the close
handler says CRASHED and then schedules (`ScheduleRestart`), which says RESTARTING and `restart-scheduled`
and only then arms the timer (`ArmRestart`); `stop` says STOPPING and then sends its signal (`Signal`).
None of them looks again at what the listeners have done.

The exit code is null
for a child that a signal killed, and set before the close event for one that exited (`HasExitCode`).
An error event that nobody listens to ends the kernel (`down`). Output lines, the memory monitor and
the manager's table are left out. `overlapped` records that start was called out of order,
`interrupted` that a listener called stop before the child or the timer that the stop is meant for.

### CausalMesh

A node stamps its events with a hybrid clock (`Ticked`, `Heard`), keeps them in a log, and, if it was
given a ledger (`Durable`), appends its own to that file. `Record` is `snapshot` or `mutate`, `Written` the
chained append of the ledger, `Send` and `Receive` with `Ingest` an exchange of a suffix of a log, `Heal` with `Hear` the rebuilding of a log as
the sorted union with another, `Restart` the restoring of a node from its ledger. The time of day is
read once for every event of a delta or a heal, so each is a step of its own; a node is in one call
at a time. A transport may deliver any delta at any time, repeatedly or never. An append may write
nothing, a part of a line, or the line without its end, after which the next append spoils it
(`Torn`, `CutOff`). Peers, content hashes, rewinding, and logs above 100,000 events, which are cut, are
left out. `forgot` (a restart has lost events) and `adopted` are history.

## 3. What the runs show

Every run that passes is a complete search of its instance; the numbers are of distinct states.
Not all of the safety properties that section 5 proves for every instance are run as well. Those that
are proved only: `SyncedRecordsAreKept`, `NoLostPublication`, `PublishedWasValidated`,
`CandidatesAreJournaled` (klyn-fs); `StoppedIsQuiet`, `LifecycleGoesForward` (daemon);
`AttemptsAreAccounted`, `EventsAreNumbered`, `EndedIsFinal` (event store); `LiveReplicasAgree`
(registers); `StoppedStaysDown` (process manager); `EachEventOnce` (mesh);
and the type invariants of all but the task queue.

| run | instance | shows |
|---|---|---|
| `fs_safety` | 2 transactions (symmetric), 1 outside commit, 1 failure of any kind, 1 crash or power loss; 2.3 M states | `JournalReplayable`, `PublishedAsStaged`, `CommittedIsPublished`, and the refinement `KeepsPromise` |
| `fs_recovery` | 2 transactions, 1 failure without a trace, 2 crashes; 1.1 M states | `AbortedIsUnpublished`, `RecoveryIsComplete`, `InterruptedIsSettled` |
| `fs_overtaken` | 2 transactions, 1 crash, no failure | a violation of `RecoverySettlesValidated`: section 4 |
| `daemon_safety` | 3 connections, 2 threads, 2 failures; 1.6 M states | `LeasesAreCounted`, `NoLostWakeup`, `OneShutdown`, `ThreadsAreBounded`, `NothingAfterReturn`, `ShutdownEnds` |
| `task_queue` | 2 tasks with one key, one more urgent than the other, 1 slot, with and without backoff.js, 1 stop, 1 cancel; 577 thousand states | `TypeOK`, `OnePlace`, `OneTaskPerKey`, `EveryTaskEnds` |
| `tq_recovery` | 2 tasks, one handled and mortal (its ttl may pass), the other neither, 1 restart, 1 failed append that keeps 5 events, both of them after any part of any line, 1 midnight; 3.6 M states | `LogIsFaithful`, `AttemptsAreBounded`, `EndedIsOver` |
| `mailbox` | 1 message nobody handles, 1 request and its reply, 2 loops, 1 stop or close, 1 crash, 1 expiry; 0.2 M states | `OnePlace`, `UnheardIsDead`, `WaitersAreWaiting`, `LoopsAreBounded`, `RequestEnds`, `EveryMessageSettles` |
| `event_store` | 3 workers, two in one process and one in another, of each process one that writes, a reaper in one, 1 task, 2 attempts, 2 events, 2 opens; 0.7 M states | `StateIsReplayed`, `AttemptIsFenced`, `AbandonedReturns` |
| `registers` | 3 replicas, 1 register, 2 writes in one instant, batches of 2, 1 snapshot; 1.2 M states | `Converges`, `WritesTakeEffect` |
| `ring` | 4 slots, cursors up to 8, with and without overwriting; 125 thousand states | the refinement `KeepsFifo` |
| `processes` | 2 restarts, 2 calls of start, 2 of stop, each also from listeners; 632 thousand states | `OneChild`, `RestartsAreCounted`, `StopEnds`, `CrashIsHandled` |
| `mesh` | 2 nodes, 1 ref, 3 events, 2 deltas, 1 restart; one node has a ledger and a time of day that may step back, the other one that stands still, ahead; 3.0 M states | `EventIdsAreUnique`, `HealedAgree`, `StampsFollowCauses`, `NothingIsLost` |

Why the bounds are enough to be interesting:

* *klyn-fs.* Everything that is contended (ref, journal numbers) is contended by two already,
  and a third party is there as the outside commit. One failure and one crash suffice for
  the worst case of the journal, a record that is in place and unacknowledged, written
  over by another transaction, then cut off; two crashes interrupt recovery and its
  repetition. What the bounds on transactions, failures and crashes might hide for the
  safety properties is settled by proof (section 5). `fs_recovery` has no failed directory
  sync, on purpose: with it `AbortedIsUnpublished` is false (section 4).
* *daemon.* Two threads and a third connection reach the limit; one client can shut down
  while another holds a lease and a third waits in the backlog. Two failures give a panic
  during a shutdown that a lost policy turns into a failure.
* *task queue.* `MaxRetries` is 1: a first attempt, a retry, a dead letter. Two tasks share a
  key in one run and have different buckets in both; a single slot makes them compete, and a
  `DlqMax` of 1 overflows. `Kept` is 200 in the code; in `tq_recovery` it is 5, fewer than there are
  events, so that a failed append does drop some. That run has neither `stop`, which writes as a flush does,
nor `cancel`, and its tasks no keys; `task_queue` has them, and the theorems have all of it.
* *mailbox.* A request with its reply already gives three messages for two cycles; with a
  `Batch` of 2 a cycle ends with messages left, and a `DlqMax` of 1 overflows.
* *event store.* Workers of one process share its lock and those of two do not; both are
  there. Two attempts give a stale job and a current one, two events a draft that another
  process overtakes; of two opens the second is either that of another process while the first
  works, or that of the same process when it comes back. The reaper is in the process with one worker
and may be stopped; it takes back what the two of the other process leave, and what its own does.
* *registers.* Two writes of one instant on different replicas are a tie that only the replica
  id breaks; the third replica hears them in the other order, in a batch, or from a snapshot.
* *ring.* The cursors go around the four slots twice, so that a slot is used again while a
  pop may still be at it.
* *processes.* Two restarts reach the limit of restarts; two starts and two stops give every
  pair of calls around a pending restart and around a child that is going down, and a call out of
a listener of every event that is emitted half way. That `interrupted` is needed in `OneChild` and `StopEnds`, and `Hangs` in
`CrashIsHandled`, TLC shows on the same instance: without them each is violated.
* *mesh.* Three events let a node record, take in another's by a delta or a heal, and record again, with
  a number that is not that of its own events; they also let two nodes heal with each other after
  that. One node's time of day steps forward and back, the other's is ahead of it or the same, and
  stands still. Two
  deltas, each of which may come at any time and repeatedly, overlap and arrive in either order. The
  node without a ledger restarts from nothing. `MaxCounter` is 1: a node heals when its clock has
  just taken over a time of day, which leaves it to do so before and after others record.

CHECK_DEADLOCK is off everywhere: a daemon that has returned, a queue whose tasks are done, an
engine whose bounds on crashes are used up, and cursors, clocks or calls at their bound do stop.

### Fairness

* `KlynFs!FairSpec`: `Open` and `Recover` are weakly fair: the service is supervised and started
  again, and its startup code runs. Nothing obliges a caller to finish a transaction, and
  `InterruptedIsSettled` does not need it.
* `Daemon!FairSpec`: the serving thread runs (its polls, its waits and its deadline), and a thread
  that was spawned begins. Clients may be silent and operations may hang for ever;
  `ShutdownEnds` holds through the deadline.
* `TaskQueue!FairSpec`: weak for the poll timer, for the start by whoever creates the queue, for
  a restart and for a task's time to come; strong for the settling of each handler, because its
  callback is enabled only between poll cycles and is in the event loop's queue when it is.
* `Mailbox!FairSpec`: weak for the timers, for resumed awaits and for handlers that settle. Nobody need
  start a mailbox, or start it again: `EveryMessageSettles` is about one that polls. Nothing about
  replies: `RequestEnds` holds by the timeout.
* `EventStore!FairSpec`: weak for the lease of a task that nobody works on to run out, which is
  the passing of time, and for an operation under way to end. Strong for `Reap` in a process whose reaper was
  started and is not stopped: its timer fires again and again, and `withLock` is a queue in which
  each of its calls gets a turn, although the lock is taken and released by others meanwhile. Nothing
  obliges a process to stay up, to open or to start a reaper.
* `ManagedProcess!FairSpec`: weak for what a call has left to do when its listeners are
  done, for armed timers, for the events of a child and for the death of
  a child that was sent SIGKILL. A child may ignore SIGTERM, and may run for ever.

`Registers`, `RingBuffer` and `CausalMesh` have no fairness: nothing obliges anyone to exchange
anything, and the two threads of the buffer make no promise of progress to one another.

## 4. Where the code and its own words differ

One difference has a run in which TLC finds it, and `PROJECT.json` quotes the words: `fs_overtaken`.
Two candidates are validated from one base, one is published, and the process dies. Recovery finds
the other neither published nor at the ref's base and returns Conflict, at that and every later
`open` (`lib.rs:539`), where the module's documentation says it is aborted.

The others were met while modelling. The models contain the behaviour, and the properties are
stated so as to leave it out and say so.

klyn-fs and daemon:

* An abort whose directory sync fails leaves its record in place (`lib.rs:211`). The caller, told
  that the abort failed, commits; a crash before the Committed record overwrites the other leaves
  a published candidate recorded as aborted. `AbortedIsUnpublished` therefore needs that
  directories can be synced.
* A connection that was accepted and whose thread has not begun holds no lease, so
  `complete_shutdown` does not wait for it, where `lifecycle.rs:207-208` speaks of all accepted
  connections. Its request is refused, and `NothingAfterReturn` checks that.

Task queue and mailbox:

* `const { computeBackoff } = await import(...)` (`task-queue.ts:45`) shadows the variable it should
  set. With `backoff.js` present the first retry of any task throws, and the task is neither queued,
  nor running, nor dead.
* The end in the dead-letter queue is never an event of the log (`task-queue.ts:792`), so that a
  restart runs a dead task again.
* `cancel` works on a copy of the queue (`task-queue.ts:526`): the task is recorded as cancelled
  and is run all the same, where line 523 says that it cancels a queued task. `LogIsFaithful` and
  `OneTaskPerKey` leave cancelled tasks out.
* A line that an append leaves without its newline runs into the next one (`task-queue.ts:209-216`), and
  recovery skips what it cannot parse (`:267`): the first event of the next append is lost with it, a
  whole one that is, and the task it was about comes back in an older state or not at all. What a
  failed append has written is written once more. `LogIsFaithful` leaves these tasks out
  (`forgotten`); their loss is what the model finds possible, not a promise kept.
* `request` puts the request into its own mailbox's queue, where the next cycle takes it for its
  reply (`ipc-mailbox.ts:374`): the caller gets its own payload.
* Messages taken over from the file are not written to the new one (`ipc-mailbox.ts:483`): a
  second crash loses them. `OnePlace` claims completeness only before the first crash.

Process manager (nothing else in the repository makes one):

* FAILED is called terminal (`process-manager.ts:18`, `:52`), but after a spawn error in STARTING the
  close event of the same child turns it into CRASHED and a restart follows.
* A child that a signal killed has no exit code, ever: a `stop` while its restart is pending goes
  to STOPPING and waits for a close event that has been; `CrashIsHandled` names that end (`Hangs`).
  An exit code that is there before the close event makes `stop` return early; a `start` then and the late event lead to two children.
* "Cancel any pending restart" (`process-manager.ts:337`) is not so for a listener of RESTARTING (`:412`) or
  of `restart-scheduled` (`:420`), which run before the timer is assigned (`:427`): `stop` there says
  STOPPED, the timer is armed all the same, and a `start` before it fires leads to two children. A `stop`
  from a listener of STARTING (`:200`) says STOPPED, and the child is spawned afterwards. A listener of
  STOPPING that calls `start` has the signal of the stop go to the new child. `OneChild`,
  `StoppedStaysDown` and `StopEnds` leave these stops out (`interrupted`); `RestartsAreCounted` does not.
* `start` in CRASHED, STOPPING or RESTARTING does not clear the timer of a restart, and the timer
  of a forced stop kills the current child, not the one that `stop` waits for. `OneChild` holds
  where start is called of a process that is pending or stopped and all of whose children are closed.
* The spawn error of a restart is emitted as an error event; with no listener it ends the kernel.

Event store:

* Opening the store starts no reaper. A task whose worker is gone stays RUNNING until somebody calls
  `startReaper` or `reapNow`, or opens the store again; `AbandonedReturns` is about the first.
* Opening the store puts the tasks of live workers of other processes back as well (`recoverPendingTasks`).
* Fencing tokens grow only while processes follow each other. A claim computes its token from a row
  it read before its transaction, so with two processes a token can be used twice, and both can be
  handed one task; a test of the scheduler (`p8.1-scheduler-context.test.ts:24`) expects the second
  token above the first. `AttemptIsFenced` is for processes that follow each other; the accounting,
  the numbering and the state hold for any.

Registers:

* "publish to the bus if attached" (`crdt_sync.ts:81`): `attach` subscribes and does not record the bus,
  so a replica attached after its construction hears and never publishes.
* `merge` and `applyBatch` leave the clock behind what they take in; a local write after them can
  lose to what it was meant to replace. `WritesTakeEffect` leaves these replicas out.

Ring buffer:

* An overwriting push moves the read cursor that a pop has already loaded (`ringbuf.rs:68-69`): the
  pop takes the newest item for the oldest, and the cursor moves twice. `KeepsFifo` ends there.

Causal mesh:

* "the merge is order-independent" (`federated_mesh.ts:23-24`) is true of a heal. An ingested delta is
  applied in the order in which it arrives, so nodes with the same events are in different
  states until one heals; `HealedAgree` is about nodes that took in others' events by heals.
* The "stable id" of an event (`temporal_causality.ts:140`) is the length of the log. It comes again
  after a restart that lost events, and once a log is cut at its limit.
* "never break the chain, the next append still lands" (`temporal_causality.ts:438-440`): an append that
  is cut off leaves half a line, and reading stops at it, so nothing appended later is read.
* A heal renumbers the log; a cursor from before it, used as `since`, misses what was inserted.

## 5. What is proved

All theorems are about `Spec` (`RegSpec`, `RingSpec`) without fairness, for every value of the constants that
satisfies the named assumptions of the modules. The bounds of the models are numbers among the
constants: the theorems hold whatever they are.

**klyn-fs, the journal and the ref** (`KlynFsInvariant`, `KlynFsProofs`), from `RevAssumption` (root,
transactions and outside commits have different names) and `BoundAssumption`. `Tx` need not be
finite.

| theorem | says |
|---|---|
| `TypeCorrect` | `TypeOK` |
| `JournalIsReplayable` | `open` accepts every directory the engine can have left |
| `AcknowledgedIsKept` | no acknowledged record is overwritten or lost, by a step |
| `PublicationIsKept` | the ref only moves to descendants |
| `CommittedIsInHistory` | what is called committed, on disk or by a handle, is reachable from the ref |
| `JournalCorrect`, `GitCorrect` | the inductive invariants behind them |

`JournalReplayable` alone is not inductive: an append is checked against the *in-memory* index,
not against the directory. What connects the two is `Indexed`: the directory holds the records
`1 .. nextSeq - 1` or one more, the index is the newest of the acknowledged ones for each
transaction, and what is synced lies among the acknowledged. The one more is the ghost of an
append that failed after its rename; the next append writes over exactly that number. `Directory`
is what remains when the process is gone (no gaps, each record may follow its predecessor, synced
records a prefix), and `JournalInv` puts them together: `Directory` always, `Indexed` unless the
engine is down, and an empty index then. `AppendIsSafe` proves that an append, whatever its outcome,
keeps both; `OpenIndexes` that replay establishes `Indexed` from `Directory`; `InFlightIsRecord` that what
a crash leaves behind is admissible; `PrefixIsWellFormed` that what a power loss leaves is.

`GitInv` says that a candidate commit has its transaction's base, which existed before, for its
only parent, so that compare-and-swap from the base moves the ref to a descendant
(`HistoryGrows`). `ThreadsNeedEngine` keeps threads and recovery apart. `HandleInv` says that whoever
holds a handle has a record of the same base, which abort and commit read from the index.
`CommitInv` adds that a record's candidate is its transaction's own and that a thread between
compare-and-swap and record is committed. Each is inductive given those before it.

**klyn-fs, publication and recovery** (`KlynFsProofs`).

| theorem | says |
|---|---|
| `PromiseIsKept` | the engine implements `Publication` |
| `PublishedIsValidated`, `PublishedIsStaged` | what is reachable has a durable validated record, and is what was staged, never the empty change |
| `CandidatesHaveRecords` | no candidate directory is without a record that a power loss does not take |
| `AbortsAreFinal`, `RecoveryCompletes` | if directories can be synced: what the journal calls aborted is never published; at the end of recovery no candidate is left and each transaction has the record that the ref calls for |
| `HistoryCorrect`, `StagedCorrect`, `ValidatedCorrect`, `CandidatesCorrect`, `OutcomesCorrect`, `AbortCorrect` | the invariants behind them |

The history of the ref is a chain of commits each sealed with its content (`HistoryInv`, `StagedInv`);
what a thread has validated is on disk before it can be published (`ValidatedInv`); candidate
directories appear only after their record was synced (`CandidateInv`), also during recovery, which
may visit the same one again (`RecoveryRevisits`). `OutcomeInv` says where the thread of an aborted or
a published transaction may stand: nowhere from which it could do the other. With these
`PromiseStep` shows, action by action, that a step of the engine is a step of `Publication` or leaves
its variables alone (`QuietSteps`). `AbortsAreFinal` and `RecoveryCompletes` assume `NoDirsyncFault`: without it they
are false. With it an append that fails leaves no record (`FailureIsTraceless`), so the newest
record of a transaction is the furthest (`LatestIsFurthest`), and an abort is of what is not
published (`AbortsAreOfUnpublished`).

**klyn-daemon** (`DaemonProofs`), from `ConnAssumption` (finitely many connections) and
`ThreadAssumption` (room for at least one thread).

| theorem | says |
|---|---|
| `TypeCorrect` | `TypeOK` |
| `CountersAreLeases`, `StopIsQuiet` | the counters are the numbers of leases out; nobody is being served when the daemon is Stopped |
| `WakeupsAreKept` | the draining thread sleeps only while a lease is out and nothing has failed |
| `ShutdownIsOne` | one client at most is told that it started the shutdown, and then the daemon goes down |
| `LifecycleIsForward` | states only go forward, and nothing is admitted once it is not Ready |
| `ThreadsBounded` | while `serve` runs there are no more connection threads than `MAX_CONNECTION_THREADS` |
| `NothingIsLeft` | when `serve` has returned nothing is admitted, and after Ok no thread is left |
| `LeasesCorrect`, `ServerCorrect`, `WorkersCorrect` | the invariants behind them |

`LeaseInv` adds to the counters *where* leases can be out: a request lease lies within its
connection's, and a Stopped daemon serves nobody. The counters are cardinalities, and `OneMore` and
`NobodyLeft` are what the library's theorems on finite sets say about adding and removing one; that
they never underflow is why a release never fails the daemon (`ReleaseKeepsLife`). `ServerInv` bounds the
lifecycle by where the serving thread stands. `AnswerInv` says that a client that was told it started
the shutdown was the first, since nobody is told so while the daemon is Ready.

The threads themselves are counted by nobody: `serve` has a list of handles, some of threads that
ended long ago. `WorkersInv` says that the handles account for the threads, each that was started and
has not ended having one until `serve` has returned, and that there are no more handles than threads
may be. It stands on `SiftedKeeps`: what reaping leaves has an element exactly for each kept element
of the list and is no longer than it. That a finite set of numbers has an increasing list
(`Enumerable`), which `Sifting` chooses, is an induction; it is proved by its least
counterexample (`Least`), as the induction theorems of the library cannot be instantiated.

**Task queue** (`TaskQueueProofs`), from `TaskAssumption`: finitely many tasks, at least one slot, one dead
letter and one kept event. Levels, keys, handlers, the outcome of the import and all bounds are any.

| theorem | says |
|---|---|
| `TypeCorrect` | `TypeOK`, the size of the dead-letter queue in it |
| `TaskInOnePlace` | `OnePlace`: no task waits twice, waits while it runs, or runs twice |
| `AttemptsBounded` | an attempt, the retries and one more for each restart |
| `EndedStaysOver` | by no step does a task begin whose end is in the log |
| `LogAccountsForQueue` | `LogIsFaithful`: what waits or runs would be recovered from log and buffer, with its attempts, and apart from the dead nothing else, but for the tasks whose events were dropped, spoilt by a line cut off, or are in an older log |
| `KeysExclude` | `OneTaskPerKey`: keys are held, and held by one |
| `PlacesCorrect`, `EndsCorrect` | invariants behind them |

The invariants build on each other. `WellTyped` adds to the types that only accepted tasks are
anywhere, so that a new task is nowhere yet, and that without a process there is nothing in memory.
`Places` is `OnePlace` of the entries. `Attempts` bounds the events of the log as well, because a restart
takes the attempts from there. `EndsStay` says that an end in the log is a true one, a task that was
cancelled apart: so no process has to look at the log to keep from running what is over.

`LogIsFaithful` speaks of the tasks a restart would find in `log \o buffer`. `Accounted` says it of the set
of events, since whether a task is recovered does not depend on their order (`PendingIsRecoverable`),
and of the order only what is needed: the newest event of a task (`NewestOfAppend`, `NewestOfCut`,
`NewestOfConcat`). Flushes do not change the sequence, a crash cuts it off somewhere, a line that was
cut off before takes the event it runs into, and the one on it, out of the middle, and a failed append
writes some events twice and loses others: whose events are lost is then `forgotten`.

Keys need most. A restart takes the keys of what it recovers, and what it recovers depends on where a
crash cut the append off. So `Keys` says for *every* prefix of the events that no two of the tasks that
would be recovered from it share a key (`PendingAt`, `OneHolder`). A task can be enqueued only when
nobody holds its key, and everybody who is pending does (`HeldIn`); among them are those whom a failed
retry lost, which is why it does not suffice to look at who waits or runs.

`Steps` reduces the actions to the few kinds of change the invariants tell apart (`EnqueueMoves`,
`DispatchMoves`, ...): an entry comes or goes, an event is written. `RestartParts`, `EvictParts` and
`DequeuedParts` say what the operators on sequences return, `SiftedOnce` that sifting repeats no task.

**Mailbox** (`QueuesProofs`), from `MailboxAssumption`: finitely many loops, at least one message in a
batch and one dead letter. Messages, requests, which of them are handled, and all bounds are any.

| theorem | says |
|---|---|
| `MailboxTypeCorrect` | `TypeOK`, the size of the dead-letter queue in it |
| `EachInOnePlace` | `OnePlace`: a message is queued, in one cycle, or settled; none is handed out twice, none disappears without a crash |
| `DeadLettersKept` | `UnheardIsDead`: what nobody handles is not dropped while there is room |
| `WaitersMatch` | `WaitersAreWaiting`: a waiter is there exactly as long as its caller waits |
| `PollLoopsBounded` | `LoopsAreBounded`: one poll loop, and at most one more for each stop or close |
| `MailboxHolds` | the invariant `MailboxInv` behind them |

None of these invariants is inductive as it stands. `Places` says of the places, and not of their numbers,
that the queue has no message twice, two busy loops have two messages and no two places share one; and
of the file as well that it has none twice, because a restart makes the queue of it. A restart finds
nothing else in memory (`Down`), and nothing is anywhere that was not sent (`Known`), so that what is
sent is new. `Promises` adds to the waiters that a request that stands anywhere has been sent: it is
sent once, so no caller goes back from an answer to waiting. `DeadLetters` looks ahead: the cycle that
holds a message nobody handles already has "failed" as its outcome, and settling it will record it.
`Polls` counts one loop more only while the mailbox polls: start adds one when it does not, and the call
that stopped it is counted.

A turn of a cycle touches everything at once, so it is taken apart first. `CycleDoes` says of both kinds
of turns that they clear what they had (`Clears`: what is settled, what stays queued, what is among the
dead letters), then end (`Ends`) or take the message at some place of the queue (`Takes`) with
some outcome (`Meets`). Of the order of the queue nothing but that the place is one of its own is
needed. `FlightEnds`, `FlightTakes` and `CyclesGoOn` say what is in flight afterwards, `Swept` and `Evicted`
that sweeping parts the queue, `Trimmed` that dead letters are dropped only when they are too many.

**Event store** (`StoresProofs`), from `StoreAssumption`.

| theorem | says |
|---|---|
| `TypeCorrect` | `TypeOK`, which includes that there always is a next number |
| `AttemptsCorrect` | each attempt of a task but its last ended in one counted recovery |
| `EndedStaysEnded` | an ended task keeps its outcome and its attempts |
| `FencingCorrect` | while processes follow each other, only the latest claim can end a task |
| `NumberingCorrect`, `StateCorrect` | events are numbered `1 .. n`; the state is the replay of the checkpoints |

`Numbered` connects the drafts with the table: the numbers in use are `1 .. n` and a draft has at most
the next one, so the unique key lets exactly the next one in (`InsertIsNext`). `TokenInv` says that,
unless processes overlapped, a token counts the attempts, for the task, for each job and for a claim
under way. `ReplayInv` adds to the state that a draft with the next version was made from the
state as it is (`Fresh`): a draft that another process overtook has a version that is taken.

**Registers** (`StoresProofs`), from `RegistersAssumption` and `NoneAssumption`.

| theorem | says |
|---|---|
| `RegTypeCorrect` | `RegTypeOK` |
| `Convergence` | replicas that saw the same are in the same state |
| `WritesCorrect` | a replica that never merged or took a batch does not lose its own write |
| `LiveCorrect` | replicas that live on the bus have each other's writes at once (`LiveReplicasAgree`) |
| `RegistersCorrect` | the invariant behind them |

`Beats` is asymmetric, transitive and total on updates of one register that differ, because versions
of one replica's register are unique (`VersionsAreUnique`). So there is one highest update in what a
replica has seen, and `HoldsHighest` says that its register holds it. `SeenWasSent` ties histories and
snapshots to what was written, `ClocksLead` says that the clock of a replica that did not fold
is not behind any register it has, `SyncIsKept` that live replicas saw the same.

**Ring buffer** (`QueuesProofs`), from `RingAssumption`: `QueueCorrect` is the refinement of `Fifo` for
any capacity of at least two and any items, `RingTypeCorrect` and `RingCorrect` the types and the invariant.
`RingInv` says, until a race, what each thread knows of cursors it loaded earlier (`PushKnows`: the
read cursor is where it was or further, and once a push writes there is room; `PopKnows`: the read
cursor is where it was, and below the write cursor once a pop takes) and that every slot between the
cursors holds an item, but the one a pop has taken. Two positions of the queue never share a slot as
the cursors are at most a capacity apart.

**Managed process** (`ManagedProcessProofs`), from `ManagedAssumption`: `OneChildCorrect`, `StopIsKept` (no
child comes to a process that was told to stop, unless a listener told it), `CountCorrect` (children, pending
restarts and those still to come of a call are no more than starts and counted restarts), `TypeCorrect` and
`ProcessCorrect`. The invariant `Orderly` says of a process started in order, and stopped by no listener that
comes too early, that every child but the current is closed, and that a restart is pending, or a spawn or a
restart is on the stack, only when the current one is closed too, and then only one of these. The count is one
of cardinalities, as for the leases.

**Causal mesh** (`CausalMeshProofs`), from `MeshAssumption` and `NoneAssumption`.

| theorem | says |
|---|---|
| `TypeCorrect` | `TypeOK` |
| `StampsCorrect` | an event is stamped after all its node knows of, whatever the time of day does and whatever restarts lose |
| `IdsCorrect`, `OnceCorrect`, `HealedCorrect`, `LossCorrect` | until a restart loses events: ids are unique, no log has an event twice, healed nodes with the same events agree, and no event leaves a log |
| `MeshAlways` | the invariant `MeshInv` |

`ClocksLead` says that a clock, with what it has yet to hear, is at or after every event of the log.
As long as nothing was lost (`HistoryInv`), a node's own events are in its log, and the
log is as long as the number of each at least (`OwnIsLogged`), so that the number after its length is
fresh, although deltas and heals lengthen it; logs are sets in some order (`LogsAreSets`), files are in the order of
stamps (`FilesInOrder`), so that a restored log is a sorted one, and of a node that adopted nothing
the state is the latest event of each ref (`StateIsLatest`), which only depends on the set of events.
`MergedIsUnion` says that where ids are unique a merge loses nothing, `SortedReplay` that replaying a
sorted log gives the latest events.

**Only model-checked.** Liveness (`InterruptedIsSettled`, `ShutdownEnds`, `EveryTaskEnds`, `RequestEnds`,
`EveryMessageSettles`, `AbandonedReturns`, `StopEnds`, `CrashIsHandled`), as fairness and ENABLED are out
of the prover's reach, and the one difference of section 4 that a run shows. Every other property of a
run is a theorem. No module with a theorem reaches a RECURSIVE operator.

## 6. Not modelled

Parts of the modelled components that are left out are named with each module above. Of the rest:

* *The daemon's filesystem service* holds one mutex through every call of klyn-fs; it serializes
  what `KlynFs` lets run at once. A transaction that is left behind without a handle is
  `KlynFs!Release`, which the next start settles. *Policy* and *protocol* are pure and appear as their outcomes.
* *The sandbox broker's* workers share nothing that changes beyond a bounded channel; the *confinement* is a
  sequence of system calls whose effect is the operating system's. `klyn-vault` is an empty file.
* *The circuit breaker* shares a few counters across an await, but no comment or test says how many
  probes there may be, or in which state a late result counts; there is nothing to check it against.
* *The kernel's lifecycle* is a table, four phases that run in order behind a flag, and a barrier that
  waits for nothing. *The mailbox router* is a map of mailboxes that share nothing; it does not start those
  it creates.
* *The process sandbox* has the like races of a child, its timers and its end as `ManagedProcess`.
* *The workflow engine* sorts a graph and runs it step by step; its sort is a pure function.
* *Mesh transports, fleet and provisioning* are sockets, gossip of addresses and scores: `CausalMesh`
  assumes no more of a transport than that it delivers what was sent, if at all.
* *Unified memory, plugins, git, HTTP, secrets, logs, metrics, native bindings* are maps, files and adapters.
* *Language-model, swarm, indexing and AI packages* are data-bound: prompts, parsing and scoring.
* *Prototypes, generated, archived and copied material* (most of the files of the repository) is not
  called by the above; the copies are of earlier states of what is modelled or left out here.

Hazards that no property covers carry a note that says why.
