-------------------------- MODULE EventStoreProps ---------------------------
(* What the durable store must guarantee.                                  *)
EXTENDS EventStore

\* Every variable has its type.
TypeOK ==
    /\ status \in [Task -> {"NONE", "PENDING", "RUNNING", "COMPLETED", "FAILED"}]
    /\ holder \in [Task -> Worker \cup {Nobody}]
    /\ token \in [Task -> Nat]
    /\ live \subseteq Running
    /\ attempts \in [Task -> Nat]
    /\ recoveries \in [Task -> Nat]
    /\ claim \in [Worker -> {NoClaim} \cup [task : Task, token : Nat \ {0}, done : BOOLEAN]]
    /\ jobs \in [Worker -> SUBSET [task : Task, token : Nat, attempts : Nat]]
    /\ events \subseteq [seq : 1 .. MaxEvents, version : Nat,
                         key : Key \cup {Unset}, value : Value \cup {Unset}]
    /\ state \in [version : Nat, values : [Key -> Value \cup {Unset}]]
    /\ draft \in [Worker -> {NoDraft}
                    \cup [seq : 1 .. MaxEvents, version : Nat,
                          key : Key \cup {Unset}, value : Value \cup {Unset},
                          values : [Key -> Value \cup {Unset}]]]
    /\ up \subseteq Store /\ reaping \subseteq up
    /\ overlapped \in BOOLEAN
    /\ opens \in 0 .. MaxOpens

\* Whichever processes claim, reap, reopen or die in whatever order, the row
\* accounts for its attempts: each ended in a recovery but the last, which runs
\* or has ended the task. No claim is counted twice, no recovery lost.
AttemptsAreAccounted ==
    \A t \in Task :
        attempts[t] = recoveries[t]
            + (IF status[t] \in {"RUNNING", "COMPLETED", "FAILED"} THEN 1 ELSE 0)

\* The events of the agent are numbered from 1, with no number twice and none left
\* out, though the next number is read before the transaction that uses it and
\* other processes number events meanwhile.
EventsAreNumbered ==
    /\ \E n \in 0 .. MaxEvents : {e.seq : e \in events} = 1 .. n
    /\ \A e, f \in events : e.seq = f.seq => e = f

Checkpoints == {e \in events : e.version > 0}

\* The state of the agent is what its checkpoints say, in their order, though it
\* is read before the transaction that writes it: two processes that set values
\* at the same time, or append events in between, lose none of them.
StateIsReplayed ==
    /\ {e.version : e \in Checkpoints} = 1 .. state.version
    /\ \A k \in Key :
          \/ /\ state.values[k] = Unset
             /\ \A e \in Checkpoints : e.key # k
          \/ \E e \in Checkpoints :
                /\ e.key = k /\ e.value = state.values[k]
                /\ \A f \in Checkpoints : f.key = k => f.seq <= e.seq

\* As long as processes followed each other, the fencing token fences: of the
\* jobs a worker was ever handed, only that of the task's latest claim can end
\* it or keep its lease, whatever was reaped and given to others or to the same
\* worker again.
AttemptIsFenced ==
    overlapped \/
        \A w \in Worker : \A job \in jobs[w] :
            Holds(w, job) => job.attempts = attempts[job.task]

Ended == {"COMPLETED", "FAILED"}

\* A task ends once: no stale claim, reaper, recovery or second worker takes it
\* up again or changes its outcome.
EndedIsFinal ==
    [][\A t \in Task :
          status[t] \in Ended =>
              status'[t] = status[t] /\ attempts'[t] = attempts[t]]_vars

\* A running task on which no live process works is taken back from its worker if
\* a reaper runs, in whichever process, and is not stopped. An open store is not
\* enough: opening starts no reaper, and without one the task stays with a worker
\* that is gone until the next open.
AbandonedReturns ==
    \A t \in Task, s \in Store :
        (t \in Running /\ Unattended(t) /\ s \in reaping)
            ~> (t \notin Running \/ ~Unattended(t) \/ s \notin reaping)

=============================================================================
