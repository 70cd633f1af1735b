------------------------------- MODULE KlynFs -------------------------------
(***************************************************************************)
(* The transaction engine of crates/klyn-fs: candidate worktrees, the      *)
(* journal of numbered record files, publication by compare-and-swap of a  *)
(* Git ref, and the recovery that FsEngine::open runs after a crash.       *)
(*                                                                         *)
(* Threads drive transactions concurrently (FsEngine is Clone and every    *)
(* KlynTransaction is owned by one caller); pc[t] is where the thread that *)
(* owns t stands.  A step is one atomic interaction with the shared parts: *)
(* the publication ref, or the journal, which its mutex makes atomic.      *)
(***************************************************************************)
EXTENDS Naturals, FiniteSets

CONSTANTS
    Tx,          \* transaction identifiers; new_id never returns one twice
    Foreign,     \* commits that somebody else fast-forwards the ref to
    Root,        \* the commit the publication ref is created at
    NoRev,       \* Option::None for a candidate revision
    Trees,       \* contents of a whole tree
    RootTree,    \* the content of Root
    FaultKinds,  \* which of "write", "dirsync", "git" may fail
    MaxFaults,   \* bound on the number of failures
    MaxCrashes   \* bound on the number of crashes

\* The only commit made for transaction t is named t.
Rev == {Root} \cup Tx \cup Foreign

ASSUME RevAssumption ==
    /\ Root \notin Tx \cup Foreign
    /\ Tx \cap Foreign = {}
    /\ NoRev \notin Rev

ASSUME BoundAssumption ==
    /\ MaxFaults \in Nat
    /\ MaxCrashes \in Nat
    /\ RootTree \in Trees

VARIABLES
    records,     \* the journal directory: record file number -> record
    synced,      \* the numbers whose directory entry has been fsynced
    nextSeq,     \* Journal.next_sequence
    latest,      \* Journal.latest: transaction -> its newest record
    ref,         \* the commit the publication ref points at
    reach,       \* the object database: commit -> commits reachable from it
    tree,        \* the object database: commit -> its content
    worktrees,   \* the transactions whose candidate directory exists
    engine,      \* "down", "recovering", "up", or "refused": open failed
    todo,        \* recovery: the transactions not yet taken from the records
    cur,         \* recovery: the one whose candidate is to be removed, or NoRev
    pc,          \* where the thread that owns the transaction stands
    state,       \* KlynTransaction.state
    base,        \* KlynTransaction.base_revision
    cand,        \* KlynTransaction.candidate_revision
    work,        \* what the files of the candidate directory hold
    index,       \* what the candidate's index holds
    faults,      \* failures so far
    crashes      \* crashes so far

journal == <<records, synced, nextSeq, latest>>
git     == <<ref, reach, tree>>
loop    == <<engine, todo, cur>>
handle  == <<state, base, cand>>
vars    == <<journal, git, worktrees, loop, pc, handle, work, index,
             faults, crashes>>

-----------------------------------------------------------------------------
(* The journal.                                                            *)

States == {"Init", "Staged", "Validated", "Committed", "Aborted"}

Terminal(s) == s \in {"Committed", "Aborted"}

ValidTransition(from, to) ==
    <<from, to>> \in { <<"Init", "Staged">>, <<"Init", "Aborted">>,
                       <<"Staged", "Validated">>, <<"Staged", "Aborted">>,
                       <<"Validated", "Committed">>, <<"Validated", "Aborted">> }

Record == [ sequence : Nat \ {0}, tx : Tx, state : States, base : Rev,
            cand : Tx \cup {NoRev} ]

\* A record may come after prev, the newest record of the same transaction.
Follows(prev, rec) ==
    /\ prev.base = rec.base
    /\ ~Terminal(prev.state)
    /\ ValidTransition(prev.state, rec.state)
    /\ prev.cand # NoRev => prev.cand = rec.cand

\* What Journal::open accepts: no gap in the numbers, and every record either
\* the first of its transaction or one that follows the previous one.
WellFormed(recs) ==
    /\ DOMAIN recs = 1 .. Cardinality(DOMAIN recs)
    /\ \A i \in DOMAIN recs :
          LET earlier == {j \in DOMAIN recs : j < i /\ recs[j].tx = recs[i].tx}
          IN  /\ recs[i].sequence = i
              /\ earlier = {} => recs[i].state = "Init"
              /\ \A j \in earlier :
                    (\A k \in earlier : k <= j) => Follows(recs[j], recs[i])

Journaled(recs) == {recs[i].tx : i \in DOMAIN recs}

\* The newest record file of transaction t.
NewestOf(recs, t) ==
    CHOOSE i \in DOMAIN recs :
        /\ recs[i].tx = t
        /\ \A j \in DOMAIN recs : recs[j].tx = t => j <= i

Replay(recs) == [t \in Journaled(recs) |-> recs[NewestOf(recs, t)]]

NextNumber(recs) == Cardinality(DOMAIN recs) + 1

\* Bug: recovery passes over the transactions that never staged anything.
BugToRecover(recs) == {t \in Journaled(recs) : Replay(recs)[t].state # "Init"}

\* The transactions recovery looks at: all that have a record.
ToRecover(recs) == Journaled(recs)

NewRecord(t, s, b, c) ==
    [sequence |-> nextSeq, tx |-> t, state |-> s, base |-> b, cand |-> c]

\* The rename puts the record in place, over whatever had that number.
Put(rec) ==
    [i \in DOMAIN records \cup {rec.sequence} |->
        IF i = rec.sequence THEN rec ELSE records[i]]

Admissible(rec) ==
    IF rec.tx \in DOMAIN latest THEN Follows(latest[rec.tx], rec)
                                ELSE rec.state = "Init"

Fault(kind) ==
    /\ kind \in FaultKinds
    /\ faults < MaxFaults
    /\ faults' = faults + 1

\* Journal::append returns Ok.
Appended(rec) ==
    /\ Admissible(rec)
    /\ records' = Put(rec)
    /\ synced' = DOMAIN records'
    /\ nextSeq' = nextSeq + 1
    /\ latest' = [t \in DOMAIN latest \cup {rec.tx} |->
                     IF t = rec.tx THEN rec ELSE latest[t]]
    /\ UNCHANGED faults

\* Bug: the number of a record that failed is used up.
BugAppendFailed(rec) ==
    /\ Fault("write")
    /\ nextSeq' = nextSeq + 1
    /\ UNCHANGED <<records, synced, latest>>

\* Journal::append returns Err: the record was refused or could not be
\* written, or it is in place but the directory could not be synced.
AppendFailed(rec) ==
    \/ ~Admissible(rec) /\ UNCHANGED <<journal, faults>>
    \/ Fault("write") /\ UNCHANGED journal
    \/ /\ Fault("dirsync")
       /\ Admissible(rec)
       /\ records' = Put(rec)
       /\ UNCHANGED <<synced, nextSeq, latest>>

-----------------------------------------------------------------------------
Init ==
    /\ records = [i \in {} |-> i]
    /\ synced = {}
    /\ nextSeq = 1
    /\ latest = [t \in {} |-> t]
    /\ ref = Root
    /\ reach = [r \in Rev |-> IF r = Root THEN {Root} ELSE {}]
    /\ tree = [r \in Rev |-> RootTree]
    /\ worktrees = {}
    /\ engine = "down"
    /\ todo = {}
    /\ cur = NoRev
    /\ pc = [t \in Tx |-> "new"]
    /\ state = [t \in Tx |-> "Init"]
    /\ base = [t \in Tx |-> Root]
    /\ cand = [t \in Tx |-> NoRev]
    /\ work = [t \in Tx |-> RootTree]
    /\ index = [t \in Tx |-> RootTree]
    /\ faults = 0
    /\ crashes = 0

Goto(t, from, to) == pc[t] = from /\ pc' = [pc EXCEPT ![t] = to]

-----------------------------------------------------------------------------
(* begin_transaction                                                       *)

\* The base is read before the transaction has an identifier or a record.
BeginRead(t) ==
    /\ engine = "up"
    /\ Goto(t, "new", "based")
    /\ base' = [base EXCEPT ![t] = ref]
    /\ UNCHANGED <<journal, git, worktrees, loop, state, cand, work, index,
                   faults, crashes>>

BeginLog(t) ==
    LET rec == NewRecord(t, "Init", base[t], NoRev) IN
    /\ \/ Goto(t, "based", "logged") /\ Appended(rec)
       \/ Goto(t, "based", "gone") /\ AppendFailed(rec)
    /\ UNCHANGED <<git, worktrees, loop, handle, work, index, crashes>>

\* git worktree add; when it fails it may leave the directory behind.
BeginWorktree(t) ==
    /\ \/ /\ Goto(t, "logged", "idle")
          /\ worktrees' = worktrees \cup {t}
          /\ work' = [work EXCEPT ![t] = tree[base[t]]]
          /\ index' = [index EXCEPT ![t] = tree[base[t]]]
          /\ UNCHANGED faults
       \/ /\ Goto(t, "logged", "undo")
          /\ Fault("git")
          /\ worktrees' \in {worktrees, worktrees \cup {t}}
          /\ UNCHANGED <<work, index>>
    /\ UNCHANGED <<journal, git, loop, handle, crashes>>

\* The failure is recorded, but the outcome of the append is ignored.
BeginUndo(t) ==
    LET rec == NewRecord(t, "Aborted", base[t], NoRev) IN
    /\ Goto(t, "undo", "gone")
    /\ Appended(rec) \/ AppendFailed(rec)
    /\ UNCHANGED <<git, worktrees, loop, handle, work, index, crashes>>

-----------------------------------------------------------------------------
(* write_file, stage and validate                                          *)

Idle(t, s) == pc[t] = "idle" /\ state[t] = s

Edit(t) ==
    /\ \E c \in Trees \ {work[t]} : work' = [work EXCEPT ![t] = c]
    /\ UNCHANGED <<journal, git, worktrees, loop, pc, handle, index,
                   faults, crashes>>

\* A write whose expected preimage does not match changes nothing.
Write(t) == Idle(t, "Init") /\ Edit(t)

\* Something other than the engine edits the candidate directory, or undoes
\* its edit: candidate_path is handed to the caller.
OutsideEdit(t) == (Idle(t, "Staged") \/ Idle(t, "Validated")) /\ Edit(t)

\* The candidate's head is the base until the candidate commit is made.
Sealed(t) == reach[t] # {}

\* Bug: nothing refuses a change that is empty.
BugHasChanges(t, content) == TRUE

HasChanges(t, content) == content # tree[base[t]]

CanStage(t) == Idle(t, "Init") /\ ~Sealed(t)

Stage(t) ==
    LET rec == NewRecord(t, "Staged", base[t], NoRev) IN
    /\ CanStage(t)
    /\ index' = [index EXCEPT ![t] = work[t]]
    /\ \/ /\ HasChanges(t, work[t])
          /\ Appended(rec)
          /\ state' = [state EXCEPT ![t] = "Staged"]
       \/ HasChanges(t, work[t]) /\ AppendFailed(rec) /\ UNCHANGED state
       \/ ~HasChanges(t, work[t]) /\ UNCHANGED <<journal, state, faults>>
    /\ UNCHANGED <<git, worktrees, loop, pc, base, cand, work, crashes>>

\* validate_inner up to git commit.
ValidateCommit(t) ==
    /\ Idle(t, "Staged")
    /\ ~Sealed(t)
    /\ HasChanges(t, index[t])
    /\ Goto(t, "idle", "sealed")
    /\ reach' = [reach EXCEPT ![t] = {t} \cup reach[base[t]]]
    /\ tree' = [tree EXCEPT ![t] = index[t]]
    /\ UNCHANGED <<journal, ref, worktrees, loop, handle, work, index,
                   faults, crashes>>

\* validate_inner fails before it makes the commit: the head is not the base,
\* or the staged change is refused (whitespace errors, links).
ValidateReject(t) ==
    /\ Idle(t, "Staged")
    /\ Goto(t, "idle", "rejecting")
    /\ UNCHANGED <<journal, git, worktrees, loop, handle, work, index,
                   faults, crashes>>

\* Head, index and files agree: git status has nothing to report.
Clean(t) == work[t] = tree[t] /\ index[t] = tree[t]

\* The rest of validate_inner: ensure_clean, then the record.
ValidateLog(t) ==
    LET rec == NewRecord(t, "Validated", base[t], t) IN
    /\ \/ /\ Goto(t, "sealed", "idle")
          /\ Clean(t)
          /\ Appended(rec)
          /\ state' = [state EXCEPT ![t] = "Validated"]
          /\ cand' = [cand EXCEPT ![t] = t]
       \/ /\ Goto(t, "sealed", "rejecting")
          /\ \/ ~Clean(t) /\ UNCHANGED <<journal, faults>>
             \/ Fault("git") /\ UNCHANGED journal
             \/ Clean(t) /\ AppendFailed(rec)
          /\ UNCHANGED <<state, cand>>
    /\ UNCHANGED <<git, worktrees, loop, base, work, index, crashes>>

-----------------------------------------------------------------------------
(* abort and commit                                                        *)

\* abort_inner called from a pc other than "idle" returns there in the end.
AbortInner(t) ==
    LET rec == NewRecord(t, "Aborted", base[t], cand[t]) IN
    IF Terminal(latest[t].state)
    THEN /\ state' = [state EXCEPT ![t] = latest[t].state]
         /\ pc' = [pc EXCEPT ![t] = "idle"]
         /\ UNCHANGED <<journal, faults>>
    ELSE \/ /\ Appended(rec)
            /\ state' = [state EXCEPT ![t] = "Aborted"]
            /\ pc' = [pc EXCEPT ![t] = "cleanup"]
         \/ /\ AppendFailed(rec)
            /\ pc' = [pc EXCEPT ![t] = "idle"]
            /\ UNCHANGED state

\* abort, or the end of a validate that failed.
Abort(t) ==
    /\ \/ pc[t] = "idle" /\ ~Terminal(state[t])
       \/ pc[t] = "rejecting"
    /\ AbortInner(t)
    /\ UNCHANGED <<git, worktrees, loop, base, cand, work, index, crashes>>

\* Bug: git update-ref without the expected old value.
BugSwappable(t) == TRUE

\* The compare of git update-ref's compare-and-swap.
Swappable(t) == ref = base[t]

\* commit up to git update-ref <ref> <candidate> <base>.
CommitPublish(t) ==
    /\ Idle(t, "Validated")
    /\ latest[t].state = "Validated"
    /\ cand[t] # NoRev
    /\ Sealed(t)
    /\ Clean(t)
    /\ \/ /\ Swappable(t)
          /\ ref' = cand[t]
          /\ Goto(t, "idle", "published")
          /\ state' = [state EXCEPT ![t] = "Committed"]
          /\ UNCHANGED faults
       \/ /\ ~Swappable(t)
          /\ Goto(t, "idle", "lost")
          /\ UNCHANGED <<ref, state, faults>>
       \/ /\ Fault("git")
          /\ Goto(t, "idle", "lost")
          /\ UNCHANGED <<ref, state>>
    /\ UNCHANGED <<journal, reach, tree, worktrees, loop, base, cand, work, index, crashes>>

\* update-ref failed: the ref is read for the reply, then abort_inner.
CommitLost(t) ==
    /\ pc[t] = "lost"
    /\ \/ AbortInner(t)
       \/ Fault("git") /\ Goto(t, "lost", "idle") /\ UNCHANGED <<journal, state>>
    /\ UNCHANGED <<git, worktrees, loop, base, cand, work, index, crashes>>

CommitLog(t) ==
    LET rec == NewRecord(t, "Committed", base[t], cand[t]) IN
    /\ \/ Goto(t, "published", "cleanup") /\ Appended(rec)
       \/ Goto(t, "published", "idle") /\ AppendFailed(rec)
    /\ UNCHANGED <<git, worktrees, loop, handle, work, index, crashes>>

\* The candidate directory is removed after the terminal record.
Cleanup(t) ==
    /\ Goto(t, "cleanup", "idle")
    /\ \/ worktrees' = worktrees \ {t} /\ UNCHANGED faults
       \/ Fault("git") /\ UNCHANGED worktrees
    /\ UNCHANGED <<journal, git, loop, handle, work, index, crashes>>

\* The caller lets go of the handle; KlynTransaction has no Drop.
Release(t) ==
    /\ Goto(t, "idle", "gone")
    /\ UNCHANGED <<journal, git, worktrees, loop, handle, work, index,
                   faults, crashes>>

-----------------------------------------------------------------------------
(* FsEngine::open and recover_incomplete_transactions                      *)

Open ==
    /\ engine \in {"down", "refused"}
    /\ WellFormed(records)
    /\ latest' = Replay(records)
    /\ nextSeq' = NextNumber(records)
    /\ engine' = "recovering"
    /\ todo' = ToRecover(records)
    /\ cur' = NoRev
    /\ UNCHANGED <<records, synced, git, worktrees, pc, handle, work, index,
                   faults, crashes>>

\* The records are taken in the order of their numbers.
Oldest(t) ==
    /\ engine = "recovering"
    /\ cur = NoRev
    /\ t \in todo
    /\ \A u \in todo : latest[t].sequence <= latest[u].sequence

Published(rev) == rev \in reach[ref]

\* Bug: only the tip of the ref counts as published, all else is aborted.
BugVerdict(rec) ==
    IF rec.state = "Validated" /\ ref = rec.cand THEN "Committed" ELSE "Aborted"

\* Bug: a validated candidate is taken for a published one.
BugVerdictTrusting(rec) ==
    IF rec.state = "Validated" THEN "Committed" ELSE "Aborted"

\* What recovery makes of an unfinished transaction: "Conflict" when the ref
\* has moved away from the base to something the candidate is not part of.
Verdict(rec) ==
    CASE rec.state # "Validated" -> "Aborted"
      [] rec.state = "Validated" /\ Published(rec.cand) -> "Committed"
      [] rec.state = "Validated" /\ ~Published(rec.cand) /\ ref = rec.base -> "Aborted"
      [] OTHER -> "Conflict"

RecoveryRecord(t) ==
    NewRecord(t, Verdict(latest[t]), latest[t].base,
              IF latest[t].state = "Validated" THEN latest[t].cand ELSE NoRev)

\* Bug: no candidate directory is removed.
BugTake(t) ==
    /\ todo' = todo \ {t}
    /\ UNCHANGED <<cur, engine>>

Take(t) ==
    /\ todo' = todo \ {t}
    /\ cur' = t
    /\ UNCHANGED engine

Refuse == engine' = "refused" /\ UNCHANGED <<todo, cur>>

RecoverTerminal(t) ==
    /\ Oldest(t)
    /\ Terminal(latest[t].state)
    /\ Take(t)
    /\ UNCHANGED <<journal, git, worktrees, pc, handle, work, index,
                   faults, crashes>>

RecoverUnfinished(t) ==
    /\ Oldest(t)
    /\ ~Terminal(latest[t].state)
    /\ Verdict(latest[t]) # "Conflict"
    /\ \/ Appended(RecoveryRecord(t)) /\ Take(t)
       \/ AppendFailed(RecoveryRecord(t)) /\ Refuse
       \/ Fault("git") /\ UNCHANGED journal /\ Refuse
    /\ UNCHANGED <<git, worktrees, pc, handle, work, index, crashes>>

RecoverConflict(t) ==
    /\ Oldest(t)
    /\ ~Terminal(latest[t].state)
    /\ Verdict(latest[t]) = "Conflict"
    /\ Refuse
    /\ UNCHANGED <<journal, git, worktrees, pc, handle, work, index,
                   faults, crashes>>

RecoverCleanup ==
    /\ engine = "recovering"
    /\ cur # NoRev
    /\ \/ /\ worktrees' = worktrees \ {cur}
          /\ cur' = NoRev
          /\ UNCHANGED <<engine, todo, faults>>
       \/ /\ Fault("git")
          /\ Refuse
          /\ UNCHANGED worktrees
    /\ UNCHANGED <<journal, git, pc, handle, work, index, crashes>>

RecoverDone ==
    /\ engine = "recovering"
    /\ todo = {}
    /\ cur = NoRev
    /\ engine' = "up"
    /\ UNCHANGED <<journal, git, worktrees, todo, cur, pc, handle, work, index, faults, crashes>>

-----------------------------------------------------------------------------
(* The environment: crashes, power losses, other writers of the ref.       *)

\* The records a thread may be writing when the process dies.
Writing(t) ==
    CASE pc[t] = "based"     -> {NewRecord(t, "Init", base[t], NoRev)}
      [] pc[t] = "undo"      -> {NewRecord(t, "Aborted", base[t], NoRev)}
      [] pc[t] = "sealed"    -> IF Clean(t)
                                THEN {NewRecord(t, "Validated", base[t], t)}
                                ELSE {}
      [] pc[t] = "published" -> {NewRecord(t, "Committed", base[t], cand[t])}
      [] pc[t] \in {"rejecting", "lost"} ->
                                {NewRecord(t, "Aborted", base[t], cand[t])}
      [] pc[t] = "idle" /\ ~Terminal(state[t]) ->
                                {NewRecord(t, "Aborted", base[t], cand[t])} \cup
                                (IF CanStage(t) /\ HasChanges(t, work[t])
                                 THEN {NewRecord(t, "Staged", base[t], NoRev)}
                                 ELSE {})
      [] OTHER -> {}

InFlight ==
    CASE engine = "up" -> UNION {Writing(t) : t \in Tx}
      [] engine = "recovering" ->
            {RecoveryRecord(t) : t \in {u \in Tx : /\ Oldest(u)
                                                   /\ ~Terminal(latest[u].state)
                                                   /\ Verdict(latest[u]) # "Conflict"}}
      [] OTHER -> {}

\* The process dies, perhaps after renaming a record and before syncing it.
Crash ==
    /\ engine \in {"recovering", "up"}
    /\ crashes < MaxCrashes
    /\ crashes' = crashes + 1
    /\ records' \in {records} \cup
                    {Put(rec) : rec \in {r \in InFlight : Admissible(r)}}
    /\ engine' = "down"
    /\ latest' = [t \in {} |-> t]
    /\ nextSeq' = 1
    /\ todo' = {}
    /\ cur' = NoRev
    /\ pc' = [t \in Tx |-> IF pc[t] = "new" THEN "new" ELSE "gone"]
    /\ UNCHANGED <<synced, git, worktrees, handle, work, index, faults>>

\* The machine goes down too: a record that was not synced is gone.
PowerLoss ==
    /\ crashes < MaxCrashes
    /\ crashes' = crashes + 1
    /\ records' = [i \in synced |-> records[i]]
    /\ engine' = "down"
    /\ latest' = [t \in {} |-> t]
    /\ nextSeq' = 1
    /\ todo' = {}
    /\ cur' = NoRev
    /\ pc' = [t \in Tx |-> IF pc[t] = "new" THEN "new" ELSE "gone"]
    /\ UNCHANGED <<synced, git, worktrees, handle, work, index, faults>>

\* Somebody else fast-forwards the ref; nothing but the compare-and-swap of
\* commit protects the engine from it.
ForeignPublish(f) ==
    /\ reach[f] = {}
    /\ ref' = f
    /\ reach' = [reach EXCEPT ![f] = {f} \cup reach[ref]]
    /\ \E c \in Trees : tree' = [tree EXCEPT ![f] = c]
    /\ UNCHANGED <<journal, worktrees, loop, pc, handle, work, index,
                   faults, crashes>>

-----------------------------------------------------------------------------
Begin(t) == BeginRead(t) \/ BeginLog(t) \/ BeginWorktree(t) \/ BeginUndo(t)

Prepare(t) ==
    \/ Write(t)
    \/ OutsideEdit(t)
    \/ Stage(t)
    \/ ValidateCommit(t)
    \/ ValidateReject(t)
    \/ ValidateLog(t)

Finish(t) ==
    \/ Abort(t)
    \/ CommitPublish(t)
    \/ CommitLost(t)
    \/ CommitLog(t)
    \/ Cleanup(t)
    \/ Release(t)

Recover ==
    \/ \E t \in Tx : RecoverTerminal(t) \/ RecoverUnfinished(t) \/ RecoverConflict(t)
    \/ RecoverCleanup
    \/ RecoverDone

Next ==
    \/ \E t \in Tx : Begin(t) \/ Prepare(t) \/ Finish(t)
    \/ Open
    \/ Recover
    \/ Crash
    \/ PowerLoss
    \/ \E f \in Foreign : ForeignPublish(f)

Spec == Init /\ [][Next]_vars

\* Whoever supervises the daemon starts it again, and its startup code runs;
\* no caller is obliged to finish a transaction.
FairSpec == Spec /\ WF_vars(Open) /\ WF_vars(Recover)

=============================================================================
