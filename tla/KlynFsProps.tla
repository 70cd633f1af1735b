----------------------------- MODULE KlynFsProps -----------------------------
(* What the transaction engine must guarantee.                             *)
EXTENDS KlynFs

PCs == {"new", "based", "logged", "undo", "idle", "sealed", "rejecting",
        "published", "lost", "cleanup", "gone"}

\* Every variable has its type; the journal's in-memory index is a partial
\* function on the transactions, its directory one on the record numbers.
TypeOK ==
    /\ DOMAIN records \subseteq Nat \ {0}
    /\ \A i \in DOMAIN records : records[i] \in Record
    /\ synced \subseteq DOMAIN records
    /\ nextSeq \in Nat \ {0}
    /\ DOMAIN latest \subseteq Tx
    /\ \A t \in DOMAIN latest : latest[t] \in Record /\ latest[t].tx = t
    /\ ref \in Rev
    /\ reach \in [Rev -> SUBSET Rev]
    /\ tree \in [Rev -> Trees]
    /\ worktrees \subseteq Tx
    /\ engine \in {"down", "recovering", "up", "refused"}
    /\ todo \subseteq Tx
    /\ cur \in Tx \cup {NoRev}
    /\ pc \in [Tx -> PCs]
    /\ state \in [Tx -> States]
    /\ base \in [Tx -> Rev]
    /\ cand \in [Tx -> Tx \cup {NoRev}]
    /\ work \in [Tx -> Trees]
    /\ index \in [Tx -> Trees]
    /\ faults \in Nat
    /\ crashes \in Nat

-----------------------------------------------------------------------------
(* The journal against crashes and failed appends.                         *)

\* At every moment, whatever appends have failed and wherever the process or
\* the machine went down, Journal::open accepts the directory: it never
\* reports JournalCorrupt for what the engine itself wrote.
JournalReplayable == WellFormed(records)

\* A record that append has acknowledged is never overwritten or lost, by a
\* later append that reuses a number after a failure, or by a crash.
SyncedRecordsAreKept ==
    [][\A i \in synced : (i \in DOMAIN records' /\ records'[i] = records[i])]_vars

\* A candidate directory always has a record that leads recovery to it, so
\* none is ever orphaned: Init is durable before git worktree add runs.
CandidatesAreJournaled == worktrees \subseteq Journaled(records)

-----------------------------------------------------------------------------
(* Publication.                                                            *)

\* Publishing never drops a revision that was visible before: the ref only
\* moves to a descendant of where it was, whoever else publishes meanwhile.
NoLostPublication == [][(ref \in reach'[ref'])]_vars

\* A transaction is published only after its candidate is durably recorded as
\* validated: recovery can always tell a published candidate from a stranger.
PublishedWasValidated ==
    \A t \in reach[ref] \cap Tx :
        \E i \in synced : /\ records[i].tx = t
                          /\ records[i].state = "Validated"
                          /\ records[i].cand = t

\* The revision published for a transaction holds exactly what was staged,
\* though the directory may be edited from outside in between, and it is
\* never the empty change that stage and validate refuse.
PublishedAsStaged ==
    \A t \in reach[ref] \cap Tx :
        tree[t] = index[t] /\ tree[t] # tree[base[t]]

\* The journal says Committed, or a caller's handle does, only of what is in
\* the history of the publication ref.
CommittedIsPublished ==
    /\ \A i \in DOMAIN records :
          records[i].state = "Committed" => records[i].cand \in reach[ref]
    /\ \A t \in Tx : state[t] = "Committed" => t \in reach[ref]

\* The journal says Aborted only of what is not published and never will be,
\* across the abort of a commit that failed and of recovery.
AbortedIsUnpublished ==
    \A i \in DOMAIN records :
        records[i].state = "Aborted" => records[i].tx \notin reach[ref]

-----------------------------------------------------------------------------
(* Recovery.                                                               *)

\* When startup recovery ends, however often it was interrupted before, no
\* candidate directory is left and each journalled transaction has the
\* terminal record that tells whether the ref has it.
RecoveryIsComplete ==
    [][engine = "recovering" /\ engine' = "up" =>
          /\ worktrees = {}
          /\ \A t \in DOMAIN latest :
                latest[t].state = IF t \in reach[ref] THEN "Committed"
                                                      ELSE "Aborted"]_vars

Unfinished(t) ==
    /\ t \in Journaled(records)
    /\ ~Terminal(records[NewestOf(records, t)].state)

\* A validated candidate that was overtaken: another revision was published
\* from its base and it was not aborted.
Overtaken(t) ==
    /\ Unfinished(t)
    /\ records[NewestOf(records, t)].state = "Validated"
    /\ t \notin reach[ref]
    /\ ref # base[t]

\* A transaction interrupted by a crash gets its terminal record from a later
\* start of the engine, unless an overtaken candidate makes recovery give up.
InterruptedIsSettled ==
    \A t \in Tx :
        (engine = "down" /\ Unfinished(t)) ~> (~Unfinished(t) \/ \E u \in Tx : Overtaken(u))

\* crates/klyn-fs/src/lib.rs:8 says that recovery recognizes a validated
\* candidate already published by ref as committed, and otherwise aborts it:
\* if so, no start of the engine is refused on account of one.
RecoverySettlesValidated ==
    engine = "refused" =>
        \A t \in DOMAIN latest : latest[t].state # "Validated"

-----------------------------------------------------------------------------
(* The promise of the engine, and where the code keeps it.                 *)

OutcomeOf(t) ==
    CASE t \in reach[ref] -> "committed"
      [] t \notin reach[ref] /\ pc[t] = "new" -> "unborn"
      [] t \notin reach[ref] /\ (pc[t] = "gone" \/ state[t] = "Aborted") -> "aborted"
      [] OTHER -> "open"

Promise ==
    INSTANCE Publication WITH
        published <- reach[ref] \ {Root},
        outcome   <- [t \in Tx |-> OutcomeOf(t)],
        snapshot  <- [t \in Tx |-> IF OutcomeOf(t) = "open"
                                   THEN reach[base[t]] \ {Root} ELSE {}]

\* The engine implements first-committer-wins publication: crashes, failures
\* and recovery never publish a part, a stale candidate or an aborted one.
KeepsPromise == Promise!PubSpec
=============================================================================
