-------------------------- MODULE KlynFsInvariant --------------------------
(***************************************************************************)
(* The inductive invariants behind the theorems of KlynFsProofs.  Each is  *)
(* inductive together with those before it.                                *)
(***************************************************************************)
EXTENDS KlynFsProps

\* Threads run only while the engine is up: open returns after recovery.
ThreadsNeedEngine ==
    /\ pc \in [Tx -> PCs]
    /\ \A t \in Tx : pc[t] \notin {"new", "gone"} => engine = "up"

\* The ref stays in the history it points at, and a candidate commit has its
\* transaction's base, which existed before it, for its only parent.
GitInv ==
    /\ ref \in Rev
    /\ reach \in [Rev -> SUBSET Rev]
    /\ base \in [Tx -> Rev]
    /\ cand \in [Tx -> Tx \cup {NoRev}]
    /\ ref \in reach[ref]
    /\ \A r \in Rev : reach[r] # {} => r \in reach[r]
    /\ \A t \in Tx : cand[t] \in {t, NoRev}
    /\ \A t \in Tx : pc[t] # "new" => base[t] \in reach[base[t]]
    /\ \A t \in Tx : reach[t] # {} =>
          /\ pc[t] \notin {"new", "based", "logged", "undo"}
          /\ reach[t] = {t} \cup reach[base[t]]

\* While the engine runs, its index tells the newest of the acknowledged
\* records; at most one more file lies behind them, at the number that the
\* next append will write over, and nothing there is synced.
Indexed ==
    /\ nextSeq \in Nat \ {0}
    /\ \/ DOMAIN records = 1 .. (nextSeq - 1)
       \/ DOMAIN records = 1 .. nextSeq
    /\ synced \subseteq 1 .. (nextSeq - 1)
    /\ DOMAIN latest \subseteq Tx
    /\ \A i \in 1 .. (nextSeq - 1) : records[i].tx \in DOMAIN latest
    /\ \A t \in DOMAIN latest :
          /\ latest[t].tx = t
          /\ latest[t].sequence \in 1 .. (nextSeq - 1)
          /\ records[latest[t].sequence] = latest[t]
          /\ \A j \in 1 .. (nextSeq - 1) :
                records[j].tx = t => j <= latest[t].sequence

\* The records are numbered without a gap and make sense one after the other;
\* the synced ones are the first of them.
Directory ==
    /\ \E n \in Nat : DOMAIN records = 1 .. n
    /\ \A i \in DOMAIN records : records[i] \in Record
    /\ WellFormed(records)
    /\ \E k \in Nat : synced = 1 .. k
    /\ synced \subseteq DOMAIN records

JournalInv ==
    /\ Directory
    /\ todo \subseteq Tx
    /\ engine # "down" => Indexed
    /\ engine = "down" => nextSeq = 1 /\ DOMAIN latest = {}
    /\ engine = "recovering" => todo \subseteq DOMAIN latest

\* Whoever holds a handle has a record, of the same base.
HandleInv ==
    /\ state \in [Tx -> States]
    /\ \A t \in Tx : pc[t] \notin {"new", "based", "gone"} =>
          /\ t \in DOMAIN latest
          /\ latest[t].base = base[t]

\* The types that the invariants above leave out.
RestOfTypes ==
    /\ tree \in [Rev -> Trees]
    /\ worktrees \subseteq Tx
    /\ engine \in {"down", "recovering", "up", "refused"}
    /\ cur \in Tx \cup {NoRev}
    /\ work \in [Tx -> Trees]
    /\ index \in [Tx -> Trees]
    /\ faults \in Nat
    /\ crashes \in Nat

\* What is recorded, or held by a handle, as committed is published.
CommitInv ==
    /\ CommittedIsPublished
    /\ \A i \in DOMAIN records :
          /\ records[i].cand \in {records[i].tx, NoRev}
    /\ \A t \in Tx : pc[t] = "published" => state[t] = "Committed" /\ cand[t] = t

Durable(t) == \E i \in synced : records[i].tx = t

ValidatedFor(t) ==
    \E i \in synced : /\ records[i].tx = t
                      /\ records[i].state = "Validated"
                      /\ records[i].cand = t

\* Histories are closed, every base exists, and no transaction is based on
\* its own candidate.
HistoryInv ==
    /\ \A r \in Rev : \A x \in reach[r] : x \in Rev /\ reach[x] # {}
    /\ \A t \in Tx : reach[base[t]] # {} /\ t \notin reach[base[t]]

\* Whoever got as far as a candidate directory has a record that a power loss
\* does not take; during recovery the directories left are those of the
\* transactions still to be visited, and the others have terminal records.
CandidateInv ==
    /\ \A t \in worktrees : Durable(t)
    /\ \A t \in Tx : pc[t] \notin {"new", "based", "gone"} => Durable(t)
    /\ engine = "recovering" =>
          /\ worktrees \subseteq todo \cup {cur}
          /\ \A t \in DOMAIN latest \ todo : Terminal(latest[t].state)

\* A candidate commit keeps what was staged for it.
StagedInv ==
    \A t \in Tx : Sealed(t) => tree[t] = index[t] /\ tree[t] # tree[base[t]]

\* Who is called validated, or is published, has a durable record of it.
ValidatedInv ==
    \A t \in Tx : (state[t] = "Validated" \/ t \in reach[ref]) => ValidatedFor(t)

\* Where the thread of an aborted or a published transaction may stand.
OutcomeInv ==
    \A t \in Tx :
        /\ state[t] = "Aborted" => pc[t] \in {"idle", "cleanup", "gone"}
        /\ t \in reach[ref] /\ pc[t] # "gone" =>
              pc[t] \in {"published", "cleanup", "idle"} /\ state[t] = "Committed"

\* As long as the directory can be synced, no record is there that append did
\* not acknowledge, and what is recorded as aborted is not published.
NoGhostInv ==
    /\ engine # "down" => DOMAIN records = 1 .. (nextSeq - 1)
    /\ AbortedIsUnpublished
=============================================================================
