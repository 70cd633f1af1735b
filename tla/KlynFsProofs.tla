---------------------------- MODULE KlynFsProofs ----------------------------
(***************************************************************************)
(* Theorems about the transaction engine, for any number of transactions,  *)
(* failures and crashes.                                                   *)
(***************************************************************************)
EXTENDS KlynFsInvariant, FiniteSetTheorems, WellFoundedInduction, TLAPS

\* Only a running engine has threads at work in a transaction.
THEOREM ThreadsCorrect == Spec => []ThreadsNeedEngine
<1>1. Init => ThreadsNeedEngine
  BY DEF Init, ThreadsNeedEngine, PCs
<1>2. ThreadsNeedEngine /\ [Next]_vars => ThreadsNeedEngine'
  <2>. SUFFICES ASSUME ThreadsNeedEngine, [Next]_vars
                PROVE  ThreadsNeedEngine'
    OBVIOUS
  <2>. USE DEF ThreadsNeedEngine, PCs
  <2>1. ASSUME NEW t \in Tx, BeginRead(t) PROVE ThreadsNeedEngine'
    BY <2>1 DEF BeginRead, Goto, loop, Idle
  <2>2. ASSUME NEW t \in Tx, BeginLog(t) PROVE ThreadsNeedEngine'
    BY <2>2 DEF BeginLog, Goto, loop, Idle
  <2>3. ASSUME NEW t \in Tx, BeginWorktree(t) PROVE ThreadsNeedEngine'
    BY <2>3 DEF BeginWorktree, Goto, loop, Idle
  <2>4. ASSUME NEW t \in Tx, BeginUndo(t) PROVE ThreadsNeedEngine'
    BY <2>4 DEF BeginUndo, Goto, loop, Idle
  <2>5. ASSUME NEW t \in Tx, Write(t) PROVE ThreadsNeedEngine'
    BY <2>5 DEF Write, Edit, loop
  <2>6. ASSUME NEW t \in Tx, OutsideEdit(t) PROVE ThreadsNeedEngine'
    BY <2>6 DEF OutsideEdit, Edit, loop
  <2>7. ASSUME NEW t \in Tx, Stage(t) PROVE ThreadsNeedEngine'
    BY <2>7 DEF Stage, CanStage, Idle, loop
  <2>8. ASSUME NEW t \in Tx, ValidateCommit(t) PROVE ThreadsNeedEngine'
    BY <2>8 DEF ValidateCommit, Goto, loop, Idle
  <2>9. ASSUME NEW t \in Tx, ValidateReject(t) PROVE ThreadsNeedEngine'
    BY <2>9 DEF ValidateReject, Goto, loop, Idle
  <2>10. ASSUME NEW t \in Tx, ValidateLog(t) PROVE ThreadsNeedEngine'
    BY <2>10 DEF ValidateLog, Goto, loop, Idle
  <2>11. ASSUME NEW t \in Tx, Abort(t) PROVE ThreadsNeedEngine'
    BY <2>11 DEF Abort, AbortInner, loop
  <2>12. ASSUME NEW t \in Tx, CommitPublish(t) PROVE ThreadsNeedEngine'
    BY <2>12 DEF CommitPublish, Goto, loop, Idle
  <2>13. ASSUME NEW t \in Tx, CommitLost(t) PROVE ThreadsNeedEngine'
    BY <2>13 DEF CommitLost, AbortInner, Goto, loop
  <2>14. ASSUME NEW t \in Tx, CommitLog(t) PROVE ThreadsNeedEngine'
    BY <2>14 DEF CommitLog, Goto, loop, Idle
  <2>15. ASSUME NEW t \in Tx, Cleanup(t) PROVE ThreadsNeedEngine'
    BY <2>15 DEF Cleanup, Goto, loop, Idle
  <2>16. ASSUME NEW t \in Tx, Release(t) PROVE ThreadsNeedEngine'
    BY <2>16 DEF Release, Goto, loop, Idle
  <2>17. ASSUME NEW t \in Tx, RecoverTerminal(t) PROVE ThreadsNeedEngine'
    BY <2>17 DEF RecoverTerminal, Take
  <2>18. ASSUME NEW t \in Tx, RecoverUnfinished(t) PROVE ThreadsNeedEngine'
    BY <2>18 DEF RecoverUnfinished, Oldest, Take, Refuse
  <2>19. ASSUME NEW t \in Tx, RecoverConflict(t) PROVE ThreadsNeedEngine'
    BY <2>19 DEF RecoverConflict, Oldest, Refuse
  <2>20. CASE Open
    BY <2>20 DEF Open, Goto, loop, Idle
  <2>21. CASE RecoverCleanup
    BY <2>21 DEF RecoverCleanup, Refuse
  <2>22. CASE RecoverDone
    BY <2>22 DEF RecoverDone, Goto, loop, Idle
  <2>23. CASE Crash
    BY <2>23 DEF Crash, Goto, loop, Idle
  <2>24. CASE PowerLoss
    BY <2>24 DEF PowerLoss, Goto, loop, Idle
  <2>25. ASSUME NEW f \in Foreign, ForeignPublish(f) PROVE ThreadsNeedEngine'
    BY <2>25 DEF ForeignPublish, Goto, loop, Idle
  <2>26. CASE UNCHANGED vars
    BY <2>26 DEF vars, Goto, loop, Idle
  <2>. QED
    BY <2>1, <2>2, <2>3, <2>4, <2>5, <2>6, <2>7, <2>8, <2>9, <2>10, <2>11, <2>12, <2>13, <2>14, <2>15, <2>16, <2>17, <2>18, <2>19, <2>20, <2>21, <2>22, <2>23, <2>24, <2>25, <2>26 DEF Next, Begin, Prepare, Finish, Recover
<1>. QED BY <1>1, <1>2, PTL DEF Spec

\* The publication ref stays in the history it points at, and a candidate
\* commit has its transaction's base as its only parent.
THEOREM GitCorrect == Spec => []GitInv
<1>1. Init => GitInv
  BY RevAssumption DEF Init, GitInv, Rev
<1>2. GitInv /\ ThreadsNeedEngine /\ [Next]_vars => GitInv'
  <2>. SUFFICES ASSUME GitInv, ThreadsNeedEngine, [Next]_vars
                PROVE  GitInv'
    OBVIOUS
  <2>. USE DEF GitInv, ThreadsNeedEngine, PCs, Rev
  <2>1. ASSUME NEW t \in Tx, BeginRead(t) PROVE GitInv'
    BY <2>1 DEF BeginRead, Goto, git, handle
  <2>2. ASSUME NEW t \in Tx, BeginLog(t) PROVE GitInv'
    BY <2>2 DEF BeginLog, Goto, git, handle
  <2>3. ASSUME NEW t \in Tx, BeginWorktree(t) PROVE GitInv'
    BY <2>3 DEF BeginWorktree, Goto, git, handle
  <2>4. ASSUME NEW t \in Tx, BeginUndo(t) PROVE GitInv'
    BY <2>4 DEF BeginUndo, Goto, git, handle
  <2>5. ASSUME NEW t \in Tx, Write(t) PROVE GitInv'
    BY <2>5 DEF Write, Edit, git, handle
  <2>6. ASSUME NEW t \in Tx, OutsideEdit(t) PROVE GitInv'
    BY <2>6 DEF OutsideEdit, Edit, git, handle
  <2>7. ASSUME NEW t \in Tx, Stage(t) PROVE GitInv'
    BY <2>7 DEF Stage, git
  <2>8. ASSUME NEW t \in Tx, ValidateCommit(t) PROVE GitInv'
    BY <2>8, RevAssumption DEF ValidateCommit, Goto, Idle, Sealed, handle
  <2>9. ASSUME NEW t \in Tx, ValidateReject(t) PROVE GitInv'
    BY <2>9 DEF ValidateReject, Goto, git, handle
  <2>10. ASSUME NEW t \in Tx, ValidateLog(t) PROVE GitInv'
    BY <2>10 DEF ValidateLog, Goto, git, handle
  <2>11. ASSUME NEW t \in Tx, Abort(t) PROVE GitInv'
    BY <2>11 DEF Abort, AbortInner, git
  <2>12. ASSUME NEW t \in Tx, CommitPublish(t) PROVE GitInv'
    BY <2>12, RevAssumption DEF CommitPublish, Goto, Idle, Sealed, Swappable
  <2>13. ASSUME NEW t \in Tx, CommitLost(t) PROVE GitInv'
    BY <2>13 DEF CommitLost, AbortInner, Goto, git
  <2>14. ASSUME NEW t \in Tx, CommitLog(t) PROVE GitInv'
    BY <2>14 DEF CommitLog, Goto, git, handle
  <2>15. ASSUME NEW t \in Tx, Cleanup(t) PROVE GitInv'
    BY <2>15 DEF Cleanup, Goto, git, handle
  <2>16. ASSUME NEW t \in Tx, Release(t) PROVE GitInv'
    BY <2>16 DEF Release, Goto, git, handle
  <2>17. ASSUME NEW t \in Tx, RecoverTerminal(t) PROVE GitInv'
    BY <2>17 DEF RecoverTerminal, git, handle
  <2>18. ASSUME NEW t \in Tx, RecoverUnfinished(t) PROVE GitInv'
    BY <2>18 DEF RecoverUnfinished, git, handle
  <2>19. ASSUME NEW t \in Tx, RecoverConflict(t) PROVE GitInv'
    BY <2>19 DEF RecoverConflict, git, handle
  <2>20. CASE Open
    BY <2>20 DEF Open, Goto, git, handle
  <2>21. CASE RecoverCleanup
    BY <2>21 DEF RecoverCleanup, git, handle
  <2>22. CASE RecoverDone
    BY <2>22 DEF RecoverDone, Goto, git, handle
  <2>23. CASE Crash
    BY <2>23 DEF Crash, Goto, git, handle
  <2>24. CASE PowerLoss
    BY <2>24 DEF PowerLoss, Goto, git, handle
  <2>25. ASSUME NEW f \in Foreign, ForeignPublish(f) PROVE GitInv'
    BY <2>25, RevAssumption DEF ForeignPublish, handle
  <2>26. CASE UNCHANGED vars
    BY <2>26 DEF vars, git, handle
  <2>. QED
    BY <2>1, <2>2, <2>3, <2>4, <2>5, <2>6, <2>7, <2>8, <2>9, <2>10, <2>11, <2>12, <2>13, <2>14, <2>15, <2>16, <2>17, <2>18, <2>19, <2>20, <2>21, <2>22, <2>23, <2>24, <2>25, <2>26 DEF Next, Begin, Prepare, Finish, Recover
<1>. QED BY <1>1, <1>2, ThreadsCorrect, PTL DEF Spec

\* Whatever is in the history of the ref stays in it: a candidate that the
\* compare-and-swap lets through is a child of the ref's old value.
LEMMA HistoryGrows ==
    ASSUME GitInv, [Next]_vars
    PROVE  reach[ref] \subseteq reach'[ref']
<1>. USE DEF GitInv, Rev
<1>1. ASSUME NEW t \in Tx, BeginRead(t) PROVE reach[ref] \subseteq reach'[ref']
  BY <1>1 DEF BeginRead, git
<1>2. ASSUME NEW t \in Tx, BeginLog(t) PROVE reach[ref] \subseteq reach'[ref']
  BY <1>2 DEF BeginLog, git
<1>3. ASSUME NEW t \in Tx, BeginWorktree(t) PROVE reach[ref] \subseteq reach'[ref']
  BY <1>3 DEF BeginWorktree, git
<1>4. ASSUME NEW t \in Tx, BeginUndo(t) PROVE reach[ref] \subseteq reach'[ref']
  BY <1>4 DEF BeginUndo, git
<1>5. ASSUME NEW t \in Tx, Write(t) PROVE reach[ref] \subseteq reach'[ref']
  BY <1>5 DEF Write, Edit, git
<1>6. ASSUME NEW t \in Tx, OutsideEdit(t) PROVE reach[ref] \subseteq reach'[ref']
  BY <1>6 DEF OutsideEdit, Edit, git
<1>7. ASSUME NEW t \in Tx, Stage(t) PROVE reach[ref] \subseteq reach'[ref']
  BY <1>7 DEF Stage, git
<1>8. ASSUME NEW t \in Tx, ValidateCommit(t) PROVE reach[ref] \subseteq reach'[ref']
  BY <1>8, RevAssumption DEF ValidateCommit, Sealed
<1>9. ASSUME NEW t \in Tx, ValidateReject(t) PROVE reach[ref] \subseteq reach'[ref']
  BY <1>9 DEF ValidateReject, git
<1>10. ASSUME NEW t \in Tx, ValidateLog(t) PROVE reach[ref] \subseteq reach'[ref']
  BY <1>10 DEF ValidateLog, git
<1>11. ASSUME NEW t \in Tx, Abort(t) PROVE reach[ref] \subseteq reach'[ref']
  BY <1>11 DEF Abort, git
<1>12. ASSUME NEW t \in Tx, CommitPublish(t) PROVE reach[ref] \subseteq reach'[ref']
  BY <1>12, RevAssumption DEF CommitPublish, Sealed, Swappable
<1>13. ASSUME NEW t \in Tx, CommitLost(t) PROVE reach[ref] \subseteq reach'[ref']
  BY <1>13 DEF CommitLost, git
<1>14. ASSUME NEW t \in Tx, CommitLog(t) PROVE reach[ref] \subseteq reach'[ref']
  BY <1>14 DEF CommitLog, git
<1>15. ASSUME NEW t \in Tx, Cleanup(t) PROVE reach[ref] \subseteq reach'[ref']
  BY <1>15 DEF Cleanup, git
<1>16. ASSUME NEW t \in Tx, Release(t) PROVE reach[ref] \subseteq reach'[ref']
  BY <1>16 DEF Release, git
<1>17. ASSUME NEW t \in Tx, RecoverTerminal(t) PROVE reach[ref] \subseteq reach'[ref']
  BY <1>17 DEF RecoverTerminal, git
<1>18. ASSUME NEW t \in Tx, RecoverUnfinished(t) PROVE reach[ref] \subseteq reach'[ref']
  BY <1>18 DEF RecoverUnfinished, git
<1>19. ASSUME NEW t \in Tx, RecoverConflict(t) PROVE reach[ref] \subseteq reach'[ref']
  BY <1>19 DEF RecoverConflict, git
<1>20. CASE Open
  BY <1>20 DEF Open, git
<1>21. CASE RecoverCleanup
  BY <1>21 DEF RecoverCleanup, git
<1>22. CASE RecoverDone
  BY <1>22 DEF RecoverDone, git
<1>23. CASE Crash
  BY <1>23 DEF Crash, git
<1>24. CASE PowerLoss
  BY <1>24 DEF PowerLoss, git
<1>25. ASSUME NEW f \in Foreign, ForeignPublish(f) PROVE reach[ref] \subseteq reach'[ref']
  BY <1>25, RevAssumption DEF ForeignPublish
<1>26. CASE UNCHANGED vars
  BY <1>26 DEF vars, git
<1>. QED
  BY <1>1, <1>2, <1>3, <1>4, <1>5, <1>6, <1>7, <1>8, <1>9, <1>10, <1>11, <1>12, <1>13, <1>14, <1>15, <1>16, <1>17, <1>18, <1>19, <1>20, <1>21, <1>22, <1>23, <1>24, <1>25, <1>26 DEF Next, Begin, Prepare, Finish, Recover

\* Publishing never drops a revision that was visible before.
THEOREM PublicationIsKept == Spec => NoLostPublication
<1>1. GitInv /\ [Next]_vars => [(ref \in reach'[ref'])]_vars
  BY HistoryGrows DEF GitInv
<1>. QED BY <1>1, GitCorrect, PTL DEF Spec, NoLostPublication

\* A set of record numbers has a greatest element.
LEMMA HasGreatest ==
    ASSUME NEW n \in Nat, NEW S, S \subseteq 1 .. n, S # {}
    PROVE  \E m \in S : \A k \in S : k <= m
<1>. DEFINE T == {n - i : i \in S}
<1>1. T \subseteq Nat /\ T # {}
  <2>1. ASSUME NEW x \in T PROVE x \in Nat
    <3>1. PICK i \in S : x = n - i
      OBVIOUS
    <3>2. i \in 1 .. n
      OBVIOUS
    <3>. QED BY <3>1, <3>2
  <2>2. PICK i \in S : TRUE
    OBVIOUS
  <2>3. n - i \in T
    OBVIOUS
  <2>. QED BY <2>1, <2>3
<1>. HIDE DEF T
<1>2. PICK x \in T : \A y \in T : ~ (<<y, x>> \in OpToRel(<, Nat))
  BY <1>1, WFMin, NatLessThanWellFounded
<1>3. \A y \in T : ~ (y < x)
  BY <1>1, <1>2 DEF OpToRel
<1>4. PICK m \in S : x = n - m
  BY DEF T
<1>5. ASSUME NEW k \in S PROVE k <= m
  <2>1. n - k \in T
    BY DEF T
  <2>2. ~ (n - k < n - m)
    BY <2>1, <1>3, <1>4
  <2>. QED BY <2>2
<1>. QED BY <1>5

\* There are n numbers from 1 to n.
LEMMA Interval ==
    ASSUME NEW n \in Nat
    PROVE  Cardinality(1 .. n) = n
BY FS_Interval

\* NewestOf finds the newest record of a transaction that has one.
LEMMA NewestIsNewest ==
    ASSUME NEW recs, NEW n \in Nat, DOMAIN recs = 1 .. n,
           NEW t \in Journaled(recs)
    PROVE  /\ NewestOf(recs, t) \in 1 .. n
           /\ recs[NewestOf(recs, t)].tx = t
           /\ \A j \in 1 .. n : recs[j].tx = t => j <= NewestOf(recs, t)
<1>. DEFINE S == {i \in 1 .. n : recs[i].tx = t}
<1>1. S # {} /\ S \subseteq 1 .. n
  BY DEF Journaled
<1>2. PICK m \in S : \A k \in S : k <= m
  BY <1>1, HasGreatest
<1>3. \E i \in DOMAIN recs : /\ recs[i].tx = t
                            /\ \A j \in DOMAIN recs : recs[j].tx = t => j <= i
  BY <1>2
<1>. QED BY <1>3 DEF NewestOf

\* Whatever the beginning of a readable journal is cut to, it stays readable.
LEMMA PrefixIsWellFormed ==
    ASSUME NEW recs, NEW n \in Nat, DOMAIN recs = 1 .. n, WellFormed(recs),
           NEW k \in Nat, k <= n
    PROVE  WellFormed([i \in 1 .. k |-> recs[i]])
<1>. DEFINE cut == [i \in 1 .. k |-> recs[i]]
<1>1. DOMAIN cut = 1 .. Cardinality(DOMAIN cut)
  BY Interval
<1>2. ASSUME NEW i \in 1 .. k
      PROVE  {j \in 1 .. k : j < i /\ cut[j].tx = cut[i].tx}
               = {j \in 1 .. n : j < i /\ recs[j].tx = recs[i].tx}
  OBVIOUS
<1>3. ASSUME NEW i \in 1 .. k
      PROVE  LET earlier == {j \in DOMAIN cut : j < i /\ cut[j].tx = cut[i].tx}
             IN  /\ cut[i].sequence = i
                 /\ earlier = {} => cut[i].state = "Init"
                 /\ \A j \in earlier :
                       (\A l \in earlier : l <= j) => Follows(cut[j], cut[i])
  <2>. DEFINE earlier == {j \in 1 .. n : j < i /\ recs[j].tx = recs[i].tx}
  <2>1. i \in DOMAIN recs /\ cut[i] = recs[i]
    OBVIOUS
  <2>2. \A j \in earlier : cut[j] = recs[j]
    OBVIOUS
  <2>3. /\ recs[i].sequence = i
        /\ earlier = {} => recs[i].state = "Init"
        /\ \A j \in earlier :
              (\A l \in earlier : l <= j) => Follows(recs[j], recs[i])
    BY <2>1 DEF WellFormed
  <2>4. earlier = {j \in DOMAIN cut : j < i /\ cut[j].tx = cut[i].tx}
    BY <1>2
  <2>. HIDE DEF earlier, cut
  <2>. QED BY <2>1, <2>2, <2>3, <2>4
<1>. QED BY <1>1, <1>3 DEF WellFormed

\* The record that append puts after the acknowledged ones continues them, so
\* the journal stays readable even when it replaces a leftover file.
LEMMA PutIsWellFormed ==
    ASSUME Directory, Indexed,
           NEW rec \in Record, rec.sequence = nextSeq, Admissible(rec)
    PROVE  WellFormed(Put(rec)) /\ DOMAIN Put(rec) = 1 .. nextSeq
<1>. DEFINE n == nextSeq - 1
            recs == Put(rec)
<1>0. n \in Nat /\ nextSeq \in Nat /\ nextSeq = n + 1
  BY DEF Indexed
<1>1. DOMAIN recs = 1 .. nextSeq
  BY <1>0 DEF Put, Indexed
<1>2. recs[nextSeq] = rec /\ \A i \in 1 .. n : recs[i] = records[i]
  BY <1>0, <1>1 DEF Put
<1>3. 1 .. n \subseteq DOMAIN records
  BY <1>0 DEF Indexed
<1>. HIDE DEF recs, n
<1>4. DOMAIN recs = 1 .. Cardinality(DOMAIN recs)
  BY <1>0, <1>1, Interval
<1>. DEFINE earlier(i) == {j \in DOMAIN recs : j < i /\ recs[j].tx = recs[i].tx}
<1>5. ASSUME NEW i \in 1 .. n
      PROVE  /\ recs[i].sequence = i
             /\ earlier(i) = {} => recs[i].state = "Init"
             /\ \A j \in earlier(i) :
                    (\A k \in earlier(i) : k <= j) => Follows(recs[j], recs[i])
  <2>1. i \in DOMAIN records
    BY <1>3
  <2>2. earlier(i) = {j \in DOMAIN records : j < i /\ records[j].tx = records[i].tx}
    <3>1. \A j \in DOMAIN recs : j < i => j \in 1 .. n
      BY <1>0, <1>1
    <3>2. \A j \in DOMAIN records : j < i => j \in 1 .. n
      BY <1>0 DEF Indexed
    <3>. QED BY <3>1, <3>2, <1>2, <1>3, <1>0, <1>1
  <2>3. \A j \in earlier(i) : recs[j] = records[j]
    BY <1>0, <1>1, <1>2
  <2>. HIDE DEF earlier
  <2>. QED BY <2>1, <2>2, <2>3, <1>2 DEF WellFormed, Directory
<1>6. /\ recs[nextSeq].sequence = nextSeq
      /\ earlier(nextSeq) = {} => recs[nextSeq].state = "Init"
      /\ \A j \in earlier(nextSeq) :
            (\A k \in earlier(nextSeq) : k <= j) => Follows(recs[j], recs[nextSeq])
  <2>1. earlier(nextSeq) = {j \in 1 .. n : records[j].tx = rec.tx}
    BY <1>0, <1>1, <1>2
  <2>. HIDE DEF earlier
  <2>2. CASE rec.tx \in DOMAIN latest
    <3>. DEFINE last == latest[rec.tx].sequence
    <3>1. last \in earlier(nextSeq) /\ recs[last] = latest[rec.tx]
      BY <2>1, <2>2, <1>2 DEF Indexed, n
    <3>2. \A j \in earlier(nextSeq) : j <= last
      BY <2>1, <2>2 DEF Indexed, n
    <3>3. \A j \in earlier(nextSeq) : (\A k \in earlier(nextSeq) : k <= j) => j = last
      BY <3>1, <3>2, <2>1, <1>0
    <3>4. Follows(latest[rec.tx], rec)
      BY <2>2 DEF Admissible
    <3>. QED BY <3>1, <3>3, <3>4, <1>2
  <2>3. CASE rec.tx \notin DOMAIN latest
    <3>1. earlier(nextSeq) = {}
      BY <2>1, <2>3 DEF Indexed, n
    <3>. QED BY <3>1, <2>3, <1>2 DEF Admissible
  <2>. QED BY <2>2, <2>3
<1>. HIDE DEF earlier
<1>7. \A i \in DOMAIN recs :
        /\ recs[i].sequence = i
        /\ earlier(i) = {} => recs[i].state = "Init"
        /\ \A j \in earlier(i) :
              (\A k \in earlier(i) : k <= j) => Follows(recs[j], recs[i])
  BY <1>0, <1>1, <1>5, <1>6
<1>8. WellFormed(recs)
  BY <1>4, <1>7 DEF WellFormed, earlier
<1>. QED BY <1>1, <1>8 DEF recs

\* An append, successful or not, keeps the directory readable and the index
\* true to it, and touches no synced record.
LEMMA AppendIsSafe ==
    ASSUME Directory, Indexed, NEW rec \in Record, rec.sequence = nextSeq,
           Appended(rec) \/ AppendFailed(rec)
    PROVE  /\ Directory'
           /\ Indexed'
           /\ DOMAIN latest \subseteq DOMAIN latest'
           /\ \A i \in synced : i \in DOMAIN records' /\ records'[i] = records[i]
<1>1. CASE UNCHANGED journal
  BY <1>1 DEF journal, Directory, Indexed
<1>. SUFFICES ASSUME Admissible(rec), records' = Put(rec),
                     \/ /\ synced' = DOMAIN records'
                        /\ nextSeq' = nextSeq + 1
                        /\ latest' = [t \in DOMAIN latest \cup {rec.tx} |->
                                         IF t = rec.tx THEN rec ELSE latest[t]]
                     \/ UNCHANGED <<synced, nextSeq, latest>>
              PROVE  /\ Directory'
                     /\ Indexed'
                     /\ DOMAIN latest \subseteq DOMAIN latest'
                     /\ \A i \in synced : i \in DOMAIN records' /\ records'[i] = records[i]
  BY <1>1 DEF Appended, AppendFailed
<1>2. WellFormed(records)' /\ DOMAIN records' = 1 .. nextSeq
  BY PutIsWellFormed DEF WellFormed
<1>3. nextSeq \in Nat \ {0} /\ synced \subseteq 1 .. (nextSeq - 1)
  BY DEF Indexed
<1>4. /\ records'[nextSeq] = rec
      /\ \A i \in 1 .. (nextSeq - 1) : records'[i] = records[i] /\ i \in DOMAIN records
  BY <1>2, <1>3 DEF Put, Indexed
<1>5. \A i \in DOMAIN records' : records'[i] \in Record
  BY <1>2, <1>3, <1>4 DEF Directory
<1>6. Directory'
  BY <1>2, <1>3, <1>5 DEF Directory
<1>7. Indexed'
  <2>1. CASE UNCHANGED <<synced, nextSeq, latest>>
    BY <2>1, <1>2, <1>3, <1>4 DEF Indexed
  <2>2. CASE /\ synced' = DOMAIN records'
             /\ nextSeq' = nextSeq + 1
             /\ latest' = [t \in DOMAIN latest \cup {rec.tx} |->
                              IF t = rec.tx THEN rec ELSE latest[t]]
    <3>1. \A i \in 1 .. nextSeq : i = nextSeq \/ i \in 1 .. (nextSeq - 1)
      BY <1>3
    <3>2. rec.tx \in Tx
      BY DEF Record
    <3>3. \A i \in 1 .. nextSeq : records'[i].tx \in DOMAIN latest'
      BY <2>2, <3>1, <1>4 DEF Indexed
    <3>4. ASSUME NEW t \in DOMAIN latest'
          PROVE  /\ latest'[t].tx = t
                 /\ latest'[t].sequence \in 1 .. nextSeq
                 /\ records'[latest'[t].sequence] = latest'[t]
                 /\ \A j \in 1 .. nextSeq :
                       records'[j].tx = t => j <= latest'[t].sequence
      <4>1. CASE t = rec.tx
        BY <4>1, <2>2, <1>3, <1>4
      <4>2. CASE t # rec.tx
        <5>1. t \in DOMAIN latest /\ latest'[t] = latest[t]
          BY <4>2, <2>2
        <5>. QED BY <5>1, <4>2, <3>1, <1>3, <1>4 DEF Indexed
      <4>. QED BY <4>1, <4>2
    <3>5. nextSeq' - 1 = nextSeq
      BY <2>2, <1>3
    <3>6. nextSeq' \in Nat \ {0} /\ DOMAIN latest' \subseteq Tx
      BY <2>2, <3>2, <1>3 DEF Indexed
    <3>7. DOMAIN records' = 1 .. (nextSeq' - 1) /\ synced' \subseteq 1 .. (nextSeq' - 1)
      BY <2>2, <3>5, <1>2
    <3>. QED BY <3>3, <3>4, <3>5, <3>6, <3>7 DEF Indexed
  <2>. QED BY <2>1, <2>2
<1>8. DOMAIN latest \subseteq DOMAIN latest'
  OBVIOUS
<1>9. \A i \in synced : i \in DOMAIN records' /\ records'[i] = records[i]
  <2>1. \A i \in 1 .. (nextSeq - 1) : i \in 1 .. nextSeq
    BY <1>3
  <2>. QED BY <2>1, <1>2, <1>3, <1>4
<1>. QED BY <1>6, <1>7, <1>8, <1>9

\* The index that open builds is true to a readable directory.
LEMMA OpenIndexes == Directory /\ Open => Indexed' /\ todo' = DOMAIN latest'
<1>. SUFFICES ASSUME Directory, Open PROVE Indexed' /\ todo' = DOMAIN latest'
  OBVIOUS
<1>1. PICK n \in Nat : DOMAIN records = 1 .. n
  BY DEF Directory
<1>2. nextSeq' = n + 1 /\ latest' = Replay(records) /\ records' = records /\ synced' = synced
  BY <1>1, Interval DEF Open, NextNumber
<1>3. DOMAIN latest' = Journaled(records)
  BY <1>2 DEF Replay
<1>4. \A i \in 1 .. n : records[i].tx \in Tx /\ records[i].sequence = i
  BY <1>1 DEF Directory, WellFormed, Record
<1>5. ASSUME NEW t \in DOMAIN latest'
      PROVE  /\ latest'[t].tx = t
             /\ latest'[t].sequence \in 1 .. n
             /\ records[latest'[t].sequence] = latest'[t]
             /\ \A j \in 1 .. n : records[j].tx = t => j <= latest'[t].sequence
  <2>1. latest'[t] = records[NewestOf(records, t)]
    BY <1>2, <1>3 DEF Replay
  <2>2. /\ NewestOf(records, t) \in 1 .. n
        /\ records[NewestOf(records, t)].tx = t
        /\ \A j \in 1 .. n : records[j].tx = t => j <= NewestOf(records, t)
    BY <1>1, <1>3, NewestIsNewest
  <2>. QED BY <2>1, <2>2, <1>4
<1>6. DOMAIN latest' \subseteq Tx /\ \A i \in 1 .. n : records[i].tx \in DOMAIN latest'
  BY <1>1, <1>3, <1>4 DEF Journaled
<1>7. synced \subseteq 1 .. n
  BY <1>1 DEF Directory
<1>8. nextSeq' - 1 = n /\ nextSeq' \in Nat \ {0}
  BY <1>2
<1>9. Indexed'
  BY <1>1, <1>2, <1>5, <1>6, <1>7, <1>8 DEF Indexed
<1>. QED BY <1>3, <1>9 DEF Open, ToRecover

\* The newest record of a transaction is one of the records.
LEMMA LatestIsRecorded ==
    ASSUME Directory, Indexed, NEW t \in DOMAIN latest
    PROVE  /\ latest[t].sequence \in DOMAIN records
           /\ records[latest[t].sequence] = latest[t]
           /\ latest[t] \in Record
           /\ latest[t].tx = t
BY DEF Directory, Indexed

\* What recovery writes is a record, of the transaction it is about.
LEMMA RecoveryRecordIsRecord ==
    ASSUME JournalInv, NEW t \in Tx, Oldest(t), ~Terminal(latest[t].state),
           Verdict(latest[t]) # "Conflict"
    PROVE  /\ RecoveryRecord(t) \in Record
           /\ RecoveryRecord(t).sequence = nextSeq
<1>1. t \in DOMAIN latest /\ nextSeq \in Nat \ {0}
  BY DEF Oldest, JournalInv, Indexed
<1>2. latest[t] \in Record
  BY <1>1, LatestIsRecorded DEF JournalInv, Oldest
<1>3. Verdict(latest[t]) \in States
  BY DEF Verdict, States
<1>. QED BY <1>1, <1>2, <1>3 DEF RecoveryRecord, NewRecord, Record

\* So is what a thread may have been writing when the process died.
LEMMA InFlightIsRecord ==
    ASSUME ThreadsNeedEngine, GitInv, JournalInv, NEW rec \in InFlight
    PROVE  rec \in Record /\ rec.sequence = nextSeq /\ engine # "down"
<1>1. CASE engine = "up"
  <2>1. PICK t \in Tx : rec \in Writing(t)
    BY <1>1 DEF InFlight
  <2>2. nextSeq \in Nat \ {0} /\ base[t] \in Rev /\ cand[t] \in Tx \cup {NoRev}
    BY <1>1 DEF JournalInv, Indexed, GitInv
  <2>. QED BY <1>1, <2>1, <2>2 DEF Writing, NewRecord, Record, States
<1>2. CASE engine = "recovering"
  <2>1. PICK t \in Tx : /\ rec = RecoveryRecord(t)
                         /\ Oldest(t)
                         /\ ~Terminal(latest[t].state)
                         /\ Verdict(latest[t]) # "Conflict"
    BY <1>2 DEF InFlight
  <2>. QED BY <1>2, <2>1, RecoveryRecordIsRecord
<1>. QED BY <1>1, <1>2 DEF InFlight

\* The journal's part of every step: the directory stays readable, and synced
\* records stay as they are.
LEMMA JournalStep ==
    ASSUME ThreadsNeedEngine, GitInv, JournalInv, [Next]_vars
    PROVE  /\ JournalInv'
           /\ \A i \in synced : i \in DOMAIN records' /\ records'[i] = records[i]
<1>. DEFINE Kept == \A i \in synced : i \in DOMAIN records' /\ records'[i] = records[i]
            Safe == JournalInv' /\ Kept
\* A thread's append, when the recovery variables stay as they are.
<1>1. ASSUME NEW rec \in Record, rec.sequence = nextSeq,
             Appended(rec) \/ AppendFailed(rec), engine # "down",
             engine' \in {engine, "refused"}, todo' \subseteq todo
      PROVE  Safe
  <2>1. Directory /\ Indexed
    BY <1>1 DEF JournalInv
  <2>2. /\ Directory' /\ Indexed' /\ Kept
        /\ DOMAIN latest \subseteq DOMAIN latest'
    BY <1>1, <2>1, AppendIsSafe
  <2>3. todo' \subseteq Tx /\ (engine = "recovering" => todo' \subseteq DOMAIN latest')
    BY <1>1, <2>2 DEF JournalInv
  <2>4. engine' # "down" /\ (engine' = "recovering" => todo' \subseteq DOMAIN latest')
    BY <1>1, <2>3
  <2>. QED BY <2>2, <2>3, <2>4 DEF JournalInv
<1>2. ASSUME UNCHANGED <<journal, engine>>, todo' \subseteq todo
      PROVE  Safe
  <2>1. Directory' /\ (engine' # "down" => Indexed')
    BY <1>2 DEF JournalInv, journal, Directory, Indexed
  <2>. QED BY <1>2, <2>1 DEF JournalInv, journal, Directory
<1>3. ASSUME UNCHANGED journal, engine # "down", engine' \in {"up", "refused"},
             todo' \subseteq todo
      PROVE  Safe
  <2>1. Directory' /\ Indexed'
    BY <1>3 DEF JournalInv, journal, Directory, Indexed
  <2>. QED BY <1>3, <2>1 DEF JournalInv, journal, Directory
<1>4. ASSUME NEW t \in Tx, pc[t] \notin {"new", "gone"}, NEW s \in States,
             NEW c \in Tx \cup {NoRev}, UNCHANGED loop,
             Appended(NewRecord(t, s, base[t], c)) \/ AppendFailed(NewRecord(t, s, base[t], c))
      PROVE  Safe
  <2>1. engine = "up" /\ engine' = "up" /\ todo' = todo
    BY <1>4 DEF ThreadsNeedEngine, loop
  <2>2. NewRecord(t, s, base[t], c) \in Record /\ NewRecord(t, s, base[t], c).sequence = nextSeq
    BY <1>4, <2>1 DEF JournalInv, Indexed, GitInv, NewRecord, Record
  <2>. QED BY <1>1, <1>4, <2>1, <2>2
<1>. HIDE DEF Safe
<1>5. ASSUME NEW t \in Tx, pc[t] \notin {"new", "gone"}, AbortInner(t), UNCHANGED loop
      PROVE  Safe
  <2>1. CASE Terminal(latest[t].state)
    BY <2>1, <1>2, <1>5 DEF AbortInner, loop
  <2>2. CASE ~Terminal(latest[t].state)
    <3>1. cand[t] \in Tx \cup {NoRev} /\ "Aborted" \in States
      BY DEF GitInv, States
    <3>. QED BY <2>2, <3>1, <1>4, <1>5 DEF AbortInner
  <2>. QED BY <2>1, <2>2
<1>. SUFFICES Safe
  BY DEF Safe
<1>. USE DEF Goto
<1>6. Safe
  <2>1. ASSUME NEW t \in Tx, BeginRead(t) PROVE Safe
    BY <2>1, <1>2 DEF BeginRead, loop
  <2>2. ASSUME NEW t \in Tx, BeginLog(t) PROVE Safe
    BY <2>2, <1>4 DEF BeginLog, States
  <2>3. ASSUME NEW t \in Tx, BeginWorktree(t) PROVE Safe
    BY <2>3, <1>2 DEF BeginWorktree, loop
  <2>4. ASSUME NEW t \in Tx, BeginUndo(t) PROVE Safe
    BY <2>4, <1>4 DEF BeginUndo, States
  <2>5. ASSUME NEW t \in Tx, Write(t) PROVE Safe
    BY <2>5, <1>2 DEF Write, Edit, loop
  <2>6. ASSUME NEW t \in Tx, OutsideEdit(t) PROVE Safe
    BY <2>6, <1>2 DEF OutsideEdit, Edit, loop
  <2>7. ASSUME NEW t \in Tx, Stage(t) PROVE Safe
    BY <2>7, <1>4, <1>2 DEF Stage, CanStage, Idle, loop, States
  <2>8. ASSUME NEW t \in Tx, ValidateCommit(t) PROVE Safe
    BY <2>8, <1>2 DEF ValidateCommit, loop
  <2>9. ASSUME NEW t \in Tx, ValidateReject(t) PROVE Safe
    BY <2>9, <1>2 DEF ValidateReject, loop
  <2>10. ASSUME NEW t \in Tx, ValidateLog(t) PROVE Safe
    BY <2>10, <1>4, <1>2 DEF ValidateLog, loop, States
  <2>11. ASSUME NEW t \in Tx, Abort(t) PROVE Safe
    BY <2>11, <1>5 DEF Abort
  <2>12. ASSUME NEW t \in Tx, CommitPublish(t) PROVE Safe
    BY <2>12, <1>2 DEF CommitPublish, loop
  <2>13. ASSUME NEW t \in Tx, CommitLost(t) PROVE Safe
    BY <2>13, <1>2, <1>5 DEF CommitLost, loop
  <2>14. ASSUME NEW t \in Tx, CommitLog(t) PROVE Safe
    BY <2>14, <1>4 DEF CommitLog, States, GitInv
  <2>15. ASSUME NEW t \in Tx, Cleanup(t) PROVE Safe
    BY <2>15, <1>2 DEF Cleanup, loop
  <2>16. ASSUME NEW t \in Tx, Release(t) PROVE Safe
    BY <2>16, <1>2 DEF Release, loop
  <2>17. ASSUME NEW t \in Tx, RecoverTerminal(t) PROVE Safe
    BY <2>17, <1>2 DEF RecoverTerminal, Take
  <2>18. ASSUME NEW t \in Tx, RecoverUnfinished(t) PROVE Safe
    <3>1. RecoveryRecord(t) \in Record /\ RecoveryRecord(t).sequence = nextSeq /\ engine = "recovering"
      BY <2>18, RecoveryRecordIsRecord DEF RecoverUnfinished, Oldest
    <3>2. CASE Appended(RecoveryRecord(t)) /\ Take(t)
      BY <3>1, <3>2, <1>1 DEF Take
    <3>3. CASE AppendFailed(RecoveryRecord(t)) /\ Refuse
      BY <3>1, <3>3, <1>1 DEF Refuse
    <3>4. CASE UNCHANGED journal /\ Refuse
      BY <3>1, <3>4, <1>3 DEF Refuse
    <3>. QED BY <2>18, <3>2, <3>3, <3>4 DEF RecoverUnfinished
  <2>19. ASSUME NEW t \in Tx, RecoverConflict(t) PROVE Safe
    BY <2>19, <1>3 DEF RecoverConflict, Oldest, Refuse
  <2>20. CASE Open
    <3>1. Indexed' /\ todo' = DOMAIN latest'
      BY <2>20, OpenIndexes DEF JournalInv
    <3>2. Directory' /\ Kept /\ engine' = "recovering"
      BY <2>20 DEF Open, JournalInv, Directory
    <3>3. DOMAIN latest' \subseteq Tx
      BY <3>1 DEF Indexed
    <3>. QED BY <3>1, <3>2, <3>3 DEF Safe, JournalInv
  <2>21. CASE RecoverCleanup
    BY <2>21, <1>2, <1>3 DEF RecoverCleanup, Refuse
  <2>22. CASE RecoverDone
    BY <2>22, <1>3 DEF RecoverDone
  <2>23. CASE Crash
    <3>1. /\ engine' = "down" /\ todo' = {} /\ UNCHANGED synced
          /\ nextSeq' = 1 /\ DOMAIN latest' = {}
      BY <2>23 DEF Crash
    <3>2. CASE records' = records
      BY <3>1, <3>2 DEF Safe, JournalInv, Directory
    <3>3. ASSUME NEW rec \in InFlight, Admissible(rec), records' = Put(rec)
          PROVE  Safe
      <4>1. rec \in Record /\ rec.sequence = nextSeq /\ Indexed /\ Directory
        BY <3>3, InFlightIsRecord DEF JournalInv
      <4>2. WellFormed(Put(rec)) /\ DOMAIN Put(rec) = 1 .. nextSeq
        BY <4>1, <3>3, PutIsWellFormed
      <4>3. nextSeq \in Nat \ {0} /\ synced \subseteq 1 .. (nextSeq - 1)
        BY <4>1 DEF Indexed
      <4>4. /\ records'[nextSeq] = rec
            /\ \A i \in 1 .. (nextSeq - 1) : records'[i] = records[i] /\ i \in DOMAIN records
        BY <4>1, <4>2, <4>3, <3>3 DEF Put, Indexed
      <4>5. \A i \in DOMAIN records' : records'[i] \in Record
        BY <3>3, <4>1, <4>2, <4>3, <4>4 DEF Directory
      <4>6. Directory'
        <5>1. WellFormed(records') /\ DOMAIN records' = 1 .. nextSeq
          BY <3>3, <4>2
        <5>2. \A i \in 1 .. (nextSeq - 1) : i \in 1 .. nextSeq
          BY <4>3
        <5>3. synced' \subseteq DOMAIN records' /\ \E k \in Nat : synced' = 1 .. k
          BY <3>1, <4>1, <4>3, <5>1, <5>2 DEF Directory
        <5>. QED BY <4>3, <4>5, <5>1, <5>3 DEF Directory
      <4>. QED BY <3>1, <3>3, <4>2, <4>3, <4>4, <4>6 DEF Safe, JournalInv
    <3>. QED BY <2>23, <3>2, <3>3 DEF Crash
  <2>24. CASE PowerLoss
    <3>1. /\ engine' = "down" /\ todo' = {} /\ UNCHANGED synced
          /\ nextSeq' = 1 /\ DOMAIN latest' = {}
          /\ records' = [i \in synced |-> records[i]]
      BY <2>24 DEF PowerLoss
    <3>2. PICK n \in Nat, k \in Nat : DOMAIN records = 1 .. n /\ synced = 1 .. k
      BY DEF JournalInv, Directory
    <3>3. k <= n
      BY <3>2 DEF JournalInv, Directory
    <3>4. WellFormed(records')
      BY <3>1, <3>2, <3>3, PrefixIsWellFormed DEF JournalInv, Directory
    <3>5. Directory'
      BY <3>1, <3>2, <3>4 DEF JournalInv, Directory
    <3>. QED BY <3>1, <3>5 DEF Safe, JournalInv
  <2>25. ASSUME NEW f \in Foreign, ForeignPublish(f) PROVE Safe
    BY <2>25, <1>2 DEF ForeignPublish, loop
  <2>26. CASE UNCHANGED vars
    BY <2>26, <1>2 DEF vars, loop
  <2>. QED
    BY <2>1, <2>2, <2>3, <2>4, <2>5, <2>6, <2>7, <2>8, <2>9, <2>10, <2>11, <2>12, <2>13, <2>14, <2>15, <2>16, <2>17, <2>18, <2>19, <2>20, <2>21, <2>22, <2>23, <2>24, <2>25, <2>26 DEF Next, Begin, Prepare, Finish, Recover
<1>. QED BY <1>6

\* Whatever fails and wherever the process or the machine goes down, the
\* journal is one that open accepts, and its index in memory is true to it.
THEOREM JournalCorrect == Spec => []JournalInv
<1>1. Init => JournalInv
  <2>. SUFFICES ASSUME Init PROVE JournalInv
    OBVIOUS
  <2>1. DOMAIN records = {} /\ {} = 1 .. 0 /\ synced = {}
    BY DEF Init
  <2>2. WellFormed(records)
    BY <2>1, Interval DEF WellFormed
  <2>. QED BY <2>1, <2>2 DEF Init, JournalInv, Directory
<1>2. ThreadsNeedEngine /\ GitInv /\ JournalInv /\ [Next]_vars => JournalInv'
  BY JournalStep
<1>. QED BY <1>1, <1>2, ThreadsCorrect, GitCorrect, PTL DEF Spec

\* Journal::open never reports corruption of what the engine wrote.
THEOREM JournalIsReplayable == Spec => []JournalReplayable
<1>1. JournalInv => JournalReplayable
  BY DEF JournalInv, Directory, JournalReplayable
<1>. QED BY <1>1, JournalCorrect, PTL

\* No acknowledged record is ever overwritten or lost.
THEOREM AcknowledgedIsKept == Spec => SyncedRecordsAreKept
<1>1. ThreadsNeedEngine /\ GitInv /\ JournalInv /\ [Next]_vars =>
        [\A i \in synced : (i \in DOMAIN records' /\ records'[i] = records[i])]_vars
  BY JournalStep
<1>. QED BY <1>1, ThreadsCorrect, GitCorrect, JournalCorrect, PTL
         DEF Spec, SyncedRecordsAreKept


\* An append for one transaction leaves the handles of the others in order.
LEMMA AppendKeepsHandles ==
    ASSUME NEW t \in Tx, NEW s, NEW c, NEW u \in DOMAIN latest,
           latest[u].base = base[u],
           Appended(NewRecord(t, s, base[t], c)) \/ AppendFailed(NewRecord(t, s, base[t], c))
    PROVE  u \in DOMAIN latest' /\ latest'[u].base = base[u]
BY DEF Appended, AppendFailed, NewRecord, journal

\* Every handle has a record, of the same base.
THEOREM HandlesCorrect == Spec => []HandleInv
<1>1. Init => HandleInv
  BY DEF Init, HandleInv, States
<1>2. ThreadsNeedEngine /\ JournalInv /\ HandleInv /\ [Next]_vars => HandleInv'
  <2>. SUFFICES ASSUME ThreadsNeedEngine, JournalInv, HandleInv, [Next]_vars
                PROVE  HandleInv'
    OBVIOUS
  <2>. DEFINE Held == \A t \in Tx : pc[t] \notin {"new", "based", "gone"} =>
                         t \in DOMAIN latest /\ latest[t].base = base[t]
  <2>1. ASSUME UNCHANGED <<latest, base, state>>,
               \A t \in Tx : \/ pc'[t] = pc[t]
                             \/ pc'[t] \in {"new", "based", "gone"}
                             \/ pc[t] \notin {"new", "based", "gone"}
        PROVE  HandleInv'
    BY <2>1 DEF HandleInv
  <2>2. ASSUME NEW t \in Tx, NEW s, NEW c, UNCHANGED base,
               Appended(NewRecord(t, s, base[t], c)) \/ AppendFailed(NewRecord(t, s, base[t], c)),
               \/ pc[t] \notin {"new", "based", "gone"}
               \/ pc'[t] = "gone"
               \/ Appended(NewRecord(t, s, base[t], c)),
               \A u \in Tx \ {t} : pc'[u] = pc[u]
        PROVE  Held'
    <3>1. ASSUME NEW u \in Tx, pc'[u] \notin {"new", "based", "gone"}
          PROVE  u \in DOMAIN latest' /\ latest'[u].base = base'[u]
      <4>1. CASE pc[u] \notin {"new", "based", "gone"}
        BY <4>1, <2>2, AppendKeepsHandles DEF HandleInv
      <4>2. CASE u = t /\ Appended(NewRecord(t, s, base[t], c))
        BY <4>2, <2>2 DEF Appended, NewRecord
      <4>. QED BY <4>1, <4>2, <3>1, <2>2
    <3>. QED BY <3>1
  <2>3. ASSUME \A t \in Tx : pc'[t] \in {"new", "gone"}, UNCHANGED state
        PROVE  HandleInv'
    BY <2>3 DEF HandleInv
  <2>4. ASSUME NEW t \in Tx, pc[t] \notin {"new", "based", "gone"}, AbortInner(t), UNCHANGED base
        PROVE  HandleInv'
    <3>1. t \in DOMAIN latest /\ engine = "up"
      BY <2>4 DEF HandleInv, ThreadsNeedEngine
    <3>2. latest[t].state \in States
      BY <3>1, LatestIsRecorded DEF JournalInv, Record
    <3>3. state' \in [Tx -> States]
      BY <2>4, <3>2 DEF AbortInner, HandleInv, States
    <3>4. Held'
      <4>1. CASE Terminal(latest[t].state)
        <5>1. UNCHANGED <<latest, base>> /\ \A u \in Tx \ {t} : pc'[u] = pc[u]
          <6>1. latest' = latest /\ pc' = [pc EXCEPT ![t] = "idle"]
            BY <4>1, <2>4 DEF AbortInner, journal
          <6>. QED BY <6>1, <2>4 DEF ThreadsNeedEngine
        <5>. QED BY <5>1, <2>4 DEF HandleInv
      <4>2. CASE ~Terminal(latest[t].state)
        <5>. DEFINE rec == NewRecord(t, "Aborted", base[t], cand[t])
        <5>1. Appended(rec) \/ AppendFailed(rec)
          BY <4>2, <2>4 DEF AbortInner
        <5>2. \A u \in Tx \ {t} : pc'[u] = pc[u]
          BY <4>2, <2>4 DEF AbortInner, ThreadsNeedEngine
        <5>. QED BY <5>1, <5>2, <2>2, <2>4
      <4>. QED BY <4>1, <4>2
    <3>. QED BY <3>3, <3>4 DEF HandleInv
  <2>5. ASSUME state' \in [Tx -> States], Held' PROVE HandleInv'
    BY <2>5 DEF HandleInv
  <2>. HIDE DEF Held
  <2>6. ASSUME engine # "up" PROVE \A t \in Tx : pc[t] \in {"new", "gone"}
    BY <2>6 DEF ThreadsNeedEngine
  <2>7. state \in [Tx -> States] /\ pc \in [Tx -> PCs]
    BY DEF HandleInv, ThreadsNeedEngine
  <2>8. HandleInv'
    <3>1. ASSUME NEW t \in Tx, BeginRead(t) PROVE HandleInv'
      <4>1. \A u \in Tx : pc'[u] # "based" => pc'[u] = pc[u] /\ base'[u] = base[u]
        BY <3>1, <2>7 DEF BeginRead, Goto
      <4>. QED BY <3>1, <4>1 DEF BeginRead, HandleInv, journal
    <3>2. ASSUME NEW t \in Tx, BeginLog(t) PROVE HandleInv'
      BY <3>2, <2>2, <2>5, <2>7 DEF BeginLog, Goto, handle
    <3>3. ASSUME NEW t \in Tx, BeginWorktree(t) PROVE HandleInv'
      BY <3>3, <2>1, <2>7 DEF BeginWorktree, Goto, Idle, journal, handle, PCs
    <3>4. ASSUME NEW t \in Tx, BeginUndo(t) PROVE HandleInv'
      BY <3>4, <2>2, <2>5, <2>7 DEF BeginUndo, Goto, handle
    <3>5. ASSUME NEW t \in Tx, Write(t) PROVE HandleInv'
      BY <3>5, <2>1, <2>7 DEF Write, Edit, Goto, Idle, journal, handle, PCs
    <3>6. ASSUME NEW t \in Tx, OutsideEdit(t) PROVE HandleInv'
      BY <3>6, <2>1, <2>7 DEF OutsideEdit, Edit, Goto, Idle, journal, handle, PCs
    <3>7. ASSUME NEW t \in Tx, Stage(t) PROVE HandleInv'
      <4>1. pc[t] = "idle" /\ UNCHANGED <<pc, base>> /\ state' \in [Tx -> States]
        BY <3>7, <2>7 DEF Stage, CanStage, Idle, States
      <4>2. CASE UNCHANGED journal
        BY <4>1, <4>2 DEF HandleInv, journal
      <4>3. CASE ~ UNCHANGED journal
        <5>1. Held'
          BY <3>7, <4>1, <4>3, <2>2 DEF Stage
        <5>. QED BY <4>1, <5>1, <2>5
      <4>. QED BY <4>2, <4>3
    <3>8. ASSUME NEW t \in Tx, ValidateCommit(t) PROVE HandleInv'
      BY <3>8, <2>1, <2>7 DEF ValidateCommit, Goto, Idle, journal, handle, PCs
    <3>9. ASSUME NEW t \in Tx, ValidateReject(t) PROVE HandleInv'
      BY <3>9, <2>1, <2>7 DEF ValidateReject, Goto, Idle, journal, handle, PCs
    <3>10. ASSUME NEW t \in Tx, ValidateLog(t) PROVE HandleInv'
      <4>1. pc[t] = "sealed" /\ UNCHANGED base /\ state' \in [Tx -> States]
        BY <3>10, <2>7 DEF ValidateLog, Goto, States
      <4>2. CASE UNCHANGED journal
        BY <3>10, <4>1, <4>2, <2>7 DEF ValidateLog, Goto, HandleInv, journal
      <4>3. CASE ~ UNCHANGED journal
        <5>1. Held'
          BY <3>10, <4>1, <4>3, <2>2, <2>7 DEF ValidateLog, Goto
        <5>. QED BY <4>1, <5>1, <2>5
      <4>. QED BY <4>2, <4>3
    <3>11. ASSUME NEW t \in Tx, Abort(t) PROVE HandleInv'
      BY <3>11, <2>4 DEF Abort
    <3>12. ASSUME NEW t \in Tx, CommitPublish(t) PROVE HandleInv'
      BY <3>12, <2>7 DEF CommitPublish, Goto, Idle, HandleInv, States, journal
    <3>13. ASSUME NEW t \in Tx, CommitLost(t) PROVE HandleInv'
      BY <3>13, <2>1, <2>4, <2>7 DEF CommitLost, Goto, journal
    <3>14. ASSUME NEW t \in Tx, CommitLog(t) PROVE HandleInv'
      BY <3>14, <2>2, <2>5, <2>7 DEF CommitLog, Goto, handle
    <3>15. ASSUME NEW t \in Tx, Cleanup(t) PROVE HandleInv'
      BY <3>15, <2>1, <2>7 DEF Cleanup, Goto, Idle, journal, handle, PCs
    <3>16. ASSUME NEW t \in Tx, Release(t) PROVE HandleInv'
      BY <3>16, <2>1, <2>7 DEF Release, Goto, Idle, journal, handle, PCs
    <3>17. ASSUME NEW t \in Tx, RecoverTerminal(t) PROVE HandleInv'
      BY <3>17, <2>3, <2>6 DEF RecoverTerminal, Oldest, handle
    <3>18. ASSUME NEW t \in Tx, RecoverUnfinished(t) PROVE HandleInv'
      BY <3>18, <2>3, <2>6 DEF RecoverUnfinished, Oldest, handle
    <3>19. ASSUME NEW t \in Tx, RecoverConflict(t) PROVE HandleInv'
      BY <3>19, <2>3, <2>6 DEF RecoverConflict, Oldest, handle
    <3>20. CASE Open
      BY <3>20, <2>3, <2>6 DEF Open, handle
    <3>21. CASE RecoverCleanup
      BY <3>21, <2>3, <2>6 DEF RecoverCleanup, handle
    <3>22. CASE RecoverDone
      BY <3>22, <2>3, <2>6 DEF RecoverDone, handle
    <3>23. CASE Crash
      BY <3>23, <2>3 DEF Crash, handle
    <3>24. CASE PowerLoss
      BY <3>24, <2>3 DEF PowerLoss, handle
    <3>25. ASSUME NEW f \in Foreign, ForeignPublish(f) PROVE HandleInv'
      BY <3>25, <2>1 DEF ForeignPublish, journal, handle
    <3>26. CASE UNCHANGED vars
      BY <3>26, <2>1 DEF vars, journal, handle
    <3>. QED
      BY <3>1, <3>2, <3>3, <3>4, <3>5, <3>6, <3>7, <3>8, <3>9, <3>10, <3>11, <3>12, <3>13, <3>14, <3>15, <3>16, <3>17, <3>18, <3>19, <3>20, <3>21, <3>22, <3>23, <3>24, <3>25, <3>26 DEF Next, Begin, Prepare, Finish, Recover
  <2>. QED BY <2>8
<1>. QED BY <1>1, <1>2, ThreadsCorrect, JournalCorrect, PTL DEF Spec

\* The remaining variables, counters included, stay in their types.
THEOREM RestOfTypesCorrect == Spec => []RestOfTypes
<1>1. Init => RestOfTypes
  BY BoundAssumption DEF Init, RestOfTypes
<1>2. GitInv /\ JournalInv /\ RestOfTypes /\ [Next]_vars => RestOfTypes'
  <2>. SUFFICES ASSUME GitInv, JournalInv, RestOfTypes, [Next]_vars
                PROVE  RestOfTypes'
    OBVIOUS
  <2>0. base \in [Tx -> Rev] /\ todo \subseteq Tx
    BY DEF GitInv, JournalInv
  <2>. USE DEF RestOfTypes, Fault, Appended, AppendFailed, git, loop
  <2>1. ASSUME NEW t \in Tx, BeginRead(t) PROVE RestOfTypes'
    BY <2>1, <2>0 DEF BeginRead
  <2>2. ASSUME NEW t \in Tx, BeginLog(t) PROVE RestOfTypes'
    BY <2>2, <2>0 DEF BeginLog
  <2>3. ASSUME NEW t \in Tx, BeginWorktree(t) PROVE RestOfTypes'
    BY <2>3, <2>0 DEF BeginWorktree
  <2>4. ASSUME NEW t \in Tx, BeginUndo(t) PROVE RestOfTypes'
    BY <2>4, <2>0 DEF BeginUndo
  <2>5. ASSUME NEW t \in Tx, Write(t) PROVE RestOfTypes'
    BY <2>5, <2>0 DEF Write, Edit
  <2>6. ASSUME NEW t \in Tx, OutsideEdit(t) PROVE RestOfTypes'
    BY <2>6, <2>0 DEF OutsideEdit, Edit
  <2>7. ASSUME NEW t \in Tx, Stage(t) PROVE RestOfTypes'
    BY <2>7, <2>0 DEF Stage
  <2>8. ASSUME NEW t \in Tx, ValidateCommit(t) PROVE RestOfTypes'
    BY <2>8, <2>0 DEF ValidateCommit
  <2>9. ASSUME NEW t \in Tx, ValidateReject(t) PROVE RestOfTypes'
    BY <2>9, <2>0 DEF ValidateReject
  <2>10. ASSUME NEW t \in Tx, ValidateLog(t) PROVE RestOfTypes'
    BY <2>10, <2>0 DEF ValidateLog
  <2>11. ASSUME NEW t \in Tx, Abort(t) PROVE RestOfTypes'
    BY <2>11, <2>0 DEF Abort, AbortInner
  <2>12. ASSUME NEW t \in Tx, CommitPublish(t) PROVE RestOfTypes'
    BY <2>12, <2>0 DEF CommitPublish
  <2>13. ASSUME NEW t \in Tx, CommitLost(t) PROVE RestOfTypes'
    BY <2>13, <2>0 DEF CommitLost, AbortInner
  <2>14. ASSUME NEW t \in Tx, CommitLog(t) PROVE RestOfTypes'
    BY <2>14, <2>0 DEF CommitLog
  <2>15. ASSUME NEW t \in Tx, Cleanup(t) PROVE RestOfTypes'
    BY <2>15, <2>0 DEF Cleanup
  <2>16. ASSUME NEW t \in Tx, Release(t) PROVE RestOfTypes'
    BY <2>16, <2>0 DEF Release
  <2>17. ASSUME NEW t \in Tx, RecoverTerminal(t) PROVE RestOfTypes'
    BY <2>17, <2>0 DEF RecoverTerminal, Oldest, Take
  <2>18. ASSUME NEW t \in Tx, RecoverUnfinished(t) PROVE RestOfTypes'
    BY <2>18, <2>0 DEF RecoverUnfinished, Oldest, Take, Refuse
  <2>19. ASSUME NEW t \in Tx, RecoverConflict(t) PROVE RestOfTypes'
    BY <2>19, <2>0 DEF RecoverConflict, Refuse
  <2>20. CASE Open
    BY <2>20, <2>0 DEF Open
  <2>21. CASE RecoverCleanup
    BY <2>21, <2>0 DEF RecoverCleanup, Refuse
  <2>22. CASE RecoverDone
    BY <2>22, <2>0 DEF RecoverDone
  <2>23. CASE Crash
    BY <2>23, <2>0 DEF Crash
  <2>24. CASE PowerLoss
    BY <2>24, <2>0 DEF PowerLoss
  <2>25. ASSUME NEW f \in Foreign, ForeignPublish(f) PROVE RestOfTypes'
    BY <2>25, <2>0 DEF ForeignPublish
  <2>26. CASE UNCHANGED vars
    BY <2>26, <2>0 DEF vars
  <2>. QED
    BY <2>1, <2>2, <2>3, <2>4, <2>5, <2>6, <2>7, <2>8, <2>9, <2>10, <2>11, <2>12, <2>13, <2>14, <2>15, <2>16, <2>17, <2>18, <2>19, <2>20, <2>21, <2>22, <2>23, <2>24, <2>25, <2>26 DEF Next, Begin, Prepare, Finish, Recover
<1>. QED BY <1>1, <1>2, GitCorrect, JournalCorrect, PTL DEF Spec

\* Every variable keeps its type, for any number of transactions and faults.
THEOREM TypeCorrect == Spec => []TypeOK
<1>1. ThreadsNeedEngine /\ GitInv /\ JournalInv /\ HandleInv /\ RestOfTypes => TypeOK
  <2>. SUFFICES ASSUME ThreadsNeedEngine, GitInv, JournalInv, HandleInv, RestOfTypes
                PROVE  TypeOK
    OBVIOUS
  <2>1. DOMAIN records \subseteq Nat \ {0} /\ nextSeq \in Nat \ {0}
    BY DEF JournalInv, Directory, Indexed
  <2>2. DOMAIN latest \subseteq Tx /\ \A t \in DOMAIN latest : latest[t] \in Record /\ latest[t].tx = t
    <3>1. CASE engine = "down"
      BY <3>1 DEF JournalInv
    <3>2. CASE engine # "down"
      BY <3>2, LatestIsRecorded DEF JournalInv, Indexed
    <3>. QED BY <3>1, <3>2
  <2>. QED BY <2>1, <2>2 DEF TypeOK, ThreadsNeedEngine, GitInv, JournalInv, Directory,
                             HandleInv, RestOfTypes
<1>. QED BY <1>1, ThreadsCorrect, GitCorrect, JournalCorrect, HandlesCorrect,
            RestOfTypesCorrect, PTL


\* What any step leaves of the records is old, or the one that was put there.
LEMMA RecordsOfAppend ==
    ASSUME NEW rec, Appended(rec) \/ AppendFailed(rec), NEW i \in DOMAIN records'
    PROVE  records'[i] = rec \/ (i \in DOMAIN records /\ records'[i] = records[i])
BY DEF Appended, AppendFailed, Put, journal

\* The journal, or a handle, says Committed only of what is published: the
\* record follows the compare-and-swap, and recovery asks the history first.
THEOREM CommitCorrect == Spec => []CommitInv
<1>1. Init => CommitInv
  BY DEF Init, CommitInv, CommittedIsPublished
<1>2. /\ ThreadsNeedEngine /\ GitInv /\ JournalInv /\ HandleInv /\ CommitInv
      /\ [Next]_vars
      => CommitInv'
  <2>. SUFFICES ASSUME ThreadsNeedEngine, GitInv, JournalInv, HandleInv, CommitInv,
                       [Next]_vars
                PROVE  CommitInv'
    OBVIOUS
  <2>. DEFINE Good(rec) == /\ rec.state = "Committed" => rec.cand \in reach[ref]
                           /\ rec.cand \in {rec.tx, NoRev}
              RecordsOK == \A i \in DOMAIN records : Good(records[i])
              HandlesOK == /\ \A t \in Tx : state[t] = "Committed" => t \in reach[ref]
                           /\ \A t \in Tx : pc[t] = "published" =>
                                  state[t] = "Committed" /\ cand[t] = t
  <2>1. RecordsOK /\ HandlesOK
    BY DEF CommitInv, CommittedIsPublished
  <2>2. ASSUME RecordsOK', HandlesOK' PROVE CommitInv'
    BY <2>2 DEF CommitInv, CommittedIsPublished
  <2>3. reach[ref] \subseteq reach'[ref']
    BY HistoryGrows
  <2>4. ASSUME \A i \in DOMAIN records' : \/ Good(records'[i])
                                          \/ i \in DOMAIN records /\ records'[i] = records[i]
        PROVE  RecordsOK'
    BY <2>1, <2>3, <2>4
  <2>5. ASSUME NEW rec, Good(rec), Appended(rec) \/ AppendFailed(rec)
        PROVE  RecordsOK'
    <3>. HIDE DEF Good
    <3>. QED BY <2>4, <2>5, RecordsOfAppend
  <2>6. ASSUME UNCHANGED <<state, cand>>,
               \A t \in Tx : pc'[t] = "published" => pc[t] = "published"
        PROVE  HandlesOK'
    BY <2>1, <2>3, <2>6
  <2>7. ASSUME NEW t \in Tx, NEW s \in States \ {"Committed"}, NEW c \in {t, NoRev}
        PROVE  Good(NewRecord(t, s, base[t], c))
    BY <2>7 DEF NewRecord
  <2>8. \A t \in Tx : cand[t] \in {t, NoRev}
    BY DEF GitInv
  <2>9. ASSUME NEW t \in DOMAIN latest, engine # "down", latest[t].state = "Committed"
        PROVE  t \in reach[ref]
    <3>1. latest[t].cand \in reach[ref] /\ latest[t].cand \in {t, NoRev}
      <4>1. /\ latest[t].sequence \in DOMAIN records
            /\ records[latest[t].sequence] = latest[t]
            /\ latest[t].tx = t
        BY <2>9, LatestIsRecorded DEF JournalInv
      <4>. QED BY <4>1, <2>1, <2>9
    <3>. QED BY <3>1, RevAssumption DEF GitInv
  <2>10. ASSUME NEW t \in Tx, pc[t] \notin {"new", "based", "gone"}, AbortInner(t),
                UNCHANGED <<ref, reach, cand>>
         PROVE  CommitInv'
    <3>1. t \in DOMAIN latest /\ engine # "down"
      BY <2>10 DEF HandleInv, ThreadsNeedEngine
    <3>2. RecordsOK'
      <4>1. CASE UNCHANGED records
        BY <4>1, <2>4
      <4>2. CASE ~ UNCHANGED records
        <5>1. Good(NewRecord(t, "Aborted", base[t], cand[t]))
          BY <2>7, <2>8 DEF States
        <5>. HIDE DEF Good
        <5>. QED BY <4>2, <5>1, <2>5, <2>10 DEF AbortInner, journal
      <4>. QED BY <4>1, <4>2
    <3>3. pc \in [Tx -> PCs] /\ state \in [Tx -> States]
      BY DEF ThreadsNeedEngine, HandleInv
    <3>4. state'[t] = "Committed" => t \in reach[ref]
      BY <3>1, <3>3, <2>1, <2>9, <2>10 DEF AbortInner, States
    <3>5. /\ pc'[t] # "published"
          /\ \A u \in Tx \ {t} : pc'[u] = pc[u] /\ state'[u] = state[u]
      BY <3>3, <2>10 DEF AbortInner
    <3>6. HandlesOK'
      BY <3>4, <3>5, <2>1, <2>10
    <3>. QED BY <3>2, <3>6, <2>2
  <2>11. ASSUME NEW t \in Tx, Oldest(t), ~Terminal(latest[t].state),
                Verdict(latest[t]) # "Conflict"
         PROVE  Good(RecoveryRecord(t))
    <3>1. t \in DOMAIN latest /\ engine # "down"
      BY <2>11 DEF Oldest, JournalInv
    <3>2. latest[t].cand \in {t, NoRev}
      <4>1. /\ latest[t].sequence \in DOMAIN records
            /\ records[latest[t].sequence] = latest[t]
            /\ latest[t].tx = t
        BY <3>1, LatestIsRecorded DEF JournalInv
      <4>. QED BY <4>1, <2>1
    <3>. QED BY <3>2, <2>11 DEF RecoveryRecord, NewRecord, Verdict, Published
  <2>12. ASSUME NEW rec \in InFlight PROVE Good(rec)
    <3>1. CASE engine = "up"
      <4>1. PICK t \in Tx : rec \in Writing(t)
        BY <3>1, <2>12 DEF InFlight
      <4>2. CASE pc[t] = "published"
        <5>1. rec = NewRecord(t, "Committed", base[t], cand[t])
          BY <4>1, <4>2 DEF Writing
        <5>2. t \in reach[ref] /\ cand[t] = t
          BY <4>2, <2>1
        <5>. QED BY <5>1, <5>2 DEF NewRecord
      <4>3. CASE pc[t] # "published"
        <5>1. \E s \in States \ {"Committed"} : \E c \in {t, NoRev} :
                 rec = NewRecord(t, s, base[t], c)
          BY <4>1, <4>3, <2>8 DEF Writing, States
        <5>. HIDE DEF Good
        <5>. QED BY <5>1, <2>7
      <4>. QED BY <4>2, <4>3
    <3>2. CASE engine # "up"
      <4>. HIDE DEF Good
      <4>. QED BY <3>2, <2>11, <2>12 DEF InFlight
    <3>. QED BY <3>1, <3>2
  <2>13. pc \in [Tx -> PCs] /\ state \in [Tx -> States] /\ cand \in [Tx -> Tx \cup {NoRev}]
    BY DEF ThreadsNeedEngine, HandleInv, GitInv
  <2>14. CommitInv'
    <3>1. ASSUME NEW t \in Tx, BeginRead(t) PROVE CommitInv'
      <4>1. RecordsOK'
        BY <3>1, <2>4 DEF BeginRead, journal
      <4>2. HandlesOK'
        BY <3>1, <2>6, <2>13 DEF BeginRead, Goto, Idle, handle
      <4>. HIDE DEF RecordsOK, HandlesOK
      <4>. QED BY <4>1, <4>2, <2>2
    <3>2. ASSUME NEW t \in Tx, BeginLog(t) PROVE CommitInv'
      <4>1. Good(NewRecord(t, "Init", base[t], NoRev))
        BY <2>7 DEF States
      <4>2. RecordsOK'
        <5>. HIDE DEF Good
        <5>. QED BY <3>2, <4>1, <2>5 DEF BeginLog
      <4>3. HandlesOK'
        BY <3>2, <2>6, <2>13 DEF BeginLog, Goto, handle
      <4>. HIDE DEF RecordsOK, HandlesOK
      <4>. QED BY <4>2, <4>3, <2>2
    <3>3. ASSUME NEW t \in Tx, BeginWorktree(t) PROVE CommitInv'
      <4>1. RecordsOK'
        BY <3>3, <2>4 DEF BeginWorktree, journal
      <4>2. HandlesOK'
        BY <3>3, <2>6, <2>13 DEF BeginWorktree, Goto, Idle, handle
      <4>. HIDE DEF RecordsOK, HandlesOK
      <4>. QED BY <4>1, <4>2, <2>2
    <3>4. ASSUME NEW t \in Tx, BeginUndo(t) PROVE CommitInv'
      <4>1. Good(NewRecord(t, "Aborted", base[t], NoRev))
        BY <2>7 DEF States
      <4>2. RecordsOK'
        <5>. HIDE DEF Good
        <5>. QED BY <3>4, <4>1, <2>5 DEF BeginUndo
      <4>3. HandlesOK'
        BY <3>4, <2>6, <2>13 DEF BeginUndo, Goto, handle
      <4>. HIDE DEF RecordsOK, HandlesOK
      <4>. QED BY <4>2, <4>3, <2>2
    <3>5. ASSUME NEW t \in Tx, Write(t) PROVE CommitInv'
      <4>1. RecordsOK'
        BY <3>5, <2>4 DEF Write, Edit, journal
      <4>2. HandlesOK'
        BY <3>5, <2>6, <2>13 DEF Write, Edit, Goto, Idle, handle
      <4>. HIDE DEF RecordsOK, HandlesOK
      <4>. QED BY <4>1, <4>2, <2>2
    <3>6. ASSUME NEW t \in Tx, OutsideEdit(t) PROVE CommitInv'
      <4>1. RecordsOK'
        BY <3>6, <2>4 DEF OutsideEdit, Edit, journal
      <4>2. HandlesOK'
        BY <3>6, <2>6, <2>13 DEF OutsideEdit, Edit, Goto, Idle, handle
      <4>. HIDE DEF RecordsOK, HandlesOK
      <4>. QED BY <4>1, <4>2, <2>2
    <3>7. ASSUME NEW t \in Tx, Stage(t) PROVE CommitInv'
      <4>1. Good(NewRecord(t, "Staged", base[t], NoRev))
        BY <2>7 DEF States
      <4>2. RecordsOK'
        <5>1. CASE UNCHANGED records
          BY <5>1, <2>4
        <5>2. CASE ~ UNCHANGED records
          <6>. HIDE DEF Good
          <6>. QED BY <3>7, <4>1, <5>2, <2>5 DEF Stage, journal
        <5>. QED BY <5>1, <5>2
      <4>3. HandlesOK'
        BY <3>7, <2>1, <2>3, <2>13 DEF Stage, Goto, CanStage, Idle
      <4>. HIDE DEF RecordsOK, HandlesOK
      <4>. QED BY <4>2, <4>3, <2>2
    <3>8. ASSUME NEW t \in Tx, ValidateCommit(t) PROVE CommitInv'
      <4>1. RecordsOK'
        BY <3>8, <2>4 DEF ValidateCommit, journal
      <4>2. HandlesOK'
        BY <3>8, <2>6, <2>13 DEF ValidateCommit, Goto, Idle, handle
      <4>. HIDE DEF RecordsOK, HandlesOK
      <4>. QED BY <4>1, <4>2, <2>2
    <3>9. ASSUME NEW t \in Tx, ValidateReject(t) PROVE CommitInv'
      <4>1. RecordsOK'
        BY <3>9, <2>4 DEF ValidateReject, journal
      <4>2. HandlesOK'
        BY <3>9, <2>6, <2>13 DEF ValidateReject, Goto, Idle, handle
      <4>. HIDE DEF RecordsOK, HandlesOK
      <4>. QED BY <4>1, <4>2, <2>2
    <3>10. ASSUME NEW t \in Tx, ValidateLog(t) PROVE CommitInv'
      <4>1. Good(NewRecord(t, "Validated", base[t], t))
        BY <2>7 DEF States
      <4>2. RecordsOK'
        <5>1. CASE UNCHANGED records
          BY <5>1, <2>4
        <5>2. CASE ~ UNCHANGED records
          <6>. HIDE DEF Good
          <6>. QED BY <3>10, <4>1, <5>2, <2>5 DEF ValidateLog, journal
        <5>. QED BY <5>1, <5>2
      <4>3. HandlesOK'
        BY <3>10, <2>1, <2>3, <2>13 DEF ValidateLog, Goto, CanStage, Idle
      <4>. HIDE DEF RecordsOK, HandlesOK
      <4>. QED BY <4>2, <4>3, <2>2
    <3>11. ASSUME NEW t \in Tx, Abort(t) PROVE CommitInv'
      BY <3>11, <2>10 DEF Abort, git
    <3>12. ASSUME NEW t \in Tx, CommitPublish(t) PROVE CommitInv'
      <4>1. RecordsOK'
        BY <3>12, <2>4 DEF CommitPublish, journal
      <4>2. HandlesOK'
        <5>1. CASE Swappable(t) /\ ref' = cand[t] /\ state' = [state EXCEPT ![t] = "Committed"]
          <6>1. cand[t] = t /\ t \in reach[t] /\ reach' = reach /\ cand' = cand
            BY <3>12, <2>8, RevAssumption DEF CommitPublish, Sealed, GitInv, Rev
          <6>. QED BY <3>12, <5>1, <6>1, <2>1, <2>3, <2>13 DEF CommitPublish, Goto
        <5>2. CASE ~ (Swappable(t) /\ ref' = cand[t] /\ state' = [state EXCEPT ![t] = "Committed"])
          BY <3>12, <5>2, <2>6, <2>13 DEF CommitPublish, Goto
        <5>. QED BY <5>1, <5>2
      <4>. HIDE DEF RecordsOK, HandlesOK
      <4>. QED BY <4>1, <4>2, <2>2
    <3>13. ASSUME NEW t \in Tx, CommitLost(t) PROVE CommitInv'
      <4>1. CASE AbortInner(t)
        BY <3>13, <4>1, <2>10 DEF CommitLost, git
      <4>2. CASE ~ AbortInner(t)
        <5>1. RecordsOK'
          BY <3>13, <4>2, <2>4 DEF CommitLost, journal
        <5>2. HandlesOK'
          BY <3>13, <4>2, <2>6, <2>13 DEF CommitLost, Goto
        <5>. HIDE DEF RecordsOK, HandlesOK
        <5>. QED BY <5>1, <5>2, <2>2
      <4>. QED BY <4>1, <4>2
    <3>14. ASSUME NEW t \in Tx, CommitLog(t) PROVE CommitInv'
      <4>1. Good(NewRecord(t, "Committed", base[t], cand[t]))
        BY <3>14, <2>1 DEF CommitLog, Goto, NewRecord
      <4>2. RecordsOK'
        <5>. HIDE DEF Good
        <5>. QED BY <3>14, <4>1, <2>5 DEF CommitLog
      <4>3. HandlesOK'
        BY <3>14, <2>6, <2>13 DEF CommitLog, Goto, handle
      <4>. HIDE DEF RecordsOK, HandlesOK
      <4>. QED BY <4>2, <4>3, <2>2
    <3>15. ASSUME NEW t \in Tx, Cleanup(t) PROVE CommitInv'
      <4>1. RecordsOK'
        BY <3>15, <2>4 DEF Cleanup, journal
      <4>2. HandlesOK'
        BY <3>15, <2>6, <2>13 DEF Cleanup, Goto, Idle, handle
      <4>. HIDE DEF RecordsOK, HandlesOK
      <4>. QED BY <4>1, <4>2, <2>2
    <3>16. ASSUME NEW t \in Tx, Release(t) PROVE CommitInv'
      <4>1. RecordsOK'
        BY <3>16, <2>4 DEF Release, journal
      <4>2. HandlesOK'
        BY <3>16, <2>6, <2>13 DEF Release, Goto, Idle, handle
      <4>. HIDE DEF RecordsOK, HandlesOK
      <4>. QED BY <4>1, <4>2, <2>2
    <3>17. ASSUME NEW t \in Tx, RecoverTerminal(t) PROVE CommitInv'
      <4>1. RecordsOK'
        BY <3>17, <2>4 DEF RecoverTerminal, journal
      <4>2. HandlesOK'
        BY <3>17, <2>6 DEF RecoverTerminal, handle
      <4>. HIDE DEF RecordsOK, HandlesOK
      <4>. QED BY <4>1, <4>2, <2>2
    <3>18. ASSUME NEW t \in Tx, RecoverUnfinished(t) PROVE CommitInv'
      <4>1. Good(RecoveryRecord(t))
        BY <3>18, <2>11 DEF RecoverUnfinished
      <4>2. RecordsOK'
        <5>1. CASE UNCHANGED records
          BY <5>1, <2>4
        <5>2. CASE ~ UNCHANGED records
          <6>. HIDE DEF Good
          <6>. QED BY <3>18, <4>1, <5>2, <2>5 DEF RecoverUnfinished, journal
        <5>. QED BY <5>1, <5>2
      <4>3. HandlesOK'
        BY <3>18, <2>6 DEF RecoverUnfinished, handle
      <4>. HIDE DEF RecordsOK, HandlesOK
      <4>. QED BY <4>2, <4>3, <2>2
    <3>19. ASSUME NEW t \in Tx, RecoverConflict(t) PROVE CommitInv'
      <4>1. RecordsOK'
        BY <3>19, <2>4 DEF RecoverConflict, journal
      <4>2. HandlesOK'
        BY <3>19, <2>6 DEF RecoverConflict, handle
      <4>. HIDE DEF RecordsOK, HandlesOK
      <4>. QED BY <4>1, <4>2, <2>2
    <3>20. CASE Open
      <4>1. RecordsOK'
        BY <3>20, <2>4 DEF Open, journal
      <4>2. HandlesOK'
        BY <3>20, <2>6 DEF Open, handle
      <4>. HIDE DEF RecordsOK, HandlesOK
      <4>. QED BY <4>1, <4>2, <2>2
    <3>21. CASE RecoverCleanup
      <4>1. RecordsOK'
        BY <3>21, <2>4 DEF RecoverCleanup, journal
      <4>2. HandlesOK'
        BY <3>21, <2>6 DEF RecoverCleanup, handle
      <4>. HIDE DEF RecordsOK, HandlesOK
      <4>. QED BY <4>1, <4>2, <2>2
    <3>22. CASE RecoverDone
      <4>1. RecordsOK'
        BY <3>22, <2>4 DEF RecoverDone, journal
      <4>2. HandlesOK'
        BY <3>22, <2>6 DEF RecoverDone, handle
      <4>. HIDE DEF RecordsOK, HandlesOK
      <4>. QED BY <4>1, <4>2, <2>2
    <3>23. CASE Crash
      <4>1. RecordsOK'
        <5>1. CASE records' = records
          BY <5>1, <2>4
        <5>2. ASSUME NEW rec \in InFlight, records' = Put(rec)
              PROVE  RecordsOK'
          <6>1. Good(rec)
            BY <5>2, <2>12
          <6>. HIDE DEF Good
          <6>. QED BY <5>2, <6>1, <2>4 DEF Put
        <5>. QED BY <3>23, <5>1, <5>2 DEF Crash
      <4>2. HandlesOK'
        BY <3>23, <2>6 DEF Crash, handle
      <4>. HIDE DEF RecordsOK, HandlesOK
      <4>. QED BY <4>1, <4>2, <2>2
    <3>24. CASE PowerLoss
      <4>1. RecordsOK'
        BY <3>24, <2>4 DEF PowerLoss, JournalInv, Directory
      <4>2. HandlesOK'
        BY <3>24, <2>6 DEF PowerLoss, handle
      <4>. HIDE DEF RecordsOK, HandlesOK
      <4>. QED BY <4>1, <4>2, <2>2
    <3>25. ASSUME NEW f \in Foreign, ForeignPublish(f) PROVE CommitInv'
      <4>1. RecordsOK'
        BY <3>25, <2>4 DEF ForeignPublish, journal
      <4>2. HandlesOK'
        BY <3>25, <2>6 DEF ForeignPublish, handle
      <4>. HIDE DEF RecordsOK, HandlesOK
      <4>. QED BY <4>1, <4>2, <2>2
    <3>26. CASE UNCHANGED vars
      <4>1. RecordsOK'
        BY <3>26, <2>4 DEF vars, journal
      <4>2. HandlesOK'
        BY <3>26, <2>6 DEF vars, handle
      <4>. HIDE DEF RecordsOK, HandlesOK
      <4>. QED BY <4>1, <4>2, <2>2
    <3>. QED
      BY <3>1, <3>2, <3>3, <3>4, <3>5, <3>6, <3>7, <3>8, <3>9, <3>10, <3>11, <3>12, <3>13, <3>14, <3>15, <3>16, <3>17, <3>18, <3>19, <3>20, <3>21, <3>22, <3>23, <3>24, <3>25, <3>26 DEF Next, Begin, Prepare, Finish, Recover
  <2>. QED BY <2>14
<1>. QED BY <1>1, <1>2, ThreadsCorrect, GitCorrect, JournalCorrect, HandlesCorrect,
            PTL DEF Spec

\* Nothing is called committed, on disk or to the caller, that is not in the
\* history of the publication ref.
THEOREM CommittedIsInHistory == Spec => []CommittedIsPublished
<1>1. CommitInv => CommittedIsPublished
  BY DEF CommitInv
<1>. QED BY <1>1, CommitCorrect, PTL

-----------------------------------------------------------------------------
(* What the published history owes to the journal and to the candidates,   *)
(* what recovery leaves, and that the engine implements Publication: for   *)
(* any number of transactions, failures and crashes.                       *)

-----------------------------------------------------------------------------
(* Histories and contents.                                                 *)

\* The steps that change the object database, the ref, a base or an index.
HistoryStep ==
    \/ UNCHANGED <<git, base, index>>
    \/ \E t \in Tx : \/ BeginRead(t)
                     \/ BeginWorktree(t)
                     \/ Stage(t)
                     \/ ValidateCommit(t)
                     \/ CommitPublish(t)
    \/ \E f \in Foreign : ForeignPublish(f)

\* Every action of the engine is one of these, or changes none of it.
LEMMA HistorySteps == [Next]_vars => HistoryStep
<1>. SUFFICES ASSUME [Next]_vars PROVE HistoryStep
  OBVIOUS
<1>1. ASSUME NEW t \in Tx, BeginRead(t) PROVE HistoryStep
  BY <1>1 DEF HistoryStep
<1>2. ASSUME NEW t \in Tx, BeginLog(t) PROVE HistoryStep
  BY <1>2 DEF BeginLog, HistoryStep, git, handle
<1>3. ASSUME NEW t \in Tx, BeginWorktree(t) PROVE HistoryStep
  BY <1>3 DEF HistoryStep
<1>4. ASSUME NEW t \in Tx, BeginUndo(t) PROVE HistoryStep
  BY <1>4 DEF BeginUndo, HistoryStep, git, handle
<1>5. ASSUME NEW t \in Tx, Write(t) PROVE HistoryStep
  BY <1>5 DEF Write, Edit, HistoryStep, git, handle
<1>6. ASSUME NEW t \in Tx, OutsideEdit(t) PROVE HistoryStep
  BY <1>6 DEF OutsideEdit, Edit, HistoryStep, git, handle
<1>7. ASSUME NEW t \in Tx, Stage(t) PROVE HistoryStep
  BY <1>7 DEF HistoryStep
<1>8. ASSUME NEW t \in Tx, ValidateCommit(t) PROVE HistoryStep
  BY <1>8 DEF HistoryStep
<1>9. ASSUME NEW t \in Tx, ValidateReject(t) PROVE HistoryStep
  BY <1>9 DEF ValidateReject, HistoryStep, git, handle
<1>10. ASSUME NEW t \in Tx, ValidateLog(t) PROVE HistoryStep
  BY <1>10 DEF ValidateLog, HistoryStep, git, handle
<1>11. ASSUME NEW t \in Tx, Abort(t) PROVE HistoryStep
  BY <1>11 DEF Abort, AbortInner, HistoryStep, git, handle
<1>12. ASSUME NEW t \in Tx, CommitPublish(t) PROVE HistoryStep
  BY <1>12 DEF HistoryStep
<1>13. ASSUME NEW t \in Tx, CommitLost(t) PROVE HistoryStep
  BY <1>13 DEF CommitLost, AbortInner, HistoryStep, git, handle
<1>14. ASSUME NEW t \in Tx, CommitLog(t) PROVE HistoryStep
  BY <1>14 DEF CommitLog, HistoryStep, git, handle
<1>15. ASSUME NEW t \in Tx, Cleanup(t) PROVE HistoryStep
  BY <1>15 DEF Cleanup, HistoryStep, git, handle
<1>16. ASSUME NEW t \in Tx, Release(t) PROVE HistoryStep
  BY <1>16 DEF Release, HistoryStep, git, handle
<1>17. ASSUME NEW t \in Tx, RecoverTerminal(t) PROVE HistoryStep
  BY <1>17 DEF RecoverTerminal, HistoryStep, git, handle
<1>18. ASSUME NEW t \in Tx, RecoverUnfinished(t) PROVE HistoryStep
  BY <1>18 DEF RecoverUnfinished, HistoryStep, git, handle
<1>19. ASSUME NEW t \in Tx, RecoverConflict(t) PROVE HistoryStep
  BY <1>19 DEF RecoverConflict, HistoryStep, git, handle
<1>20. CASE Open
  BY <1>20 DEF Open, HistoryStep, git, handle
<1>21. CASE RecoverCleanup
  BY <1>21 DEF RecoverCleanup, HistoryStep, git, handle
<1>22. CASE RecoverDone
  BY <1>22 DEF RecoverDone, HistoryStep, git, handle
<1>23. CASE Crash
  BY <1>23 DEF Crash, HistoryStep, git, handle
<1>24. CASE PowerLoss
  BY <1>24 DEF PowerLoss, HistoryStep, git, handle
<1>25. ASSUME NEW f \in Foreign, ForeignPublish(f) PROVE HistoryStep
  BY <1>25 DEF HistoryStep
<1>26. CASE UNCHANGED vars
  BY <1>26 DEF vars, HistoryStep, git, handle
<1>. QED
  BY <1>1, <1>2, <1>3, <1>4, <1>5, <1>6, <1>7, <1>8, <1>9, <1>10, <1>11, <1>12, <1>13,
     <1>14, <1>15, <1>16, <1>17, <1>18, <1>19, <1>20, <1>21, <1>22, <1>23, <1>24, <1>25,
     <1>26 DEF Next, Begin, Prepare, Finish, Recover

\* Histories stay closed, and no transaction comes to be based on itself.
THEOREM HistoryCorrect == Spec => []HistoryInv
<1>1. Init => HistoryInv
  BY RevAssumption DEF Init, HistoryInv, Rev
<1>2. ThreadsNeedEngine /\ GitInv /\ HistoryInv /\ [Next]_vars => HistoryInv'
  <2>. SUFFICES ASSUME ThreadsNeedEngine, GitInv, HistoryInv, [Next]_vars
                PROVE  HistoryInv'
    OBVIOUS
  <2>. USE DEF HistoryInv
  <2>1. ref \in Rev /\ ref \in reach[ref] /\ reach \in [Rev -> SUBSET Rev]
        /\ base \in [Tx -> Rev] /\ pc \in [Tx -> PCs] /\ Tx \subseteq Rev
    BY DEF GitInv, ThreadsNeedEngine, Rev
  <2>2. CASE UNCHANGED <<reach, base>>
    BY <2>2
  <2>3. ASSUME NEW t \in Tx, BeginRead(t) PROVE HistoryInv'
    <3>1. reach[t] = {}
      BY <2>3 DEF BeginRead, Goto, GitInv
    <3>. QED BY <2>1, <2>3, <3>1 DEF BeginRead, Goto, git
  <2>4. ASSUME NEW t \in Tx, ValidateCommit(t) PROVE HistoryInv'
    <3>1. reach[t] = {} /\ reach' = [reach EXCEPT ![t] = {t} \cup reach[base[t]]] /\ base' = base
      BY <2>4 DEF ValidateCommit, Sealed, handle
    <3>2. \A u \in Tx : base[u] # t /\ reach'[base[u]] = reach[base[u]]
      BY <2>1, <3>1
    <3>3. \A r \in Rev : r # t => reach'[r] = reach[r]
      BY <2>1, <3>1
    <3>4. reach'[t] = {t} \cup reach[base[t]] /\ base[t] \in Rev
      BY <2>1, <3>1
    <3>. QED BY <2>1, <3>1, <3>2, <3>3, <3>4
  <2>5. ASSUME NEW f \in Foreign, ForeignPublish(f) PROVE HistoryInv'
    <3>1. f \in Rev /\ f \notin Tx /\ base' = base
          /\ reach[f] = {} /\ reach' = [reach EXCEPT ![f] = {f} \cup reach[ref]]
      BY <2>5, RevAssumption DEF ForeignPublish, handle, Rev
    <3>2. \A u \in Tx : base[u] # f /\ reach'[base[u]] = reach[base[u]]
      BY <2>1, <3>1
    <3>3. \A r \in Rev : r # f => reach'[r] = reach[r]
      BY <2>1, <3>1
    <3>4. reach'[f] = {f} \cup reach[ref]
      BY <2>1, <3>1
    <3>. QED BY <2>1, <3>1, <3>2, <3>3, <3>4
  <2>6. ASSUME NEW t \in Tx, BeginWorktree(t) \/ Stage(t) \/ CommitPublish(t)
        PROVE UNCHANGED <<reach, base>>
    BY <2>6 DEF BeginWorktree, Stage, CommitPublish, git, handle
  <2>. QED BY <2>2, <2>3, <2>4, <2>5, <2>6, HistorySteps DEF HistoryStep, git
<1>. QED BY <1>1, <1>2, ThreadsCorrect, GitCorrect, PTL DEF Spec

\* What is in a history was committed at some time.
LEMMA InHistoryIsSealed ==
    ASSUME GitInv, HistoryInv, NEW t \in Tx, t \in reach[ref]
    PROVE  Sealed(t) /\ pc[t] \notin {"new", "based", "logged", "undo"}
BY DEF GitInv, HistoryInv, Sealed

\* The content of a candidate commit is what was staged, and not the base's.
THEOREM StagedCorrect == Spec => []StagedInv
<1>1. Init => StagedInv
  BY RevAssumption DEF Init, StagedInv, Sealed, Rev
<1>2. ThreadsNeedEngine /\ GitInv /\ HistoryInv /\ RestOfTypes /\ StagedInv /\ [Next]_vars
      => StagedInv'
  <2>. SUFFICES ASSUME ThreadsNeedEngine, GitInv, HistoryInv, RestOfTypes, StagedInv,
                       [Next]_vars
                PROVE  StagedInv'
    OBVIOUS
  <2>1. /\ reach \in [Rev -> SUBSET Rev] /\ base \in [Tx -> Rev] /\ Tx \subseteq Rev
        /\ tree \in [Rev -> Trees] /\ index \in [Tx -> Trees] /\ pc \in [Tx -> PCs]
        /\ \A u \in Tx : reach[base[u]] # {}
    BY DEF GitInv, ThreadsNeedEngine, HistoryInv, RestOfTypes, Rev
  <2>2. ASSUME UNCHANGED <<reach, tree, base, index>> PROVE StagedInv'
    BY <2>2 DEF StagedInv, Sealed
  <2>3. ASSUME NEW t \in Tx, reach[t] = {}, UNCHANGED <<reach, tree>>,
               \A u \in Tx \ {t} : index'[u] = index[u] /\ base'[u] = base[u]
        PROVE  StagedInv'
    BY <2>3 DEF StagedInv, Sealed
  <2>4. ASSUME NEW t \in Tx, BeginRead(t) \/ BeginWorktree(t) \/ Stage(t)
        PROVE  StagedInv'
    <3>1. reach[t] = {}
      BY <2>4 DEF BeginRead, BeginWorktree, Stage, CanStage, Sealed, Goto, GitInv
    <3>2. /\ UNCHANGED <<reach, tree>>
          /\ \A u \in Tx \ {t} : index'[u] = index[u] /\ base'[u] = base[u]
      BY <2>1, <2>4 DEF BeginRead, BeginWorktree, Stage, Goto, git, handle
    <3>. QED BY <2>3, <3>1, <3>2
  <2>5. ASSUME NEW t \in Tx, ValidateCommit(t) PROVE StagedInv'
    <3>1. /\ reach[t] = {} /\ base[t] # t /\ HasChanges(t, index[t])
          /\ tree' = [tree EXCEPT ![t] = index[t]]
          /\ reach' = [reach EXCEPT ![t] = {t} \cup reach[base[t]]]
          /\ UNCHANGED <<base, index>>
      BY <2>1, <2>5 DEF ValidateCommit, Sealed, handle
    <3>2. \A u \in Tx : base[u] # t
      BY <2>1, <3>1
    <3>3. \A r \in Rev : r # t => tree'[r] = tree[r] /\ reach'[r] = reach[r]
      BY <2>1, <3>1
    <3>4. tree'[t] = index[t] /\ tree'[base[t]] = tree[base[t]]
      BY <2>1, <3>1, <3>3
    <3>5. index[t] # tree[base[t]]
      BY <3>1 DEF HasChanges
    <3>6. \A u \in Tx : tree'[base[u]] = tree[base[u]]
      BY <2>1, <3>2, <3>3
    <3>. QED BY <2>1, <3>1, <3>3, <3>4, <3>5, <3>6 DEF StagedInv, Sealed
  <2>6. ASSUME NEW f \in Foreign, ForeignPublish(f) PROVE StagedInv'
    <3>1. /\ f \in Rev /\ f \notin Tx /\ reach[f] = {} /\ UNCHANGED <<base, index>>
          /\ reach' = [reach EXCEPT ![f] = {f} \cup reach[ref]]
          /\ \E c \in Trees : tree' = [tree EXCEPT ![f] = c]
      BY <2>6, RevAssumption DEF ForeignPublish, handle, Rev
    <3>2. \A r \in Rev : r # f => tree'[r] = tree[r] /\ reach'[r] = reach[r]
      BY <2>1, <3>1
    <3>3. \A u \in Tx : tree'[base[u]] = tree[base[u]] /\ tree'[u] = tree[u] /\ reach'[u] = reach[u]
      BY <2>1, <3>1, <3>2
    <3>. QED BY <3>1, <3>3 DEF StagedInv, Sealed
  <2>7. ASSUME NEW t \in Tx, CommitPublish(t) PROVE StagedInv'
    BY <2>2, <2>7 DEF CommitPublish
  <2>. QED BY <2>2, <2>4, <2>5, <2>6, <2>7, HistorySteps DEF HistoryStep, git
<1>. QED BY <1>1, <1>2, ThreadsCorrect, GitCorrect, HistoryCorrect, RestOfTypesCorrect, PTL
         DEF Spec

\* What is published for a transaction is exactly what was staged, never an
\* edit from outside and never the empty change.
THEOREM PublishedIsStaged == Spec => []PublishedAsStaged
<1>1. GitInv /\ HistoryInv /\ StagedInv => PublishedAsStaged
  BY InHistoryIsSealed DEF StagedInv, PublishedAsStaged
<1>. QED BY <1>1, GitCorrect, HistoryCorrect, StagedCorrect, PTL

-----------------------------------------------------------------------------
(* What is durable of whom.                                                *)

\* An append keeps the synced records, and adds its own when it succeeds.
LEMMA AppendSyncs ==
    ASSUME JournalInv, NEW rec, Appended(rec) \/ AppendFailed(rec)
    PROVE  synced \subseteq synced'
BY DEF Appended, AppendFailed, Put, journal, JournalInv, Directory

\* What append acknowledges is synced.
LEMMA AppendedIsSynced ==
    ASSUME NEW rec, Appended(rec)
    PROVE  rec.sequence \in synced' /\ records'[rec.sequence] = rec
BY DEF Appended, Put

\* What is synced stays synced.
LEMMA SyncedGrows ==
    ASSUME JournalInv, [Next]_vars
    PROVE  synced \subseteq synced'
<1>. DEFINE Grows == synced \subseteq synced'
<1>0. SUFFICES Grows
  OBVIOUS
<1>a. ASSUME NEW t \in Tx, AbortInner(t) PROVE Grows
  BY <1>a, AppendSyncs DEF AbortInner, journal
<1>. HIDE DEF Grows
<1>1. ASSUME NEW t \in Tx, BeginRead(t) PROVE Grows
  BY <1>1 DEF BeginRead, journal, Grows
<1>2. ASSUME NEW t \in Tx, BeginLog(t) PROVE Grows
  BY <1>2, AppendSyncs DEF BeginLog, journal, Grows
<1>3. ASSUME NEW t \in Tx, BeginWorktree(t) PROVE Grows
  BY <1>3 DEF BeginWorktree, journal, Grows
<1>4. ASSUME NEW t \in Tx, BeginUndo(t) PROVE Grows
  BY <1>4, AppendSyncs DEF BeginUndo, journal, Grows
<1>5. ASSUME NEW t \in Tx, Write(t) PROVE Grows
  BY <1>5 DEF Write, Edit, journal, Grows
<1>6. ASSUME NEW t \in Tx, OutsideEdit(t) PROVE Grows
  BY <1>6 DEF OutsideEdit, Edit, journal, Grows
<1>7. ASSUME NEW t \in Tx, Stage(t) PROVE Grows
  BY <1>7, AppendSyncs DEF Stage, journal, Grows
<1>8. ASSUME NEW t \in Tx, ValidateCommit(t) PROVE Grows
  BY <1>8 DEF ValidateCommit, journal, Grows
<1>9. ASSUME NEW t \in Tx, ValidateReject(t) PROVE Grows
  BY <1>9 DEF ValidateReject, journal, Grows
<1>10. ASSUME NEW t \in Tx, ValidateLog(t) PROVE Grows
  BY <1>10, AppendSyncs DEF ValidateLog, journal, Grows
<1>11. ASSUME NEW t \in Tx, Abort(t) PROVE Grows
  BY <1>11, <1>a DEF Abort
<1>12. ASSUME NEW t \in Tx, CommitPublish(t) PROVE Grows
  BY <1>12 DEF CommitPublish, journal, Grows
<1>13. ASSUME NEW t \in Tx, CommitLost(t) PROVE Grows
  BY <1>13, <1>a DEF CommitLost, journal, Grows
<1>14. ASSUME NEW t \in Tx, CommitLog(t) PROVE Grows
  BY <1>14, AppendSyncs DEF CommitLog, journal, Grows
<1>15. ASSUME NEW t \in Tx, Cleanup(t) PROVE Grows
  BY <1>15 DEF Cleanup, journal, Grows
<1>16. ASSUME NEW t \in Tx, Release(t) PROVE Grows
  BY <1>16 DEF Release, journal, Grows
<1>17. ASSUME NEW t \in Tx, RecoverTerminal(t) PROVE Grows
  BY <1>17 DEF RecoverTerminal, journal, Grows
<1>18. ASSUME NEW t \in Tx, RecoverUnfinished(t) PROVE Grows
  BY <1>18, AppendSyncs DEF RecoverUnfinished, journal, Grows
<1>19. ASSUME NEW t \in Tx, RecoverConflict(t) PROVE Grows
  BY <1>19 DEF RecoverConflict, journal, Grows
<1>20. CASE Open
  BY <1>20 DEF Open, journal, Grows
<1>21. CASE RecoverCleanup
  BY <1>21 DEF RecoverCleanup, journal, Grows
<1>22. CASE RecoverDone
  BY <1>22 DEF RecoverDone, journal, Grows
<1>23. CASE Crash
  BY <1>23 DEF Crash, journal, Grows
<1>24. CASE PowerLoss
  BY <1>24 DEF PowerLoss, journal, Grows
<1>25. ASSUME NEW f \in Foreign, ForeignPublish(f) PROVE Grows
  BY <1>25 DEF ForeignPublish, journal, Grows
<1>26. CASE UNCHANGED vars
  BY <1>26 DEF vars, journal, Grows
<1>. QED
  BY <1>1, <1>2, <1>3, <1>4, <1>5, <1>6, <1>7, <1>8, <1>9, <1>10, <1>11, <1>12, <1>13,
     <1>14, <1>15, <1>16, <1>17, <1>18, <1>19, <1>20, <1>21, <1>22, <1>23, <1>24, <1>25,
     <1>26 DEF Next, Begin, Prepare, Finish, Recover

\* A durable record of a transaction remains one, through every crash.
LEMMA DurableIsKept ==
    ASSUME ThreadsNeedEngine, GitInv, JournalInv, [Next]_vars, NEW t \in Tx
    PROVE  /\ Durable(t) => Durable(t)'
           /\ ValidatedFor(t) => ValidatedFor(t)'
<1>1. synced \subseteq synced' /\ \A i \in synced : records'[i] = records[i]
  BY SyncedGrows, JournalStep
<1>. QED BY <1>1 DEF Durable, ValidatedFor

\* The steps that make a handle validated.
LEMMA OnlyValidateLogValidates ==
    ASSUME HandleInv, [Next]_vars, NEW u \in Tx,
           state'[u] = "Validated", state[u] # "Validated"
    PROVE  ValidateLog(u) /\ Appended(NewRecord(u, "Validated", base[u], u))
<1>. DEFINE Goal == ValidateLog(u) /\ Appended(NewRecord(u, "Validated", base[u], u))
<1>0. SUFFICES Goal
  OBVIOUS
<1>a. ASSUME NEW t \in Tx, AbortInner(t) PROVE FALSE
  BY <1>a DEF AbortInner, HandleInv, Terminal
<1>b. ASSUME state' = state PROVE FALSE
  BY <1>b
<1>. HIDE DEF Goal
<1>1. ASSUME NEW t \in Tx, BeginRead(t) PROVE Goal
  BY <1>1, <1>b DEF BeginRead, handle
<1>2. ASSUME NEW t \in Tx, BeginLog(t) PROVE Goal
  BY <1>2, <1>b DEF BeginLog, handle
<1>3. ASSUME NEW t \in Tx, BeginWorktree(t) PROVE Goal
  BY <1>3, <1>b DEF BeginWorktree, handle
<1>4. ASSUME NEW t \in Tx, BeginUndo(t) PROVE Goal
  BY <1>4, <1>b DEF BeginUndo, handle
<1>5. ASSUME NEW t \in Tx, Write(t) PROVE Goal
  BY <1>5, <1>b DEF Write, Edit, handle
<1>6. ASSUME NEW t \in Tx, OutsideEdit(t) PROVE Goal
  BY <1>6, <1>b DEF OutsideEdit, Edit, handle
<1>7. ASSUME NEW t \in Tx, Stage(t) PROVE Goal
  BY <1>7, <1>b DEF Stage, HandleInv
<1>8. ASSUME NEW t \in Tx, ValidateCommit(t) PROVE Goal
  BY <1>8, <1>b DEF ValidateCommit, handle
<1>9. ASSUME NEW t \in Tx, ValidateReject(t) PROVE Goal
  BY <1>9, <1>b DEF ValidateReject, handle
<1>10. ASSUME NEW t \in Tx, ValidateLog(t) PROVE Goal
  BY <1>10, <1>b DEF ValidateLog, HandleInv, Goal
<1>11. ASSUME NEW t \in Tx, Abort(t) PROVE Goal
  BY <1>11, <1>a DEF Abort
<1>12. ASSUME NEW t \in Tx, CommitPublish(t) PROVE Goal
  BY <1>12, <1>b DEF CommitPublish, HandleInv
<1>13. ASSUME NEW t \in Tx, CommitLost(t) PROVE Goal
  BY <1>13, <1>a, <1>b DEF CommitLost
<1>14. ASSUME NEW t \in Tx, CommitLog(t) PROVE Goal
  BY <1>14, <1>b DEF CommitLog, handle
<1>15. ASSUME NEW t \in Tx, Cleanup(t) PROVE Goal
  BY <1>15, <1>b DEF Cleanup, handle
<1>16. ASSUME NEW t \in Tx, Release(t) PROVE Goal
  BY <1>16, <1>b DEF Release, handle
<1>17. ASSUME NEW t \in Tx, RecoverTerminal(t) PROVE Goal
  BY <1>17, <1>b DEF RecoverTerminal, handle
<1>18. ASSUME NEW t \in Tx, RecoverUnfinished(t) PROVE Goal
  BY <1>18, <1>b DEF RecoverUnfinished, handle
<1>19. ASSUME NEW t \in Tx, RecoverConflict(t) PROVE Goal
  BY <1>19, <1>b DEF RecoverConflict, handle
<1>20. CASE Open
  BY <1>20, <1>b DEF Open, handle
<1>21. CASE RecoverCleanup
  BY <1>21, <1>b DEF RecoverCleanup, handle
<1>22. CASE RecoverDone
  BY <1>22, <1>b DEF RecoverDone, handle
<1>23. CASE Crash
  BY <1>23, <1>b DEF Crash, handle
<1>24. CASE PowerLoss
  BY <1>24, <1>b DEF PowerLoss, handle
<1>25. ASSUME NEW f \in Foreign, ForeignPublish(f) PROVE Goal
  BY <1>25, <1>b DEF ForeignPublish, handle
<1>26. CASE UNCHANGED vars
  BY <1>26, <1>b DEF vars, handle
<1>. QED
  BY <1>1, <1>2, <1>3, <1>4, <1>5, <1>6, <1>7, <1>8, <1>9, <1>10, <1>11, <1>12, <1>13,
     <1>14, <1>15, <1>16, <1>17, <1>18, <1>19, <1>20, <1>21, <1>22, <1>23, <1>24, <1>25,
     <1>26 DEF Next, Begin, Prepare, Finish, Recover

\* The steps that bring a transaction into the published history.
LEMMA OnlyCommitPublishes ==
    ASSUME ThreadsNeedEngine, GitInv, HistoryInv, [Next]_vars, NEW u \in Tx,
           u \in reach'[ref'], u \notin reach[ref]
    PROVE  /\ CommitPublish(u)
           /\ Swappable(u)
           /\ ref' = u /\ cand[u] = u
           /\ pc'[u] = "published" /\ state' = [state EXCEPT ![u] = "Committed"]
           /\ reach'[ref'] = {u} \cup reach[ref]
           /\ UNCHANGED <<faults>>
<1>1. /\ ref \in Rev /\ reach[ref] # {} /\ reach \in [Rev -> SUBSET Rev] /\ Tx \subseteq Rev
      /\ pc \in [Tx -> PCs] /\ base \in [Tx -> Rev] /\ NoRev \notin Rev
      /\ Tx \cap Foreign = {}
  BY RevAssumption DEF GitInv, ThreadsNeedEngine, Rev
<1>2. ASSUME NEW t \in Tx, ValidateCommit(t) PROVE FALSE
  <2>1. t # ref /\ reach' = [reach EXCEPT ![t] = {t} \cup reach[base[t]]] /\ ref' = ref
    BY <1>1, <1>2 DEF ValidateCommit, Sealed
  <2>. QED BY <1>1, <2>1
<1>3. ASSUME NEW f \in Foreign, ForeignPublish(f) PROVE FALSE
  <2>1. f \in Rev /\ f # u
    BY <1>1 DEF Rev
  <2>. QED BY <1>1, <1>3, <2>1 DEF ForeignPublish
<1>4. ASSUME NEW t \in Tx, BeginRead(t) \/ BeginWorktree(t) \/ Stage(t) PROVE FALSE
  BY <1>4 DEF BeginRead, BeginWorktree, Stage, git
<1>5. PICK t \in Tx : CommitPublish(t)
  BY <1>2, <1>3, <1>4, HistorySteps DEF HistoryStep, git
<1>6. /\ Swappable(t) /\ ref' = cand[t] /\ reach' = reach /\ pc'[t] = "published"
      /\ state' = [state EXCEPT ![t] = "Committed"] /\ faults' = faults
  BY <1>1, <1>5 DEF CommitPublish, Goto
<1>7. cand[t] = t
  BY <1>5 DEF CommitPublish, GitInv
<1>8. reach[t] = {t} \cup reach[ref]
  BY <1>5, <1>6 DEF CommitPublish, Sealed, GitInv, Swappable
<1>9. t = u
  BY <1>6, <1>7, <1>8
<1>. QED BY <1>5, <1>6, <1>7, <1>8, <1>9

\* A handle is called validated, and a candidate published, only of what the
\* journal has durably as validated: no crash takes it.
THEOREM ValidatedCorrect == Spec => []ValidatedInv
<1>1. Init => ValidatedInv
  BY RevAssumption DEF Init, ValidatedInv, Rev
<1>2. /\ ThreadsNeedEngine /\ GitInv /\ JournalInv /\ HandleInv /\ HistoryInv
      /\ ValidatedInv /\ [Next]_vars
      => ValidatedInv'
  <2>. SUFFICES ASSUME ThreadsNeedEngine, GitInv, JournalInv, HandleInv, HistoryInv,
                       ValidatedInv, [Next]_vars,
                       NEW u \in Tx, state'[u] = "Validated" \/ u \in reach'[ref']
                PROVE  ValidatedFor(u)'
    BY DEF ValidatedInv
  <2>1. ASSUME state[u] = "Validated" \/ u \in reach[ref] PROVE ValidatedFor(u)'
    BY <2>1, DurableIsKept DEF ValidatedInv
  <2>2. ASSUME state'[u] = "Validated", state[u] # "Validated" PROVE ValidatedFor(u)'
    <3>. DEFINE rec == NewRecord(u, "Validated", base[u], u)
    <3>1. Appended(rec)
      BY <2>2, OnlyValidateLogValidates
    <3>2. rec.sequence \in synced' /\ records'[rec.sequence] = rec
      BY <3>1, AppendedIsSynced
    <3>3. rec.tx = u /\ rec.state = "Validated" /\ rec.cand = u
      BY DEF NewRecord
    <3>. HIDE DEF rec
    <3>. QED BY <3>2, <3>3 DEF ValidatedFor
  <2>3. ASSUME u \in reach'[ref'], u \notin reach[ref] PROVE state[u] = "Validated"
    BY <2>3, OnlyCommitPublishes DEF CommitPublish, Idle
  <2>. QED BY <2>1, <2>2, <2>3
<1>. QED BY <1>1, <1>2, ThreadsCorrect, GitCorrect, JournalCorrect, HandlesCorrect,
            HistoryCorrect, PTL DEF Spec

\* Recovery can tell a published candidate from a stranger: the journal had
\* it durably as validated before it was published.
THEOREM PublishedIsValidated == Spec => []PublishedWasValidated
<1>1. ValidatedInv => PublishedWasValidated
  BY DEF ValidatedInv, ValidatedFor, PublishedWasValidated
<1>. QED BY <1>1, ValidatedCorrect, PTL

-----------------------------------------------------------------------------
(* Candidates and recovery.                                                *)

\* The steps that add a candidate directory, or set a thread to work on one.
LEMMA OnlyBeginMakesCandidates ==
    ASSUME ThreadsNeedEngine, [Next]_vars, NEW u \in Tx
    PROVE  /\ u \in worktrees' => u \in worktrees \/ pc[u] = "logged"
           /\ pc'[u] \notin {"new", "based", "gone"} =>
                 \/ pc[u] \notin {"new", "based", "gone"}
                 \/ Appended(NewRecord(u, "Init", base[u], NoRev))
<1>. DEFINE Goal == /\ u \in worktrees' => u \in worktrees \/ pc[u] = "logged"
                    /\ pc'[u] \notin {"new", "based", "gone"} =>
                          \/ pc[u] \notin {"new", "based", "gone"}
                          \/ Appended(NewRecord(u, "Init", base[u], NoRev))
<1>0. SUFFICES Goal
  OBVIOUS
<1>a. pc \in [Tx -> PCs]
  BY DEF ThreadsNeedEngine
<1>b. ASSUME NEW t \in Tx, pc[t] \notin {"new", "based", "gone"}, UNCHANGED worktrees,
             \A v \in Tx \ {t} : pc'[v] = pc[v]
      PROVE  Goal
  BY <1>b
<1>. HIDE DEF Goal
<1>1. ASSUME NEW t \in Tx, BeginRead(t) PROVE Goal
  BY <1>1, <1>a DEF BeginRead, Goto, Goal
<1>2. ASSUME NEW t \in Tx, BeginLog(t) PROVE Goal
  BY <1>2, <1>a DEF BeginLog, Goto, Goal
<1>3. ASSUME NEW t \in Tx, BeginWorktree(t) PROVE Goal
  BY <1>3, <1>a DEF BeginWorktree, Goto, Goal
<1>4. ASSUME NEW t \in Tx, BeginUndo(t) PROVE Goal
  BY <1>4, <1>a, <1>b DEF BeginUndo, Goto, Idle
<1>5. ASSUME NEW t \in Tx, Write(t) PROVE Goal
  BY <1>5, <1>a DEF Write, Edit, Goal
<1>6. ASSUME NEW t \in Tx, OutsideEdit(t) PROVE Goal
  BY <1>6, <1>a DEF OutsideEdit, Edit, Goal
<1>7. ASSUME NEW t \in Tx, Stage(t) PROVE Goal
  BY <1>7, <1>a DEF Stage, Goal
<1>8. ASSUME NEW t \in Tx, ValidateCommit(t) PROVE Goal
  BY <1>8, <1>a, <1>b DEF ValidateCommit, Goto, Idle
<1>9. ASSUME NEW t \in Tx, ValidateReject(t) PROVE Goal
  BY <1>9, <1>a, <1>b DEF ValidateReject, Goto, Idle
<1>10. ASSUME NEW t \in Tx, ValidateLog(t) PROVE Goal
  BY <1>10, <1>a, <1>b DEF ValidateLog, Goto, Idle
<1>11. ASSUME NEW t \in Tx, Abort(t) PROVE Goal
  BY <1>11, <1>a, <1>b DEF Abort, AbortInner
<1>12. ASSUME NEW t \in Tx, CommitPublish(t) PROVE Goal
  BY <1>12, <1>a, <1>b DEF CommitPublish, Goto, Idle
<1>13. ASSUME NEW t \in Tx, CommitLost(t) PROVE Goal
  BY <1>13, <1>a, <1>b DEF CommitLost, AbortInner, Goto
<1>14. ASSUME NEW t \in Tx, CommitLog(t) PROVE Goal
  BY <1>14, <1>a, <1>b DEF CommitLog, Goto, Idle
<1>15. ASSUME NEW t \in Tx, Cleanup(t) PROVE Goal
  BY <1>15, <1>a DEF Cleanup, Goto, Goal
<1>16. ASSUME NEW t \in Tx, Release(t) PROVE Goal
  BY <1>16, <1>a, <1>b DEF Release, Goto, Idle
<1>17. ASSUME NEW t \in Tx, RecoverTerminal(t) PROVE Goal
  BY <1>17, <1>a DEF RecoverTerminal, Goal
<1>18. ASSUME NEW t \in Tx, RecoverUnfinished(t) PROVE Goal
  BY <1>18, <1>a DEF RecoverUnfinished, Goal
<1>19. ASSUME NEW t \in Tx, RecoverConflict(t) PROVE Goal
  BY <1>19, <1>a DEF RecoverConflict, Goal
<1>20. CASE Open
  BY <1>20, <1>a DEF Open, Goal
<1>21. CASE RecoverCleanup
  BY <1>21, <1>a DEF RecoverCleanup, Goal
<1>22. CASE RecoverDone
  BY <1>22, <1>a DEF RecoverDone, Goal
<1>23. CASE Crash
  BY <1>23, <1>a DEF Crash, Goal
<1>24. CASE PowerLoss
  BY <1>24, <1>a DEF PowerLoss, Goal
<1>25. ASSUME NEW f \in Foreign, ForeignPublish(f) PROVE Goal
  BY <1>25, <1>a DEF ForeignPublish, Goal
<1>26. CASE UNCHANGED vars
  BY <1>26 DEF vars, Goal
<1>. QED
  BY <1>1, <1>2, <1>3, <1>4, <1>5, <1>6, <1>7, <1>8, <1>9, <1>10, <1>11, <1>12, <1>13,
     <1>14, <1>15, <1>16, <1>17, <1>18, <1>19, <1>20, <1>21, <1>22, <1>23, <1>24, <1>25,
     <1>26 DEF Next, Begin, Prepare, Finish, Recover

\* The part of CandidateInv that is about recovery.
Revisited ==
    engine = "recovering" =>
       /\ worktrees \subseteq todo \cup {cur}
       /\ \A t \in DOMAIN latest \ todo : Terminal(latest[t].state)

\* Recovery forgets no directory, and leaves a terminal record wherever it
\* has been.
LEMMA RecoveryRevisits ==
    ASSUME ThreadsNeedEngine, JournalInv, RestOfTypes, CandidateInv, [Next]_vars
    PROVE  Revisited'
<1>0. Revisited /\ NoRev \notin worktrees /\ \A u \in worktrees : Durable(u)
  BY RevAssumption DEF CandidateInv, Revisited, RestOfTypes, Rev
<1>a. ASSUME engine' # "recovering" PROVE Revisited'
  BY <1>a DEF Revisited
<1>b. ASSUME NEW t \in Tx, pc[t] \notin {"new", "gone"}, UNCHANGED loop PROVE Revisited'
  BY <1>a, <1>b DEF ThreadsNeedEngine, loop
<1>c. ASSUME UNCHANGED <<latest, worktrees, engine, todo, cur>> PROVE Revisited'
  BY <1>0, <1>c DEF Revisited
<1>1. ASSUME NEW t \in Tx, BeginRead(t) PROVE Revisited'
  BY <1>1, <1>a DEF BeginRead, loop
<1>2. ASSUME NEW t \in Tx, BeginLog(t) PROVE Revisited'
  BY <1>2, <1>b DEF BeginLog, Goto, Idle
<1>3. ASSUME NEW t \in Tx, BeginWorktree(t) PROVE Revisited'
  BY <1>3, <1>b DEF BeginWorktree, Goto, Idle
<1>4. ASSUME NEW t \in Tx, BeginUndo(t) PROVE Revisited'
  BY <1>4, <1>b DEF BeginUndo, Goto, Idle
<1>5. ASSUME NEW t \in Tx, Write(t) PROVE Revisited'
  BY <1>5, <1>b DEF Write, Edit, Idle
<1>6. ASSUME NEW t \in Tx, OutsideEdit(t) PROVE Revisited'
  BY <1>6, <1>b DEF OutsideEdit, Edit, Idle
<1>7. ASSUME NEW t \in Tx, Stage(t) PROVE Revisited'
  BY <1>7, <1>b DEF Stage, CanStage, Idle
<1>8. ASSUME NEW t \in Tx, ValidateCommit(t) PROVE Revisited'
  BY <1>8, <1>b DEF ValidateCommit, Goto, Idle
<1>9. ASSUME NEW t \in Tx, ValidateReject(t) PROVE Revisited'
  BY <1>9, <1>b DEF ValidateReject, Goto, Idle
<1>10. ASSUME NEW t \in Tx, ValidateLog(t) PROVE Revisited'
  BY <1>10, <1>b DEF ValidateLog, Goto, Idle
<1>11. ASSUME NEW t \in Tx, Abort(t) PROVE Revisited'
  BY <1>11, <1>b DEF Abort
<1>12. ASSUME NEW t \in Tx, CommitPublish(t) PROVE Revisited'
  BY <1>12, <1>b DEF CommitPublish, Goto, Idle
<1>13. ASSUME NEW t \in Tx, CommitLost(t) PROVE Revisited'
  BY <1>13, <1>b DEF CommitLost, Goto, Idle
<1>14. ASSUME NEW t \in Tx, CommitLog(t) PROVE Revisited'
  BY <1>14, <1>b DEF CommitLog, Goto, Idle
<1>15. ASSUME NEW t \in Tx, Cleanup(t) PROVE Revisited'
  BY <1>15, <1>b DEF Cleanup, Goto, Idle
<1>16. ASSUME NEW t \in Tx, Release(t) PROVE Revisited'
  BY <1>16, <1>b DEF Release, Goto, Idle
<1>17. ASSUME NEW t \in Tx, RecoverTerminal(t) PROVE Revisited'
  BY <1>17, <1>0 DEF RecoverTerminal, Take, Oldest, Revisited, Terminal, journal
<1>18. ASSUME NEW t \in Tx, RecoverUnfinished(t) PROVE Revisited'
  <2>1. CASE Refuse
    BY <2>1, <1>a DEF Refuse
  <2>2. CASE Appended(RecoveryRecord(t)) /\ Take(t)
    <3>1. Verdict(latest[t]) \in {"Aborted", "Committed"}
      BY <1>18 DEF RecoverUnfinished, Verdict
    <3>2. t \in DOMAIN latest
      BY <1>18 DEF RecoverUnfinished, Oldest, JournalInv
    <3>3. RecoveryRecord(t).tx = t /\ Terminal(RecoveryRecord(t).state)
      BY <3>1 DEF RecoveryRecord, NewRecord, Terminal
    <3>4. /\ latest'[t] = RecoveryRecord(t) /\ DOMAIN latest' = DOMAIN latest
          /\ \A u \in DOMAIN latest \ {t} : latest'[u] = latest[u]
      BY <2>2, <3>2, <3>3 DEF Appended
    <3>. QED BY <1>18, <1>0, <2>2, <3>3, <3>4
             DEF RecoverUnfinished, Take, Oldest, Revisited, Terminal
  <2>. QED BY <1>18, <2>1, <2>2 DEF RecoverUnfinished
<1>19. ASSUME NEW t \in Tx, RecoverConflict(t) PROVE Revisited'
  BY <1>19, <1>a DEF RecoverConflict, Refuse
<1>20. CASE Open
  <2>1. Directory /\ todo' = DOMAIN latest' /\ latest' = Replay(records) /\ worktrees' = worktrees
    BY <1>20, OpenIndexes DEF JournalInv, Open
  <2>2. worktrees \subseteq DOMAIN latest'
    BY <1>0, <2>1 DEF Durable, Replay, Journaled, Directory
  <2>. QED BY <2>1, <2>2 DEF Revisited
<1>21. CASE RecoverCleanup
  BY <1>21, <1>0, <1>a DEF RecoverCleanup, Refuse, Revisited, journal
<1>22. CASE RecoverDone
  BY <1>22, <1>a DEF RecoverDone
<1>23. CASE Crash
  BY <1>23, <1>a DEF Crash
<1>24. CASE PowerLoss
  BY <1>24, <1>a DEF PowerLoss
<1>25. ASSUME NEW f \in Foreign, ForeignPublish(f) PROVE Revisited'
  BY <1>25, <1>c DEF ForeignPublish, journal, loop
<1>26. CASE UNCHANGED vars
  BY <1>26, <1>c DEF vars, journal, loop
<1>. QED
  BY <1>1, <1>2, <1>3, <1>4, <1>5, <1>6, <1>7, <1>8, <1>9, <1>10, <1>11, <1>12, <1>13,
     <1>14, <1>15, <1>16, <1>17, <1>18, <1>19, <1>20, <1>21, <1>22, <1>23, <1>24, <1>25,
     <1>26 DEF Next, Begin, Prepare, Finish, Recover

\* No directory without a record that a power loss does not take, and none
\* that recovery does not come to.
THEOREM CandidatesCorrect == Spec => []CandidateInv
<1>1. Init => CandidateInv
  BY DEF Init, CandidateInv
<1>2. ThreadsNeedEngine /\ GitInv /\ JournalInv /\ RestOfTypes /\ RestOfTypes'
      /\ CandidateInv /\ [Next]_vars => CandidateInv'
  <2>. SUFFICES ASSUME ThreadsNeedEngine, GitInv, JournalInv, RestOfTypes, RestOfTypes', CandidateInv,
                       [Next]_vars
                PROVE  CandidateInv'
    OBVIOUS
  <2>1. ASSUME NEW u \in Tx, Durable(u) PROVE Durable(u)'
    BY <2>1, DurableIsKept
  <2>2. ASSUME NEW u \in Tx, Appended(NewRecord(u, "Init", base[u], NoRev)) PROVE Durable(u)'
    <3>. DEFINE rec == NewRecord(u, "Init", base[u], NoRev)
    <3>1. rec.sequence \in synced' /\ records'[rec.sequence] = rec
      BY <2>2, AppendedIsSynced
    <3>2. rec.tx = u
      BY DEF NewRecord
    <3>. HIDE DEF rec
    <3>. QED BY <3>1, <3>2 DEF Durable
  <2>3. ASSUME NEW u \in Tx, pc'[u] \notin {"new", "based", "gone"} PROVE Durable(u)'
    BY <2>1, <2>2, <2>3, OnlyBeginMakesCandidates DEF CandidateInv
  <2>4. ASSUME NEW u \in Tx, u \in worktrees' PROVE Durable(u)'
    BY <2>1, <2>4, OnlyBeginMakesCandidates DEF CandidateInv
  <2>5. worktrees' \subseteq Tx
    BY DEF RestOfTypes
  <2>6. Revisited'
    BY RecoveryRevisits
  <2>. QED BY <2>3, <2>4, <2>5, <2>6 DEF CandidateInv, Revisited
<1>. QED BY <1>1, <1>2, ThreadsCorrect, GitCorrect, JournalCorrect,
            RestOfTypesCorrect, PTL DEF Spec

\* A candidate directory is never orphaned: recovery has a record to find it
\* by, for Init is durable before git worktree add runs.
THEOREM CandidatesHaveRecords == Spec => []CandidatesAreJournaled
<1>1. JournalInv /\ CandidateInv => CandidatesAreJournaled
  BY DEF JournalInv, Directory, CandidateInv, Durable, CandidatesAreJournaled, Journaled
<1>. QED BY <1>1, JournalCorrect, CandidatesCorrect, PTL

-----------------------------------------------------------------------------
(* Outcomes.                                                               *)

\* A thread lets go of nothing but its own transaction, an aborted handle is
\* never driven further, and a committed one stays committed.
LEMMA HandlesSettle ==
    ASSUME ThreadsNeedEngine, HandleInv, OutcomeInv, [Next]_vars, NEW u \in Tx
    PROVE  /\ pc[u] = "gone" => pc'[u] = "gone"
           /\ state'[u] = "Aborted" => pc'[u] \in {"idle", "cleanup", "gone"}
           /\ pc[u] \in {"published", "cleanup", "idle"} /\ state[u] = "Committed" =>
                 pc'[u] \in {"published", "cleanup", "idle", "gone"} /\ state'[u] = "Committed"
           /\ state[u] = "Aborted" => state'[u] = "Aborted"
           /\ pc[u] # "new" => pc'[u] # "new"
           /\ pc[u] = "new" /\ pc'[u] # "new" => BeginRead(u)
<1>. DEFINE Goal ==
       /\ pc[u] = "gone" => pc'[u] = "gone"
       /\ state'[u] = "Aborted" => pc'[u] \in {"idle", "cleanup", "gone"}
       /\ pc[u] \in {"published", "cleanup", "idle"} /\ state[u] = "Committed" =>
             pc'[u] \in {"published", "cleanup", "idle", "gone"} /\ state'[u] = "Committed"
       /\ state[u] = "Aborted" => state'[u] = "Aborted"
       /\ pc[u] # "new" => pc'[u] # "new"
       /\ pc[u] = "new" /\ pc'[u] # "new" => BeginRead(u)
<1>0. SUFFICES Goal
  OBVIOUS
<1>a. /\ pc \in [Tx -> PCs] /\ state \in [Tx -> States]
      /\ state[u] = "Aborted" => pc[u] \in {"idle", "cleanup", "gone"}
  BY DEF ThreadsNeedEngine, HandleInv, OutcomeInv
<1>b. ASSUME UNCHANGED <<pc, state>> PROVE Goal
  BY <1>a, <1>b
<1>c. ASSUME NEW t \in Tx, AbortInner(t),
             pc[t] \in {"rejecting", "lost"} \/ (pc[t] = "idle" /\ ~Terminal(state[t]))
      PROVE  Goal
  BY <1>a, <1>c DEF AbortInner, Terminal
<1>d. ASSUME \A t \in Tx : pc'[t] = pc[t] \/ (pc[t] # "new" /\ pc'[t] = "gone"),
             UNCHANGED state
      PROVE  Goal
  BY <1>a, <1>d
<1>. HIDE DEF Goal
<1>1. ASSUME NEW t \in Tx, BeginRead(t) PROVE Goal
  BY <1>1, <1>a DEF BeginRead, Goto, Idle, handle, Goal
<1>2. ASSUME NEW t \in Tx, BeginLog(t) PROVE Goal
  BY <1>2, <1>a DEF BeginLog, Goto, Idle, handle, Goal
<1>3. ASSUME NEW t \in Tx, BeginWorktree(t) PROVE Goal
  BY <1>3, <1>a DEF BeginWorktree, Goto, Idle, handle, Goal
<1>4. ASSUME NEW t \in Tx, BeginUndo(t) PROVE Goal
  BY <1>4, <1>a DEF BeginUndo, Goto, Idle, handle, Goal
<1>5. ASSUME NEW t \in Tx, Write(t) PROVE Goal
  BY <1>5, <1>b DEF Write, Edit, handle
<1>6. ASSUME NEW t \in Tx, OutsideEdit(t) PROVE Goal
  BY <1>6, <1>b DEF OutsideEdit, Edit, handle
<1>7. ASSUME NEW t \in Tx, Stage(t) PROVE Goal
  BY <1>7, <1>a DEF Stage, CanStage, Idle, Goal
<1>8. ASSUME NEW t \in Tx, ValidateCommit(t) PROVE Goal
  BY <1>8, <1>a DEF ValidateCommit, Goto, Idle, handle, Goal
<1>9. ASSUME NEW t \in Tx, ValidateReject(t) PROVE Goal
  BY <1>9, <1>a DEF ValidateReject, Goto, Idle, handle, Goal
<1>10. ASSUME NEW t \in Tx, ValidateLog(t) PROVE Goal
  BY <1>10, <1>a DEF ValidateLog, Goto, Idle, handle, Goal
<1>11. ASSUME NEW t \in Tx, Abort(t) PROVE Goal
  BY <1>11, <1>c DEF Abort
<1>12. ASSUME NEW t \in Tx, CommitPublish(t) PROVE Goal
  BY <1>12, <1>a DEF CommitPublish, Goto, Idle, handle, Goal
<1>13. ASSUME NEW t \in Tx, CommitLost(t) PROVE Goal
  BY <1>13, <1>a, <1>c DEF CommitLost, Goto, Goal
<1>14. ASSUME NEW t \in Tx, CommitLog(t) PROVE Goal
  BY <1>14, <1>a DEF CommitLog, Goto, Idle, handle, Goal
<1>15. ASSUME NEW t \in Tx, Cleanup(t) PROVE Goal
  BY <1>15, <1>a DEF Cleanup, Goto, Idle, handle, Goal
<1>16. ASSUME NEW t \in Tx, Release(t) PROVE Goal
  BY <1>16, <1>a DEF Release, Goto, Idle, handle, Goal
<1>17. ASSUME NEW t \in Tx, RecoverTerminal(t) PROVE Goal
  BY <1>17, <1>b DEF RecoverTerminal, handle
<1>18. ASSUME NEW t \in Tx, RecoverUnfinished(t) PROVE Goal
  BY <1>18, <1>b DEF RecoverUnfinished, handle
<1>19. ASSUME NEW t \in Tx, RecoverConflict(t) PROVE Goal
  BY <1>19, <1>b DEF RecoverConflict, handle
<1>20. CASE Open
  BY <1>20, <1>b DEF Open, handle
<1>21. CASE RecoverCleanup
  BY <1>21, <1>b DEF RecoverCleanup, handle
<1>22. CASE RecoverDone
  BY <1>22, <1>b DEF RecoverDone, handle
<1>23. CASE Crash
  BY <1>23, <1>a, <1>d DEF Crash, handle
<1>24. CASE PowerLoss
  BY <1>24, <1>a, <1>d DEF PowerLoss, handle
<1>25. ASSUME NEW f \in Foreign, ForeignPublish(f) PROVE Goal
  BY <1>25, <1>b DEF ForeignPublish, handle
<1>26. CASE UNCHANGED vars
  BY <1>26, <1>b DEF vars, handle
<1>. QED
  BY <1>1, <1>2, <1>3, <1>4, <1>5, <1>6, <1>7, <1>8, <1>9, <1>10, <1>11, <1>12, <1>13,
     <1>14, <1>15, <1>16, <1>17, <1>18, <1>19, <1>20, <1>21, <1>22, <1>23, <1>24, <1>25,
     <1>26 DEF Next, Begin, Prepare, Finish, Recover

\* What has been aborted is not driven further, and the handle of what has
\* been published says so: no thread goes on to abort it.
THEOREM OutcomesCorrect == Spec => []OutcomeInv
<1>1. Init => OutcomeInv
  BY RevAssumption DEF Init, OutcomeInv, Rev
<1>2. /\ ThreadsNeedEngine /\ GitInv /\ HandleInv /\ HistoryInv /\ OutcomeInv
      /\ [Next]_vars
      => OutcomeInv'
  <2>. SUFFICES ASSUME ThreadsNeedEngine, GitInv, HandleInv, HistoryInv, OutcomeInv,
                       [Next]_vars, NEW u \in Tx
                PROVE  /\ state'[u] = "Aborted" => pc'[u] \in {"idle", "cleanup", "gone"}
                       /\ u \in reach'[ref'] /\ pc'[u] # "gone" =>
                             /\ pc'[u] \in {"published", "cleanup", "idle"}
                             /\ state'[u] = "Committed"
    BY DEF OutcomeInv
  <2>1. ASSUME u \in reach'[ref'], u \notin reach[ref]
        PROVE  pc'[u] = "published" /\ state'[u] = "Committed"
    BY <2>1, OnlyCommitPublishes DEF HandleInv
  <2>2. ASSUME u \in reach[ref], pc'[u] # "gone"
        PROVE  pc'[u] \in {"published", "cleanup", "idle"} /\ state'[u] = "Committed"
    BY <2>2, HandlesSettle DEF OutcomeInv
  <2>. QED BY <2>1, <2>2, HandlesSettle
<1>. QED BY <1>1, <1>2, ThreadsCorrect, GitCorrect, HandlesCorrect, HistoryCorrect, PTL
         DEF Spec

\* How far a transaction has come.
Rank(s) == CASE s = "Init" -> 0
             [] s = "Staged" -> 1
             [] s = "Validated" -> 2
             [] OTHER -> 3

\* In a readable journal the records of a transaction go forward only; what
\* is terminal is its last.
LEMMA StatesRise ==
    ASSUME NEW recs, NEW n \in Nat, DOMAIN recs = 1 .. n, WellFormed(recs),
           \A i \in 1 .. n : recs[i] \in Record
    PROVE  \A i, j \in 1 .. n :
              i < j /\ recs[i].tx = recs[j].tx => Rank(recs[i].state) < Rank(recs[j].state)
<1>. DEFINE Falls(i, j) == /\ i < j
                           /\ recs[i].tx = recs[j].tx
                           /\ ~(Rank(recs[i].state) < Rank(recs[j].state))
            B == {j \in 1 .. n : \E i \in 1 .. n : Falls(i, j)}
<1>. SUFFICES ASSUME B # {} PROVE FALSE
  OBVIOUS
<1>1. B \subseteq Nat
  OBVIOUS
<1>2. PICK j \in B : \A k \in B : ~ (<<k, j>> \in OpToRel(<, Nat))
  BY <1>1, WFMin, NatLessThanWellFounded
<1>3. j \in 1 .. n /\ \A k \in B : ~ (k < j)
  BY <1>1, <1>2 DEF OpToRel
<1>4. PICK i \in 1 .. n : Falls(i, j)
  BY <1>2
<1>. DEFINE earlier == {k \in 1 .. n : k < j /\ recs[k].tx = recs[j].tx}
<1>5. i \in earlier /\ earlier \subseteq 1 .. n
  BY <1>4
<1>6. PICK p \in earlier : \A k \in earlier : k <= p
  BY <1>5, HasGreatest
<1>7. Follows(recs[p], recs[j])
  BY <1>3, <1>6 DEF WellFormed
<1>8. \A k \in 1 .. n : recs[k].state \in States
  BY DEF Record
<1>9. Rank(recs[p].state) < Rank(recs[j].state)
  BY <1>3, <1>6, <1>7, <1>8 DEF Follows, ValidTransition, States, Rank
<1>10. \A k \in 1 .. n : Rank(recs[k].state) \in 0 .. 3
  BY DEF Rank
<1>11. i = p \/ Rank(recs[i].state) < Rank(recs[p].state)
  <2>1. CASE i < p
    <3>1. p \in 1 .. n /\ p < j /\ recs[i].tx = recs[p].tx
      BY <1>4, <1>6
    <3>2. ~ Falls(i, p)
      BY <1>3, <3>1
    <3>. QED BY <2>1, <3>1, <3>2
  <2>2. CASE ~ (i < p)
    BY <2>2, <1>5, <1>6
  <2>. QED BY <2>1, <2>2
<1>12. p \in 1 .. n
  OBVIOUS
<1>. HIDE DEF Rank, B, earlier
<1>. QED BY <1>3, <1>4, <1>9, <1>10, <1>11, <1>12

\* While the engine runs, an acknowledged record of a transaction is the one
\* its index has, or it is behind it.
LEMMA LatestIsFurthest ==
    ASSUME JournalInv, engine # "down", NEW i \in 1 .. (nextSeq - 1)
    PROVE  /\ records[i].tx \in DOMAIN latest
           /\ \/ records[i] = latest[records[i].tx]
              \/ Rank(records[i].state) < Rank(latest[records[i].tx].state)
<1>1. Directory /\ Indexed
  BY DEF JournalInv
<1>2. PICK n \in Nat : DOMAIN records = 1 .. n
  BY <1>1 DEF Directory
<1>. DEFINE t == records[i].tx
            k == latest[t].sequence
<1>3. /\ t \in DOMAIN latest /\ k \in 1 .. (nextSeq - 1) /\ i <= k
      /\ records[k] = latest[t] /\ records[k].tx = t /\ nextSeq \in Nat
  BY <1>1 DEF Indexed
<1>4. i \in 1 .. n /\ k \in 1 .. n
  BY <1>1, <1>2, <1>3 DEF Indexed
<1>. HIDE DEF k
<1>5. i = k \/ Rank(records[i].state) < Rank(records[k].state)
  <2>1. i = k \/ i < k
    BY <1>3, <1>4
  <2>2. \A m \in 1 .. n : records[m] \in Record
    BY <1>1, <1>2 DEF Directory
  <2>3. WellFormed(records)
    BY <1>1 DEF Directory
  <2>. QED BY <1>2, <1>3, <1>4, <2>1, <2>2, <2>3, StatesRise
<1>. QED BY <1>3, <1>5

\* Nothing is recorded for a published transaction that would let recovery
\* or a thread abort it.
LEMMA PublishedIsFurther ==
    ASSUME JournalInv, engine # "down", ValidatedInv, NEW t \in Tx, t \in reach[ref],
           t \in DOMAIN latest
    PROVE  /\ latest[t].state \in {"Validated", "Committed", "Aborted"}
           /\ latest[t].state = "Validated" => latest[t].cand = t
<1>1. PICK i \in synced : /\ records[i].tx = t
                          /\ records[i].state = "Validated"
                          /\ records[i].cand = t
  BY DEF ValidatedInv, ValidatedFor
<1>2. i \in 1 .. (nextSeq - 1)
  BY DEF JournalInv, Indexed
<1>3. records[i] = latest[t] \/ Rank("Validated") < Rank(latest[t].state)
  BY <1>1, <1>2, LatestIsFurthest
<1>4. latest[t].state \in States
  BY LatestIsRecorded DEF JournalInv, Record
<1>. QED BY <1>1, <1>3, <1>4 DEF Rank, States

-----------------------------------------------------------------------------
(* Aborts and recovery, while the directory can be synced: a failed sync    *)
(* may leave an abort in place that the caller was told has failed.         *)

NoDirsyncFault == "dirsync" \notin FaultKinds

\* What a step does to the journal: the records written are those a crash
\* may find in flight.
JournalStepKind ==
    \/ UNCHANGED journal /\ (engine' = engine \/ (engine # "down" /\ engine' # "down"))
    \/ engine # "down" /\ engine' # "down" /\ \E rec \in InFlight : Appended(rec)
    \/ Open
    \/ Crash
    \/ PowerLoss

\* A failed append leaves no trace when the directory can be synced.
LEMMA FailureIsTraceless ==
    ASSUME NoDirsyncFault, NEW rec, AppendFailed(rec)
    PROVE  UNCHANGED journal
BY DEF AppendFailed, Fault, NoDirsyncFault, journal

\* Every action does one of these to the journal.
LEMMA JournalSteps ==
    ASSUME NoDirsyncFault, ThreadsNeedEngine, [Next]_vars
    PROVE  JournalStepKind
<1>a. ASSUME UNCHANGED <<journal, engine>> PROVE JournalStepKind
  BY <1>a DEF JournalStepKind
<1>b. ASSUME NEW t \in Tx, pc[t] \notin {"new", "gone"}, UNCHANGED loop,
             NEW rec, rec \in Writing(t), Appended(rec)
      PROVE  JournalStepKind
  <2>1. engine = "up" /\ engine' = "up"
    BY <1>b DEF ThreadsNeedEngine, loop
  <2>2. rec \in InFlight
    BY <1>b, <2>1 DEF InFlight
  <2>. QED BY <1>b, <2>1, <2>2 DEF JournalStepKind
<1>c. ASSUME NEW t \in Tx, AbortInner(t), UNCHANGED loop,
             pc[t] \in {"rejecting", "lost"} \/ (pc[t] = "idle" /\ ~Terminal(state[t]))
      PROVE  JournalStepKind
  <2>. DEFINE rec == NewRecord(t, "Aborted", base[t], cand[t])
  <2>1. rec \in Writing(t)
    BY <1>c DEF Writing
  <2>2. CASE Appended(rec)
    BY <1>b, <1>c, <2>1, <2>2
  <2>3. CASE ~ Appended(rec)
    BY <1>a, <1>c, <2>3, FailureIsTraceless DEF AbortInner, loop
  <2>. QED BY <2>2, <2>3
<1>1. ASSUME NEW t \in Tx, BeginRead(t) PROVE JournalStepKind
  BY <1>1, <1>a DEF BeginRead, loop, Take
<1>2. ASSUME NEW t \in Tx, BeginLog(t) PROVE JournalStepKind
  <2>. DEFINE rec == NewRecord(t, "Init", base[t], NoRev)
  <2>1. CASE Appended(rec)
    <3>1. rec \in Writing(t)
      BY <1>2 DEF BeginLog, Goto, Idle, CanStage, Terminal, Writing
    <3>. QED BY <1>2, <1>b, <2>1, <3>1 DEF BeginLog, Goto, Idle, CanStage
  <2>2. CASE ~ Appended(rec)
    BY <1>2, <1>a, <2>2, FailureIsTraceless DEF BeginLog, loop
  <2>. QED BY <2>1, <2>2
<1>3. ASSUME NEW t \in Tx, BeginWorktree(t) PROVE JournalStepKind
  BY <1>3, <1>a DEF BeginWorktree, loop, Take
<1>4. ASSUME NEW t \in Tx, BeginUndo(t) PROVE JournalStepKind
  <2>. DEFINE rec == NewRecord(t, "Aborted", base[t], NoRev)
  <2>1. CASE Appended(rec)
    <3>1. rec \in Writing(t)
      BY <1>4 DEF BeginUndo, Goto, Idle, CanStage, Terminal, Writing
    <3>. QED BY <1>4, <1>b, <2>1, <3>1 DEF BeginUndo, Goto, Idle, CanStage
  <2>2. CASE ~ Appended(rec)
    BY <1>4, <1>a, <2>2, FailureIsTraceless DEF BeginUndo, loop
  <2>. QED BY <2>1, <2>2
<1>5. ASSUME NEW t \in Tx, Write(t) PROVE JournalStepKind
  BY <1>5, <1>a DEF Write, Edit, loop, Take
<1>6. ASSUME NEW t \in Tx, OutsideEdit(t) PROVE JournalStepKind
  BY <1>6, <1>a DEF OutsideEdit, Edit, loop, Take
<1>7. ASSUME NEW t \in Tx, Stage(t) PROVE JournalStepKind
  <2>. DEFINE rec == NewRecord(t, "Staged", base[t], NoRev)
  <2>1. CASE HasChanges(t, work[t]) /\ Appended(rec)
    <3>1. rec \in Writing(t)
      BY <1>7, <2>1 DEF Stage, CanStage, Idle, Terminal, Writing
    <3>. QED BY <1>7, <1>b, <2>1, <3>1 DEF Stage, CanStage, Idle
  <2>2. CASE ~ (HasChanges(t, work[t]) /\ Appended(rec))
    BY <1>7, <1>a, <2>2, FailureIsTraceless DEF Stage, loop
  <2>. QED BY <2>1, <2>2
<1>8. ASSUME NEW t \in Tx, ValidateCommit(t) PROVE JournalStepKind
  BY <1>8, <1>a DEF ValidateCommit, loop, Take
<1>9. ASSUME NEW t \in Tx, ValidateReject(t) PROVE JournalStepKind
  BY <1>9, <1>a DEF ValidateReject, loop, Take
<1>10. ASSUME NEW t \in Tx, ValidateLog(t) PROVE JournalStepKind
  <2>. DEFINE rec == NewRecord(t, "Validated", base[t], t)
  <2>1. CASE Clean(t) /\ Appended(rec)
    <3>1. rec \in Writing(t)
      BY <1>10, <2>1 DEF ValidateLog, Goto, Writing
    <3>. QED BY <1>10, <1>b, <2>1, <3>1 DEF ValidateLog, Goto
  <2>2. CASE ~ (Clean(t) /\ Appended(rec))
    BY <1>10, <1>a, <2>2, FailureIsTraceless DEF ValidateLog, loop
  <2>. QED BY <2>1, <2>2
<1>11. ASSUME NEW t \in Tx, Abort(t) PROVE JournalStepKind
  BY <1>11, <1>c DEF Abort
<1>12. ASSUME NEW t \in Tx, CommitPublish(t) PROVE JournalStepKind
  BY <1>12, <1>a DEF CommitPublish, loop, Take
<1>13. ASSUME NEW t \in Tx, CommitLost(t) PROVE JournalStepKind
  BY <1>13, <1>a, <1>c DEF CommitLost, loop
<1>14. ASSUME NEW t \in Tx, CommitLog(t) PROVE JournalStepKind
  <2>. DEFINE rec == NewRecord(t, "Committed", base[t], cand[t])
  <2>1. CASE Appended(rec)
    <3>1. rec \in Writing(t)
      BY <1>14 DEF CommitLog, Goto, Idle, CanStage, Terminal, Writing
    <3>. QED BY <1>14, <1>b, <2>1, <3>1 DEF CommitLog, Goto, Idle, CanStage
  <2>2. CASE ~ Appended(rec)
    BY <1>14, <1>a, <2>2, FailureIsTraceless DEF CommitLog, loop
  <2>. QED BY <2>1, <2>2
<1>15. ASSUME NEW t \in Tx, Cleanup(t) PROVE JournalStepKind
  BY <1>15, <1>a DEF Cleanup, loop, Take
<1>16. ASSUME NEW t \in Tx, Release(t) PROVE JournalStepKind
  BY <1>16, <1>a DEF Release, loop, Take
<1>17. ASSUME NEW t \in Tx, RecoverTerminal(t) PROVE JournalStepKind
  BY <1>17, <1>a DEF RecoverTerminal, loop, Take
<1>18. ASSUME NEW t \in Tx, RecoverUnfinished(t) PROVE JournalStepKind
  <2>1. engine = "recovering" /\ engine' # "down"
    BY <1>18 DEF RecoverUnfinished, Oldest, Take, Refuse
  <2>2. CASE Appended(RecoveryRecord(t))
    <3>1. RecoveryRecord(t) \in InFlight
      BY <1>18, <2>1 DEF InFlight, RecoverUnfinished
    <3>. QED BY <2>1, <2>2, <3>1 DEF JournalStepKind
  <2>3. CASE ~ Appended(RecoveryRecord(t))
    BY <1>18, <2>1, <2>3, FailureIsTraceless DEF RecoverUnfinished, JournalStepKind
  <2>. QED BY <2>2, <2>3
<1>19. ASSUME NEW t \in Tx, RecoverConflict(t) PROVE JournalStepKind
  BY <1>19 DEF RecoverConflict, Oldest, Refuse, JournalStepKind
<1>20. CASE Open
  BY <1>20 DEF JournalStepKind
<1>21. CASE RecoverCleanup
  BY <1>21 DEF RecoverCleanup, Oldest, Refuse, JournalStepKind
<1>22. CASE RecoverDone
  BY <1>22 DEF RecoverDone, Oldest, Refuse, JournalStepKind
<1>23. CASE Crash
  BY <1>23 DEF JournalStepKind
<1>24. CASE PowerLoss
  BY <1>24 DEF JournalStepKind
<1>25. ASSUME NEW f \in Foreign, ForeignPublish(f) PROVE JournalStepKind
  BY <1>25, <1>a DEF ForeignPublish, loop, Take
<1>26. CASE UNCHANGED vars
  BY <1>26, <1>a DEF vars, loop
<1>. QED
  BY <1>1, <1>2, <1>3, <1>4, <1>5, <1>6, <1>7, <1>8, <1>9, <1>10, <1>11, <1>12, <1>13,
     <1>14, <1>15, <1>16, <1>17, <1>18, <1>19, <1>20, <1>21, <1>22, <1>23, <1>24, <1>25,
     <1>26 DEF Next, Begin, Prepare, Finish, Recover

\* What is about to be recorded as aborted is not published.
LEMMA AbortsAreOfUnpublished ==
    ASSUME ThreadsNeedEngine, GitInv, JournalInv, HistoryInv, ValidatedInv, OutcomeInv,
           NEW rec \in InFlight, rec.state = "Aborted"
    PROVE  rec.tx \notin reach[ref]
<1>1. CASE engine = "up"
  <2>1. PICK t \in Tx : rec \in Writing(t)
    BY <1>1 DEF InFlight
  <2>2. rec.tx = t
    BY <2>1 DEF Writing, NewRecord
  <2>3. \/ pc[t] \in {"undo", "rejecting", "lost"}
        \/ pc[t] = "idle" /\ ~Terminal(state[t])
    BY <2>1 DEF Writing, NewRecord
  <2>. QED BY <2>2, <2>3, InHistoryIsSealed DEF OutcomeInv, Terminal
<1>2. CASE engine = "recovering"
  <2>1. PICK t \in Tx : /\ rec = RecoveryRecord(t)
                         /\ Oldest(t)
                         /\ ~Terminal(latest[t].state)
    BY <1>2 DEF InFlight
  <2>2. rec.tx = t /\ Verdict(latest[t]) = "Aborted"
    BY <2>1 DEF RecoveryRecord, NewRecord
  <2>3. t \in DOMAIN latest
    BY <1>2, <2>1 DEF Oldest, JournalInv
  <2>4. ASSUME t \in reach[ref] PROVE FALSE
    <3>1. latest[t].state = "Validated" /\ latest[t].cand = t
      BY <1>2, <2>1, <2>3, <2>4, PublishedIsFurther DEF Terminal
    <3>. QED BY <2>2, <2>4, <3>1 DEF Verdict, Published
  <2>. QED BY <2>2, <2>4
<1>. QED BY <1>1, <1>2 DEF InFlight

\* Every record was there before, or was in flight.
LEMMA RecordsOfStep ==
    ASSUME NoDirsyncFault, ThreadsNeedEngine, JournalInv, [Next]_vars, NEW i \in DOMAIN records'
    PROVE  \/ i \in DOMAIN records /\ records'[i] = records[i]
           \/ records'[i] \in InFlight
<1>1. CASE UNCHANGED journal
  BY <1>1 DEF journal
<1>2. ASSUME NEW rec \in InFlight, Appended(rec)
      PROVE  (i \in DOMAIN records /\ records'[i] = records[i]) \/ records'[i] \in InFlight
  BY <1>2, RecordsOfAppend
<1>3. CASE Open
  BY <1>3 DEF Open
<1>4. CASE Crash
  <2>1. CASE records' = records
    BY <2>1
  <2>2. ASSUME NEW rec \in InFlight, records' = Put(rec)
        PROVE  (i \in DOMAIN records /\ records'[i] = records[i]) \/ records'[i] \in InFlight
    BY <2>2 DEF Put
  <2>. QED BY <1>4, <2>1, <2>2 DEF Crash
<1>5. CASE PowerLoss
  BY <1>5 DEF PowerLoss, JournalInv, Directory
<1>. QED BY <1>1, <1>2, <1>3, <1>4, <1>5, JournalSteps DEF JournalStepKind

\* If the directory can be synced, no record is in place that append did not
\* acknowledge, and nothing recorded as aborted is or gets published.
THEOREM AbortCorrect == ASSUME NoDirsyncFault PROVE Spec => []NoGhostInv
<1>1. Init => NoGhostInv
  BY DEF Init, NoGhostInv, AbortedIsUnpublished
<1>2. /\ ThreadsNeedEngine /\ GitInv /\ JournalInv /\ HistoryInv /\ ValidatedInv
      /\ OutcomeInv /\ NoGhostInv /\ [Next]_vars
      => NoGhostInv'
  <2>. SUFFICES ASSUME ThreadsNeedEngine, GitInv, JournalInv, HistoryInv, ValidatedInv,
                       OutcomeInv, NoGhostInv, [Next]_vars
                PROVE  NoGhostInv'
    OBVIOUS
  <2>1. engine' # "down" => DOMAIN records' = 1 .. (nextSeq' - 1)
    <3>1. CASE UNCHANGED journal /\ (engine' = engine \/ (engine # "down" /\ engine' # "down"))
      BY <3>1 DEF journal, NoGhostInv
    <3>2. ASSUME engine # "down", NEW rec \in InFlight, Appended(rec)
          PROVE  DOMAIN records' = 1 .. (nextSeq' - 1)
      <4>1. rec.sequence = nextSeq /\ nextSeq \in Nat \ {0} /\ DOMAIN records = 1 .. (nextSeq - 1)
        BY <3>2, InFlightIsRecord DEF JournalInv, Indexed, NoGhostInv
      <4>2. DOMAIN records' = DOMAIN records \cup {nextSeq} /\ nextSeq' = nextSeq + 1
        BY <3>2, <4>1 DEF Appended, Put
      <4>. QED BY <4>1, <4>2
    <3>3. CASE Open
      <4>1. PICK n \in Nat : DOMAIN records = 1 .. n
        BY DEF JournalInv, Directory
      <4>2. nextSeq' = n + 1 /\ records' = records
        BY <3>3, <4>1, Interval DEF Open, NextNumber
      <4>. QED BY <4>1, <4>2
    <3>4. CASE Crash \/ PowerLoss
      BY <3>4 DEF Crash, PowerLoss
    <3>. QED BY <3>1, <3>2, <3>3, <3>4, JournalSteps DEF JournalStepKind
  <2>2. ASSUME NEW i \in DOMAIN records', records'[i].state = "Aborted",
               records'[i].tx \in reach'[ref']
        PROVE  FALSE
    <3>. DEFINE u == records'[i].tx
    <3>1. u \in Tx
      <4>1. JournalInv'
        BY JournalStep
      <4>. QED BY <2>2, <4>1 DEF JournalInv, Directory, Record
    <3>2. CASE u \in reach[ref]
      <4>1. CASE i \in DOMAIN records /\ records'[i] = records[i]
        BY <2>2, <3>2, <4>1 DEF NoGhostInv, AbortedIsUnpublished
      <4>2. CASE records'[i] \in InFlight
        BY <2>2, <3>2, <4>2, AbortsAreOfUnpublished
      <4>. QED BY <2>2, <4>1, <4>2, RecordsOfStep
    <3>3. CASE u \notin reach[ref]
      <4>1. CommitPublish(u)
        BY <2>2, <3>1, <3>3, OnlyCommitPublishes
      <4>2. /\ records' = records /\ engine # "down" /\ latest[u].state = "Validated"
        BY <3>1, <4>1 DEF CommitPublish, Idle, ThreadsNeedEngine, journal
      <4>3. i \in 1 .. (nextSeq - 1)
        BY <2>2, <4>2 DEF NoGhostInv
      <4>4. records[i] = latest[u] \/ Rank(records[i].state) < Rank(latest[u].state)
        BY <4>2, <4>3, LatestIsFurthest
      <4>. QED BY <2>2, <4>2, <4>4 DEF Rank
    <3>. QED BY <3>2, <3>3
  <2>. QED BY <2>1, <2>2 DEF NoGhostInv, AbortedIsUnpublished
<1>. QED BY <1>1, <1>2, ThreadsCorrect, GitCorrect, JournalCorrect, HistoryCorrect,
            ValidatedCorrect, OutcomesCorrect, PTL DEF Spec

\* The journal says aborted only of what is not published, unless a directory
\* sync failed.
THEOREM AbortsAreFinal == ASSUME NoDirsyncFault PROVE Spec => []AbortedIsUnpublished
<1>1. NoGhostInv => AbortedIsUnpublished
  BY DEF NoGhostInv
<1>. QED BY <1>1, AbortCorrect, PTL

\* Nothing but the end of its loop takes the engine from recovering to up.
LEMMA OnlyDoneEndsRecovery ==
    ASSUME ThreadsNeedEngine, [Next]_vars, engine = "recovering", engine' = "up"
    PROVE  RecoverDone
<1>. SUFFICES ASSUME engine' # engine PROVE RecoverDone
  OBVIOUS
<1>1. ASSUME NEW t \in Tx, BeginRead(t) PROVE RecoverDone
  BY <1>1 DEF BeginRead, loop
<1>2. ASSUME NEW t \in Tx, BeginLog(t) PROVE RecoverDone
  BY <1>2 DEF BeginLog, loop
<1>3. ASSUME NEW t \in Tx, BeginWorktree(t) PROVE RecoverDone
  BY <1>3 DEF BeginWorktree, loop
<1>4. ASSUME NEW t \in Tx, BeginUndo(t) PROVE RecoverDone
  BY <1>4 DEF BeginUndo, loop
<1>5. ASSUME NEW t \in Tx, Write(t) PROVE RecoverDone
  BY <1>5 DEF Write, Edit, loop
<1>6. ASSUME NEW t \in Tx, OutsideEdit(t) PROVE RecoverDone
  BY <1>6 DEF OutsideEdit, Edit, loop
<1>7. ASSUME NEW t \in Tx, Stage(t) PROVE RecoverDone
  BY <1>7 DEF Stage, loop
<1>8. ASSUME NEW t \in Tx, ValidateCommit(t) PROVE RecoverDone
  BY <1>8 DEF ValidateCommit, loop
<1>9. ASSUME NEW t \in Tx, ValidateReject(t) PROVE RecoverDone
  BY <1>9 DEF ValidateReject, loop
<1>10. ASSUME NEW t \in Tx, ValidateLog(t) PROVE RecoverDone
  BY <1>10 DEF ValidateLog, loop
<1>11. ASSUME NEW t \in Tx, Abort(t) PROVE RecoverDone
  BY <1>11 DEF Abort, AbortInner, loop
<1>12. ASSUME NEW t \in Tx, CommitPublish(t) PROVE RecoverDone
  BY <1>12 DEF CommitPublish, loop
<1>13. ASSUME NEW t \in Tx, CommitLost(t) PROVE RecoverDone
  BY <1>13 DEF CommitLost, AbortInner, loop
<1>14. ASSUME NEW t \in Tx, CommitLog(t) PROVE RecoverDone
  BY <1>14 DEF CommitLog, loop
<1>15. ASSUME NEW t \in Tx, Cleanup(t) PROVE RecoverDone
  BY <1>15 DEF Cleanup, loop
<1>16. ASSUME NEW t \in Tx, Release(t) PROVE RecoverDone
  BY <1>16 DEF Release, loop
<1>17. ASSUME NEW t \in Tx, RecoverTerminal(t) PROVE RecoverDone
  BY <1>17 DEF RecoverTerminal, Take, Refuse
<1>18. ASSUME NEW t \in Tx, RecoverUnfinished(t) PROVE RecoverDone
  BY <1>18 DEF RecoverUnfinished, Take, Refuse
<1>19. ASSUME NEW t \in Tx, RecoverConflict(t) PROVE RecoverDone
  BY <1>19 DEF RecoverConflict, Refuse
<1>20. CASE Open
  BY <1>20 DEF Open, loop
<1>21. CASE RecoverCleanup
  BY <1>21 DEF RecoverCleanup, Refuse
<1>22. CASE RecoverDone
  BY <1>22
<1>23. CASE Crash
  BY <1>23 DEF Crash, loop
<1>24. CASE PowerLoss
  BY <1>24 DEF PowerLoss, loop
<1>25. ASSUME NEW f \in Foreign, ForeignPublish(f) PROVE RecoverDone
  BY <1>25 DEF ForeignPublish, loop
<1>26. CASE UNCHANGED vars
  BY <1>26 DEF vars, loop
<1>. QED
  BY <1>1, <1>2, <1>3, <1>4, <1>5, <1>6, <1>7, <1>8, <1>9, <1>10, <1>11, <1>12, <1>13,
     <1>14, <1>15, <1>16, <1>17, <1>18, <1>19, <1>20, <1>21, <1>22, <1>23, <1>24, <1>25,
     <1>26 DEF Next, Begin, Prepare, Finish, Recover

\* When recovery is done no candidate directory is left, and every journalled
\* transaction has the terminal record that the ref calls for.
THEOREM RecoveryCompletes == ASSUME NoDirsyncFault PROVE Spec => RecoveryIsComplete
<1>. DEFINE Complete ==
       engine = "recovering" /\ engine' = "up" =>
          /\ worktrees = {}
          /\ \A t \in DOMAIN latest :
                latest[t].state = IF t \in reach[ref] THEN "Committed" ELSE "Aborted"
<1>1. /\ ThreadsNeedEngine /\ GitInv /\ JournalInv /\ CommitInv /\ RestOfTypes
      /\ CandidateInv /\ NoGhostInv /\ [Next]_vars
      => [Complete]_vars
  <2>. SUFFICES ASSUME ThreadsNeedEngine, GitInv, JournalInv, CommitInv, RestOfTypes,
                       CandidateInv, NoGhostInv, [Next]_vars,
                       engine = "recovering", engine' = "up"
                PROVE  /\ worktrees = {}
                       /\ \A t \in DOMAIN latest :
                             latest[t].state = IF t \in reach[ref] THEN "Committed"
                                                                   ELSE "Aborted"
    OBVIOUS
  <2>1. todo = {} /\ cur = NoRev
    BY OnlyDoneEndsRecovery DEF RecoverDone
  <2>2. worktrees = {}
    BY <2>1, RevAssumption DEF CandidateInv, RestOfTypes, Rev
  <2>3. ASSUME NEW t \in DOMAIN latest
        PROVE  latest[t].state = IF t \in reach[ref] THEN "Committed" ELSE "Aborted"
    <3>1. latest[t].state \in {"Committed", "Aborted"}
      BY <2>1 DEF CandidateInv, Terminal
    <3>2. /\ latest[t].sequence \in DOMAIN records
          /\ records[latest[t].sequence] = latest[t]
          /\ latest[t].tx = t
      BY LatestIsRecorded DEF JournalInv
    <3>3. latest[t].state = "Committed" => t \in reach[ref]
      <4>1. latest[t].cand \in {t, NoRev} /\ (latest[t].state = "Committed" => latest[t].cand \in reach[ref])
        BY <3>2 DEF CommitInv, CommittedIsPublished
      <4>2. reach[ref] \subseteq Rev /\ NoRev \notin Rev
        BY RevAssumption DEF GitInv
      <4>. QED BY <4>1, <4>2
    <3>4. latest[t].state = "Aborted" => t \notin reach[ref]
      BY <3>2 DEF NoGhostInv, AbortedIsUnpublished
    <3>. QED BY <3>1, <3>3, <3>4
  <2>. QED BY <2>2, <2>3
<1>. QED BY <1>1, ThreadsCorrect, GitCorrect, JournalCorrect, CommitCorrect,
            RestOfTypesCorrect, CandidatesCorrect, AbortCorrect, PTL
         DEF Spec, RecoveryIsComplete

-----------------------------------------------------------------------------
(* The engine implements its promise.                                      *)

PromiseInv ==
    /\ ThreadsNeedEngine
    /\ GitInv
    /\ HandleInv
    /\ HistoryInv
    /\ OutcomeInv

\* What OutcomeOf says, once it is known that nobody aborted is unborn.
LEMMA OutcomeCases ==
    ASSUME OutcomeInv
    PROVE  \A u \in Tx :
              OutcomeOf(u) = IF u \in reach[ref] THEN "committed"
                             ELSE IF pc[u] = "new" THEN "unborn"
                             ELSE IF pc[u] = "gone" \/ state[u] = "Aborted" THEN "aborted"
                             ELSE "open"
BY DEF OutcomeInv, OutcomeOf

\* A step that begins and publishes nothing leaves the history, and the
\* histories that transactions are based on, as they are.
LEMMA QuietSteps ==
    ASSUME PromiseInv, [Next]_vars,
           \A t \in Tx : ~BeginRead(t),
           \A f \in Foreign : ~ForeignPublish(f),
           \A u \in Tx : u \in reach'[ref'] => u \in reach[ref]
    PROVE  /\ reach'[ref'] = reach[ref]
           /\ \A u \in Tx : base'[u] = base[u] /\ reach'[base'[u]] = reach[base[u]]
<1>1. /\ ref \in Rev /\ reach[ref] # {} /\ reach \in [Rev -> SUBSET Rev] /\ Tx \subseteq Rev
      /\ base \in [Tx -> Rev] /\ \A u \in Tx : reach[base[u]] # {} /\ u \notin reach[base[u]]
  BY DEF PromiseInv, GitInv, HistoryInv, Rev
<1>2. ASSUME UNCHANGED <<ref, reach, base>>
      PROVE  /\ reach'[ref'] = reach[ref]
             /\ \A u \in Tx : base'[u] = base[u] /\ reach'[base'[u]] = reach[base[u]]
  BY <1>2
<1>3. ASSUME NEW t \in Tx, BeginWorktree(t) \/ Stage(t)
      PROVE  UNCHANGED <<ref, reach, base>>
  BY <1>3 DEF BeginWorktree, Stage, git, handle
<1>4. ASSUME NEW t \in Tx, ValidateCommit(t)
      PROVE  /\ reach'[ref'] = reach[ref]
             /\ \A u \in Tx : base'[u] = base[u] /\ reach'[base'[u]] = reach[base[u]]
  <2>1. /\ reach[t] = {} /\ ref' = ref /\ base' = base
        /\ reach' = [reach EXCEPT ![t] = {t} \cup reach[base[t]]]
    BY <1>4 DEF ValidateCommit, Sealed, handle
  <2>2. ref # t /\ \A u \in Tx : base[u] # t
    BY <1>1, <2>1
  <2>. QED BY <1>1, <2>1, <2>2
<1>5. ASSUME NEW t \in Tx, CommitPublish(t)
      PROVE  UNCHANGED <<ref, reach, base>>
  <2>1. reach' = reach /\ base' = base
    BY <1>5 DEF CommitPublish
  <2>2. ASSUME ref' = cand[t], Swappable(t) PROVE FALSE
    <3>1. cand[t] = t /\ t \in reach[t]
      BY <1>1, <1>5 DEF CommitPublish, PromiseInv, GitInv, Sealed
    <3>2. t \in reach[ref] /\ ref = base[t]
      BY <2>1, <2>2, <3>1 DEF Swappable
    <3>. QED BY <1>1, <3>2
  <2>. QED BY <1>5, <2>1, <2>2 DEF CommitPublish
<1>. QED BY <1>2, <1>3, <1>4, <1>5, HistorySteps DEF HistoryStep, git

\* Every step begins a transaction, commits one that nobody has overtaken,
\* aborts some that were open, or is somebody else's publication.
LEMMA PromiseStep ==
    ASSUME PromiseInv, PromiseInv', [Next]_vars
    PROVE  Promise!PubNext \/ UNCHANGED Promise!pubVars
<1>. DEFINE Out(u) == IF u \in reach[ref] THEN "committed"
                      ELSE IF pc[u] = "new" THEN "unborn"
                      ELSE IF pc[u] = "gone" \/ state[u] = "Aborted" THEN "aborted"
                      ELSE "open"
            Snap(u) == IF Out(u) = "open" THEN reach[base[u]] \ {Root} ELSE {}
            published == reach[ref] \ {Root}
            outcome == [u \in Tx |-> Out(u)]
            snapshot == [u \in Tx |-> Snap(u)]
<1>1. /\ [u \in Tx |-> OutcomeOf(u)] = outcome
      /\ [u \in Tx |-> IF OutcomeOf(u) = "open" THEN reach[base[u]] \ {Root} ELSE {}] = snapshot
  BY OutcomeCases DEF PromiseInv
<1>2. /\ [u \in Tx |-> OutcomeOf(u)]' = outcome'
      /\ [u \in Tx |-> IF OutcomeOf(u) = "open" THEN reach[base[u]] \ {Root} ELSE {}]' = snapshot'
  <2>1. \A u \in Tx : OutcomeOf(u)' = Out(u)'
    BY DEF PromiseInv, OutcomeInv, OutcomeOf
  <2>. HIDE DEF Out
  <2>. QED BY <2>1
<1>3. /\ pc \in [Tx -> PCs] /\ state \in [Tx -> States] /\ base \in [Tx -> Rev]
      /\ ref \in Rev /\ reach[ref] # {} /\ reach \in [Rev -> SUBSET Rev]
      /\ Root \notin Tx \cup Foreign /\ Tx \cap Foreign = {}
      /\ Tx \subseteq Rev /\ Foreign \subseteq Rev
      /\ \A u \in Tx : reach[base[u]] # {}
      /\ \A u \in Tx : pc[u] = "new" => u \notin reach[ref]
  BY RevAssumption, InHistoryIsSealed
     DEF PromiseInv, ThreadsNeedEngine, GitInv, HandleInv, HistoryInv, Rev
<1>4. ASSUME NEW t \in Tx, BeginRead(t) PROVE Promise!PubNext
  <2>1. /\ pc[t] = "new" /\ pc' = [pc EXCEPT ![t] = "based"] /\ state' = state
        /\ ref' = ref /\ reach' = reach /\ base' = [base EXCEPT ![t] = ref]
        /\ t \notin reach[ref] /\ state[t] # "Aborted"
    BY <1>3, <1>4 DEF BeginRead, Goto, git, PromiseInv, OutcomeInv
  <2>2. /\ Out(t) = "unborn" /\ Out(t)' = "open" /\ Snap(t)' = published
        /\ \A u \in Tx \ {t} : Out(u)' = Out(u) /\ Snap(u)' = Snap(u)
    BY <1>3, <2>1
  <2>3. published' = published
    BY <2>1
  <2>. HIDE DEF Out, Snap, published
  <2>4. /\ outcome[t] = "unborn" /\ outcome' = [outcome EXCEPT ![t] = "open"]
        /\ snapshot' = [snapshot EXCEPT ![t] = published]
    BY <2>2
  <2>5. Promise!PubBegin(t)
    BY <1>1, <1>2, <2>3, <2>4 DEF Promise!PubBegin, published
  <2>. QED BY <2>5 DEF Promise!PubNext
<1>5. ASSUME NEW t \in Tx, t \in reach'[ref'], t \notin reach[ref] PROVE Promise!PubNext
  <2>1. /\ CommitPublish(t) /\ Swappable(t) /\ reach' = reach /\ base' = base
        /\ reach'[ref'] = {t} \cup reach[ref] /\ base[t] = ref
        /\ state' = [state EXCEPT ![t] = "Committed"]
    BY <1>5, OnlyCommitPublishes DEF PromiseInv, CommitPublish, Swappable
  <2>2. pc[t] = "idle" /\ state[t] = "Validated" /\ \A u \in Tx \ {t} : pc'[u] = pc[u]
    BY <1>3, <2>1 DEF CommitPublish, Idle, Goto
  <2>3. /\ Out(t) = "open" /\ Out(t)' = "committed" /\ Snap(t) = published /\ Snap(t)' = {}
        /\ \A u \in Tx \ {t} : Out(u)' = Out(u) /\ Snap(u)' = Snap(u)
    BY <1>3, <1>5, <2>1, <2>2
  <2>4. published' = published \cup {t}
    BY <1>3, <2>1
  <2>. HIDE DEF Out, Snap, published
  <2>5. /\ outcome[t] = "open" /\ outcome' = [outcome EXCEPT ![t] = "committed"]
        /\ snapshot[t] = published /\ snapshot' = [snapshot EXCEPT ![t] = {}]
    BY <2>3
  <2>6. Promise!PubCommit(t)
    BY <1>1, <1>2, <2>4, <2>5 DEF Promise!PubCommit, published
  <2>. QED BY <2>6 DEF Promise!PubNext
<1>6. ASSUME NEW f \in Foreign, ForeignPublish(f) PROVE Promise!PubNext
  <2>1. /\ reach[f] = {} /\ reach'[ref'] = {f} \cup reach[ref]
        /\ reach' = [reach EXCEPT ![f] = {f} \cup reach[ref]]
        /\ base' = base /\ pc' = pc /\ state' = state
    BY <1>3, <1>6 DEF ForeignPublish, handle
  <2>2. f \notin reach[ref]
    BY <1>3, <2>1 DEF PromiseInv, HistoryInv
  <2>3. \A u \in Tx : reach'[base[u]] = reach[base[u]]
    BY <1>3, <2>1
  <2>4. \A u \in Tx : Out(u)' = Out(u) /\ Snap(u)' = Snap(u)
    BY <1>3, <2>1, <2>3
  <2>5. published' = published \cup {f} /\ f \notin published
    BY <1>3, <2>1, <2>2
  <2>. HIDE DEF Out, Snap, published
  <2>6. outcome' = outcome /\ snapshot' = snapshot
    BY <2>4
  <2>7. Promise!PubForeign(f)
    BY <1>1, <1>2, <2>5, <2>6 DEF Promise!PubForeign, published
  <2>. QED BY <2>7 DEF Promise!PubNext
<1>7. ASSUME \A t \in Tx : ~BeginRead(t),
             \A f \in Foreign : ~ForeignPublish(f),
             \A u \in Tx : u \in reach'[ref'] => u \in reach[ref]
      PROVE  Promise!PubNext
  <2>. DEFINE S == {u \in Tx : Out(u) = "open" /\ Out(u)' = "aborted"}
  <2>1. /\ reach'[ref'] = reach[ref]
        /\ \A u \in Tx : base'[u] = base[u] /\ reach'[base'[u]] = reach[base[u]]
    BY <1>7, QuietSteps
  <2>2. \A u \in Tx : /\ pc[u] = "gone" => pc'[u] = "gone"
                      /\ state[u] = "Aborted" => state'[u] = "Aborted"
                      /\ pc[u] = "new" <=> pc'[u] = "new"
    BY <1>7, HandlesSettle DEF PromiseInv
  <2>3. \A u \in Tx : Out(u)' = IF u \in S THEN "aborted" ELSE Out(u)
    BY <2>1, <2>2
  <2>4. \A u \in Tx : Snap(u)' = IF u \in S THEN {} ELSE Snap(u)
    BY <2>1, <2>3
  <2>5. published' = published /\ \A u \in S : Out(u) = "open"
    BY <2>1
  <2>6. PICK A \in SUBSET Tx : A = S
    OBVIOUS
  <2>. HIDE DEF Out, Snap, published, S
  <2>7. /\ \A u \in A : outcome[u] = "open"
        /\ outcome' = [u \in Tx |-> IF u \in A THEN "aborted" ELSE outcome[u]]
        /\ snapshot' = [u \in Tx |-> IF u \in A THEN {} ELSE snapshot[u]]
    BY <2>3, <2>4, <2>5, <2>6
  <2>8. Promise!PubAbort(A)
    BY <1>1, <1>2, <2>5, <2>7 DEF Promise!PubAbort, published
  <2>. QED BY <2>6, <2>8 DEF Promise!PubNext
<1>. QED BY <1>4, <1>5, <1>6, <1>7

\* First committer wins, whole or never: crashes, failures and recovery add
\* no behaviour that the promise does not have.
THEOREM PromiseIsKept == Spec => KeepsPromise
<1>1. Init => Promise!PubInit
  <2>. SUFFICES ASSUME Init PROVE Promise!PubInit
    OBVIOUS
  <2>1. reach[ref] = {Root} /\ \A u \in Tx : pc[u] = "new" /\ u # Root
    BY RevAssumption DEF Init, Rev
  <2>2. \A u \in Tx : OutcomeOf(u) = "unborn"
    BY <2>1 DEF OutcomeOf, Init
  <2>. QED BY <2>1, <2>2 DEF Promise!PubInit
<1>2. PromiseInv /\ PromiseInv' /\ [Next]_vars => [Promise!PubNext]_Promise!pubVars
  BY PromiseStep
<1>3. ThreadsNeedEngine /\ GitInv /\ HandleInv /\ HistoryInv /\ OutcomeInv => PromiseInv
  BY DEF PromiseInv
<1>. QED BY <1>1, <1>2, <1>3, ThreadsCorrect, GitCorrect, HandlesCorrect, HistoryCorrect,
            OutcomesCorrect, PTL DEF Spec, KeepsPromise, Promise!PubSpec
=============================================================================
