----------------------------- MODULE Publication -----------------------------
(***************************************************************************)
(* What crates/klyn-fs promises, with no journal, worktree, crash or       *)
(* recovery in it: transactions see the published history as it stood when *)
(* they began, the first of those that began together to publish wins, and *)
(* a transaction is published as a whole or never.                         *)
(***************************************************************************)
CONSTANTS Tx, Foreign

VARIABLES
    published,  \* the transactions, and other writers' commits, made visible
    snapshot,   \* what an open transaction saw when it began
    outcome     \* what has become of each transaction

pubVars == <<published, snapshot, outcome>>

Outcomes == {"unborn", "open", "committed", "aborted"}

PubInit ==
    /\ published = {}
    /\ snapshot = [t \in Tx |-> {}]
    /\ outcome = [t \in Tx |-> "unborn"]

PubBegin(t) ==
    /\ outcome[t] = "unborn"
    /\ outcome' = [outcome EXCEPT ![t] = "open"]
    /\ snapshot' = [snapshot EXCEPT ![t] = published]
    /\ UNCHANGED published

\* Nobody has published since t began.
PubCommit(t) ==
    /\ outcome[t] = "open"
    /\ snapshot[t] = published
    /\ published' = published \cup {t}
    /\ outcome' = [outcome EXCEPT ![t] = "committed"]
    /\ snapshot' = [snapshot EXCEPT ![t] = {}]

\* A crash aborts all the transactions that are still open at once.
PubAbort(S) ==
    /\ \A t \in S : outcome[t] = "open"
    /\ outcome' = [t \in Tx |-> IF t \in S THEN "aborted" ELSE outcome[t]]
    /\ snapshot' = [t \in Tx |-> IF t \in S THEN {} ELSE snapshot[t]]
    /\ UNCHANGED published

PubForeign(f) ==
    /\ published' = published \cup {f}
    /\ f \notin published
    /\ UNCHANGED <<snapshot, outcome>>

PubNext ==
    \/ \E t \in Tx : PubBegin(t) \/ PubCommit(t)
    \/ \E S \in SUBSET Tx : PubAbort(S)
    \/ \E f \in Foreign : PubForeign(f)

PubSpec == PubInit /\ [][PubNext]_pubVars

=============================================================================
