----------------------------- MODULE Registers -----------------------------
(* packages/workflow-engine/src/crdt_sync.ts: replicas of a map whose         *)
(* registers keep the last write. Replicas hear each other over an in-process *)
(* bus that calls every subscriber before publish returns, and otherwise by   *)
(* single updates, batches and snapshots, which may come late, twice, in any  *)
(* order or never. The log of recent updates and the counters of a merge are  *)
(* left out: a batch is any set of updates that were made.                    *)
EXTENDS Naturals, FiniteSets

CONSTANTS
    Replica,        \* replica ids; Naturals, as they are compared
    Ref,            \* the registers
    Content,        \* what a register holds; null, which deletes, is one of them
    Time,           \* what Date.now() may return
    None,           \* a register that was never written
    Bus,            \* the replicas whose constructor is given the bus
    MaxWrites,      \* bounds: writes,
    MaxClock,       \* Lamport clocks that take another update in,
    MaxBatch,       \* updates in a batch,
    MaxWires        \* and snapshots

ASSUME RegistersAssumption ==
    /\ Replica \subseteq Nat
    /\ Time \subseteq Nat
    /\ Bus \subseteq Replica
    /\ {MaxWrites, MaxClock, MaxBatch, MaxWires} \subseteq Nat

Update == [replica : Replica, ref : Ref, value : Content,
           lamport : Nat, version : Nat \ {0}, at : Nat]

ASSUME NoneAssumption == None \notin Update

VARIABLES
    made,           \* replicas that were constructed
    entry,          \* state: what each replica has in each register
    lamport,        \* the Lamport clock of each replica
    versions,       \* how often each replica wrote to each register
    onBus,          \* replicas that publish: the constructor was given the bus
    attached,       \* replicas that are subscribed
    sent,           \* history: all updates that were made
    wires,          \* snapshots that were taken
    seen,           \* history: the updates each replica or its snapshot saw
    folded,         \* history: replicas that took in a batch or a merge
    inSync          \* history: replicas that only ever heard the bus, from the start

clocks  == <<lamport, versions>>
links   == <<made, onBus, attached>>
history == <<seen, folded, inSync>>
regVars == <<links, entry, clocks, sent, wires, history>>

RegInit ==
    /\ made = {}
    /\ entry = [r \in Replica |-> [f \in Ref |-> None]]
    /\ lamport = [r \in Replica |-> 0]
    /\ versions = [r \in Replica |-> [f \in Ref |-> 0]]
    /\ onBus = {}
    /\ attached = {}
    /\ sent = {}
    /\ wires = {}
    /\ seen = [r \in Replica |-> {}]
    /\ folded = {}
    /\ inSync = {}

-----------------------------------------------------------------------------
(* The order of updates.                                                   *)

\* Bug: the replica id does not break the tie.
BugBeats(a, b) ==
    \/ a.lamport > b.lamport
    \/ a.lamport = b.lamport /\ a.version > b.version
    \/ a.lamport = b.lamport /\ a.version = b.version /\ a.at > b.at

\* wins
Beats(a, b) ==
    \/ a.lamport > b.lamport
    \/ a.lamport = b.lamport /\ a.version > b.version
    \/ a.lamport = b.lamport /\ a.version = b.version /\ a.at > b.at
    \/ /\ a.lamport = b.lamport /\ a.version = b.version /\ a.at = b.at
       /\ a.replica > b.replica

\* applyUpdate, of one register
Kept(e, u) == IF e = None \/ Beats(u, e) THEN u ELSE e

To(f, us) == {u \in us : u.ref = f}

\* e is what us leave in an empty register.
Highest(e, us) ==
    /\ e \in us \cup {None}
    /\ \A u \in us : u = e \/ (e # None /\ Beats(e, u))

Higher(m, n) == IF m > n THEN m ELSE n

-----------------------------------------------------------------------------
(* Operations.                                                             *)

\* The constructor subscribes where it is given the bus.
Create(r) ==
    /\ r \notin made
    /\ made' = made \cup {r}
    /\ onBus' = onBus \cup ({r} \cap Bus)
    /\ attached' = attached \cup ({r} \cap Bus)
    /\ inSync' = IF r \in Bus /\ sent = {} THEN inSync \cup {r} ELSE inSync
    /\ UNCHANGED <<entry, clocks, sent, wires, seen, folded>>

\* attach only subscribes: this.bus is the constructor's.
Attach(r) ==
    /\ r \in made
    /\ attached' = attached \cup {r}
    /\ UNCHANGED <<made, onBus, entry, clocks, sent, wires, history>>

Detach(r) ==
    /\ r \in attached
    /\ attached' = attached \ {r}
    /\ inSync' = inSync \ {r}
    /\ UNCHANGED <<made, onBus, entry, clocks, sent, wires, seen, folded>>

\* applyRemote moves the clock past both.
After(mine, theirs) == Higher(mine, theirs) + 1

\* Who hears what r publishes: not r itself, whose echo is ignored.
Audience(r) == IF r \in onBus THEN attached \ {r} ELSE {}

NextVersion(r, f) == versions[r][f] + 1

\* What mutate writes and publishes.
NewUpdate(r, f, v, at) ==
    [replica |-> r, ref |-> f, value |-> v, lamport |-> lamport[r] + 1,
     version |-> NextVersion(r, f), at |-> at]

\* mutate: the local write, then the subscribers, before it returns.
Mutate(r, f, v, at) ==
    LET u == NewUpdate(r, f, v, at)
    IN /\ r \in made
       /\ Cardinality(sent) < MaxWrites
       /\ sent' = sent \cup {u}
       /\ versions' = [versions EXCEPT ![r][f] = u.version]
       /\ lamport' = [s \in Replica |->
                        IF s = r THEN u.lamport
                        ELSE IF s \in Audience(r) THEN After(lamport[s], u.lamport)
                        ELSE lamport[s]]
       /\ entry' = [s \in Replica |->
                      IF s \in Audience(r) \cup {r}
                      THEN [g \in Ref |-> IF g = f THEN Kept(entry[s][g], u) ELSE entry[s][g]]
                      ELSE entry[s]]
       /\ seen' = [s \in Replica |->
                     IF s \in Audience(r) \cup {r} THEN seen[s] \cup {u} ELSE seen[s]]
       /\ UNCHANGED <<links, wires, folded, inSync>>

\* applyRemote, by a client that brings an update from elsewhere.
ApplyRemote(r, u) ==
    /\ r \in made
    /\ Higher(lamport[r], u.lamport) < MaxClock
    /\ lamport' = [lamport EXCEPT ![r] = After(@, u.lamport)]
    /\ entry' = [entry EXCEPT ![r][u.ref] = Kept(@, u)]
    /\ seen' = [seen EXCEPT ![r] = @ \cup {u}]
    /\ inSync' = inSync \ {r}
    /\ UNCHANGED <<links, versions, sent, wires, folded>>

\* Bug: a register that was written is left as it is.
BugLeaves(e, old, us) == IF old = None THEN Highest(e, us) ELSE e = old

\* One update after the other is applied, in whatever order they come.
Leaves(e, old, us) == Highest(e, us \cup ({old} \ {None}))

\* The registers of r once the updates were applied; the clock stays.
TakeIn(r, us) ==
    \E es \in [Ref -> us \cup {entry[r][f] : f \in Ref}] :
        /\ \A f \in Ref : Leaves(es[f], entry[r][f], To(f, us))
        /\ entry' = [entry EXCEPT ![r] = es]

ApplyBatch(r, us) ==
    /\ r \in made
    /\ Cardinality(us) <= MaxBatch
    /\ TakeIn(r, us)
    /\ seen' = [seen EXCEPT ![r] = @ \cup us]
    /\ folded' = folded \cup {r}
    /\ inSync' = inSync \ {r}
    /\ UNCHANGED <<links, clocks, sent, wires>>

\* snapshot, and toWire, which adds the clock
ToWire(r) ==
    /\ r \in made
    /\ Cardinality(wires) < MaxWires
    /\ wires' = wires \cup {[from |-> r, lamport |-> lamport[r], entry |-> entry[r],
                            seen |-> seen[r]]}
    /\ UNCHANGED <<links, entry, clocks, sent, history>>

Carried(w) == {w.entry[f] : f \in Ref} \ {None}

\* merge, with a replica or with a snapshot of it that may be old
Merge(r, w) ==
    /\ r \in made
    /\ TakeIn(r, Carried(w))
    /\ seen' = [seen EXCEPT ![r] = @ \cup w.seen]
    /\ folded' = folded \cup {r}
    /\ inSync' = inSync \ {r}
    /\ UNCHANGED <<links, clocks, sent, wires>>

\* Bug: a replica made from a snapshot starts its clock anew.
BugClockOf(r, w) == lamport[r]

ClockOf(r, w) == Higher(lamport[r], w.lamport)

\* fromWire makes a replica, off the bus, with the clock of the snapshot.
FromWire(r, w) ==
    /\ r \notin made
    /\ made' = made \cup {r}
    /\ lamport' = [lamport EXCEPT ![r] = ClockOf(r, w)]
    /\ TakeIn(r, Carried(w))
    /\ seen' = [seen EXCEPT ![r] = w.seen]
    /\ folded' = IF w.from \in folded THEN folded \cup {r} ELSE folded
    /\ UNCHANGED <<onBus, attached, versions, sent, wires, inSync>>

RegNext ==
    \E r \in Replica :
        \/ Create(r) \/ Attach(r) \/ Detach(r) \/ ToWire(r)
        \/ \E f \in Ref, v \in Content, at \in Time : Mutate(r, f, v, at)
        \/ \E u \in sent : ApplyRemote(r, u)
        \/ \E us \in SUBSET sent : ApplyBatch(r, us)
        \/ \E w \in wires : Merge(r, w) \/ FromWire(r, w)

RegSpec == RegInit /\ [][RegNext]_regVars
=============================================================================
