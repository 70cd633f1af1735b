----------------------------- MODULE CausalMesh -----------------------------
(* 1.brain/temporal_causality.ts and packages/swarm-mesh: nodes that stamp    *)
(* events with hybrid logical clocks, keep them in a log, and exchange        *)
(* suffixes of their logs over a transport that may delay, repeat, reorder or *)
(* lose them. A delta is taken in event by event, or the log is rebuilt as    *)
(* the sorted union with it; the time of day may change within a call, which  *)
(* is therefore one step per event. What an event makes of its ref is named   *)
(* by the event; the table of peers, the hashes, and logs of more than        *)
(* 100,000 events are left out.                                               *)
EXTENDS Naturals, Sequences, FiniteSets

CONSTANTS
    Node,           \* node ids; Naturals, as they are compared
    Durable,        \* those with a ledger
    Ref,            \* what is tracked
    Time,           \* per node: what Date.now() may return
    None,           \* a ref that is not yet tracked
    MaxEvents,      \* bounds: events,
    MaxDeltas,      \* deltas,
    MaxCounter,     \* the clock of a node that rebuilds its log once more,
    MaxCrashes      \* and crashes

ASSUME MeshAssumption ==
    /\ Node \subseteq Nat /\ Durable \subseteq Node
    /\ Time \in [Node -> SUBSET Nat]
    /\ {MaxEvents, MaxDeltas, MaxCounter, MaxCrashes} \subseteq Nat

Event == [node : Node, number : Nat \ {0}, ref : Ref, wall : Nat, counter : Nat]

ASSUME NoneAssumption == None \notin Event

VARIABLES
    clock,          \* per node: wall and counter
    log,            \* per node: the events, in order
    seq,            \* per node: their seqs; places in the log, unless a restart lost some
    state,          \* per node: the event that was last applied to each ref
    ledger,         \* per node: the file of its own events
    unwritten,      \* per node: those that are on their way
    inbox,          \* per node: what is left of the delta it takes in
    hearing,        \* per node: events whose stamps its clock has yet to absorb
    deltas,         \* the suffixes that were sent
    made,           \* history: all events
    adopted,        \* history: nodes that took in a delta since their log was sorted
    forgot,         \* history: a restart has lost events
    crashes

memory  == <<clock, log, seq, state>>
disk    == <<ledger, unwritten>>
calls   == <<inbox, hearing>>
history == <<made, adopted, forgot>>
vars    == <<memory, disk, calls, deltas, history, crashes>>

Epoch == [wall |-> 0, counter |-> 0]

\* A file is read up to the first line that is no record. Its last line may be a
\* record without its newline, "open", or no record, "torn".
File == [records : Seq(Event), end : {"line", "open", "torn"}]

EmptyFile == [records |-> <<>>, end |-> "line"]

Init ==
    /\ clock = [n \in Node |-> Epoch]
    /\ log = [n \in Node |-> <<>>] /\ seq = [n \in Node |-> <<>>]
    /\ state = [n \in Node |-> [f \in Ref |-> None]]
    /\ ledger = [n \in Node |-> EmptyFile] /\ unwritten = [n \in Node |-> <<>>]
    /\ inbox = [n \in Node |-> <<>>] /\ hearing = [n \in Node |-> <<>>]
    /\ deltas = {}
    /\ made = {} /\ adopted = {} /\ forgot = FALSE
    /\ crashes = 0

-----------------------------------------------------------------------------
(* Clocks.                                                                    *)

Later(s, t) == IF s > t THEN s ELSE t

\* compareCausal
Before(a, b) == a.wall < b.wall \/ (a.wall = b.wall /\ a.counter < b.counter)

\* Bug: the node id does not break the tie.
BugPrecedes(a, b) == Before(a, b)

\* compareTotal
Precedes(a, b) ==
    Before(a, b) \/ (a.wall = b.wall /\ a.counter = b.counter /\ a.node < b.node)

\* Bug: the clock is turned back with the time of day.
BugTicked(c, now) ==
    IF now = c.wall THEN [c EXCEPT !.counter = @ + 1] ELSE [wall |-> now, counter |-> 0]

\* now
Ticked(c, now) ==
    IF now <= c.wall THEN [c EXCEPT !.counter = @ + 1] ELSE [wall |-> now, counter |-> 0]

\* recv
Heard(c, e, now) ==
    LET wall == Later(Later(c.wall, e.wall), now)
    IN [wall |-> wall,
        counter |-> IF wall = c.wall
                    THEN 1 + (IF wall = e.wall THEN Later(c.counter, e.counter) ELSE c.counter)
                    ELSE IF wall = e.wall THEN 1 + e.counter ELSE 0]

-----------------------------------------------------------------------------
(* Logs.                                                                      *)

Id(e) == <<e.node, e.number>>

EventsOf(s) == {s[i] : i \in DOMAIN s}

\* The state after all events of a log, one after the other.
Replayed(s) ==
    [f \in Ref |->
        IF \E i \in DOMAIN s : s[i].ref = f
        THEN s[CHOOSE i \in DOMAIN s : /\ s[i].ref = f
                                       /\ \A j \in DOMAIN s : s[j].ref = f => j <= i]
        ELSE None]

Sorted(s) == \A i, j \in DOMAIN s : i < j => ~Precedes(s[j], s[i])

\* Bug: what the peer has replaces what is there.
BugMerged(mine, theirs) == EventsOf(theirs)

\* mergeLogs: one event for each id, the last that came.
Merged(mine, theirs) ==
    LET all == mine \o theirs
    IN {all[i] : i \in {k \in DOMAIN all : \A j \in DOMAIN all : Id(all[j]) = Id(all[k]) => j <= k}}

\* A call ends before its node does anything else, and until then touches only what
\* no other node looks at: no two nodes need be in a call at once.
Idle == \A n \in Node : inbox[n] = <<>> /\ hearing[n] = <<>>

\* Bug: events are counted as they are on disk.
BugNextNumber(n) == Len(ledger[n].records) + 1

NextNumber(n) == Len(log[n]) + 1

\* snapshot, mutate
Record(n, f, now) ==
    LET c == Ticked(clock[n], now)
        e == [node |-> n, number |-> NextNumber(n), ref |-> f,
              wall |-> c.wall, counter |-> c.counter]
    IN /\ Idle
       /\ Cardinality(made) < MaxEvents
       /\ clock' = [clock EXCEPT ![n] = c]
       /\ log' = [log EXCEPT ![n] = Append(@, e)]
       /\ seq' = [seq EXCEPT ![n] = Append(@, e.number)]
       /\ state' = [state EXCEPT ![n][f] = e]
       /\ unwritten' = [unwritten EXCEPT ![n] = IF n \in Durable THEN Append(@, e) ELSE @]
       /\ made' = made \cup {e}
       /\ UNCHANGED <<ledger, calls, deltas, adopted, forgot, crashes>>

\* What is written after an open line is on that line.
Torn(file) ==
    [records |-> IF file.end = "open" THEN SubSeq(file.records, 1, Len(file.records) - 1)
                 ELSE file.records,
     end |-> "torn"]

Appended(file, e) ==
    IF file.end = "line" THEN [file EXCEPT !.records = Append(@, e)] ELSE Torn(file)

\* Nothing, or a part of the line.
CutOff(file, e) ==
    {file, Torn(file)} \cup
        {f \in {[records |-> Append(file.records, e), end |-> "open"]} : file.end = "line"}

\* The append that commit has chained ends, or fails, which nobody is told; a
\* Restart right after is one in the middle of it.
Written(n) ==
    /\ Idle
    /\ unwritten[n] # <<>>
    /\ unwritten' = [unwritten EXCEPT ![n] = Tail(@)]
    /\ \E file \in {Appended(ledger[n], Head(unwritten[n]))} \cup CutOff(ledger[n], Head(unwritten[n])) :
          ledger' = [ledger EXCEPT ![n] = file]
    /\ UNCHANGED <<memory, calls, deltas, history, crashes>>

\* Where the events are whose seqs are above since.
Since(n, since) == {i \in DOMAIN log[n] : seq[n][i] > since}

\* deltaSince, for an answer to a peer
Send(n, since) ==
    /\ Idle
    /\ Cardinality(deltas) < MaxDeltas
    /\ \E place \in [1 .. Cardinality(Since(n, since)) -> Since(n, since)] :
          /\ \A k, l \in DOMAIN place : k < l => place[k] < place[l]
          /\ deltas' = deltas \cup {[k \in DOMAIN place |-> log[n][place[k]]]}
    /\ UNCHANGED <<memory, disk, calls, history, crashes>>

\* receiveDelta, applyDelta
Receive(n, delta) ==
    /\ Idle
    /\ inbox' = [inbox EXCEPT ![n] = delta]
    /\ UNCHANGED <<memory, disk, hearing, deltas, history, crashes>>

Known(n, e) == \E g \in EventsOf(log[n]) : Id(g) = Id(e)

\* ingest
Ingest(n, now) ==
    LET e == Head(inbox[n])
    IN /\ inbox[n] # <<>>
       /\ inbox' = [inbox EXCEPT ![n] = Tail(@)]
       /\ \/ Known(n, e) /\ UNCHANGED <<memory, adopted>>
          \/ /\ ~Known(n, e)
             /\ clock' = [clock EXCEPT ![n] = Heard(@, e, now)]
             /\ log' = [log EXCEPT ![n] = Append(@, e)]
             /\ seq' = [seq EXCEPT ![n] = Append(@, Len(log[n]) + 1)]
             /\ state' = [state EXCEPT ![n][e.ref] = e]
             /\ adopted' = adopted \cup {n}
       /\ UNCHANGED <<disk, hearing, deltas, made, forgot, crashes>>

\* healSplitBrain, rebuild
Heal(n, delta) ==
    LET union == Merged(log[n], delta)
    IN /\ Idle
       /\ clock[n].counter < MaxCounter
       /\ \E s \in [1 .. Cardinality(union) -> union] :
             /\ EventsOf(s) = union
             /\ Sorted(s)
             /\ log' = [log EXCEPT ![n] = s]
       /\ seq' = [seq EXCEPT ![n] = [i \in 1 .. Cardinality(union) |-> i]]
       /\ state' = [state EXCEPT ![n] = Replayed(log'[n])]
       /\ hearing' = [hearing EXCEPT ![n] = log'[n]]
       /\ adopted' = adopted \ {n}
       /\ UNCHANGED <<clock, disk, inbox, deltas, made, forgot, crashes>>

\* and the clock hears of each event of the new log.
Hear(n, now) ==
    /\ hearing[n] # <<>>
    /\ hearing' = [hearing EXCEPT ![n] = Tail(@)]
    /\ clock' = [clock EXCEPT ![n] = Heard(@, Head(hearing[n]), now)]
    /\ UNCHANGED <<log, seq, state, disk, inbox, deltas, history, crashes>>

\* The process ends; another one restores what can be read, nothing without a ledger.
Restart(n) ==
    LET restored == ledger[n].records
    IN /\ Idle
       /\ crashes < MaxCrashes
       /\ crashes' = crashes + 1
       /\ clock' = [clock EXCEPT ![n] = Epoch]
       /\ log' = [log EXCEPT ![n] = restored]
       /\ seq' = [seq EXCEPT ![n] = [i \in DOMAIN restored |-> restored[i].number]]
       /\ state' = [state EXCEPT ![n] = Replayed(restored)]
       /\ unwritten' = [unwritten EXCEPT ![n] = <<>>]
       /\ inbox' = [inbox EXCEPT ![n] = <<>>]
       /\ hearing' = [hearing EXCEPT ![n] = restored]
       /\ adopted' = adopted \ {n}
       /\ forgot' = (forgot \/ ~(EventsOf(log[n]) \subseteq EventsOf(restored)))
       /\ UNCHANGED <<ledger, deltas, made>>

Next ==
    \E n \in Node :
        \/ Written(n) \/ Restart(n)
        \/ \E since \in {0} \cup EventsOf(seq[n]) : Send(n, since)
        \/ \E delta \in deltas : Receive(n, delta) \/ Heal(n, delta)
        \/ \E now \in Time[n] : \/ Ingest(n, now) \/ Hear(n, now)
                                \/ \E f \in Ref : Record(n, f, now)

Spec == Init /\ [][Next]_vars
=============================================================================
