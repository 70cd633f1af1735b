-------------------------- MODULE CausalMeshProofs --------------------------
(***************************************************************************)
(* Proofs about the causal mesh, for any nodes, refs, times of day, events *)
(* and restarts.                                                           *)
(***************************************************************************)
EXTENDS CausalMeshProps, SiftingProofs

USE MeshAssumption

-----------------------------------------------------------------------------
(* Numbers and stamps.                                                     *)

Stamp == [wall : Nat, counter : Nat]

\* A clock has reached the stamp of an event.
Leads(c, e) == ~Before(c, e)

\* A node's next stamp is after all that its clock has reached.
LEMMA TickedLeads ==
    ASSUME NEW c \in Stamp, NEW now \in Nat
    PROVE  /\ Ticked(c, now) \in Stamp
           /\ \A e \in Event : Leads(c, e) => Before(e, Ticked(c, now))
BY DEF Stamp, Event, Leads, Before, Ticked

\* Hearing an event, a clock reaches its stamp and does not fall back.
LEMMA HeardLeads ==
    ASSUME NEW c \in Stamp, NEW e \in Event, NEW now \in Nat
    PROVE  /\ Heard(c, e, now) \in Stamp
           /\ Leads(Heard(c, e, now), e)
           /\ \A g \in Event : Leads(c, g) => Leads(Heard(c, e, now), g)
<1> DEFINE wall == Later(Later(c.wall, e.wall), now)
<1>2. wall \in Nat /\ wall >= c.wall /\ wall >= e.wall
  BY DEF Later, Stamp, Event
<1>3. Heard(c, e, now).wall = wall
  BY DEF Heard
<1>4. /\ Heard(c, e, now).counter \in Nat
      /\ wall = c.wall => Heard(c, e, now).counter >= c.counter
      /\ wall = e.wall => Heard(c, e, now).counter >= e.counter
  <2> HIDE DEF wall
  <2>1. Heard(c, e, now) =
          [wall |-> wall,
           counter |-> IF wall = c.wall
                       THEN 1 + (IF wall = e.wall THEN Later(c.counter, e.counter) ELSE c.counter)
                       ELSE IF wall = e.wall THEN 1 + e.counter ELSE 0]
    BY DEF Heard, wall
  <2> QED
    BY <1>2, <2>1 DEF Later, Stamp, Event
<1>5. Heard(c, e, now) \in Stamp
  <2>1. DOMAIN Heard(c, e, now) = {"wall", "counter"} 
    BY DEF Heard
  <2> QED
    BY <1>2, <1>4 DEF Stamp, Heard
<1> HIDE DEF wall
<1> QED
  BY <1>2, <1>3, <1>4, <1>5 DEF Leads, Before, Stamp, Event

-----------------------------------------------------------------------------
(* Logs.                                                                   *)

\* There are n numbers from 1 to n.
LEMMA Interval ==
    ASSUME NEW n \in Nat
    PROVE  IsFiniteSet(1 .. n) /\ Cardinality(1 .. n) = n
<1>1. 1 \in Int /\ n \in Int
  OBVIOUS
<1>2. IsFiniteSet(1 .. n) /\ Cardinality(1 .. n) = IF 1 > n THEN 0 ELSE n - 1 + 1
  BY <1>1, FS_Interval
<1> QED
  BY <1>2

\* The events of a longer, of a shorter and of an empty sequence.
LEMMA EventsOfAppend ==
    ASSUME NEW s \in Seq(Event), NEW e \in Event
    PROVE  /\ Append(s, e) \in Seq(Event)
           /\ EventsOf(Append(s, e)) = EventsOf(s) \cup {e}
<1>1. /\ Append(s, e) \in Seq(Event) /\ DOMAIN Append(s, e) = 1 .. Len(s) + 1
      /\ DOMAIN s = 1 .. Len(s) /\ Len(s) \in Nat
      /\ \A i \in DOMAIN s : Append(s, e)[i] = s[i]
      /\ Append(s, e)[Len(s) + 1] = e
  BY AppendProperties, LenProperties
<1>2. DOMAIN Append(s, e) = DOMAIN s \cup {Len(s) + 1}
  BY <1>1
<1> QED
  BY <1>1, <1>2 DEF EventsOf

\* A sequence has its first event and those of its tail.
LEMMA EventsOfTail ==
    ASSUME NEW s \in Seq(Event), s # <<>>
    PROVE  /\ Head(s) \in Event /\ Tail(s) \in Seq(Event)
           /\ EventsOf(s) = {Head(s)} \cup EventsOf(Tail(s))
<1>1. /\ Head(s) \in Event /\ Tail(s) \in Seq(Event)
      /\ Len(Tail(s)) = Len(s) - 1 /\ Len(s) \in Nat /\ Len(s) # 0
      /\ \A i \in 1 .. Len(Tail(s)) : Tail(s)[i] = s[i + 1]
      /\ DOMAIN s = 1 .. Len(s) /\ DOMAIN Tail(s) = 1 .. Len(Tail(s))
  BY HeadTailProperties, LenProperties, EmptySeq
<1>2. Head(s) = s[1] /\ 1 \in DOMAIN s
  BY <1>1
<1>3. ASSUME NEW i \in DOMAIN s, i # 1
      PROVE  s[i] \in EventsOf(Tail(s))
  <2>1. i - 1 \in DOMAIN Tail(s) /\ (i - 1) + 1 = i
    BY <1>1, <1>3
  <2>2. Tail(s)[i - 1] = s[i]
    BY <1>1, <2>1
  <2> QED
    BY <2>1, <2>2 DEF EventsOf
<1>4. ASSUME NEW j \in DOMAIN Tail(s)
      PROVE  Tail(s)[j] \in EventsOf(s)
  <2>1. j + 1 \in DOMAIN s /\ Tail(s)[j] = s[j + 1]
    BY <1>1
  <2> QED
    BY <2>1 DEF EventsOf
<1> QED
  BY <1>1, <1>2, <1>3, <1>4 DEF EventsOf

\* The empty sequence has none.
LEMMA EventsOfEmpty == EventsOf(<<>>) = {}
BY DEF EventsOf

\* A sequence has finitely many events, no more than it is long.
LEMMA EventsOfType ==
    ASSUME NEW s \in Seq(Event)
    PROVE  /\ EventsOf(s) \subseteq Event /\ IsFiniteSet(EventsOf(s))
           /\ Cardinality(EventsOf(s)) <= Len(s)
<1>1. DOMAIN s = 1 .. Len(s) /\ Len(s) \in Nat
  BY LenProperties
<1>2. EventsOf(s) \subseteq Event
  BY ElementOfSeq, <1>1 DEF EventsOf
<1>3. s \in Surjection(1 .. Len(s), EventsOf(s))
  BY <1>1, <1>2 DEF Surjection, EventsOf
<1>4. IsFiniteSet(1 .. Len(s)) /\ Cardinality(1 .. Len(s)) = Len(s)
  BY <1>1, Interval
<1> QED
  BY <1>2, <1>3, <1>4, FS_Surjection

\* A sequence without repetition is not longer than a set that has its events.
LEMMA LengthBound ==
    ASSUME NEW s \in Seq(Event), \A i, j \in DOMAIN s : s[i] = s[j] => i = j,
           NEW U, IsFiniteSet(U), EventsOf(s) \subseteq U
    PROVE  Len(s) <= Cardinality(U)
<1>1. DOMAIN s = 1 .. Len(s) /\ Len(s) \in Nat
  BY LenProperties
<1>2. s \in Injection(1 .. Len(s), U)
  <2>1. s \in [1 .. Len(s) -> U]
    BY <1>1 DEF EventsOf
  <2> QED
    BY <1>1, <2>1 DEF Injection, IsInjective
<1>3. Cardinality(1 .. Len(s)) = Len(s)
  BY <1>1, Interval
<1> QED
  BY <1>2, <1>3, FS_Injection

\* What a heal makes of a set of events is a sequence without repetition.
LEMMA Arranged ==
    ASSUME NEW U \in SUBSET Event, IsFiniteSet(U),
           NEW s \in [1 .. Cardinality(U) -> U], EventsOf(s) = U
    PROVE  /\ s \in Seq(Event) /\ Len(s) = Cardinality(U)
           /\ \A i, j \in DOMAIN s : s[i] = s[j] => i = j
<1>1. Cardinality(U) \in Nat
  BY FS_CardinalityType
<1>2. s \in Seq(Event) /\ Len(s) = Cardinality(U)
  BY <1>1
<1>3. s \in Surjection(1 .. Cardinality(U), U)
  BY DEF Surjection, EventsOf
<1>4. /\ IsFiniteSet(1 .. Cardinality(U))
      /\ Cardinality(1 .. Cardinality(U)) = Cardinality(U)
  BY <1>1, Interval
<1>5. s \in Injection(1 .. Cardinality(U), U)
  BY <1>3, <1>4, FS_SurjSameCardinalityImpliesInj
<1> QED
  BY <1>2, <1>5 DEF Injection, IsInjective

\* A merge takes events of both sides only, and all of them when ids tell events
\* apart.
LEMMA MergedIsUnion ==
    ASSUME NEW a \in Seq(Event), NEW b \in Seq(Event)
    PROVE  /\ Merged(a, b) \subseteq EventsOf(a) \cup EventsOf(b)
           /\ IsFiniteSet(Merged(a, b))
           /\ (\A e, g \in EventsOf(a) \cup EventsOf(b) : Id(e) = Id(g) => e = g)
                 => Merged(a, b) = EventsOf(a) \cup EventsOf(b)
<1> DEFINE all == a \o b
<1>1. /\ all \in Seq(Event) /\ Len(all) = Len(a) + Len(b)
      /\ \A i \in 1 .. Len(a) : all[i] = a[i]
      /\ \A i \in 1 .. Len(b) : all[Len(a) + i] = b[i]
      /\ Len(a) \in Nat /\ Len(b) \in Nat
      /\ DOMAIN a = 1 .. Len(a) /\ DOMAIN b = 1 .. Len(b)
      /\ DOMAIN all = 1 .. Len(a) + Len(b)
  OBVIOUS
<1> HIDE DEF all
<1>2. EventsOf(all) = EventsOf(a) \cup EventsOf(b)
  <2>1. ASSUME NEW i \in DOMAIN all
        PROVE  all[i] \in EventsOf(a) \cup EventsOf(b)
    <3>1. CASE i <= Len(a)
      BY <1>1, <3>1 DEF EventsOf
    <3>2. CASE i > Len(a)
      <4>1. i - Len(a) \in 1 .. Len(b) /\ Len(a) + (i - Len(a)) = i
        BY <1>1, <3>2
      <4>2. all[i] = b[i - Len(a)]
        BY <1>1, <4>1
      <4> QED
        BY <1>1, <4>1, <4>2 DEF EventsOf
    <3> QED
      BY <1>1, <3>1, <3>2
  <2>2. ASSUME NEW i \in DOMAIN a
        PROVE  a[i] \in EventsOf(all)
    <3>1. i \in DOMAIN all /\ all[i] = a[i]
      BY <1>1
    <3> QED
      BY <3>1 DEF EventsOf
  <2>3. ASSUME NEW i \in DOMAIN b
        PROVE  b[i] \in EventsOf(all)
    <3>1. Len(a) + i \in DOMAIN all /\ all[Len(a) + i] = b[i]
      BY <1>1
    <3> QED
      BY <3>1 DEF EventsOf
  <2> QED
    BY <2>1, <2>2, <2>3 DEF EventsOf
<1>3. Merged(a, b) = {all[i] : i \in {k \in DOMAIN all :
                         \A j \in DOMAIN all : Id(all[j]) = Id(all[k]) => j <= k}}
  BY DEF Merged, all
<1>4. Merged(a, b) \subseteq EventsOf(all)
  BY <1>3 DEF EventsOf
<1>5. IsFiniteSet(Merged(a, b))
  BY <1>1, <1>4, EventsOfType, FS_Subset
<1>6. ASSUME \A e, g \in EventsOf(all) : Id(e) = Id(g) => e = g,
             NEW i \in DOMAIN all
      PROVE  all[i] \in Merged(a, b)
  <2> DEFINE T == {k \in DOMAIN all : Id(all[k]) = Id(all[i])}
  <2>1. T \in SUBSET (1 .. Len(all)) /\ T # {} /\ Len(all) \in Nat
    BY <1>1
  <2>2. PICK k \in T : \A j \in T : j <= k
    BY <2>1, LastPlace
  <2>3. all[k] = all[i]
    BY <1>6 DEF EventsOf
  <2> QED
    BY <1>3, <2>2, <2>3
<1>7. (\A e, g \in EventsOf(all) : Id(e) = Id(g) => e = g) => EventsOf(all) \subseteq Merged(a, b)
  BY <1>6 DEF EventsOf
<1> QED
  BY <1>2, <1>4, <1>5, <1>7

-----------------------------------------------------------------------------
(* Types, and what every log, delta and file is made of.                   *)

\* The state after a log is made of its events.
LEMMA ReplayedType ==
    ASSUME NEW s \in Seq(Event)
    PROVE  Replayed(s) \in [Ref -> Event \cup {None}]
<1>1. DOMAIN s \subseteq Nat /\ DOMAIN s = 1 .. Len(s) /\ Len(s) \in Nat
  BY LenProperties
<1>2. ASSUME NEW f \in Ref
      PROVE  Replayed(s)[f] \in Event \cup {None}
  <2> DEFINE T == {i \in DOMAIN s : s[i].ref = f}
  <2>1. CASE T = {}
    BY <2>1 DEF Replayed
  <2>2. CASE T # {}
    <3>1. \E i \in T : \A j \in T : j <= i
      BY <1>1, <2>2, LastPlace
    <3>2. \E i \in DOMAIN s : s[i].ref = f /\ \A j \in DOMAIN s : s[j].ref = f => j <= i
      BY <3>1
    <3>3. PICK i \in DOMAIN s : Replayed(s)[f] = s[i]
      BY <2>2, <3>2 DEF Replayed
    <3> QED
      BY <1>1, <3>3, ElementOfSeq
  <2> QED
    BY <2>1, <2>2
<1> QED
  BY <1>2 DEF Replayed

\* A cut-off or torn file keeps some of its records, an appended one at most
\* gains the record.
LEMMA FileParts ==
    ASSUME NEW file \in File, NEW e \in Event
    PROVE  \A f \in {Appended(file, e)} \cup CutOff(file, e) :
              /\ f \in File
              /\ \/ \E m \in 0 .. Len(file.records) : f.records = SubSeq(file.records, 1, m)
                 \/ f.records = Append(file.records, e)
<1> DEFINE r == file.records
<1>1. r \in Seq(Event) /\ Len(r) \in Nat /\ file.end \in {"line", "open", "torn"}
  BY LenProperties DEF File
<1>2. \A m \in 0 .. Len(r) : SubSeq(r, 1, m) \in Seq(Event)
  <2> TAKE m \in 0 .. Len(r)
  <2>1. m \in Int /\ 1 \in Int /\ \A i \in 1 .. m : r[i] \in Event
    BY <1>1, ElementOfSeq
  <2> QED
    BY <2>1, SubSeqProperties
<1>3. SubSeq(r, 1, Len(r)) = r
  BY <1>1, SubSeqFull
<1>4. Append(r, e) \in Seq(Event)
  BY <1>1, AppendProperties
<1>5. /\ Torn(file) \in File
      /\ \E m \in 0 .. Len(r) : Torn(file).records = SubSeq(r, 1, m)
  <2>1. CASE file.end = "open" /\ Len(r) # 0
    <3>1. Len(r) - 1 \in 0 .. Len(r)
      BY <1>1, <2>1
    <3>2. Torn(file) = [records |-> SubSeq(r, 1, Len(r) - 1), end |-> "torn"]
      BY <2>1 DEF Torn
    <3> QED
      BY <1>2, <3>1, <3>2 DEF File
  <2>2. CASE file.end = "open" /\ Len(r) = 0
    <3>1. SubSeq(r, 1, Len(r) - 1) = <<>> /\ SubSeq(r, 1, 0) = <<>>
      BY <2>2, SubSeqEmpty
    <3>2. Torn(file) = [records |-> SubSeq(r, 1, 0), end |-> "torn"]
      BY <2>2, <3>1 DEF Torn
    <3>3. 0 \in 0 .. Len(r)
      BY <1>1
    <3> QED
      BY <1>2, <3>2, <3>3 DEF File
  <2>3. CASE file.end # "open"
    <3>1. Torn(file) = [records |-> r, end |-> "torn"]
      BY <2>3 DEF Torn
    <3>2. Len(r) \in 0 .. Len(r)
      BY <1>1
    <3> QED
      BY <1>1, <1>3, <3>1, <3>2 DEF File
  <2> QED
    BY <2>1, <2>2, <2>3
<1>6. /\ [file EXCEPT !.records = Append(@, e)] \in File
      /\ [file EXCEPT !.records = Append(@, e)].records = Append(r, e)
      /\ [records |-> Append(r, e), end |-> "open"] \in File
  BY <1>4 DEF File
<1>7. Len(r) \in 0 .. Len(r)
  BY <1>1
<1> DEFINE P(f) == /\ f \in File
                   /\ \/ \E m \in 0 .. Len(r) : f.records = SubSeq(r, 1, m)
                      \/ f.records = Append(r, e)
<1>8. P(file) /\ P(Torn(file))
  BY <1>3, <1>5, <1>7
<1>9. P([file EXCEPT !.records = Append(@, e)]) /\ P([records |-> Append(r, e), end |-> "open"])
  BY <1>6
<1> HIDE DEF P
<1>10. P(Appended(file, e)) /\ \A f \in CutOff(file, e) : P(f)
  BY <1>8, <1>9 DEF Appended, CutOff
<1> QED
  BY <1>10 DEF P

\* The event that Record makes.
Made(n, f, now) ==
    [node |-> n, number |-> NextNumber(n), ref |-> f,
     wall |-> Ticked(clock[n], now).wall, counter |-> Ticked(clock[n], now).counter]

\* It is one.
LEMMA MadeType ==
    ASSUME TypeOK, NEW n \in Node, NEW f \in Ref, NEW now \in Time[n]
    PROVE  Made(n, f, now) \in Event
<1>1. Len(log[n]) \in Nat /\ clock[n] \in Stamp
  BY LenProperties DEF TypeOK, Stamp
<1>2. Ticked(clock[n], now) \in Stamp
  BY <1>1, TickedLeads
<1>3. NextNumber(n) \in Nat \ {0}
  BY <1>1 DEF NextNumber
<1> QED
  BY <1>2, <1>3 DEF Made, Event, Stamp

\* Every step keeps the types.
LEMMA TypeStep == TypeOK /\ [Next]_vars => TypeOK'
<1> SUFFICES ASSUME TypeOK, [Next]_vars PROVE TypeOK'
  OBVIOUS
<1> USE DEF TypeOK, memory, disk, calls, history
<1>1. ASSUME NEW n \in Node, NEW f \in Ref, NEW now \in Time[n], Record(n, f, now)
      PROVE  TypeOK'
  <2> DEFINE e == Made(n, f, now)
  <2>1. e \in Event /\ clock[n] \in Stamp /\ e.number \in Nat
    BY MadeType DEF Stamp, Event
  <2>2. Ticked(clock[n], now) \in Stamp
    BY <2>1, TickedLeads
  <2>3. /\ clock' = [clock EXCEPT ![n] = Ticked(clock[n], now)]
        /\ log' = [log EXCEPT ![n] = Append(@, e)]
        /\ seq' = [seq EXCEPT ![n] = Append(@, e.number)]
        /\ state' = [state EXCEPT ![n][f] = e]
        /\ unwritten' = [unwritten EXCEPT ![n] = IF n \in Durable THEN Append(@, e) ELSE @]
        /\ made' = made \cup {e}
        /\ UNCHANGED <<ledger, calls, deltas, adopted, forgot, crashes>>
    BY <1>1 DEF Record, Made
  <2> HIDE DEF e
  <2>4. /\ Append(log[n], e) \in Seq(Event) /\ Append(unwritten[n], e) \in Seq(Event)
        /\ Append(seq[n], e.number) \in Seq(Nat)
    BY <2>1, AppendProperties
  <2> QED
    BY <2>1, <2>2, <2>3, <2>4 DEF Stamp
<1>2. ASSUME NEW n \in Node, Written(n) PROVE TypeOK'
  <2>1. /\ Head(unwritten[n]) \in Event /\ Tail(unwritten[n]) \in Seq(Event)
        /\ ledger[n] \in File
    BY <1>2, EventsOfTail DEF Written
  <2>2. PICK file \in {Appended(ledger[n], Head(unwritten[n]))}
                       \cup CutOff(ledger[n], Head(unwritten[n])) :
          ledger' = [ledger EXCEPT ![n] = file]
    BY <1>2 DEF Written
  <2>3. file \in File
    BY <2>1, <2>2, FileParts
  <2> QED
    BY <1>2, <2>1, <2>2, <2>3 DEF Written
<1>3. ASSUME NEW n \in Node, NEW since, Send(n, since) PROVE TypeOK'
  <2>1. log[n] \in Seq(Event) /\ DOMAIN log[n] = 1 .. Len(log[n]) /\ Len(log[n]) \in Nat
    BY LenProperties
  <2>2. Since(n, since) \subseteq DOMAIN log[n]
    BY DEF Since
  <2>3. Cardinality(Since(n, since)) \in Nat
    BY <2>1, <2>2, Interval, FS_Subset, FS_CardinalityType
  <2>4. PICK place \in [1 .. Cardinality(Since(n, since)) -> Since(n, since)] :
          deltas' = deltas \cup {[k \in DOMAIN place |-> log[n][place[k]]]}
    BY <1>3 DEF Send
  <2>5. [k \in DOMAIN place |-> log[n][place[k]]] \in Seq(Event)
    <3> DEFINE N == Cardinality(Since(n, since))
    <3>1. \A k \in 1 .. N : log[n][place[k]] \in Event
      BY <2>1, <2>2, ElementOfSeq
    <3>2. N \in Nat /\ DOMAIN place = 1 .. N
      BY <2>3
    <3> HIDE DEF N
    <3>3. [k \in 1 .. N |-> log[n][place[k]]] \in Seq(Event)
      BY <3>1, <3>2, IsASeq
    <3> QED
      BY <3>2, <3>3
  <2> QED
    BY <1>3, <2>4, <2>5 DEF Send
<1>4. ASSUME NEW n \in Node, NEW delta \in deltas, Receive(n, delta) PROVE TypeOK'
  BY <1>4 DEF Receive
<1>5. ASSUME NEW n \in Node, NEW now \in Time[n], Ingest(n, now) PROVE TypeOK'
  <2> DEFINE e == Head(inbox[n])
  <2>1. e \in Event /\ Tail(inbox[n]) \in Seq(Event)
    BY <1>5, EventsOfTail DEF Ingest
  <2>2. /\ inbox' = [inbox EXCEPT ![n] = Tail(@)]
        /\ UNCHANGED <<disk, hearing, deltas, made, forgot, crashes>>
        /\ Known(n, e) => UNCHANGED <<memory, adopted>>
        /\ ~Known(n, e) =>
              /\ clock' = [clock EXCEPT ![n] = Heard(clock[n], e, now)]
              /\ log' = [log EXCEPT ![n] = Append(@, e)]
              /\ seq' = [seq EXCEPT ![n] = Append(@, Len(log[n]) + 1)]
              /\ state' = [state EXCEPT ![n][e.ref] = e]
              /\ adopted' = adopted \cup {n}
    BY <1>5 DEF Ingest
  <2> HIDE DEF e
  <2>4. CASE Known(n, e)
    BY <2>1, <2>2, <2>4
  <2>3. CASE ~Known(n, e)
    <3>1. clock[n] \in Stamp
      BY DEF Stamp
    <3>2. Heard(clock[n], e, now) \in Stamp
      BY <2>1, <3>1, HeardLeads
    <3>3. Len(log[n]) + 1 \in Nat
      BY LenProperties
    <3>4. Append(log[n], e) \in Seq(Event) /\ Append(seq[n], Len(log[n]) + 1) \in Seq(Nat)
      BY <2>1, <3>3, AppendProperties
    <3>5. e.ref \in Ref
      BY <2>1 DEF Event
    <3>6. /\ clock' = [clock EXCEPT ![n] = Heard(clock[n], e, now)]
          /\ log' = [log EXCEPT ![n] = Append(@, e)]
          /\ seq' = [seq EXCEPT ![n] = Append(@, Len(log[n]) + 1)]
          /\ state' = [state EXCEPT ![n][e.ref] = e]
          /\ adopted' = adopted \cup {n}
      BY <2>2, <2>3
    <3>7. clock' \in [Node -> [wall : Nat, counter : Nat]]
      BY <3>2, <3>6 DEF Stamp
    <3>8. log' \in [Node -> Seq(Event)] /\ seq' \in [Node -> Seq(Nat)]
      BY <3>4, <3>6
    <3>9. state' \in [Node -> [Ref -> Event \cup {None}]]
      BY <2>1, <3>5, <3>6
    <3>10. adopted' \subseteq Node
      BY <3>6
    <3>11. inbox' \in [Node -> Seq(Event)]
      BY <2>1, <2>2
    <3> QED
      BY <2>2, <3>7, <3>8, <3>9, <3>10, <3>11
  <2> QED
    BY <2>3, <2>4
<1>6. ASSUME NEW n \in Node, NEW delta \in deltas, Heal(n, delta) PROVE TypeOK'
  <2> DEFINE union == Merged(log[n], delta)
  <2>1. union \in SUBSET Event /\ IsFiniteSet(union)
    BY MergedIsUnion, EventsOfType
  <2>2. PICK s \in [1 .. Cardinality(union) -> union] :
          EventsOf(s) = union /\ log' = [log EXCEPT ![n] = s]
    BY <1>6 DEF Heal
  <2>3. s \in Seq(Event) /\ Len(s) = Cardinality(union) /\ log'[n] = s
    BY <2>1, <2>2, Arranged
  <2>4. Replayed(s) \in [Ref -> Event \cup {None}]
    BY <2>3, ReplayedType
  <2>5. [i \in 1 .. Cardinality(union) |-> i] \in Seq(Nat)
    BY <2>1, FS_CardinalityType
  <2>6. /\ state' = [state EXCEPT ![n] = Replayed(s)]
        /\ seq' = [seq EXCEPT ![n] = [i \in 1 .. Cardinality(union) |-> i]]
        /\ hearing' = [hearing EXCEPT ![n] = s]
        /\ adopted' = adopted \ {n}
        /\ UNCHANGED <<clock, disk, inbox, deltas, made, forgot, crashes>>
    BY <1>6, <2>3 DEF Heal
  <2> HIDE DEF union
  <2> QED
    BY <2>2, <2>3, <2>4, <2>5, <2>6
<1>7. ASSUME NEW n \in Node, NEW now \in Time[n], Hear(n, now) PROVE TypeOK'
  <2>1. Head(hearing[n]) \in Event /\ Tail(hearing[n]) \in Seq(Event) /\ clock[n] \in Stamp
    BY <1>7, EventsOfTail DEF Hear, Stamp
  <2>2. Heard(clock[n], Head(hearing[n]), now) \in Stamp
    BY <2>1, HeardLeads
  <2> QED
    BY <1>7, <2>1, <2>2 DEF Hear, Stamp
<1>8. ASSUME NEW n \in Node, Restart(n) PROVE TypeOK'
  <2> DEFINE restored == ledger[n].records
  <2>1. restored \in Seq(Event)
    BY DEF File
  <2> HIDE DEF restored
  <2>2. Replayed(restored) \in [Ref -> Event \cup {None}]
    BY <2>1, ReplayedType
  <2>3. [i \in DOMAIN restored |-> restored[i].number] \in Seq(Nat)
    <3>1. DOMAIN restored = 1 .. Len(restored) /\ Len(restored) \in Nat
      BY <2>1, LenProperties
    <3>2. \A i \in DOMAIN restored : restored[i] \in Event
      BY <2>1, <3>1, ElementOfSeq
    <3>3. \A e \in Event : e.number \in Nat
      BY DEF Event
    <3> QED
      BY <3>1, <3>2, <3>3
  <2>4. Epoch \in [wall : Nat, counter : Nat]
    BY DEF Epoch
  <2>5. /\ crashes' = crashes + 1
        /\ clock' = [clock EXCEPT ![n] = Epoch]
        /\ log' = [log EXCEPT ![n] = restored]
        /\ seq' = [seq EXCEPT ![n] = [i \in DOMAIN restored |-> restored[i].number]]
        /\ state' = [state EXCEPT ![n] = Replayed(restored)]
        /\ unwritten' = [unwritten EXCEPT ![n] = <<>>]
        /\ inbox' = [inbox EXCEPT ![n] = <<>>]
        /\ hearing' = [hearing EXCEPT ![n] = restored]
        /\ adopted' = adopted \ {n}
        /\ forgot' = (forgot \/ ~(EventsOf(log[n]) \subseteq EventsOf(restored)))
        /\ UNCHANGED <<ledger, deltas, made>>
    BY <1>8 DEF Restart, restored
  <2>6. forgot' \in BOOLEAN
    BY <2>5, Zenon
  <2>7. crashes' \in Nat /\ UNCHANGED <<ledger, deltas, made>> /\ adopted' \subseteq Node
    <3>1. crashes' = crashes + 1 /\ crashes \in Nat
      BY <2>5
    <3>2. adopted' = adopted \ {n} /\ adopted \subseteq Node
      BY <2>5
    <3>3. UNCHANGED <<ledger, deltas, made>>
      BY <2>5
    <3>4. crashes' \in Nat
      BY <3>1
    <3> QED
      BY <3>2, <3>3, <3>4
  <2>8. clock' \in [Node -> [wall : Nat, counter : Nat]]
    BY <2>4, <2>5
  <2>9. log' \in [Node -> Seq(Event)] /\ seq' \in [Node -> Seq(Nat)]
    BY <2>1, <2>3, <2>5
  <2>10. state' \in [Node -> [Ref -> Event \cup {None}]]
    BY <2>2, <2>5
  <2>11. /\ unwritten' \in [Node -> Seq(Event)] /\ inbox' \in [Node -> Seq(Event)]
         /\ hearing' \in [Node -> Seq(Event)]
    BY <2>1, <2>5
  <2> QED
    BY <2>6, <2>7, <2>8, <2>9, <2>10, <2>11
<1>9. CASE UNCHANGED vars
  BY <1>9 DEF vars
<1> QED
  BY <1>1, <1>2, <1>3, <1>4, <1>5, <1>6, <1>7, <1>8, <1>9 DEF Next

-----------------------------------------------------------------------------
(* What each action does, node by node.                                    *)

\* Record, of event e.
Recorded(n, f, e) ==
    /\ e \in Event /\ e.node = n /\ e.ref = f /\ e.number = Len(log[n]) + 1
    /\ \A m \in Node : hearing[m] = <<>>
    /\ \A g \in Event : Leads(clock[n], g) => Before(g, e) /\ Leads(clock'[n], g)
    /\ Leads(clock'[n], e)
    /\ log'[n] = Append(log[n], e)
    /\ EventsOf(log'[n]) = EventsOf(log[n]) \cup {e}
    /\ \/ /\ unwritten'[n] = Append(unwritten[n], e)
          /\ EventsOf(unwritten'[n]) = EventsOf(unwritten[n]) \cup {e}
       \/ unwritten'[n] = unwritten[n]
    /\ state'[n] = [state[n] EXCEPT ![f] = e]
    /\ \A m \in Node \ {n} : /\ clock'[m] = clock[m] /\ log'[m] = log[m]
                             /\ state'[m] = state[m] /\ unwritten'[m] = unwritten[m]
    /\ made' = made \cup {e}
    /\ UNCHANGED <<ledger, inbox, hearing, deltas, adopted, forgot>>

\* Record does what Recorded says, of the event that it makes.
LEMMA RecordDoes ==
    ASSUME TypeOK, NEW n \in Node, NEW f \in Ref, NEW now \in Time[n], Record(n, f, now)
    PROVE  Recorded(n, f, Made(n, f, now))
<1> DEFINE e == Made(n, f, now)
<1>1. e \in Event /\ e.node = n /\ e.ref = f /\ e.number = Len(log[n]) + 1
  BY MadeType DEF Made, NextNumber
<1>2. /\ clock' = [clock EXCEPT ![n] = Ticked(clock[n], now)]
      /\ log' = [log EXCEPT ![n] = Append(@, e)]
      /\ state' = [state EXCEPT ![n][f] = e]
      /\ unwritten' = [unwritten EXCEPT ![n] = IF n \in Durable THEN Append(@, e) ELSE @]
      /\ made' = made \cup {e}
      /\ UNCHANGED <<ledger, inbox, hearing, deltas, adopted, forgot>>
      /\ \A m \in Node : hearing[m] = <<>>
  BY DEF Record, Made, Idle, calls
<1>3. e.wall = Ticked(clock[n], now).wall /\ e.counter = Ticked(clock[n], now).counter
  BY DEF Made
<1>4. clock[n] \in Stamp /\ clock'[n] = Ticked(clock[n], now)
  BY <1>2 DEF TypeOK, Stamp
<1> HIDE DEF e
<1>5. \A g \in Event : Leads(clock[n], g) => Before(g, e)
  BY <1>3, <1>4, TickedLeads DEF Before
<1>6. Ticked(clock[n], now) \in Stamp
  BY <1>4, TickedLeads
<1>7. \A g \in Event : Leads(clock[n], g) => Leads(clock'[n], g)
  <2> TAKE g \in Event
  <2>1. Leads(clock[n], g) => Before(g, clock'[n])
    BY <1>4, TickedLeads
  <2> QED
    BY <1>4, <1>6, <2>1 DEF Leads, Before, Stamp, Event
<1>8. Leads(clock'[n], e)
  BY <1>3, <1>4, <1>6 DEF Leads, Before, Stamp
<1>9. /\ log'[n] = Append(log[n], e)
      /\ unwritten'[n] = Append(unwritten[n], e) \/ unwritten'[n] = unwritten[n]
      /\ state'[n] = [state[n] EXCEPT ![f] = e]
      /\ \A m \in Node \ {n} : /\ clock'[m] = clock[m] /\ log'[m] = log[m]
                               /\ state'[m] = state[m] /\ unwritten'[m] = unwritten[m]
  BY <1>2 DEF TypeOK
<1>10. /\ EventsOf(Append(log[n], e)) = EventsOf(log[n]) \cup {e}
       /\ EventsOf(Append(unwritten[n], e)) = EventsOf(unwritten[n]) \cup {e}
  BY <1>1, EventsOfAppend DEF TypeOK
<1> QED
  BY <1>1, <1>2, <1>5, <1>7, <1>8, <1>9, <1>10 DEF e, Recorded

\* Written takes the first event on its way to the file, which loses records at its
\* end, stays, or gains the event.
LEMMA WrittenDoes ==
    ASSUME TypeOK, NEW n \in Node, Written(n)
    PROVE  /\ Head(unwritten[n]) \in Event /\ unwritten[n] # <<>>
           /\ unwritten'[n] = Tail(unwritten[n])
           /\ \/ \E k \in 0 .. Len(ledger[n].records) :
                    ledger'[n].records = SubSeq(ledger[n].records, 1, k)
              \/ ledger'[n].records = Append(ledger[n].records, Head(unwritten[n]))
           /\ \A m \in Node \ {n} : unwritten'[m] = unwritten[m] /\ ledger'[m] = ledger[m]
           /\ UNCHANGED <<clock, log, state, inbox, hearing, deltas, made, adopted, forgot>>
<1>1. /\ Head(unwritten[n]) \in Event /\ unwritten[n] # <<>> /\ ledger[n] \in File
  BY EventsOfTail DEF Written, TypeOK
<1>2. PICK file \in {Appended(ledger[n], Head(unwritten[n]))}
                     \cup CutOff(ledger[n], Head(unwritten[n])) :
        ledger' = [ledger EXCEPT ![n] = file]
  BY DEF Written
<1>3. \/ \E k \in 0 .. Len(ledger[n].records) : file.records = SubSeq(ledger[n].records, 1, k)
      \/ file.records = Append(ledger[n].records, Head(unwritten[n]))
  BY <1>1, <1>2, FileParts
<1>4. ledger'[n] = file /\ \A m \in Node \ {n} : ledger'[m] = ledger[m]
  BY <1>2 DEF TypeOK
<1>5. /\ unwritten'[n] = Tail(unwritten[n])
      /\ \A m \in Node \ {n} : unwritten'[m] = unwritten[m]
      /\ UNCHANGED <<clock, log, state, inbox, hearing, deltas, made, adopted, forgot>>
  BY DEF Written, TypeOK, memory, calls, history
<1> QED
  BY <1>1, <1>3, <1>4, <1>5

\* Ingest, of event e.
Ingested(n, e, now) ==
    /\ e \in Event /\ inbox[n] # <<>> /\ inbox'[n] = Tail(inbox[n])
    /\ EventsOf(inbox[n]) = {e} \cup EventsOf(inbox'[n])
    /\ \A m \in Node \ {n} : /\ inbox'[m] = inbox[m] /\ clock'[m] = clock[m]
                             /\ log'[m] = log[m] /\ state'[m] = state[m]
    /\ UNCHANGED <<ledger, unwritten, hearing, deltas, made, forgot>>
    /\ \/ UNCHANGED <<clock, log, state, adopted>>
       \/ /\ ~Known(n, e)
          /\ clock'[n] = Heard(clock[n], e, now)
          /\ log'[n] = Append(log[n], e)
          /\ EventsOf(log'[n]) = EventsOf(log[n]) \cup {e}
          /\ adopted' = adopted \cup {n}

\* Ingest does what Ingested says, of the first event of the delta.
LEMMA IngestDoes ==
    ASSUME TypeOK, NEW n \in Node, NEW now \in Time[n], Ingest(n, now)
    PROVE  Ingested(n, Head(inbox[n]), now)
<1> DEFINE e == Head(inbox[n])
<1>1. e \in Event /\ inbox[n] # <<>> /\ EventsOf(inbox[n]) = {e} \cup EventsOf(Tail(inbox[n]))
  BY EventsOfTail DEF Ingest, TypeOK
<1>2. /\ inbox' = [inbox EXCEPT ![n] = Tail(@)]
      /\ UNCHANGED <<ledger, unwritten, hearing, deltas, made, forgot>>
      /\ \/ UNCHANGED <<clock, log, state, adopted>>
         \/ /\ ~Known(n, e)
            /\ clock' = [clock EXCEPT ![n] = Heard(clock[n], e, now)]
            /\ log' = [log EXCEPT ![n] = Append(@, e)]
            /\ state' = [state EXCEPT ![n][e.ref] = e]
            /\ adopted' = adopted \cup {n}
  BY DEF Ingest, memory, disk
<1> HIDE DEF e
<1>3. inbox'[n] = Tail(inbox[n]) /\ \A m \in Node \ {n} : inbox'[m] = inbox[m]
  BY <1>2 DEF TypeOK
<1>4. CASE UNCHANGED <<clock, log, state, adopted>>
  BY <1>1, <1>2, <1>3, <1>4 DEF e, Ingested
<1>5. CASE ~UNCHANGED <<clock, log, state, adopted>>
  <2>1. /\ ~Known(n, e)
        /\ clock' = [clock EXCEPT ![n] = Heard(clock[n], e, now)]
        /\ log' = [log EXCEPT ![n] = Append(@, e)]
        /\ state' = [state EXCEPT ![n][e.ref] = e]
        /\ adopted' = adopted \cup {n}
    BY <1>2, <1>5, Zenon
  <2>2. /\ clock'[n] = Heard(clock[n], e, now) /\ log'[n] = Append(log[n], e)
        /\ \A m \in Node \ {n} : /\ clock'[m] = clock[m] /\ log'[m] = log[m]
                                 /\ state'[m] = state[m]
    BY <2>1 DEF TypeOK
  <2>3. EventsOf(Append(log[n], e)) = EventsOf(log[n]) \cup {e}
    BY <1>1, EventsOfAppend DEF TypeOK, e
  <2> QED
    BY <1>1, <1>2, <1>3, <2>1, <2>2, <2>3 DEF e, Ingested
<1> QED
  BY <1>4, <1>5

\* Heal leaves the events of the merge, sorted and each once, and the state after
\* them.
LEMMA HealDoes ==
    ASSUME TypeOK, NEW n \in Node, NEW delta \in deltas, Heal(n, delta)
    PROVE  LET union == Merged(log[n], delta)
           IN /\ union \subseteq EventsOf(log[n]) \cup EventsOf(delta)
              /\ EventsOf(log'[n]) = union /\ IsFiniteSet(union)
              /\ log'[n] \in Seq(Event) /\ Len(log'[n]) = Cardinality(union)
              /\ \A i, j \in DOMAIN log'[n] : log'[n][i] = log'[n][j] => i = j
              /\ Sorted(log'[n])
              /\ state'[n] = Replayed(log'[n]) /\ hearing'[n] = log'[n]
              /\ adopted' = adopted \ {n}
              /\ \A m \in Node \ {n} : /\ log'[m] = log[m] /\ state'[m] = state[m]
                                       /\ hearing'[m] = hearing[m]
              /\ UNCHANGED <<clock, ledger, unwritten, inbox, deltas, made, forgot>>
<1> DEFINE union == Merged(log[n], delta)
<1>1. /\ union \subseteq EventsOf(log[n]) \cup EventsOf(delta)
      /\ union \in SUBSET Event /\ IsFiniteSet(union)
  BY MergedIsUnion, EventsOfType DEF TypeOK
<1>2. PICK s \in [1 .. Cardinality(union) -> union] :
        EventsOf(s) = union /\ Sorted(s) /\ log' = [log EXCEPT ![n] = s]
  BY DEF Heal
<1> HIDE DEF union
<1>3. /\ s \in Seq(Event) /\ Len(s) = Cardinality(union)
      /\ \A i, j \in DOMAIN s : s[i] = s[j] => i = j
  BY <1>1, <1>2, Arranged
<1>4. log'[n] = s /\ \A m \in Node \ {n} : log'[m] = log[m]
  BY <1>2 DEF TypeOK
<1>5. /\ state'[n] = Replayed(s) /\ hearing'[n] = s
      /\ adopted' = adopted \ {n}
      /\ \A m \in Node \ {n} : state'[m] = state[m] /\ hearing'[m] = hearing[m]
      /\ UNCHANGED <<clock, ledger, unwritten, inbox, deltas, made, forgot>>
  BY <1>4 DEF Heal, TypeOK, disk
<1> QED
  BY <1>1, <1>2, <1>3, <1>4, <1>5 DEF union

\* Restart leaves what the file has, and nothing in the middle of a call.
LEMMA RestartDoes ==
    ASSUME TypeOK, NEW n \in Node, Restart(n)
    PROVE  LET restored == ledger[n].records
           IN /\ restored \in Seq(Event)
              /\ log'[n] = restored /\ state'[n] = Replayed(restored) /\ hearing'[n] = restored
              /\ unwritten'[n] = <<>> /\ inbox'[n] = <<>>
              /\ \A m \in Node \ {n} : /\ clock'[m] = clock[m] /\ log'[m] = log[m]
                                       /\ state'[m] = state[m] /\ hearing'[m] = hearing[m]
                                       /\ unwritten'[m] = unwritten[m] /\ inbox'[m] = inbox[m]
              /\ adopted' = adopted \ {n}
              /\ ~forgot' => ~forgot /\ EventsOf(log[n]) \subseteq EventsOf(restored)
              /\ UNCHANGED <<ledger, deltas, made>>
<1> DEFINE restored == ledger[n].records
<1>1. restored \in Seq(Event)
  BY DEF TypeOK, File
<1>2. /\ clock' = [clock EXCEPT ![n] = Epoch]
      /\ log' = [log EXCEPT ![n] = restored]
      /\ state' = [state EXCEPT ![n] = Replayed(restored)]
      /\ unwritten' = [unwritten EXCEPT ![n] = <<>>]
      /\ inbox' = [inbox EXCEPT ![n] = <<>>]
      /\ hearing' = [hearing EXCEPT ![n] = restored]
      /\ adopted' = adopted \ {n}
      /\ forgot' = (forgot \/ ~(EventsOf(log[n]) \subseteq EventsOf(restored)))
      /\ UNCHANGED <<ledger, deltas, made>>
  BY DEF Restart
<1> HIDE DEF restored
<1>3. ~forgot' => ~forgot /\ EventsOf(log[n]) \subseteq EventsOf(restored)
  BY <1>2, Zenon
<1>4. /\ log'[n] = restored /\ state'[n] = Replayed(restored) /\ hearing'[n] = restored
      /\ unwritten'[n] = <<>> /\ inbox'[n] = <<>>
      /\ \A m \in Node \ {n} : /\ clock'[m] = clock[m] /\ log'[m] = log[m]
                               /\ state'[m] = state[m] /\ hearing'[m] = hearing[m]
                               /\ unwritten'[m] = unwritten[m] /\ inbox'[m] = inbox[m]
  BY <1>2 DEF TypeOK
<1> QED
  BY <1>1, <1>2, <1>3, <1>4 DEF restored

-----------------------------------------------------------------------------
(* Clocks and causes, whatever restarts have lost.                         *)

\* A clock has reached every event of its node's log but those that it is about
\* to hear of.
ClocksLead ==
    \A n \in Node : \A e \in EventsOf(log[n]) \ EventsOf(hearing[n]) : Leads(clock[n], e)

\* What a node has, sent, or will take in are events that were recorded; what it
\* has on disk or on its way there are its own.
KnownIsMade ==
    /\ \A n \in Node : EventsOf(log[n]) \cup EventsOf(inbox[n]) \subseteq made
    /\ \A d \in deltas : EventsOf(d) \subseteq made
    /\ \A n \in Node : \A e \in EventsOf(ledger[n].records) \cup EventsOf(unwritten[n]) :
          e \in made /\ e.node = n

\* The next file of a node has no event that was not in it or on its way there.
LEMMA FileEvents ==
    ASSUME TypeOK, NEW n \in Node, Written(n)
    PROVE  /\ EventsOf(ledger'[n].records) \subseteq EventsOf(ledger[n].records) \cup {Head(unwritten[n])}
           /\ EventsOf(unwritten[n]) = {Head(unwritten[n])} \cup EventsOf(unwritten'[n])
<1> DEFINE r == ledger[n].records
<1>1. r \in Seq(Event) /\ Len(r) \in Nat /\ DOMAIN r = 1 .. Len(r)
  BY LenProperties DEF TypeOK, File
<1>2. EventsOf(unwritten[n]) = {Head(unwritten[n])} \cup EventsOf(unwritten'[n])
  BY WrittenDoes, EventsOfTail DEF TypeOK
<1>3. ASSUME NEW k \in 0 .. Len(r)
      PROVE  EventsOf(SubSeq(r, 1, k)) \subseteq EventsOf(r)
  <2>1. \A i \in 1 .. k : r[i] \in EventsOf(r) /\ i \in DOMAIN r
    BY <1>1 DEF EventsOf
  <2>2. /\ Len(SubSeq(r, 1, k)) = k /\ SubSeq(r, 1, k) \in Seq(EventsOf(r))
        /\ \A i \in 1 .. k : SubSeq(r, 1, k)[i] = r[i]
    BY <1>1, <2>1
  <2> QED
    BY <2>1, <2>2 DEF EventsOf
<1>4. EventsOf(Append(r, Head(unwritten[n]))) = EventsOf(r) \cup {Head(unwritten[n])}
  BY <1>1, WrittenDoes, EventsOfAppend
<1>5. \/ \E k \in 0 .. Len(r) : ledger'[n].records = SubSeq(r, 1, k)
      \/ ledger'[n].records = Append(r, Head(unwritten[n]))
  BY WrittenDoes
<1> QED
  BY <1>2, <1>3, <1>4, <1>5

\* Every step keeps clocks ahead.
LEMMA ClocksStep == TypeOK /\ ClocksLead /\ [Next]_vars => ClocksLead'
<1> SUFFICES ASSUME TypeOK, ClocksLead, [Next]_vars,
                    NEW m \in Node, NEW g \in EventsOf(log'[m]) \ EventsOf(hearing'[m])
             PROVE  Leads(clock'[m], g)
  BY DEF ClocksLead
<1>0. TypeOK'
  BY TypeStep
<1> USE DEF ClocksLead
<1>1. ASSUME NEW n \in Node, NEW f \in Ref, NEW now \in Time[n], Record(n, f, now)
      PROVE  Leads(clock'[m], g)
  <2>1. PICK e : Recorded(n, f, e)
    BY <1>1, RecordDoes
  <2>2. /\ EventsOf(log'[n]) = EventsOf(log[n]) \cup {e} /\ Leads(clock'[n], e)
        /\ \A k \in Node \ {n} : clock'[k] = clock[k] /\ log'[k] = log[k]
        /\ hearing' = hearing
    BY <2>1 DEF Recorded
  <2>3. EventsOf(hearing[n]) = {} /\ EventsOf(log[n]) \subseteq Event
    BY <2>1, EventsOfEmpty, EventsOfType DEF Recorded, TypeOK
  <2>4. \A h \in EventsOf(log[n]) : Leads(clock'[n], h)
    BY <2>1, <2>3 DEF Recorded
  <2>5. CASE m = n
    BY <2>2, <2>4, <2>5
  <2>6. CASE m # n
    BY <2>2, <2>6
  <2> QED
    BY <2>5, <2>6
<1>2. ASSUME NEW n \in Node, Written(n) PROVE Leads(clock'[m], g)
  BY <1>2, WrittenDoes
<1>3. ASSUME NEW n \in Node, NEW since, Send(n, since) PROVE Leads(clock'[m], g)
  BY <1>3 DEF Send, memory, calls
<1>4. ASSUME NEW n \in Node, NEW delta \in deltas, Receive(n, delta) PROVE Leads(clock'[m], g)
  BY <1>4 DEF Receive, memory
<1>5. ASSUME NEW n \in Node, NEW now \in Time[n], Ingest(n, now) PROVE Leads(clock'[m], g)
  <2>1. PICK e : Ingested(n, e, now)
    BY <1>5, IngestDoes
  <2>2. CASE m = n /\ ~UNCHANGED <<clock, log, state, adopted>>
    <3>1. /\ clock'[n] = Heard(clock[n], e, now) /\ e \in Event /\ hearing' = hearing
          /\ log'[n] = Append(log[n], e)
      BY <2>1, <2>2 DEF Ingested
    <3>2. EventsOf(log'[n]) = EventsOf(log[n]) \cup {e} /\ EventsOf(log[n]) \subseteq Event
      BY <3>1, EventsOfAppend, EventsOfType DEF TypeOK
    <3>3. clock[n] \in Stamp
      BY DEF TypeOK, Stamp
    <3>4. now \in Nat
      BY MeshAssumption
    <3>5. Leads(clock'[n], e) /\ \A h \in Event : Leads(clock[n], h) => Leads(clock'[n], h)
      BY <3>1, <3>3, <3>4, HeardLeads
    <3> QED
      BY <2>2, <3>1, <3>2, <3>5
  <2>3. CASE m # n \/ UNCHANGED <<clock, log, state, adopted>>
    BY <2>1, <2>3 DEF Ingested
  <2> QED
    BY <2>2, <2>3
<1>6. ASSUME NEW n \in Node, NEW delta \in deltas, Heal(n, delta) PROVE Leads(clock'[m], g)
  BY <1>6, HealDoes
<1>7. ASSUME NEW n \in Node, NEW now \in Time[n], Hear(n, now) PROVE Leads(clock'[m], g)
  <2> DEFINE e == Head(hearing[n])
  <2>1. /\ e \in Event
        /\ EventsOf(hearing[n]) = {e} \cup EventsOf(Tail(hearing[n]))
    BY <1>7, EventsOfTail DEF Hear, TypeOK
  <2>2. /\ log' = log /\ clock'[n] = Heard(clock[n], e, now) /\ hearing'[n] = Tail(hearing[n])
        /\ \A k \in Node \ {n} : clock'[k] = clock[k] /\ hearing'[k] = hearing[k]
    BY <1>7 DEF Hear, TypeOK
  <2>3. clock[n] \in Stamp /\ EventsOf(log[n]) \subseteq Event
    BY EventsOfType DEF TypeOK, Stamp
  <2> HIDE DEF e
  <2>4. CASE m = n
    <3>1. g \in Event /\ (g = e \/ Leads(clock[n], g))
      BY <2>1, <2>2, <2>3, <2>4
    <3> QED
      BY <2>1, <2>2, <2>3, <2>4, <3>1, HeardLeads
  <2>5. CASE m # n
    BY <2>2, <2>5
  <2> QED
    BY <2>4, <2>5
<1>8. ASSUME NEW n \in Node, Restart(n) PROVE Leads(clock'[m], g)
  BY <1>8, RestartDoes
<1>9. CASE UNCHANGED vars
  BY <1>9 DEF vars, memory, calls
<1> QED
  BY <1>1, <1>2, <1>3, <1>4, <1>5, <1>6, <1>7, <1>8, <1>9 DEF Next

\* Every step keeps to recorded events.
LEMMA KnownStep == TypeOK /\ KnownIsMade /\ [Next]_vars => KnownIsMade'
<1> SUFFICES ASSUME TypeOK, KnownIsMade, [Next]_vars PROVE KnownIsMade'
  OBVIOUS
<1> USE DEF KnownIsMade
<1>1. ASSUME NEW n \in Node, NEW f \in Ref, NEW now \in Time[n], Record(n, f, now)
      PROVE  KnownIsMade'
  <2>1. PICK e : Recorded(n, f, e)
    BY <1>1, RecordDoes
  <2>2. /\ EventsOf(log'[n]) = EventsOf(log[n]) \cup {e}
        /\ EventsOf(unwritten'[n]) \subseteq EventsOf(unwritten[n]) \cup {e}
        /\ \A m \in Node \ {n} : log'[m] = log[m] /\ unwritten'[m] = unwritten[m]
        /\ made' = made \cup {e} /\ e.node = n
        /\ UNCHANGED <<ledger, inbox, deltas>>
    BY <2>1 DEF Recorded
  <2>3. \A m \in Node : EventsOf(log'[m]) \cup EventsOf(inbox'[m]) \subseteq made'
    BY <2>2
  <2>4. \A m \in Node : \A g \in EventsOf(ledger'[m].records) \cup EventsOf(unwritten'[m]) :
          g \in made' /\ g.node = m
    BY <2>2
  <2> QED
    BY <2>2, <2>3, <2>4
<1>2. ASSUME NEW n \in Node, Written(n) PROVE KnownIsMade'
  BY <1>2, WrittenDoes, FileEvents
<1>3. ASSUME NEW n \in Node, NEW since, Send(n, since) PROVE KnownIsMade'
  <2>1. PICK place \in [1 .. Cardinality(Since(n, since)) -> Since(n, since)] :
          deltas' = deltas \cup {[k \in DOMAIN place |-> log[n][place[k]]]}
    BY <1>3 DEF Send
  <2>2. EventsOf([k \in DOMAIN place |-> log[n][place[k]]]) \subseteq EventsOf(log[n])
    BY DEF EventsOf, Since
  <2>3. UNCHANGED <<log, inbox, ledger, unwritten, made>>
    BY <1>3 DEF Send, memory, disk, calls, history
  <2> QED
    BY <2>1, <2>2, <2>3
<1>4. ASSUME NEW n \in Node, NEW delta \in deltas, Receive(n, delta) PROVE KnownIsMade'
  BY <1>4 DEF Receive, memory, disk, history, TypeOK
<1>5. ASSUME NEW n \in Node, NEW now \in Time[n], Ingest(n, now) PROVE KnownIsMade'
  <2>1. PICK e : Ingested(n, e, now)
    BY <1>5, IngestDoes
  <2>2. EventsOf(log'[n]) \subseteq EventsOf(log[n]) \cup {e}
    BY <2>1 DEF Ingested
  <2> QED
    BY <2>1, <2>2 DEF Ingested
<1>6. ASSUME NEW n \in Node, NEW delta \in deltas, Heal(n, delta) PROVE KnownIsMade'
  <2>1. /\ EventsOf(log'[n]) \subseteq EventsOf(log[n]) \cup EventsOf(delta)
        /\ \A m \in Node \ {n} : log'[m] = log[m]
        /\ UNCHANGED <<ledger, unwritten, inbox, deltas, made>>
    BY <1>6, HealDoes
  <2> QED
    BY <2>1
<1>7. ASSUME NEW n \in Node, NEW now \in Time[n], Hear(n, now) PROVE KnownIsMade'
  BY <1>7 DEF Hear, disk, history
<1>8. ASSUME NEW n \in Node, Restart(n) PROVE KnownIsMade'
  BY <1>8, RestartDoes, EventsOfEmpty
<1>9. CASE UNCHANGED vars
  BY <1>9 DEF vars, memory, disk, calls, history
<1> QED
  BY <1>1, <1>2, <1>3, <1>4, <1>5, <1>6, <1>7, <1>8, <1>9 DEF Next

-----------------------------------------------------------------------------
(* Ids, logs and states, until a restart has lost events.                  *)

Ordered(s) == \A i, j \in DOMAIN s : i < j => Before(s[i], s[j])

\* x is the last of the events of S on ref f.
Latest(x, S, f) ==
    \/ x = None /\ \A g \in S : g.ref # f
    \/ x \in S /\ x.ref = f /\ \A g \in S : g.ref = f => ~Precedes(x, g)

\* A node has all events it recorded, at or after the place they are numbered by.
OwnIsLogged == \A e \in made : e \in EventsOf(log[e.node]) /\ e.number <= Len(log[e.node])

IdsDiffer == \A e, g \in made : Id(e) = Id(g) => e = g

StampsDiffer == \A e, g \in made : e.node = g.node /\ e # g => Before(e, g) \/ Before(g, e)

LogsAreSets == \A n \in Node : \A i, j \in DOMAIN log[n] : log[n][i] = log[n][j] => i = j

FilesInOrder ==
    \A n \in Node :
        /\ Ordered(ledger[n].records) /\ Ordered(unwritten[n])
        /\ \A e \in EventsOf(ledger[n].records), g \in EventsOf(unwritten[n]) : Before(e, g)

StateIsLatest ==
    \A n \in Node \ adopted : \A f \in Ref : Latest(state[n][f], EventsOf(log[n]), f)

HistoryInv ==
    ~forgot => /\ OwnIsLogged /\ IdsDiffer /\ StampsDiffer
               /\ LogsAreSets /\ FilesInOrder /\ StateIsLatest

MeshInv == TypeOK /\ ClocksLead /\ KnownIsMade /\ HistoryInv

\* Applying a sorted log leaves the latest event of each ref.
LEMMA SortedReplay ==
    ASSUME NEW s \in Seq(Event), Sorted(s), NEW f \in Ref
    PROVE  Latest(Replayed(s)[f], EventsOf(s), f)
<1>1. DOMAIN s \subseteq Nat /\ DOMAIN s = 1 .. Len(s) /\ Len(s) \in Nat
  BY LenProperties
<1> DEFINE T == {i \in DOMAIN s : s[i].ref = f}
<1>2. CASE T = {}
  <2>1. Replayed(s)[f] = None
    BY <1>2 DEF Replayed
  <2> QED
    BY <1>2, <2>1 DEF Latest, EventsOf
<1>3. CASE T # {}
  <2>1. \E i \in T : \A j \in T : j <= i
    BY <1>1, <1>3, LastPlace
  <2>2. \E i \in DOMAIN s : s[i].ref = f /\ \A j \in DOMAIN s : s[j].ref = f => j <= i
    BY <2>1
  <2>3. PICK i \in DOMAIN s :
          /\ Replayed(s)[f] = s[i] /\ s[i].ref = f
          /\ \A j \in DOMAIN s : s[j].ref = f => j <= i
    BY <1>3, <2>2 DEF Replayed
  <2>4. ASSUME NEW j \in DOMAIN s, s[j].ref = f
        PROVE  ~Precedes(s[i], s[j])
    <3>1. s[i] \in Event
      BY <1>1, ElementOfSeq
    <3>2. CASE j = i
      <4>1. \A x \in Event : x.wall \in Nat /\ x.counter \in Nat /\ x.node \in Nat
        BY DEF Event
      <4>2. \A x \in Event : ~Precedes(x, x)
        BY <4>1 DEF Precedes, Before
      <4> QED
        BY <3>1, <3>2, <4>2
    <3>3. CASE j # i
      <4>1. j < i
        BY <1>1, <2>3, <2>4, <3>3
      <4> QED
        BY <4>1 DEF Sorted
    <3> QED
      BY <3>2, <3>3
  <2> QED
    BY <2>3, <2>4 DEF Latest, EventsOf
<1> QED
  BY <1>2, <1>3

\* Events in order of their stamps are sorted, and none is there twice.
LEMMA OrderedIsSorted ==
    ASSUME NEW s \in Seq(Event), Ordered(s)
    PROVE  Sorted(s) /\ \A i, j \in DOMAIN s : s[i] = s[j] => i = j
<1>1. DOMAIN s = 1 .. Len(s) /\ Len(s) \in Nat /\ \A i \in DOMAIN s : s[i] \in Event
  BY LenProperties, ElementOfSeq
<1>2. ASSUME NEW i \in DOMAIN s, NEW j \in DOMAIN s, i < j
      PROVE  ~Precedes(s[j], s[i]) /\ s[i] # s[j]
  <2>1. Before(s[i], s[j]) /\ s[i] \in Event /\ s[j] \in Event
    BY <1>1, <1>2 DEF Ordered
  <2> QED
    BY <2>1 DEF Precedes, Before, Event
<1> QED
  BY <1>1, <1>2 DEF Sorted

\* Taking delta in by a heal gives the union.
LEMMA HealUnites ==
    ASSUME TypeOK, KnownIsMade, IdsDiffer, NEW n \in Node, NEW delta \in deltas, Heal(n, delta)
    PROVE  /\ EventsOf(log'[n]) = EventsOf(log[n]) \cup EventsOf(delta)
           /\ IsFiniteSet(EventsOf(log'[n])) /\ Len(log'[n]) = Cardinality(EventsOf(log'[n]))
<1>1. EventsOf(log[n]) \cup EventsOf(delta) \subseteq made
  BY DEF KnownIsMade
<1>2. log[n] \in Seq(Event) /\ delta \in Seq(Event)
  BY DEF TypeOK
<1>3. Merged(log[n], delta) = EventsOf(log[n]) \cup EventsOf(delta)
  BY <1>1, <1>2, MergedIsUnion DEF IdsDiffer
<1> QED
  BY <1>3, HealDoes

\* While nothing is lost, logs only grow.
LEMMA LogsGrow ==
    ASSUME MeshInv, [Next]_vars, ~forgot'
    PROVE  /\ ~forgot
           /\ \A n \in Node : /\ EventsOf(log[n]) \subseteq EventsOf(log'[n])
                              /\ Len(log[n]) <= Len(log'[n])
<1> SUFFICES ASSUME NEW m \in Node
             PROVE  /\ ~forgot /\ EventsOf(log[m]) \subseteq EventsOf(log'[m])
                    /\ Len(log[m]) <= Len(log'[m])
  <2>1. CASE Node = {}
    BY <2>1 DEF Next, vars, history
  <2> QED
    BY <2>1
<1>0. /\ TypeOK /\ KnownIsMade /\ (~forgot => IdsDiffer /\ LogsAreSets)
      /\ log[m] \in Seq(Event) /\ Len(log[m]) \in Nat
  BY LenProperties DEF MeshInv, HistoryInv, TypeOK
<1> DEFINE Grows == /\ ~forgot /\ EventsOf(log[m]) \subseteq EventsOf(log'[m])
                    /\ Len(log[m]) <= Len(log'[m])
<1>a. ~forgot /\ log'[m] = log[m] => Grows
  BY <1>0
<1>b. ASSUME NEW e \in Event, ~forgot, log'[m] = Append(log[m], e)
      PROVE  Grows
  <2>1. EventsOf(log[m]) \subseteq EventsOf(log'[m])
    BY <1>0, <1>b, EventsOfAppend
  <2>2. Len(log'[m]) = Len(log[m]) + 1
    BY <1>0, <1>b, AppendProperties
  <2> QED
    BY <1>0, <1>b, <2>1, <2>2
<1>1. ASSUME NEW n \in Node, NEW f \in Ref, NEW now \in Time[n], Record(n, f, now) PROVE Grows
  <2>1. PICK e : Recorded(n, f, e)
    BY <1>0, <1>1, RecordDoes
  <2>2. /\ e \in Event /\ forgot' = forgot /\ log'[n] = Append(log[n], e)
        /\ \A k \in Node \ {n} : log'[k] = log[k]
    BY <2>1 DEF Recorded
  <2> QED
    BY <1>a, <1>b, <2>2
<1>2. ASSUME NEW n \in Node, Written(n) PROVE Grows
  BY <1>0, <1>2, <1>a, WrittenDoes
<1>3. ASSUME NEW n \in Node, NEW since, Send(n, since) PROVE Grows
  BY <1>3, <1>a DEF Send, memory, history
<1>4. ASSUME NEW n \in Node, NEW delta \in deltas, Receive(n, delta) PROVE Grows
  BY <1>4, <1>a DEF Receive, memory, history
<1>5. ASSUME NEW n \in Node, NEW now \in Time[n], Ingest(n, now) PROVE Grows
  <2>1. PICK e : Ingested(n, e, now)
    BY <1>0, <1>5, IngestDoes
  <2>2. /\ e \in Event /\ forgot' = forgot
        /\ log'[n] = log[n] \/ log'[n] = Append(log[n], e)
        /\ \A k \in Node \ {n} : log'[k] = log[k]
    BY <2>1 DEF Ingested
  <2> QED
    BY <1>a, <1>b, <2>2
<1>6. ASSUME NEW n \in Node, NEW delta \in deltas, Heal(n, delta) PROVE Grows
  <2>1. ~forgot /\ \A k \in Node \ {n} : log'[k] = log[k]
    BY <1>0, <1>6, HealDoes
  <2>2. /\ EventsOf(log'[n]) = EventsOf(log[n]) \cup EventsOf(delta)
        /\ IsFiniteSet(EventsOf(log'[n])) /\ Len(log'[n]) = Cardinality(EventsOf(log'[n]))
    BY <1>0, <1>6, <2>1, HealUnites
  <2>3. CASE m = n
    <3>1. \A i, j \in DOMAIN log[m] : log[m][i] = log[m][j] => i = j
      BY <1>0, <2>1 DEF LogsAreSets
    <3>2. EventsOf(log[m]) \subseteq EventsOf(log'[m])
      BY <2>2, <2>3
    <3>3. Len(log[m]) <= Cardinality(EventsOf(log'[m]))
      BY <1>0, <2>2, <2>3, <3>1, <3>2, LengthBound
    <3> QED
      BY <2>1, <2>2, <2>3, <3>2, <3>3
  <2>4. CASE m # n
    BY <2>1, <2>4, <1>a
  <2> QED
    BY <2>3, <2>4
<1>7. ASSUME NEW n \in Node, NEW now \in Time[n], Hear(n, now) PROVE Grows
  BY <1>7, <1>a DEF Hear, history
<1>8. ASSUME NEW n \in Node, Restart(n) PROVE Grows
  <2> DEFINE r == ledger[n].records
  <2>1. /\ r \in Seq(Event) /\ log'[n] = r /\ \A k \in Node \ {n} : log'[k] = log[k]
        /\ ~forgot /\ EventsOf(log[n]) \subseteq EventsOf(r)
    BY <1>0, <1>8, RestartDoes
  <2> HIDE DEF r
  <2>2. CASE m = n
    <3>1. \A i, j \in DOMAIN log[m] : log[m][i] = log[m][j] => i = j
      BY <1>0, <2>1 DEF LogsAreSets
    <3>2. IsFiniteSet(EventsOf(r)) /\ Cardinality(EventsOf(r)) <= Len(r)
      BY <2>1, EventsOfType
    <3>3. Len(log[m]) <= Cardinality(EventsOf(r))
      BY <1>0, <2>1, <2>2, <3>1, <3>2, LengthBound
    <3>4. Cardinality(EventsOf(r)) \in Nat /\ Len(r) \in Nat
      BY <2>1, <3>2, FS_CardinalityType, LenProperties
    <3> QED
      BY <1>0, <2>1, <2>2, <3>2, <3>3, <3>4
  <2>3. CASE m # n
    BY <2>1, <2>3, <1>a
  <2> QED
    BY <2>2, <2>3
<1>9. CASE UNCHANGED vars
  BY <1>9, <1>a DEF vars, memory, history
<1> QED
  BY <1>1, <1>2, <1>3, <1>4, <1>5, <1>6, <1>7, <1>8, <1>9 DEF Next

\* A step makes at most one event, on one node.
LEMMA MadeStep ==
    ASSUME TypeOK, [Next]_vars
    PROVE  \/ made' = made
           \/ \E n \in Node, f \in Ref, e \in Event : Recorded(n, f, e)
<1>1. ASSUME NEW n \in Node, NEW f \in Ref, NEW now \in Time[n], Record(n, f, now)
      PROVE  \E k \in Node, h \in Ref, e \in Event : Recorded(k, h, e)
  BY <1>1, RecordDoes, MadeType
<1>2. ASSUME NEW n \in Node, Written(n) \/ Restart(n) PROVE made' = made
  BY <1>2 DEF Written, Restart, history
<1>3. ASSUME NEW n \in Node, NEW since, Send(n, since) PROVE made' = made
  BY <1>3 DEF Send, history
<1>4. ASSUME NEW n \in Node, NEW delta, Receive(n, delta) \/ Heal(n, delta) PROVE made' = made
  BY <1>4 DEF Receive, Heal, history
<1>5. ASSUME NEW n \in Node, NEW now, Ingest(n, now) \/ Hear(n, now) PROVE made' = made
  BY <1>5 DEF Ingest, Hear, history
<1>6. CASE UNCHANGED vars
  BY <1>6 DEF vars, history
<1> QED
  BY <1>1, <1>2, <1>3, <1>4, <1>5, <1>6 DEF Next

\* A new event has a number above those of its node's other events, and a stamp
\* after theirs.
LEMMA NewIsLast ==
    ASSUME MeshInv, ~forgot, NEW n \in Node, NEW f \in Ref, NEW e, Recorded(n, f, e)
    PROVE  /\ \A g \in EventsOf(log[n]) : Before(g, e)
           /\ \A g \in made : g.node = n => g.number < e.number /\ Before(g, e)
<1>1. /\ OwnIsLogged /\ made \subseteq Event /\ Len(log[n]) \in Nat
      /\ EventsOf(log[n]) \subseteq Event
  BY LenProperties, EventsOfType DEF MeshInv, HistoryInv, TypeOK
<1>2. /\ hearing[n] = <<>> /\ e.number = Len(log[n]) + 1
      /\ \A g \in Event : Leads(clock[n], g) => Before(g, e)
  BY DEF Recorded
<1>3. \A g \in EventsOf(log[n]) : Before(g, e)
  BY <1>1, <1>2, EventsOfEmpty DEF MeshInv, ClocksLead
<1>4. ASSUME NEW g \in made, g.node = n
      PROVE  g.number < e.number /\ Before(g, e)
  <2>1. g \in EventsOf(log[n]) /\ g.number <= Len(log[n]) /\ g.number \in Nat
    BY <1>1, <1>4 DEF OwnIsLogged, Event
  <2> QED
    BY <1>1, <1>2, <1>3, <2>1
<1> QED
  BY <1>3, <1>4

\* A node keeps having its own events, which can be told apart by number and by
\* stamp.
LEMMA OwnStep ==
    ASSUME MeshInv, [Next]_vars, ~forgot'
    PROVE  OwnIsLogged' /\ IdsDiffer' /\ StampsDiffer'
<1>1. ~forgot /\ OwnIsLogged /\ IdsDiffer /\ StampsDiffer /\ TypeOK
  BY LogsGrow DEF MeshInv, HistoryInv
<1>2. \A n \in Node : /\ EventsOf(log[n]) \subseteq EventsOf(log'[n])
                      /\ Len(log[n]) <= Len(log'[n])
                      /\ Len(log[n]) \in Nat /\ Len(log'[n]) \in Nat
  BY <1>1, LogsGrow, TypeStep, LenProperties DEF TypeOK
<1>3. \A g \in made : g.number \in Nat /\ g.node \in Node
  BY <1>1 DEF TypeOK, Event
<1>4. ASSUME NEW g \in made
      PROVE  g \in EventsOf(log'[g.node]) /\ g.number <= Len(log'[g.node])
  <2>1. g \in EventsOf(log[g.node]) /\ g.number <= Len(log[g.node])
    BY <1>1 DEF OwnIsLogged
  <2> DEFINE n == g.node
  <2>2. /\ n \in Node /\ g.number \in Nat
    BY <1>3
  <2>3. /\ EventsOf(log[n]) \subseteq EventsOf(log'[n])
        /\ Len(log[n]) <= Len(log'[n]) /\ Len(log[n]) \in Nat /\ Len(log'[n]) \in Nat
    BY <1>2, <2>2
  <2>4. g.number <= Len(log'[n])
    BY <2>1, <2>2, <2>3
  <2> QED
    BY <2>1, <2>3, <2>4
<1>5. CASE made' = made
  BY <1>1, <1>4, <1>5 DEF OwnIsLogged, IdsDiffer, StampsDiffer
<1>6. ASSUME NEW n \in Node, NEW f \in Ref, NEW e \in Event, Recorded(n, f, e)
      PROVE  OwnIsLogged' /\ IdsDiffer' /\ StampsDiffer'
  <2>1. /\ made' = made \cup {e} /\ e.node = n /\ e.number = Len(log[n]) + 1
        /\ log'[n] = Append(log[n], e) /\ EventsOf(log'[n]) = EventsOf(log[n]) \cup {e}
    BY <1>6 DEF Recorded
  <2>2. \A g \in made : g.node = n => g.number < e.number /\ Before(g, e)
    BY <1>1, <1>6, NewIsLast
  <2>3. Len(log'[n]) = Len(log[n]) + 1
    BY <1>1, <2>1, AppendProperties DEF TypeOK
  <2>4. OwnIsLogged'
    <3>1. e \in EventsOf(log'[n]) /\ e.number <= Len(log'[n])
      BY <1>2, <2>1, <2>3
    <3> QED
      BY <1>4, <2>1, <3>1 DEF OwnIsLogged
  <2>5. IdsDiffer'
    <3>1. \A g \in made : Id(g) # Id(e)
      BY <1>3, <2>1, <2>2 DEF Id, Event
    <3> QED
      BY <1>1, <2>1, <3>1 DEF IdsDiffer
  <2>6. StampsDiffer'
    BY <1>1, <2>1, <2>2 DEF StampsDiffer
  <2> QED
    BY <2>4, <2>5, <2>6
<1> QED
  BY <1>1, <1>5, <1>6, MadeStep

\* An event that a log does not have may be appended to it.
LEMMA AppendIsSet ==
    ASSUME NEW s \in Seq(Event), NEW e \in Event, e \notin EventsOf(s),
           \A i, j \in DOMAIN s : s[i] = s[j] => i = j
    PROVE  LET t == Append(s, e) IN \A i, j \in DOMAIN t : t[i] = t[j] => i = j
<1> DEFINE t == Append(s, e)
<1>1. /\ DOMAIN t = 1 .. Len(s) + 1 /\ DOMAIN s = 1 .. Len(s) /\ Len(s) \in Nat
      /\ \A i \in DOMAIN s : t[i] = s[i] /\ t[i] # e
      /\ t[Len(s) + 1] = e
  BY AppendProperties, LenProperties DEF EventsOf
<1>2. \A i \in DOMAIN t : i \in DOMAIN s \/ i = Len(s) + 1
  BY <1>1
<1> HIDE DEF t
<1>3. \A i, j \in DOMAIN t : t[i] = t[j] => i = j
  BY <1>1, <1>2
<1> QED
  BY <1>3 DEF t

\* No step puts an event into a log that has it.
LEMMA SetsStep ==
    ASSUME MeshInv, [Next]_vars, ~forgot'
    PROVE  LogsAreSets'
<1> SUFFICES ASSUME NEW m \in Node
             PROVE  \A i, j \in DOMAIN log'[m] : log'[m][i] = log'[m][j] => i = j
  BY DEF LogsAreSets
<1> DEFINE Set == \A i, j \in DOMAIN log'[m] : log'[m][i] = log'[m][j] => i = j
<1>0. /\ TypeOK /\ ~forgot /\ LogsAreSets /\ FilesInOrder /\ log[m] \in Seq(Event)
      /\ KnownIsMade /\ IdsDiffer
  BY LogsGrow DEF MeshInv, HistoryInv, TypeOK
<1>a. log'[m] = log[m] => Set
  BY <1>0 DEF LogsAreSets
<1>b. ASSUME NEW e \in Event, e \notin EventsOf(log[m]), log'[m] = Append(log[m], e)
      PROVE  Set
  BY <1>0, <1>b, AppendIsSet DEF LogsAreSets
<1> HIDE DEF Set
<1>1. ASSUME NEW n \in Node, NEW f \in Ref, NEW now \in Time[n], Record(n, f, now) PROVE Set
  <2>1. PICK e : Recorded(n, f, e)
    BY <1>0, <1>1, RecordDoes
  <2>2. /\ e \in Event /\ log'[n] = Append(log[n], e)
        /\ \A k \in Node \ {n} : log'[k] = log[k]
    BY <2>1 DEF Recorded
  <2>3. e \notin EventsOf(log[n])
    <3>1. \A g \in EventsOf(log[n]) : Before(g, e)
      BY <1>0, <2>1, NewIsLast
    <3>2. ~Before(e, e)
      BY <2>2 DEF Before, Event
    <3> QED
      BY <3>1, <3>2
  <2> QED
    BY <1>a, <1>b, <2>2, <2>3
<1>2. ASSUME NEW n \in Node, Written(n) PROVE Set
  BY <1>0, <1>2, <1>a, WrittenDoes
<1>3. ASSUME NEW n \in Node, NEW since, Send(n, since) PROVE Set
  BY <1>3, <1>a DEF Send, memory
<1>4. ASSUME NEW n \in Node, NEW delta \in deltas, Receive(n, delta) PROVE Set
  BY <1>4, <1>a DEF Receive, memory
<1>5. ASSUME NEW n \in Node, NEW now \in Time[n], Ingest(n, now) PROVE Set
  <2>1. PICK e : Ingested(n, e, now)
    BY <1>0, <1>5, IngestDoes
  <2>2. /\ e \in Event
        /\ log'[n] = log[n] \/ (~Known(n, e) /\ log'[n] = Append(log[n], e))
        /\ \A k \in Node \ {n} : log'[k] = log[k]
    BY <2>1 DEF Ingested
  <2>3. ~Known(n, e) => e \notin EventsOf(log[n])
    BY DEF Known
  <2> QED
    BY <1>a, <1>b, <2>2, <2>3
<1>6. ASSUME NEW n \in Node, NEW delta \in deltas, Heal(n, delta) PROVE Set
  BY <1>0, <1>6, <1>a, HealDoes DEF Set
<1>7. ASSUME NEW n \in Node, NEW now \in Time[n], Hear(n, now) PROVE Set
  BY <1>7, <1>a DEF Hear
<1>8. ASSUME NEW n \in Node, Restart(n) PROVE Set
  <2> DEFINE r == ledger[n].records
  <2>1. r \in Seq(Event) /\ log'[n] = r /\ \A k \in Node \ {n} : log'[k] = log[k]
    BY <1>0, <1>8, RestartDoes
  <2>2. \A i, j \in DOMAIN r : r[i] = r[j] => i = j
    BY <1>0, <2>1, OrderedIsSorted DEF FilesInOrder
  <2> HIDE DEF r
  <2> QED
    BY <1>a, <2>1, <2>2 DEF Set
<1>9. CASE UNCHANGED vars
  BY <1>9, <1>a DEF vars, memory, Set
<1> QED
  BY <1>1, <1>2, <1>3, <1>4, <1>5, <1>6, <1>7, <1>8, <1>9 DEF Next, Set

\* Order is kept by what is done to files and to what is on its way there.
LEMMA OrderedParts ==
    ASSUME NEW s \in Seq(Event), Ordered(s)
    PROVE  /\ \A e \in Event : (\A g \in EventsOf(s) : Before(g, e)) => Ordered(Append(s, e))
           /\ \A k \in 0 .. Len(s) : Ordered(SubSeq(s, 1, k))
           /\ s # <<>> => /\ Ordered(Tail(s))
                         /\ \A g \in EventsOf(Tail(s)) : Before(Head(s), g)
<1>1. DOMAIN s = 1 .. Len(s) /\ Len(s) \in Nat
  BY LenProperties
<1>2. ASSUME NEW e \in Event, \A g \in EventsOf(s) : Before(g, e)
      PROVE  Ordered(Append(s, e))
  <2> DEFINE t == Append(s, e)
  <2>1. /\ DOMAIN t = 1 .. Len(s) + 1
        /\ \A i \in DOMAIN s : t[i] = s[i] /\ Before(s[i], e)
        /\ t[Len(s) + 1] = e
    BY <1>1, <1>2, AppendProperties, LenProperties DEF EventsOf
  <2> HIDE DEF t
  <2>2. ASSUME NEW i \in DOMAIN t, NEW j \in DOMAIN t, i < j
        PROVE  Before(t[i], t[j])
    <3>1. i \in DOMAIN s /\ (j \in DOMAIN s \/ j = Len(s) + 1)
      BY <1>1, <2>1, <2>2
    <3> QED
      BY <2>1, <2>2, <3>1 DEF Ordered
  <2>3. Ordered(t)
    BY <2>2 DEF Ordered
  <2> QED
    BY <2>3 DEF t
<1>3. ASSUME NEW k \in 0 .. Len(s)
      PROVE  Ordered(SubSeq(s, 1, k))
  <2>1. /\ DOMAIN SubSeq(s, 1, k) = 1 .. k /\ 1 .. k \subseteq DOMAIN s
        /\ \A i \in 1 .. k : SubSeq(s, 1, k)[i] = s[i]
    BY <1>1
  <2> QED
    BY <2>1 DEF Ordered
<1>4. ASSUME s # <<>>
      PROVE  Ordered(Tail(s)) /\ \A g \in EventsOf(Tail(s)) : Before(Head(s), g)
  <2>1. /\ Head(s) = s[1] /\ Len(s) # 0
        /\ DOMAIN Tail(s) = 1 .. Len(s) - 1
        /\ \A i \in DOMAIN Tail(s) : Tail(s)[i] = s[i + 1]
    BY <1>1, <1>4, HeadTailProperties, EmptySeq, LenProperties
  <2>2. \A i \in DOMAIN Tail(s) : i + 1 \in DOMAIN s /\ 1 \in DOMAIN s /\ 1 < i + 1
    BY <1>1, <2>1
  <2>3. \A i \in DOMAIN Tail(s) : Before(s[1], Tail(s)[i])
    BY <2>1, <2>2 DEF Ordered
  <2>4. ASSUME NEW i \in DOMAIN Tail(s), NEW j \in DOMAIN Tail(s), i < j
        PROVE  Before(Tail(s)[i], Tail(s)[j])
    <3>1. i + 1 < j + 1
      BY <2>1, <2>4
    <3> QED
      BY <2>1, <2>2, <3>1 DEF Ordered
  <2> QED
    BY <2>1, <2>3, <2>4 DEF Ordered, EventsOf
<1> QED
  BY <1>2, <1>3, <1>4

\* Files, and what is on its way to them, stay in order of stamps.
LEMMA FilesStep ==
    ASSUME MeshInv, [Next]_vars, ~forgot'
    PROVE  FilesInOrder'
<1> SUFFICES ASSUME NEW m \in Node
             PROVE  /\ Ordered(ledger'[m].records) /\ Ordered(unwritten'[m])
                    /\ \A e \in EventsOf(ledger'[m].records), g \in EventsOf(unwritten'[m]) :
                          Before(e, g)
  BY DEF FilesInOrder
<1> DEFINE File1 == /\ Ordered(ledger'[m].records) /\ Ordered(unwritten'[m])
                    /\ \A e \in EventsOf(ledger'[m].records), g \in EventsOf(unwritten'[m]) :
                          Before(e, g)
<1>0. TypeOK /\ ~forgot /\ FilesInOrder /\ KnownIsMade
  BY LogsGrow DEF MeshInv, HistoryInv
<1>a. ledger'[m] = ledger[m] /\ unwritten'[m] = unwritten[m] => File1
  BY <1>0 DEF FilesInOrder
<1>t. /\ ledger[m].records \in Seq(Event) /\ unwritten[m] \in Seq(Event)
      /\ Ordered(ledger[m].records) /\ Ordered(unwritten[m])
      /\ \A e \in EventsOf(ledger[m].records), g \in EventsOf(unwritten[m]) : Before(e, g)
  BY <1>0 DEF FilesInOrder, TypeOK, File
<1> HIDE DEF File1
<1>1. ASSUME NEW n \in Node, NEW f \in Ref, NEW now \in Time[n], Record(n, f, now) PROVE File1
  <2>1. PICK e : Recorded(n, f, e)
    BY <1>0, <1>1, RecordDoes
  <2>2. /\ e \in Event /\ ledger' = ledger
        /\ \/ /\ unwritten'[n] = Append(unwritten[n], e)
              /\ EventsOf(unwritten'[n]) = EventsOf(unwritten[n]) \cup {e}
           \/ unwritten'[n] = unwritten[n]
        /\ \A k \in Node \ {n} : unwritten'[k] = unwritten[k]
    BY <2>1 DEF Recorded
  <2>3. CASE m = n /\ unwritten'[n] # unwritten[n]
    <3>1. \A g \in EventsOf(ledger[m].records) \cup EventsOf(unwritten[m]) : Before(g, e)
      BY <1>0, <2>1, <2>3, NewIsLast DEF KnownIsMade
    <3>2. Ordered(unwritten'[m])
      BY <1>t, <2>2, <2>3, <3>1, OrderedParts
    <3> QED
      BY <1>t, <2>2, <2>3, <3>1, <3>2 DEF File1
  <2>4. CASE m # n \/ unwritten'[n] = unwritten[n]
    BY <1>a, <2>2, <2>4
  <2> QED
    BY <2>3, <2>4
<1>2. ASSUME NEW n \in Node, Written(n) PROVE File1
  <2>1. CASE m = n
    <3> DEFINE r == ledger[m].records
               u == unwritten[m]
    <3>1. /\ u # <<>> /\ unwritten'[m] = Tail(u) /\ Head(u) \in Event
          /\ \/ \E k \in 0 .. Len(r) : ledger'[m].records = SubSeq(r, 1, k)
             \/ ledger'[m].records = Append(r, Head(u))
      BY <1>0, <1>2, <2>1, WrittenDoes
    <3>2. /\ EventsOf(ledger'[m].records) \subseteq EventsOf(r) \cup {Head(u)}
          /\ EventsOf(u) = {Head(u)} \cup EventsOf(unwritten'[m])
      BY <1>0, <1>2, <2>1, FileEvents
    <3> HIDE DEF r, u
    <3>3. r \in Seq(Event) /\ u \in Seq(Event) /\ Ordered(r) /\ Ordered(u)
      BY <1>t DEF r, u
    <3>4. \A e \in EventsOf(r), g \in EventsOf(u) : Before(e, g)
      BY <1>t DEF r, u
    <3>5. Ordered(Tail(u)) /\ \A g \in EventsOf(Tail(u)) : Before(Head(u), g)
      BY <3>1, <3>3, OrderedParts
    <3>6. Ordered(Append(r, Head(u))) /\ \A k \in 0 .. Len(r) : Ordered(SubSeq(r, 1, k))
      BY <3>1, <3>2, <3>3, <3>4, OrderedParts
    <3>7. Ordered(ledger'[m].records)
      BY <3>1, <3>6
    <3> QED
      BY <3>1, <3>2, <3>4, <3>5, <3>7 DEF File1
  <2>2. CASE m # n
    BY <1>0, <1>2, <1>a, <2>2, WrittenDoes
  <2> QED
    BY <2>1, <2>2
<1>3. ASSUME NEW n \in Node, NEW since, Send(n, since) PROVE File1
  BY <1>3, <1>a DEF Send, disk
<1>4. ASSUME NEW n \in Node, NEW delta \in deltas, Receive(n, delta) PROVE File1
  BY <1>4, <1>a DEF Receive, disk
<1>5. ASSUME NEW n \in Node, NEW now \in Time[n], Ingest(n, now) PROVE File1
  BY <1>5, <1>a DEF Ingest, disk
<1>6. ASSUME NEW n \in Node, NEW delta \in deltas, Heal(n, delta) PROVE File1
  BY <1>6, <1>a DEF Heal, disk
<1>7. ASSUME NEW n \in Node, NEW now \in Time[n], Hear(n, now) PROVE File1
  BY <1>7, <1>a DEF Hear, disk
<1>8. ASSUME NEW n \in Node, Restart(n) PROVE File1
  <2>1. /\ ledger' = ledger /\ unwritten'[n] = <<>>
        /\ \A k \in Node \ {n} : unwritten'[k] = unwritten[k]
    BY <1>0, <1>8, RestartDoes
  <2>2. Ordered(<<>>)
    BY DEF Ordered
  <2>3. CASE m = n
    BY <1>t, <2>1, <2>2, <2>3, EventsOfEmpty DEF File1
  <2>4. CASE m # n
    BY <1>a, <2>1, <2>4
  <2> QED
    BY <2>3, <2>4
<1>9. ASSUME UNCHANGED vars PROVE File1
  BY <1>9, <1>a DEF vars, disk
<1>10. File1
  BY <1>1, <1>2, <1>3, <1>4, <1>5, <1>6, <1>7, <1>8, <1>9 DEF Next
<1> QED
  BY <1>10 DEF File1

\* A node that took in no delta since its log was sorted has the latest event of
\* each ref.
LEMMA StateStep ==
    ASSUME MeshInv, [Next]_vars, ~forgot'
    PROVE  StateIsLatest'
<1> SUFFICES ASSUME NEW m \in Node \ adopted', NEW f \in Ref
             PROVE  Latest(state'[m][f], EventsOf(log'[m]), f)
  BY DEF StateIsLatest
<1> DEFINE Good == Latest(state'[m][f], EventsOf(log'[m]), f)
<1>0. /\ TypeOK /\ ~forgot /\ StateIsLatest /\ FilesInOrder
      /\ log[m] \in Seq(Event) /\ EventsOf(log[m]) \subseteq Event
  BY LogsGrow, EventsOfType DEF MeshInv, HistoryInv, TypeOK
<1>a. m \notin adopted /\ log'[m] = log[m] /\ state'[m] = state[m] => Good
  BY <1>0 DEF StateIsLatest
<1> HIDE DEF Good
<1>1. ASSUME NEW n \in Node, NEW h \in Ref, NEW now \in Time[n], Record(n, h, now) PROVE Good
  <2>1. PICK e : Recorded(n, h, e)
    BY <1>0, <1>1, RecordDoes
  <2>2. /\ e \in Event /\ e.ref = h /\ EventsOf(log'[n]) = EventsOf(log[n]) \cup {e}
        /\ state'[n] = [state[n] EXCEPT ![h] = e]
        /\ \A k \in Node \ {n} : log'[k] = log[k] /\ state'[k] = state[k]
        /\ adopted' = adopted
    BY <2>1 DEF Recorded
  <2>3. CASE m = n
    <3>1. \A g \in EventsOf(log[m]) : Before(g, e)
      BY <1>0, <2>1, <2>3, NewIsLast
    <3>2. \A g \in EventsOf(log[m]) \cup {e} : ~Precedes(e, g)
      <4>1. \A x \in Event : x.wall \in Nat /\ x.counter \in Nat /\ x.node \in Nat
        BY DEF Event
      <4> QED
        BY <1>0, <2>2, <3>1, <4>1 DEF Precedes, Before
    <3>3. CASE f = h
      <4>1. state'[m][f] = e
        BY <1>0, <2>2, <2>3, <3>3 DEF TypeOK
      <4> QED
        BY <2>2, <2>3, <3>2, <3>3, <4>1 DEF Latest, Good
    <3>4. CASE f # h
      <4>1. state'[m][f] = state[m][f]
        BY <1>0, <2>2, <2>3, <3>4 DEF TypeOK
      <4>2. Latest(state[m][f], EventsOf(log[m]), f)
        BY <1>0, <2>2 DEF StateIsLatest
      <4> QED
        BY <2>2, <2>3, <3>4, <4>1, <4>2 DEF Latest, Good
    <3> QED
      BY <3>3, <3>4
  <2>4. CASE m # n
    BY <1>a, <2>2, <2>4
  <2> QED
    BY <2>3, <2>4
<1>2. ASSUME NEW n \in Node, Written(n) PROVE Good
  BY <1>0, <1>2, <1>a, WrittenDoes
<1>3. ASSUME NEW n \in Node, NEW since, Send(n, since) PROVE Good
  BY <1>3, <1>a DEF Send, memory, history
<1>4. ASSUME NEW n \in Node, NEW delta \in deltas, Receive(n, delta) PROVE Good
  BY <1>4, <1>a DEF Receive, memory, history
<1>5. ASSUME NEW n \in Node, NEW now \in Time[n], Ingest(n, now) PROVE Good
  <2>1. PICK e : Ingested(n, e, now)
    BY <1>0, <1>5, IngestDoes
  <2>2. /\ \A k \in Node \ {n} : log'[k] = log[k] /\ state'[k] = state[k]
        /\ UNCHANGED <<log, state, adopted>> \/ adopted' = adopted \cup {n}
    BY <2>1 DEF Ingested
  <2> QED
    BY <1>a, <2>2
<1>6. ASSUME NEW n \in Node, NEW delta \in deltas, Heal(n, delta) PROVE Good
  <2>1. /\ log'[n] \in Seq(Event) /\ Sorted(log'[n]) /\ state'[n] = Replayed(log'[n])
        /\ adopted' = adopted \ {n}
        /\ \A k \in Node \ {n} : log'[k] = log[k] /\ state'[k] = state[k]
    BY <1>0, <1>6, HealDoes
  <2>2. CASE m = n
    BY <2>1, <2>2, SortedReplay DEF Good
  <2>3. CASE m # n
    BY <1>a, <2>1, <2>3
  <2> QED
    BY <2>2, <2>3
<1>7. ASSUME NEW n \in Node, NEW now \in Time[n], Hear(n, now) PROVE Good
  BY <1>7, <1>a DEF Hear, history
<1>8. ASSUME NEW n \in Node, Restart(n) PROVE Good
  <2> DEFINE r == ledger[n].records
  <2>1. /\ r \in Seq(Event) /\ log'[n] = r /\ state'[n] = Replayed(r)
        /\ adopted' = adopted \ {n}
        /\ \A k \in Node \ {n} : log'[k] = log[k] /\ state'[k] = state[k]
    BY <1>0, <1>8, RestartDoes
  <2>2. Sorted(r)
    BY <1>0, <2>1, OrderedIsSorted DEF FilesInOrder
  <2> HIDE DEF r
  <2>3. CASE m = n
    BY <2>1, <2>2, <2>3, SortedReplay DEF Good
  <2>4. CASE m # n
    BY <1>a, <2>1, <2>4
  <2> QED
    BY <2>3, <2>4
<1>9. ASSUME UNCHANGED vars PROVE Good
  BY <1>9, <1>a DEF vars, memory, history
<1>10. Good
  BY <1>1, <1>2, <1>3, <1>4, <1>5, <1>6, <1>7, <1>8, <1>9 DEF Next
<1> QED
  BY <1>10 DEF Good

\* The invariant holds at first.
LEMMA MeshStart == Init => MeshInv
<1> SUFFICES ASSUME Init PROVE MeshInv
  OBVIOUS
<1>1. <<>> \in Seq(Event) /\ <<>> \in Seq(Nat) /\ EmptyFile \in File /\ EmptyFile.records = <<>>
  BY DEF EmptyFile, File
<1>2. TypeOK
  BY <1>1 DEF Init, TypeOK, Epoch
<1>3. \A n \in Node : /\ log[n] = <<>> /\ inbox[n] = <<>> /\ ledger[n].records = <<>>
                      /\ unwritten[n] = <<>> /\ \A f \in Ref : state[n][f] = None
  BY <1>1 DEF Init
<1>4. ClocksLead /\ KnownIsMade
  BY <1>3, EventsOfEmpty DEF Init, ClocksLead, KnownIsMade
<1>5. OwnIsLogged /\ IdsDiffer /\ StampsDiffer
  BY DEF Init, OwnIsLogged, IdsDiffer, StampsDiffer
<1>6. LogsAreSets /\ FilesInOrder
  BY <1>3, EventsOfEmpty DEF LogsAreSets, FilesInOrder, Ordered
<1>7. StateIsLatest
  BY <1>3, EventsOfEmpty DEF StateIsLatest, Latest
<1> QED
  BY <1>2, <1>4, <1>5, <1>6, <1>7 DEF MeshInv, HistoryInv

\* Every step keeps it.
LEMMA MeshStep == MeshInv /\ [Next]_vars => MeshInv'
<1> SUFFICES ASSUME MeshInv, [Next]_vars PROVE MeshInv'
  OBVIOUS
<1>1. TypeOK' /\ ClocksLead' /\ KnownIsMade'
  BY TypeStep, ClocksStep, KnownStep DEF MeshInv
<1>2. ~forgot' => /\ OwnIsLogged' /\ IdsDiffer' /\ StampsDiffer'
                 /\ LogsAreSets' /\ FilesInOrder' /\ StateIsLatest'
  BY OwnStep, SetsStep, FilesStep, StateStep
<1> QED
  BY <1>1, <1>2 DEF MeshInv, HistoryInv

\* The inductive invariant of clocks, logs, files and states always holds.
THEOREM MeshAlways == Spec => []MeshInv
BY MeshStart, MeshStep, PTL DEF Spec

-----------------------------------------------------------------------------
(* What the mesh guarantees.                                               *)

\* Every variable has its type, whatever is delayed, repeated, lost or forgotten.
THEOREM TypeCorrect == Spec => []TypeOK
<1>1. MeshInv => TypeOK
  BY DEF MeshInv
<1> QED
  BY <1>1, MeshAlways, PTL

\* temporal_causality.ts:21-23: an event is stamped after all that its node knows
\* of, because Record waits for no stamp the clock has yet to hear of.
THEOREM StampsCorrect == Spec => StampsFollowCauses
<1>1. MeshInv /\ [Next]_vars =>
        [\A e \in made' \ made : \A g \in EventsOf(log[e.node]) : Before(g, e)]_vars
  <2> SUFFICES ASSUME MeshInv, [Next]_vars, NEW e \in made' \ made,
                      NEW g \in EventsOf(log[e.node])
               PROVE  Before(g, e)
    OBVIOUS
  <2>1. PICK n \in Node, f \in Ref, x \in Event : Recorded(n, f, x)
    BY MadeStep DEF MeshInv
  <2>2. /\ made' = made \cup {x} /\ x.node = n /\ hearing[n] = <<>>
        /\ \A h \in Event : Leads(clock[n], h) => Before(h, x)
    BY <2>1 DEF Recorded
  <2>3. EventsOf(log[n]) \subseteq Event
    BY EventsOfType DEF MeshInv, TypeOK
  <2> QED
    BY <2>2, <2>3, EventsOfEmpty DEF MeshInv, ClocksLead
<1> QED
  BY <1>1, MeshAlways, PTL DEF Spec, StampsFollowCauses

\* temporal_causality.ts:140: ids tell events apart until a restart loses some,
\* because a log is never shorter than the numbers its node has given.
THEOREM IdsCorrect == Spec => []EventIdsAreUnique
<1>1. MeshInv => EventIdsAreUnique
  BY DEF MeshInv, HistoryInv, IdsDiffer, EventIdsAreUnique
<1> QED
  BY <1>1, MeshAlways, PTL

\* federated_mesh.ts:196: a log has each event once, whatever deltas overlap.
THEOREM OnceCorrect == Spec => []EachEventOnce
<1>1. MeshInv => EachEventOnce
  <2> SUFFICES ASSUME MeshInv, ~forgot, NEW n \in Node,
                      NEW i \in DOMAIN log[n], NEW j \in DOMAIN log[n],
                      Id(log[n][i]) = Id(log[n][j])
               PROVE  i = j
    BY DEF EachEventOnce
  <2>1. log[n][i] \in EventsOf(log[n]) /\ log[n][j] \in EventsOf(log[n])
    BY DEF EventsOf
  <2>2. log[n][i] = log[n][j]
    BY <2>1 DEF MeshInv, HistoryInv, IdsDiffer, KnownIsMade
  <2> QED
    BY <2>2 DEF MeshInv, HistoryInv, LogsAreSets
<1> QED
  BY <1>1, MeshAlways, PTL

\* federated_mesh.ts:227-233: nodes that heal agree, as each ref has the latest of
\* its events, and two events of one node never have the same stamp.
THEOREM HealedCorrect == Spec => []HealedAgree
<1>1. MeshInv => HealedAgree
  <2> SUFFICES ASSUME MeshInv, ~forgot, NEW m \in Node \ adopted, NEW n \in Node \ adopted,
                      EventsOf(log[m]) = EventsOf(log[n])
               PROVE  state[m] = state[n]
    BY DEF HealedAgree
  <2>1. TypeOK /\ StateIsLatest /\ StampsDiffer /\ KnownIsMade
    BY DEF MeshInv, HistoryInv
  <2> DEFINE S == EventsOf(log[m])
  <2>2. S \subseteq made /\ S \subseteq Event
    BY <2>1, EventsOfType DEF KnownIsMade, TypeOK
  <2>3. ASSUME NEW f \in Ref PROVE state[m][f] = state[n][f]
    <3>1. Latest(state[m][f], S, f) /\ Latest(state[n][f], S, f)
      BY <2>1 DEF StateIsLatest
    <3> HIDE DEF S
    <3> DEFINE x == state[m][f]
               y == state[n][f]
    <3>2. CASE \A g \in S : g.ref # f
      BY <3>1, <3>2 DEF Latest
    <3>3. CASE \E g \in S : g.ref = f
      <4>1. x \in S /\ y \in S /\ ~Precedes(x, y) /\ ~Precedes(y, x)
        BY <3>1, <3>3 DEF Latest
      <4>2. \A e \in Event : e.wall \in Nat /\ e.counter \in Nat /\ e.node \in Nat
        BY DEF Event
      <4>3. x \in Event /\ y \in Event /\ x \in made /\ y \in made
        BY <2>2, <4>1
      <4> HIDE DEF x, y
      <4>4. ~Before(x, y) /\ ~Before(y, x) /\ x.node = y.node
        BY <4>1, <4>2, <4>3 DEF Precedes, Before
      <4>5. x = y
        BY <2>1, <4>3, <4>4 DEF StampsDiffer
      <4> QED
        BY <4>5 DEF x, y
    <3> QED
      BY <3>2, <3>3
  <2>4. state[m] \in [Ref -> Event \cup {None}] /\ state[n] \in [Ref -> Event \cup {None}]
    BY <2>1 DEF TypeOK
  <2> QED
    BY <2>3, <2>4
<1> QED
  BY <1>1, MeshAlways, PTL

\* mesh_healer.ts:17-21: logs only grow, as a merge of logs whose ids tell events
\* apart is their union.
THEOREM LossCorrect == Spec => NothingIsLost
<1>1. MeshInv /\ [Next]_vars =>
        [~forgot' => \A n \in Node : EventsOf(log[n]) \subseteq EventsOf(log'[n])]_vars
  BY LogsGrow
<1> QED
  BY <1>1, MeshAlways, PTL DEF Spec, NothingIsLost
=============================================================================
