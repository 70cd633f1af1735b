--------------------------- MODULE TaskQueueProofs ---------------------------
(***************************************************************************)
(* Theorems about the task queue, for any tasks, keys, retries, slots,     *)
(* restarts, failed appends and midnights.                                 *)
(***************************************************************************)
EXTENDS TaskQueueProps, SiftingProofs

-----------------------------------------------------------------------------
(* Places in a sequence.                                                   *)

\* No task has two entries in s.
NoneTwice(s) == \A i, j \in DOMAIN s : s[i].task = s[j].task => i = j

\* The entry of a task that has none yet can be appended.
LEMMA EntryAppendedOnce ==
    ASSUME NEW S, NEW s \in Seq(S), NEW e \in S,
           NoneTwice(s), \A x \in Range(s) : x.task # e.task
    PROVE  NoneTwice(Append(s, e))
<1>1. /\ Append(s, e) \in Seq(S) /\ Len(Append(s, e)) = Len(s) + 1
      /\ \A i \in 1 .. Len(s) : Append(s, e)[i] = s[i]
      /\ Append(s, e)[Len(s) + 1] = e
  BY AppendProperties
<1>2. DOMAIN s = 1 .. Len(s) /\ DOMAIN Append(s, e) = 1 .. Len(s) + 1 /\ Len(s) \in Nat
  BY <1>1
<1>3. \A i \in 1 .. Len(s) : s[i].task # e.task
  BY <1>2 DEF Range
<1>. QED BY <1>1, <1>2, <1>3 DEF NoneTwice

\* What a removing loop leaves of entries.
LEMMA SiftedOnce ==
    ASSUME NEW S, NEW s \in Seq(S), NEW kept, NoneTwice(s)
    PROVE  NoneTwice(Sifted(s, kept))
<1> DEFINE r == Sifted(s, kept)
<1>1. r \in Seq(S)
  BY SiftedKeeps
<1>0. \E f \in [DOMAIN r -> DOMAIN s] :
         /\ \A j, k \in DOMAIN f : j < k => f[j] < f[k]
         /\ \A k \in DOMAIN f : r[k] = s[f[k]]
         /\ \A i \in DOMAIN s : s[i] \in kept => \E k \in DOMAIN f : f[k] = i
  BY SiftedKeeps
<1> HIDE DEF r
<1>2. PICK f \in [DOMAIN r -> DOMAIN s] :
         /\ \A j, k \in DOMAIN f : j < k => f[j] < f[k]
         /\ \A k \in DOMAIN f : r[k] = s[f[k]]
  BY <1>0
<1>3. SUFFICES ASSUME NEW j \in DOMAIN r, NEW k \in DOMAIN r, r[j].task = r[k].task
               PROVE  j = k
  BY DEF NoneTwice, r
<1>4. f[j] = f[k]
  BY <1>2, <1>3 DEF NoneTwice
<1>5. DOMAIN r = 1 .. Len(r) /\ Len(r) \in Nat /\ DOMAIN s = 1 .. Len(s) /\ Len(s) \in Nat
  BY <1>1
<1>6. f[j] \in Nat /\ j \in Nat /\ k \in Nat
  BY <1>2, <1>5
<1>7. ~(j < k) /\ ~(k < j)
  BY <1>2, <1>4, <1>6
<1>. QED BY <1>6, <1>7

\* What is left of entries when one is taken out.
LEMMA EntryTaken ==
    ASSUME NEW S, NEW s \in Seq(S), NEW i \in DOMAIN s
    PROVE  /\ RemoveAt(s, i) \in Seq(S)
           /\ Range(RemoveAt(s, i)) \subseteq Range(s)
           /\ NoneTwice(s) => /\ NoneTwice(RemoveAt(s, i))
                              /\ Range(RemoveAt(s, i)) = Range(s) \ {s[i]}
                              /\ \A x \in Range(RemoveAt(s, i)) : x.task # s[i].task
<1> DEFINE r == RemoveAt(s, i)
           n == Len(s)
<1>1. DOMAIN s = 1 .. n /\ n \in Nat /\ i \in 1 .. n
  OBVIOUS
<1>2. /\ r \in Seq(S) /\ Len(r) = n - 1
      /\ \A k \in 1 .. n - 1 : r[k] = IF k < i THEN s[k] ELSE s[k + 1]
  BY ElementsLeft
<1>3. /\ Range(r) \subseteq Range(s)
      /\ IsInjective(s) => Range(r) = Range(s) \ {s[i]}
  BY RangeOfRemoveAt
<1> HIDE DEF r
<1>4. DOMAIN r = 1 .. n - 1
  BY <1>1, <1>2
<1>5. ASSUME NoneTwice(s)
      PROVE  /\ NoneTwice(r)
             /\ Range(r) = Range(s) \ {s[i]}
             /\ \A x \in Range(r) : x.task # s[i].task
  <2>1. \A p, q \in 1 .. n : s[p].task = s[q].task => p = q
    BY <1>1, <1>5 DEF NoneTwice
  <2>2. IsInjective(s)
    BY <1>1, <2>1 DEF IsInjective
  <2>3. \A x \in Range(s) \ {s[i]} : x.task # s[i].task
    BY <1>1, <2>1 DEF Range
  <2>4. ASSUME NEW j \in DOMAIN r, NEW k \in DOMAIN r, r[j].task = r[k].task
        PROVE  j = k
    <3>1. j \in 1 .. n /\ k \in 1 .. n /\ j + 1 \in 1 .. n /\ k + 1 \in 1 .. n
      BY <1>1, <1>4
    <3>2. /\ r[j] = IF j < i THEN s[j] ELSE s[j + 1]
          /\ r[k] = IF k < i THEN s[k] ELSE s[k + 1]
      BY <1>2, <1>4
    <3>. QED BY <1>1, <2>1, <2>4, <3>1, <3>2
  <2>5. NoneTwice(r)
    BY <2>4 DEF NoneTwice
  <2>. QED BY <1>3, <2>2, <2>3, <2>5
<1>. QED BY <1>2, <1>3, <1>5 DEF r

-----------------------------------------------------------------------------
(* What the operators of the queue do.                                     *)

\* A queued or running task, with the attempts it has made.
Item == [task : Task, attempts : Nat]

\* An event of the log.
Record == [task : Task, state : {"QUEUED", "RUNNING"} \cup Ends, attempts : Nat]

\* The events that were written or wait for the flush.
Logged == Range(log) \cup Range(buffer)

\* The types, that only tasks that were accepted are anywhere, and that
\* without a process there is nothing in memory.
WellTyped ==
    /\ TypeOK
    /\ Live \cup TasksOf(Logged) \subseteq accepted
    /\ IsFiniteSet(running)
    /\ ~up => /\ queue = <<>> /\ running = {} /\ buffer = <<>> /\ keys = {}
              /\ cycle = "idle" /\ ~active

\* The bounds are numbers.
LEMMA Numbers ==
    /\ MaxRetries \in Nat /\ MaxRestarts \in Nat
    /\ Concurrency \in Nat \ {0} /\ DlqMax \in Nat \ {0} /\ Kept \in Nat \ {0}
BY TaskAssumption

\* The sequences, for the lemmas about sequences.
LEMMA Sequences ==
    ASSUME TypeOK
    PROVE  queue \in Seq(Item) /\ log \in Seq(Record) /\ buffer \in Seq(Record)
BY DEF TypeOK, Item, Record

\* The event of a task carries its name and its attempts.
LEMMA IsRecord ==
    ASSUME NEW x \in Item, NEW state \in {"QUEUED", "RUNNING"} \cup Ends
    PROVE  /\ Event(x, state) \in Record
           /\ Event(x, state).task = x.task
           /\ Event(x, state).state = state
           /\ Event(x, state).attempts = x.attempts
BY DEF Item, Record, Event

\* So does the entry.
LEMMA IsItem ==
    ASSUME NEW t \in Task, NEW n \in Nat
    PROVE  Entry(t, n) \in Item /\ Entry(t, n).task = t /\ Entry(t, n).attempts = n
BY DEF Item, Entry

\* If a task is due, NextUp is the place of one.
LEMMA NextUpReady ==
    ASSUME TypeOK, Ready # {}
    PROVE  NextUp \in Ready
<1>1. queue \in Seq(Item) /\ DOMAIN queue = 1 .. Len(queue) /\ Len(queue) \in Nat
  BY Sequences, RangeOf
<1> DEFINE level(i) == Level[queue[i].task]
           levels == {level(i) : i \in Ready}
<1>2. \A i \in Ready : i \in Nat /\ level(i) \in Nat
  <2>1. \A i \in Ready : i \in 1 .. Len(queue) /\ queue[i].task \in Task
    <3>1. \A i \in Ready : i \in 1 .. Len(queue)
      BY <1>1 DEF Ready
    <3>2. \A i \in 1 .. Len(queue) : queue[i] \in Item
      BY <1>1
    <3>. QED BY <3>1, <3>2 DEF Item
  <2>2. \A t \in Task : Level[t] \in Nat
    <3>1. \A t \in Task : Level[t] \in 0 .. 4
      BY TaskAssumption
    <3>2. \A k \in 0 .. 4 : k \in Nat
      OBVIOUS
    <3>. QED BY <3>1, <3>2
  <2>3. \A i \in 1 .. Len(queue) : i \in Nat
    OBVIOUS
  <2>4. \A i \in Ready : i \in Nat
    BY <2>1, <2>3
  <2>5. \A i \in Ready : level(i) \in Nat
    BY <2>1, <2>2
  <2> HIDE DEF level
  <2>. QED BY <2>4, <2>5
<1>3. PICK l \in levels : \A k \in levels : l <= k
  <2>1. levels \in SUBSET Nat /\ levels # {}
    BY <1>2
  <2>. QED BY <2>1, Least
<1> DEFINE first == {i \in Ready : level(i) = l}
<1>4. PICK i \in first : \A j \in first : i <= j
  <2>1. first \in SUBSET Nat /\ first # {}
    BY <1>2
  <2>. QED BY <2>1, Least
<1>5. ASSUME NEW j \in Ready \ {i}
      PROVE  level(i) < level(j) \/ (level(i) = level(j) /\ i < j)
  <2>1. level(i) = l /\ l <= level(j)
    BY <1>3
  <2>2. level(j) = l => i <= j
    BY <1>4
  <2>3. i \in Nat /\ j \in Nat /\ level(i) \in Nat /\ level(j) \in Nat /\ i # j
    BY <1>2
  <2> HIDE DEF level
  <2>. QED BY <2>1, <2>2, <2>3
<1>6. i \in Ready
  OBVIOUS
<1> HIDE DEF first, levels
<1>. QED BY <1>5, <1>6 DEF NextUp

\* The entry that is dispatched leaves the queue, and is all that does.
LEMMA DequeuedParts ==
    ASSUME TypeOK, NoneTwice(queue), Ready # {}
    PROVE  LET x == queue[NextUp]
           IN /\ x \in Range(queue) /\ x \in Item
              /\ Dequeued(NextUp) \in Seq(Item)
              /\ Range(Dequeued(NextUp)) = Range(queue) \ {x}
              /\ \A y \in Range(queue) \ {x} : y.task # x.task
              /\ NoneTwice(Dequeued(NextUp))
<1>1. queue \in Seq(Item)
  BY Sequences
<1>2. NextUp \in DOMAIN queue
  BY NextUpReady DEF Ready
<1>3. queue[NextUp] \in Range(queue) /\ queue[NextUp] \in Item
  BY <1>1, <1>2, RangeOf
<1>. QED BY <1>1, <1>2, <1>3, EntryTaken DEF Dequeued

\* What an eviction takes out, and what it writes.
LEMMA EvictParts ==
    ASSUME TypeOK, Evict
    PROVE  LET late == {x \in Range(queue) : x.task \in expired}
           IN /\ queue' \in Seq(Item)
              /\ Range(queue') = Range(queue) \ late
              /\ NoneTwice(queue) => NoneTwice(queue')
              /\ keys' = keys \ {KeyOf[t] : t \in TasksOf(late)}
              /\ ended' = [ended EXCEPT !["EXPIRED"] = @ \cup TasksOf(late)]
              /\ \E more \in Seq(Record) :
                    /\ buffer' = buffer \o more
                    /\ Range(more) = {Event(x, "EXPIRED") : x \in late}
<1> DEFINE late == {x \in Range(queue) : x.task \in expired}
           rest == {x \in Range(queue) : x.task \notin expired}
           s == Sifted(queue, late)
           more == [i \in DOMAIN s |-> Event(s[i], "EXPIRED")]
<1>1. queue \in Seq(Item) /\ Range(queue) \subseteq Item
  BY Sequences, RangeOf
<1>2. s \in Seq(Item) /\ Range(s) = late
  BY <1>1, RangeOfSifted, SiftedOnce
<1>3. queue' = Sifted(queue, rest)
  BY DEF Evict
<1>4. /\ queue' \in Seq(Item) /\ Range(queue') = Range(queue) \ late
      /\ NoneTwice(queue) => NoneTwice(queue')
  <2>1. Range(queue) \cap rest = Range(queue) \ late
    OBVIOUS
  <2> HIDE DEF rest, late
  <2>. QED BY <1>1, <1>3, <2>1, RangeOfSifted, SiftedOnce
<1>5. /\ buffer' = buffer \o more
      /\ keys' = keys \ {KeyOf[t] : t \in TasksOf(Range(s))}
      /\ ended' = [ended EXCEPT !["EXPIRED"] = @ \cup TasksOf(Range(s))]
  BY DEF Evict, FreeKeys, Ended
<1> HIDE DEF s
<1>6. more \in Seq(Record)
  <2>1. DOMAIN s = 1 .. Len(s) /\ Len(s) \in Nat /\ \A i \in 1 .. Len(s) : s[i] \in Item
    BY <1>2
  <2>2. \A i \in 1 .. Len(s) : Event(s[i], "EXPIRED") \in Record
    BY <2>1, IsRecord DEF Ends
  <2>. QED BY <2>1, <2>2
<1>7. Range(more) = {Event(x, "EXPIRED") : x \in late}
  <2>1. DOMAIN more = DOMAIN s /\ \A i \in DOMAIN s : more[i] = Event(s[i], "EXPIRED")
    OBVIOUS
  <2>2. late = {s[i] : i \in DOMAIN s}
    BY <1>2 DEF Range
  <2> HIDE DEF more, late
  <2>. QED BY <2>1, <2>2 DEF Range
<1>. QED BY <1>2, <1>4, <1>5, <1>6, <1>7

\* A failed append leaves the newest events, and counts who lost one.
LEMMA UnwrittenParts ==
    ASSUME TypeOK
    PROVE  /\ Unwritten \in Seq(Record)
           /\ \E gone \in Seq(Record) :
                 buffer = gone \o Unwritten /\ Dropped = TasksOf(Range(gone))
<1> DEFINE n == Len(buffer)
           m == Max({1, n + 1 - Kept})
           gone == SubSeq(buffer, 1, m - 1)
<1>1. buffer \in Seq(Record) /\ DOMAIN buffer = 1 .. n /\ n \in Nat
  BY Sequences, RangeOf
<1>2. Kept \in Nat /\ Kept > 0
  BY Numbers
<1>3. m \in Nat /\ 1 <= m /\ m <= n + 1 /\ m >= n + 1 - Kept /\ (m = 1 \/ m = n + 1 - Kept)
  <2>1. \E x \in {1, n + 1 - Kept} : \A y \in {1, n + 1 - Kept} : x >= y
    BY <1>1, <1>2
  <2>2. m \in {1, n + 1 - Kept} /\ \A y \in {1, n + 1 - Kept} : m >= y
    BY <2>1 DEF Max
  <2> HIDE DEF m
  <2>. QED BY <1>1, <1>2, <2>2
<1>4. Unwritten = SubSeq(buffer, m, n)
  BY DEF Unwritten
<1> HIDE DEF m
<1>5. Unwritten \in Seq(Record)
  <2>1. \A i \in m .. n : buffer[i] \in Record
    BY <1>1, <1>3
  <2>. QED BY <1>1, <1>3, <1>4, <2>1, SubSeqProperties
<1>6. /\ gone \in Seq(Record) /\ Len(gone) = m - 1
      /\ \A i \in 1 .. m - 1 : gone[i] = buffer[i]
  <2>1. \A i \in 1 .. m - 1 : buffer[i] \in Record
    BY <1>1, <1>3
  <2>2. 1 \in Int /\ m - 1 \in Int /\ m - 1 - 1 + 1 = m - 1
    BY <1>3
  <2>3. \A i \in 1 .. m - 1 : 1 + i - 1 = i
    OBVIOUS
  <2>. QED BY <1>3, <2>1, <2>2, <2>3, SubSeqProperties
<1>7. buffer = gone \o Unwritten
  <2>1. /\ 1 \in 1 .. Len(buffer) + 1 /\ m - 1 \in 1 - 1 .. Len(buffer) /\ n \in m - 1 .. Len(buffer)
        /\ m - 1 + 1 = m
    BY <1>1, <1>3
  <2>2. SubSeq(buffer, 1, m - 1) \o SubSeq(buffer, m - 1 + 1, n) = SubSeq(buffer, 1, n)
    BY <1>1, <2>1, ConcatAdjacentSubSeq
  <2>3. SubSeq(buffer, 1, n) = buffer
    BY <1>1, SubSeqFull
  <2>. QED BY <1>4, <2>1, <2>2, <2>3
<1>8. Dropped = TasksOf(Range(gone))
  <2>1. {j \in DOMAIN buffer : j + Kept <= Len(buffer)} = 1 .. m - 1
    BY <1>1, <1>2, <1>3
  <2>2. DOMAIN gone = 1 .. m - 1
    BY <1>3, <1>6
  <2> HIDE DEF gone
  <2>3. Dropped = {buffer[i].task : i \in 1 .. m - 1}
    BY <2>1 DEF Dropped
  <2>4. Range(gone) = {buffer[i] : i \in 1 .. m - 1}
    BY <1>6, <2>2 DEF Range
  <2>. QED BY <2>3, <2>4 DEF TasksOf
<1>. QED BY <1>5, <1>6, <1>7, <1>8

\* What is in a log.
LEMMA RecoverableTasks ==
    ASSUME NEW events \in Seq(Record), NEW t
    PROVE  t \in Recoverable(events) <=>
              /\ t \in Task \ expired
              /\ \E e \in Range(events) : e.task = t
              /\ \A e \in Range(events) : e.task = t => e.state \notin EndedStates
<1>1. \A e : e \in Range(events) <=> \E i \in DOMAIN events : events[i] = e
  BY RangeOf
<1>2. Traces(events, t) # {} <=> \E e \in Range(events) : e.task = t
  BY <1>1 DEF Traces
<1>3. (\A i \in Traces(events, t) : events[i].state \notin EndedStates) <=>
         \A e \in Range(events) : e.task = t => e.state \notin EndedStates
  BY <1>1 DEF Traces
<1>. QED BY <1>2, <1>3 DEF Recoverable

\* A process that starts has every task that is recoverable once, with the
\* attempts of its newest event.
LEMMA RestartParts ==
    ASSUME TypeOK, Restart
    PROVE  /\ queue' \in Seq(Item)
           /\ NoneTwice(queue')
           /\ TasksOf(Range(queue')) = Recoverable(log)
           /\ \A x \in Range(queue') : x.attempts = Newest(log, x.task).attempts
<1> DEFINE R == Recoverable(log)
           P == {Min(Traces(log, t)) : t \in R}
           firsts == InOrder(P)
           task(k) == log[firsts[k]].task
           n == Cardinality(P)
<1>1. log \in Seq(Record) /\ DOMAIN log = 1 .. Len(log) /\ Len(log) \in Nat
  BY Sequences, RangeOf
<1>2. \A t \in R : /\ Traces(log, t) \in SUBSET (1 .. Len(log)) /\ Traces(log, t) # {}
                   /\ Min(Traces(log, t)) \in Traces(log, t)
  <2>1. ASSUME NEW t \in R
        PROVE  Traces(log, t) \in SUBSET (1 .. Len(log)) /\ Traces(log, t) # {}
    BY <1>1 DEF Traces, Recoverable
  <2>. QED BY <1>1, <2>1, FirstIsMin
<1>3. \A t \in R : /\ Min(Traces(log, t)) \in 1 .. Len(log)
                   /\ log[Min(Traces(log, t))].task = t
  BY <1>2 DEF Traces
<1>4. P \in SUBSET (1 .. Len(log))
  BY <1>3
<1>5. /\ n \in Nat /\ firsts \in [1 .. n -> P]
      /\ \A j, k \in 1 .. n : j < k => firsts[j] < firsts[k]
      /\ \A p \in P : \E k \in 1 .. n : firsts[k] = p
  BY <1>1, <1>4, InOrderLists
<1>6. queue' = [k \in 1 .. n |-> Entry(task(k), Newest(log, task(k)).attempts)]
  <2>1. queue' = [k \in DOMAIN firsts |-> Entry(task(k), Newest(log, task(k)).attempts)]
    BY DEF Restart
  <2>. QED BY <1>5, <2>1
<1> HIDE DEF firsts, n
<1>7. \A k \in 1 .. n : task(k) \in R /\ firsts[k] = Min(Traces(log, task(k)))
  <2>1. ASSUME NEW k \in 1 .. n
        PROVE  task(k) \in R /\ firsts[k] = Min(Traces(log, task(k)))
    <3>1. PICK t \in R : firsts[k] = Min(Traces(log, t))
      BY <1>5
    <3>2. task(k) = t
      BY <1>3, <3>1
    <3>. QED BY <3>1, <3>2
  <2>. QED BY <2>1
<1>8. \A t \in R : \E k \in 1 .. n : task(k) = t
  <2>1. ASSUME NEW t \in R PROVE \E k \in 1 .. n : task(k) = t
    <3>1. PICK k \in 1 .. n : firsts[k] = Min(Traces(log, t))
      BY <1>5
    <3>. QED BY <1>3, <3>1
  <2>. QED BY <2>1
<1>9. \A j, k \in 1 .. n : task(j) = task(k) => j = k
  <2>1. ASSUME NEW j \in 1 .. n, NEW k \in 1 .. n, task(j) = task(k)
        PROVE  j = k
    <3>1. firsts[j] = firsts[k]
      BY <1>7, <2>1
    <3>2. firsts[j] \in Nat /\ firsts[k] \in Nat
      <4>1. \A p \in P : p \in Nat
        BY <1>4
      <4> HIDE DEF P
      <4>. QED BY <1>5, <4>1
    <3>3. (j < k => firsts[j] < firsts[k]) /\ (k < j => firsts[k] < firsts[j])
      BY <1>5
    <3>. QED BY <1>5, <3>1, <3>2, <3>3
  <2>. QED BY <2>1
<1>10. \A t \in R : t \in Task /\ Newest(log, t).attempts \in Nat
  <2>1. ASSUME NEW t \in R PROVE t \in Task /\ Newest(log, t).attempts \in Nat
    <3>1. Max(Traces(log, t)) \in Traces(log, t)
      BY <1>1, <1>2, LastIsMax
    <3>2. Newest(log, t) \in Record
      BY <1>1, <3>1 DEF Newest, Traces
    <3>3. t \in Task
      BY DEF Recoverable
    <3>. QED BY <3>2, <3>3 DEF Record
  <2>. QED BY <2>1
<1> DEFINE item(k) == Entry(task(k), Newest(log, task(k)).attempts)
<1>11. \A k \in 1 .. n : /\ item(k) \in Item /\ item(k).task = task(k)
                         /\ item(k).attempts = Newest(log, task(k)).attempts
  BY <1>7, <1>10, IsItem
<1> HIDE DEF task, R
<1>12. queue' \in Seq(Item) /\ DOMAIN queue' = 1 .. n
  <2>. HIDE DEF item
  <2>1. queue' = [k \in 1 .. n |-> item(k)]
    BY <1>6 DEF item
  <2>. QED BY <1>5, <1>11, <2>1, IsASeq
<1>13. \A k \in 1 .. n : queue'[k] = item(k)
  BY <1>6
<1> HIDE DEF item
<1>14. NoneTwice(queue')
  BY <1>9, <1>11, <1>12, <1>13 DEF NoneTwice
<1>15. Range(queue') = {item(k) : k \in 1 .. n}
  BY <1>12, <1>13 DEF Range
<1>16. TasksOf(Range(queue')) = R
  BY <1>7, <1>8, <1>11, <1>15 DEF TasksOf
<1>17. \A x \in Range(queue') : x.attempts = Newest(log, x.task).attempts
  BY <1>11, <1>15
<1>. QED BY <1>12, <1>14, <1>16, <1>17 DEF R

\* The dead-letter queue takes one more and stays within its size.
LEMMA PushParts ==
    ASSUME TypeOK, NEW x \in Item, PushDLQ(x)
    PROVE  /\ dlq' \in Seq(Task) /\ Len(dlq') <= DlqMax
           /\ ended' = [ended EXCEPT !["DLQ"] = @ \cup {x.task}]
<1>1. dlq \in Seq(Task) /\ Len(dlq) \in Nat /\ Len(dlq) <= DlqMax /\ DlqMax \in Nat \ {0}
  BY Numbers DEF TypeOK
<1>2. MakeRoom \in Seq(Task) /\ Len(MakeRoom) + 1 <= DlqMax
  <2>1. CASE Len(dlq) >= DlqMax
    <3>1. dlq # <<>>
      BY <1>1, <2>1, EmptySeq
    <3>2. Tail(dlq) \in Seq(Task) /\ Len(Tail(dlq)) = Len(dlq) - 1
      BY <1>1, <3>1, HeadTailProperties
    <3>. QED BY <1>1, <2>1, <3>2 DEF MakeRoom
  <2>2. CASE ~(Len(dlq) >= DlqMax)
    BY <1>1, <2>2 DEF MakeRoom
  <2>. QED BY <2>1, <2>2
<1>3. x.task \in Task
  BY DEF Item
<1>4. dlq' = Append(MakeRoom, x.task)
  BY DEF PushDLQ
<1>5. dlq' \in Seq(Task) /\ Len(dlq') = Len(MakeRoom) + 1
  BY <1>2, <1>3, <1>4, AppendProperties
<1>. QED BY <1>2, <1>5 DEF PushDLQ, Ended

\* A piece of a sequence of events.
LEMMA PieceOf ==
    ASSUME NEW s \in Seq(Record), NEW i \in Nat, NEW j \in Nat,
           1 <= i, i <= j + 1, j <= Len(s)
    PROVE  /\ SubSeq(s, i, j) \in Seq(Record)
           /\ Len(SubSeq(s, i, j)) = j - i + 1
           /\ \A k \in 1 .. j - i + 1 : SubSeq(s, i, j)[k] = s[i + k - 1]
           /\ Range(SubSeq(s, i, j)) = {s[k] : k \in i .. j}
<1> DEFINE piece == SubSeq(s, i, j)
<1>1. \A k \in i .. j : s[k] \in Record
  <2>1. DOMAIN s = 1 .. Len(s) /\ Len(s) \in Nat /\ \A k \in 1 .. Len(s) : s[k] \in Record
    BY RangeOf, ElementOfSeq
  <2>. QED BY <2>1
<1>2. /\ piece \in Seq(Record)
      /\ Len(piece) = j - i + 1
      /\ \A k \in 1 .. j - i + 1 : piece[k] = s[i + k - 1]
  BY <1>1, SubSeqProperties
<1>3. DOMAIN piece = 1 .. j - i + 1
  BY <1>2, RangeOf
<1> HIDE DEF piece
<1>4. Range(piece) = {s[k] : k \in i .. j}
  <2>1. ASSUME NEW k \in 1 .. j - i + 1 PROVE i + k - 1 \in i .. j
    OBVIOUS
  <2>2. ASSUME NEW k \in i .. j PROVE k - i + 1 \in 1 .. j - i + 1 /\ i + (k - i + 1) - 1 = k
    OBVIOUS
  <2>3. Range(piece) = {piece[k] : k \in 1 .. j - i + 1}
    BY <1>3 DEF Range
  <2>4. \A k \in i .. j : piece[k - i + 1] = s[k]
    BY <1>2, <2>2
  <2>5. ASSUME NEW k \in 1 .. j - i + 1 PROVE piece[k] \in {s[m] : m \in i .. j}
    BY <1>2, <2>1
  <2>6. ASSUME NEW k \in i .. j PROVE s[k] \in {piece[m] : m \in 1 .. j - i + 1}
    BY <2>2, <2>4
  <2>. QED BY <2>3, <2>5, <2>6
<1>. QED BY <1>2, <1>4 DEF piece

\* A sequence falls into two pieces.
LEMMA TwoPieces ==
    ASSUME NEW s \in Seq(Record), NEW i \in Nat, NEW j \in Nat, i <= j, j <= Len(s)
    PROVE  SubSeq(s, 1, j) = SubSeq(s, 1, i) \o SubSeq(s, i + 1, j)
<1>1. Len(s) \in Nat
  BY RangeOf
<1>2. /\ 1 \in 1 .. Len(s) + 1 /\ i \in 1 - 1 .. Len(s) /\ j \in i .. Len(s)
  BY <1>1
<1>. QED BY <1>2, ConcatAdjacentSubSeq

\* Pieces may be put together in any order.
LEMMA Regrouped ==
    \A a, b, c \in Seq(Record) : (a \o b) \o c = a \o (b \o c) /\ a \o b \in Seq(Record)
<1> SUFFICES ASSUME NEW a \in Seq(Record), NEW b \in Seq(Record), NEW c \in Seq(Record)
             PROVE  (a \o b) \o c = a \o (b \o c) /\ a \o b \in Seq(Record)
  OBVIOUS
<1>1. (a \o b) \o c = a \o (b \o c)
  BY ConcatAssociative
<1>2. a \o b \in Seq(Record)
  BY ConcatProperties
<1>. QED BY <1>1, <1>2

\* What an append leaves of the log and of the first n events of the buffer is
\* all but the events it spoils, and the tasks of those are the spoilt ones.
LEMMA WriteParts ==
    ASSUME TypeOK, NEW n \in 0 .. Len(buffer), NEW end \in Endings(n), Write(n, end)
    PROVE  \E kept, gone, new \in Seq(Record) :
              /\ log \o SubSeq(buffer, 1, n) = kept \o (gone \o new)
              /\ log' = kept \o new
              /\ Spoilt(n, end) = TasksOf(Range(gone))
              /\ edge' = "bare" => log' # <<>>
<1> DEFINE g == Glued(n, end)
           h == Len(log)
           l == IF g /\ edge = "bare" THEN h - 1 ELSE h
           m == IF g /\ n > 0 THEN 1 ELSE 0
           kept == SubSeq(log, 1, l)
           last == SubSeq(log, l + 1, h)
           first == SubSeq(buffer, 1, m)
           new == SubSeq(buffer, m + 1, n)
<1>1. /\ log \in Seq(Record) /\ buffer \in Seq(Record)
      /\ h \in Nat /\ Len(buffer) \in Nat /\ n \in Nat /\ n <= Len(buffer)
      /\ edge \in {"whole", "half", "bare"}
      /\ edge = "bare" => log # <<>>
  BY Sequences, RangeOf DEF TypeOK
<1>2. edge = "bare" => h > 0
  BY <1>1, EmptySeq
<1>3. /\ l \in Nat /\ l <= h /\ (g /\ edge = "bare" => l + 1 = h) /\ (~(g /\ edge = "bare") => l = h)
      /\ m \in Nat /\ m <= n /\ (g /\ n > 0 => m = 1) /\ (~(g /\ n > 0) => m = 0)
  BY <1>1, <1>2
<1>4. kept = IF g /\ edge = "bare" THEN Front(log) ELSE log
  BY <1>1, SubSeqFull DEF Front
<1>5. new = SubSeq(buffer, IF g THEN 2 ELSE 1, n)
  <2>1. CASE n = 0
    BY <1>1, <2>1, SubSeqEmpty
  <2>2. CASE n > 0
    BY <2>2
  <2>. QED BY <1>1, <2>1, <2>2
<1>6. log' = kept \o new
  BY <1>4, <1>5 DEF Write
<1> HIDE DEF h, l, m
<1>7. /\ kept \in Seq(Record) /\ Len(kept) = l
      /\ last \in Seq(Record) /\ Range(last) = {log[k] : k \in l + 1 .. h}
  BY <1>1, <1>3, PieceOf DEF h
<1>8. /\ first \in Seq(Record) /\ Range(first) = {buffer[k] : k \in 1 .. m}
      /\ new \in Seq(Record) /\ Len(new) = n - m
  BY <1>1, <1>3, PieceOf
<1>9. log = kept \o last
  <2>1. SubSeq(log, 1, h) = kept \o last
    <3>1. h <= Len(log)
      BY <1>1 DEF h
    <3>. QED BY <1>1, <1>3, <3>1, TwoPieces
  <2>2. SubSeq(log, 1, h) = log
    BY <1>1, SubSeqFull DEF h
  <2>. QED BY <2>1, <2>2
<1>10. SubSeq(buffer, 1, n) = first \o new
  BY <1>1, <1>3, TwoPieces
<1> HIDE DEF g, kept, last, first, new
<1> DEFINE gone == last \o first
<1>11. gone \in Seq(Record) /\ Range(gone) = Range(last) \cup Range(first)
  BY <1>7, <1>8, ConcatProperties, RangeConcatenation
<1>12. log \o SubSeq(buffer, 1, n) = kept \o (gone \o new)
  <2>1. first \o new \in Seq(Record)
    BY <1>8, Regrouped
  <2>2. (kept \o last) \o (first \o new) = kept \o (last \o (first \o new))
    BY <1>7, <2>1, Regrouped
  <2>3. last \o (first \o new) = (last \o first) \o new
    BY <1>7, <1>8, Regrouped
  <2>. QED BY <1>9, <1>10, <2>2, <2>3
<1>13. Spoilt(n, end) = TasksOf(Range(gone))
  <2>1. ASSUME NEW t
        PROVE  t \in Spoilt(n, end) <=>
                  /\ t \in Task /\ g
                  /\ \/ edge = "bare" /\ t = log[h].task
                     \/ n > 0 /\ t = buffer[1].task
    BY DEF Spoilt, Last, g, h
  <2>2. ASSUME NEW t
        PROVE  t \in TasksOf(Range(gone)) <=>
                  (\E k \in l + 1 .. h : t = log[k].task) \/ (\E k \in 1 .. m : t = buffer[k].task)
    <3> HIDE DEF gone
    <3>. QED BY <1>7, <1>8, <1>11 DEF TasksOf
  <2>3. ASSUME NEW t
        PROVE  (\E k \in l + 1 .. h : t = log[k].task) <=> (g /\ edge = "bare" /\ t = log[h].task)
    BY <1>1, <1>2, <1>3
  <2>4. ASSUME NEW t
        PROVE  (\E k \in 1 .. m : t = buffer[k].task) <=> (g /\ n > 0 /\ t = buffer[1].task)
    BY <1>1, <1>3
  <2>5. (edge = "bare" => log[h].task \in Task) /\ (n > 0 => buffer[1].task \in Task)
    <3>1. edge = "bare" => log[h] \in Record
      BY <1>1, <1>2, ElementOfSeq DEF h
    <3>2. n > 0 => buffer[1] \in Record
      BY <1>1, ElementOfSeq
    <3>. QED BY <3>1, <3>2 DEF Record
  <2>. QED BY <2>1, <2>2, <2>3, <2>4, <2>5
<1>14. edge' = "bare" => log' # <<>>
  <2>1. /\ log' \in Seq(Record) /\ Len(log') = l + (n - m)
    BY <1>6, <1>7, <1>8, ConcatProperties
  <2>2. edge' = "bare" => (edge = "bare" /\ ~g) \/ (n > 0 /\ ~(g /\ n = 1))
    BY <1>1 DEF Write, Endings, g, Glued
  <2>3. edge' = "bare" => l + (n - m) > 0
    BY <1>1, <1>2, <1>3, <2>2
  <2>. QED BY <2>1, <2>3, EmptySeq
<1>. QED BY <1>6, <1>7, <1>8, <1>11, <1>12, <1>13, <1>14

\* An append leaves nothing but what was logged, and its types.
LEMMA WriteKeeps ==
    ASSUME TypeOK, NEW n \in 0 .. Len(buffer), NEW end \in Endings(n), Write(n, end)
    PROVE  /\ log' \in Seq(Record) /\ Range(log') \subseteq Logged
           /\ Spoilt(n, end) \subseteq TasksOf(Logged)
           /\ edge' \in {"whole", "half", "bare"}
           /\ edge' = "bare" => log' # <<>>
<1>1. PICK kept \in Seq(Record), gone \in Seq(Record), new \in Seq(Record) :
         /\ log \o SubSeq(buffer, 1, n) = kept \o (gone \o new)
         /\ log' = kept \o new
         /\ Spoilt(n, end) = TasksOf(Range(gone))
         /\ edge' = "bare" => log' # <<>>
  BY WriteParts
<1>2. log \in Seq(Record) /\ buffer \in Seq(Record) /\ Len(buffer) \in Nat
  BY Sequences, RangeOf
<1> DEFINE some == SubSeq(buffer, 1, n)
<1>3. some \in Seq(Record) /\ Range(some) \subseteq Range(buffer)
  <2>1. some \in Seq(Record) /\ Range(some) = {buffer[k] : k \in 1 .. n}
    BY <1>2, PieceOf
  <2>2. DOMAIN buffer = 1 .. Len(buffer)
    BY <1>2, RangeOf
  <2> HIDE DEF some
  <2>3. ASSUME NEW k \in 1 .. n PROVE buffer[k] \in Range(buffer)
    <3>1. k \in DOMAIN buffer
      BY <1>2, <2>2
    <3>. QED BY <3>1 DEF Range
  <2>. QED BY <2>1, <2>3
<1>4. Range(log \o some) = Range(log) \cup Range(some)
  BY <1>2, <1>3, RangeConcatenation
<1>5. /\ gone \o new \in Seq(Record)
      /\ Range(kept \o (gone \o new)) = Range(kept) \cup (Range(gone) \cup Range(new))
  <2> DEFINE c == gone \o new
  <2>1. c \in Seq(Record) /\ Range(c) = Range(gone) \cup Range(new)
    BY ConcatProperties, RangeConcatenation
  <2> HIDE DEF c
  <2>2. Range(kept \o c) = Range(kept) \cup Range(c)
    BY <2>1, RangeConcatenation
  <2>. QED BY <2>1, <2>2 DEF c
<1> HIDE DEF some
<1>6. Range(kept) \cup Range(gone) \cup Range(new) \subseteq Logged
  <2>1. log \o some = kept \o (gone \o new)
    BY <1>1 DEF some
  <2>. QED BY <1>3, <1>4, <1>5, <2>1 DEF Logged
<1>7. log' \in Seq(Record) /\ Range(log') = Range(kept) \cup Range(new)
  BY <1>1, ConcatProperties, RangeConcatenation
<1>8. edge' \in {"whole", "half", "bare"}
  BY DEF Write, Endings, TypeOK
<1>. QED BY <1>1, <1>6, <1>7, <1>8 DEF TasksOf

\* The three ways in which a flush ends.
LEMMA AppendParts ==
    ASSUME TypeOK, Flush \/ Stop
    PROVE  \/ \E n \in 0 .. Len(buffer) : \E end \in Endings(n) :
                 /\ n = Len(buffer) /\ Write(n, end) /\ buffer' = <<>>
                 /\ forgotten' = forgotten \cup Spoilt(n, end)
           \/ \E n \in 0 .. Len(buffer) : \E end \in Endings(n) :
                 /\ Write(n, end) /\ buffer' = Unwritten
                 /\ forgotten' = forgotten \cup (Dropped \cup Spoilt(n, end))
           \/ /\ buffer # <<>> /\ buffer' = <<>> /\ log' = log /\ edge' = edge
              /\ forgotten' = forgotten \cup TasksOf(Range(buffer))
<1>1. Len(buffer) \in 0 .. Len(buffer) /\ "whole" \in Endings(Len(buffer))
  BY Sequences, RangeOf DEF Endings
<1>2. \E spent : AppendEvents(spent)
  BY DEF Flush, Stop
<1>3. PICK spent : AppendEvents(spent)
  BY <1>2
<1>. QED BY <1>1, <1>3 DEF AppendEvents, Forget

\* A flush neither invents an event nor forgets a task without one.
LEMMA AppendKeeps ==
    ASSUME TypeOK, Flush \/ Stop
    PROVE  /\ log' \in Seq(Record) /\ buffer' \in Seq(Record)
           /\ Logged' \subseteq Logged
           /\ forgotten \subseteq forgotten' /\ forgotten' \subseteq forgotten \cup TasksOf(Logged)
           /\ edge' \in {"whole", "half", "bare"}
           /\ edge' = "bare" => log' # <<>>
<1>1. log \in Seq(Record) /\ buffer \in Seq(Record)
  BY Sequences
<1>2. <<>> \in Seq(Record) /\ Range(<<>>) = {}
  BY EmptySeq DEF Range
<1>3. ASSUME NEW n \in 0 .. Len(buffer), NEW end \in Endings(n), Write(n, end), buffer' = <<>>,
             forgotten' = forgotten \cup Spoilt(n, end)
      PROVE  /\ log' \in Seq(Record) /\ buffer' \in Seq(Record)
             /\ Logged' \subseteq Logged
             /\ forgotten \subseteq forgotten' /\ forgotten' \subseteq forgotten \cup TasksOf(Logged)
             /\ edge' \in {"whole", "half", "bare"}
             /\ edge' = "bare" => log' # <<>>
  <2>1. Logged' = Range(log') \cup Range(buffer')
    BY DEF Logged
  <2>. QED BY <1>2, <1>3, <2>1, WriteKeeps
<1>4. ASSUME NEW n \in 0 .. Len(buffer), NEW end \in Endings(n), Write(n, end), buffer' = Unwritten,
             forgotten' = forgotten \cup (Dropped \cup Spoilt(n, end))
      PROVE  /\ log' \in Seq(Record) /\ buffer' \in Seq(Record)
             /\ Logged' \subseteq Logged
             /\ forgotten \subseteq forgotten' /\ forgotten' \subseteq forgotten \cup TasksOf(Logged)
             /\ edge' \in {"whole", "half", "bare"}
             /\ edge' = "bare" => log' # <<>>
  <2>1. PICK gone \in Seq(Record) : buffer = gone \o Unwritten /\ Dropped = TasksOf(Range(gone))
    BY UnwrittenParts
  <2>2. Unwritten \in Seq(Record)
    BY UnwrittenParts
  <2> HIDE DEF Unwritten
  <2>3. Range(gone \o Unwritten) = Range(gone) \cup Range(Unwritten)
    BY <2>1, <2>2, RangeConcatenation
  <2>4. Range(gone) \subseteq Logged /\ Range(Unwritten) \subseteq Logged
    BY <2>1, <2>3 DEF Logged
  <2>5. Dropped \subseteq TasksOf(Logged)
    BY <2>1, <2>4 DEF TasksOf
  <2>6. Logged' = Range(log') \cup Range(Unwritten)
    BY <1>4 DEF Logged
  <2>. QED BY <1>4, <2>2, <2>4, <2>5, <2>6, WriteKeeps
<1>5. ASSUME buffer' = <<>>, log' = log, edge' = edge,
             forgotten' = forgotten \cup TasksOf(Range(buffer))
      PROVE  /\ log' \in Seq(Record) /\ buffer' \in Seq(Record)
             /\ Logged' \subseteq Logged
             /\ forgotten \subseteq forgotten' /\ forgotten' \subseteq forgotten \cup TasksOf(Logged)
             /\ edge' \in {"whole", "half", "bare"}
             /\ edge' = "bare" => log' # <<>>
  BY <1>1, <1>2, <1>5 DEF Logged, TasksOf, TypeOK
<1>. QED BY <1>3, <1>4, <1>5, AppendParts

\* What the end of the process leaves.
LEMMA CrashParts ==
    ASSUME TypeOK, Crash
    PROVE  \E n \in 0 .. Len(buffer) : \E end \in Endings(n) :
              Write(n, end) /\ forgotten' = forgotten \cup Spoilt(n, end)
BY DEF Crash, Forget

\* Nor does the end of the process invent an event.
LEMMA CrashKeeps ==
    ASSUME TypeOK, Crash
    PROVE  /\ log' \in Seq(Record) /\ Range(log') \subseteq Logged
           /\ forgotten \subseteq forgotten' /\ forgotten' \subseteq forgotten \cup TasksOf(Logged)
           /\ edge' \in {"whole", "half", "bare"}
           /\ edge' = "bare" => log' # <<>>
BY CrashParts, WriteKeeps

-----------------------------------------------------------------------------
(* Types.                                                                  *)

\* The parts of TypeOK, with the names of the proofs.
LEMMA TypeParts ==
    TypeOK <=>
        /\ up \in BOOLEAN /\ loaded \in Imports /\ active \in BOOLEAN
        /\ cycle \in {"idle", "filling", "calling"}
        /\ queue \in Seq(Item)
        /\ running \subseteq Item /\ (\A x \in running : x.attempts # 0)
        /\ keys \subseteq Key
        /\ dlq \in Seq(Task) /\ Len(dlq) <= DlqMax
        /\ buffer \in Seq(Record) /\ log \in Seq(Record)
        /\ edge \in {"whole", "half", "bare"} /\ (edge = "bare" => log # <<>>)
        /\ due \subseteq accepted /\ expired \subseteq accepted
        /\ forgotten \subseteq accepted /\ accepted \subseteq Task
        /\ ended \in [Ends -> SUBSET Task]
        /\ used \in [{"cancel", "stop", "error", "restart", "day"} -> Nat]
<1>1. running \subseteq [task : Task, attempts : Nat \ {0}] <=>
         running \subseteq Item /\ (\A x \in running : x.attempts # 0)
  <2>1. \A x : x \in [task : Task, attempts : Nat \ {0}] <=> x \in Item /\ x.attempts # 0
    BY DEF Item
  <2>. QED BY <2>1
<1>. QED BY <1>1 DEF TypeOK, Item, Record

\* More tasks get to an end.
LEMMA EndsOfTasks ==
    ASSUME ended \in [Ends -> SUBSET Task], NEW s \in Ends, NEW ts \in SUBSET Task
    PROVE  [ended EXCEPT ![s] = @ \cup ts] \in [Ends -> SUBSET Task]
<1>1. ended[s] \cup ts \in SUBSET Task
  OBVIOUS
<1>. QED BY <1>1

\* The tasks there are.
LEMMA LiveParts ==
    ASSUME TypeOK
    PROVE  /\ \A t : t \in Live <=> \E x \in Range(queue) \cup running : x.task = t
           /\ \A t : t \in TasksOf(Logged) <=> \E e \in Logged : e.task = t
           /\ Range(queue) \cup running \subseteq Item
           /\ Logged \subseteq Record
<1>1. Range(queue) \subseteq Item /\ Range(log) \subseteq Record /\ Range(buffer) \subseteq Record
  BY Sequences, RangeOf
<1>2. running \subseteq Item
  BY TypeParts
<1>. QED BY <1>1, <1>2 DEF Live, Queued, Running, TasksOf, Logged

\* At first nothing was accepted and nothing is anywhere.
LEMMA WellTypedInit == Init => WellTyped
<1> SUFFICES ASSUME Init PROVE WellTyped
  OBVIOUS
<1>1. Range(<<>>) = {}
  BY DEF Range
<1>2. Live = {} /\ Logged = {}
  BY <1>1 DEF Init, Live, Logged, Queued, Running, TasksOf
<1>3. running = {} /\ IsFiniteSet(running)
  BY FS_EmptySet DEF Init
<1>4. <<>> \in Seq(Item) /\ <<>> \in Seq(Record) /\ <<>> \in Seq(Task) /\ Len(<<>>) <= DlqMax
  BY Numbers, EmptySeq
<1>5. /\ ended \in [Ends -> SUBSET Task]
      /\ used \in [{"cancel", "stop", "error", "restart", "day"} -> Nat]
  BY DEF Init
<1>6. TypeOK
  BY <1>4, <1>5, TypeParts DEF Init
<1>. QED BY <1>2, <1>3, <1>6 DEF Init, WellTyped, TasksOf

\* Only what was accepted gets anywhere, and the types stay.
LEMMA WellTypedStep == WellTyped /\ [Next]_vars => WellTyped'
<1> SUFFICES ASSUME WellTyped, [Next]_vars PROVE WellTyped'
  OBVIOUS
<1> USE DEF process, memory, store, clock, history
<1>1. /\ up \in BOOLEAN /\ loaded \in Imports /\ active \in BOOLEAN
      /\ cycle \in {"idle", "filling", "calling"}
      /\ queue \in Seq(Item)
      /\ running \subseteq Item /\ (\A x \in running : x.attempts # 0)
      /\ keys \subseteq Key
      /\ dlq \in Seq(Task) /\ Len(dlq) <= DlqMax
      /\ buffer \in Seq(Record) /\ log \in Seq(Record)
      /\ edge \in {"whole", "half", "bare"} /\ (edge = "bare" => log # <<>>)
      /\ due \subseteq accepted /\ expired \subseteq accepted
      /\ forgotten \subseteq accepted /\ accepted \subseteq Task
      /\ ended \in [Ends -> SUBSET Task]
      /\ used \in [{"cancel", "stop", "error", "restart", "day"} -> Nat]
  BY TypeParts DEF WellTyped
<1>2. TypeOK /\ IsFiniteSet(running)
  BY DEF WellTyped
<1>3. Range(queue) \subseteq Item /\ Range(log) \subseteq Record /\ Range(buffer) \subseteq Record
  BY <1>1, RangeOf
<1>4. \A x \in Range(queue) \cup running \cup Range(log) \cup Range(buffer) : x.task \in accepted
  BY DEF WellTyped, Live, Queued, Running, TasksOf, Logged
<1>5. /\ "cancel" \in DOMAIN used /\ "stop" \in DOMAIN used /\ "error" \in DOMAIN used
      /\ "restart" \in DOMAIN used /\ "day" \in DOMAIN used
      /\ \A b \in DOMAIN used : used[b] \in Nat
      /\ \A t \in Task : KeyOf[t] \in Key \cup {NoKey}
      /\ \A e \in Ends : ended[e] \subseteq Task
  BY <1>1, TaskAssumption
<1>6. up \/ cycle = "idle"
  BY DEF WellTyped
\* What has to be shown of a step.
<1> DEFINE Typed == /\ queue' \in Seq(Item) /\ running' \subseteq Item
                    /\ \A x \in running' : x.attempts # 0
                    /\ IsFiniteSet(running')
                    /\ buffer' \in Seq(Record) /\ log' \in Seq(Record)
           Small == /\ up' \in BOOLEAN /\ loaded' \in Imports /\ active' \in BOOLEAN
                    /\ cycle' \in {"idle", "filling", "calling"}
                    /\ keys' \subseteq Key
                    /\ dlq' \in Seq(Task) /\ Len(dlq') <= DlqMax
                    /\ edge' \in {"whole", "half", "bare"} /\ (edge' = "bare" => log' # <<>>)
                    /\ due' \subseteq accepted' /\ expired' \subseteq accepted'
                    /\ forgotten' \subseteq accepted' /\ accepted' \subseteq Task
                    /\ ended' \in [Ends -> SUBSET Task]
                    /\ used' \in [{"cancel", "stop", "error", "restart", "day"} -> Nat]
           Known == \A x \in Range(queue') \cup running' \cup Range(log') \cup Range(buffer') :
                        x.task \in accepted'
           Empty == ~up' => /\ queue' = <<>> /\ running' = {} /\ buffer' = <<>> /\ keys' = {}
                            /\ cycle' = "idle" /\ ~active'
<1>7. ASSUME Typed, Small, Known, Empty PROVE WellTyped'
  <2>1. TypeOK'
    <3>1. running' \subseteq [task : Task, attempts : Nat \ {0}]
      <4>1. \A x \in running' : x \in [task : Task, attempts : Nat \ {0}]
        BY <1>7 DEF Item
      <4>. QED BY <4>1
    <3>. QED BY <1>7, <3>1 DEF TypeOK, Item, Record
  <2>2. (Live \cup TasksOf(Logged) \subseteq accepted)'
    BY <1>7 DEF Live, Queued, Running, TasksOf, Logged
  <2>. QED BY <1>7, <2>1, <2>2 DEF WellTyped
\* Steps that leave the tasks and the events where they are.
<1>8. ASSUME UNCHANGED <<queue, running, buffer, log, accepted>> PROVE Typed /\ Known
  BY <1>1, <1>2, <1>4, <1>8
<1>9. ASSUME UNCHANGED <<up, loaded, active, cycle>>, up PROVE Empty
  BY <1>9
<1> HIDE DEF Typed, Small, Known, Empty
<1>10. ASSUME NEW t \in Task, Enqueue(t) PROVE WellTyped'
  <2> DEFINE x == Entry(t, 0)
             e == Event(x, "QUEUED")
  <2>1. x \in Item /\ x.task = t /\ e \in Record /\ e.task = t
    BY IsItem, IsRecord
  <2>2. queue' = Append(queue, x) /\ buffer' = Append(buffer, e) /\ accepted' = accepted \cup {t}
    BY <1>10 DEF Enqueue
  <2> HIDE DEF x, e
  <2>3. /\ queue' \in Seq(Item) /\ Range(queue') = Range(queue) \cup {x}
        /\ buffer' \in Seq(Record) /\ Range(buffer') = Range(buffer) \cup {e}
    BY <1>1, <2>1, <2>2, RangeOfAppend
  <2>4. Typed
    BY <1>1, <1>2, <1>10, <2>3 DEF Enqueue, Typed
  <2>5. Known
    BY <1>4, <1>10, <2>1, <2>2, <2>3 DEF Enqueue, Known
  <2>6. Small
    BY <1>1, <1>5, <1>10 DEF Enqueue, Small
  <2>7. Empty
    BY <1>10 DEF Enqueue, Idle, Empty
  <2>. QED BY <1>7, <2>4, <2>5, <2>6, <2>7
<1>11. ASSUME NEW k \in Key, EnqueueInvalid(k) PROVE WellTyped'
  <2>1. Small
    BY <1>1, <1>11 DEF EnqueueInvalid, Small
  <2>2. Empty
    BY <1>11 DEF EnqueueInvalid, Idle, Empty
  <2>. QED BY <1>7, <1>8, <1>11, <2>1, <2>2 DEF EnqueueInvalid
<1>12. ASSUME NEW t \in Task, Cancel(t) PROVE WellTyped'
  <2>1. PICK i \in DOMAIN queue : /\ queue[i].task = t
                                  /\ buffer' = Append(buffer, Event(queue[i], "CANCELLED"))
    BY <1>12 DEF Cancel
  <2> DEFINE x == queue[i]
             e == Event(x, "CANCELLED")
  <2>2. x \in Item /\ e \in Record /\ e.task = t
    BY <1>1, <2>1, IsRecord DEF Ends
  <2>3. t \in accepted
    BY <1>4, <2>1 DEF Range
  <2>4. buffer' = Append(buffer, e)
    BY <2>1
  <2> HIDE DEF x, e
  <2>5. buffer' \in Seq(Record) /\ Range(buffer') = Range(buffer) \cup {e}
    BY <1>1, <2>2, <2>4, RangeOfAppend
  <2>6. Typed
    BY <1>1, <1>2, <1>12, <2>5 DEF Cancel, Typed
  <2>7. Known
    BY <1>4, <1>12, <2>2, <2>3, <2>5 DEF Cancel, Known
  <2>8. Small
    <3>1. ended' \in [Ends -> SUBSET Task]
      BY <1>1, <1>5, <1>12 DEF Cancel, Ended, Ends
    <3>2. used' \in [{"cancel", "stop", "error", "restart", "day"} -> Nat]
      BY <1>1, <1>5, <1>12 DEF Cancel, Spend
    <3>3. keys' \subseteq Key
      BY <1>1, <1>12 DEF Cancel, FreeKeys
    <3>. QED BY <1>1, <1>12, <3>1, <3>2, <3>3 DEF Cancel, Small
  <2>9. Empty
    BY <1>12 DEF Cancel, Idle, Empty
  <2>. QED BY <1>7, <2>6, <2>7, <2>8, <2>9
<1>13. CASE Start
  BY <1>1, <1>7, <1>8, <1>13 DEF Start, Idle, Small, Empty
<1>14. CASE ClearDLQ
  <2>1. Small
    BY <1>1, <1>14, EmptySeq, Numbers DEF ClearDLQ, Small
  <2>. QED BY <1>7, <1>8, <1>14, <2>1 DEF ClearDLQ, Idle, Empty
<1>15. CASE Flush \/ Stop
  <2>1. UNCHANGED <<process, cycle, queue, running, keys, dlq, clock, accepted, ended>> /\ up
    BY <1>15 DEF Flush, Stop, Idle
  <2>2. /\ buffer' \in Seq(Record) /\ log' \in Seq(Record) /\ Logged' \subseteq Logged
        /\ forgotten' \subseteq forgotten \cup TasksOf(Logged)
        /\ edge' \in {"whole", "half", "bare"} /\ (edge' = "bare" => log' # <<>>)
    BY <1>2, <1>15, AppendKeeps
  <2>3. forgotten' \subseteq accepted
    BY <1>1, <2>2 DEF WellTyped
  <2>4. Typed
    BY <1>1, <1>2, <2>1, <2>2 DEF Typed
  <2>5. Known
    BY <1>4, <2>1, <2>2 DEF Known, Logged
  <2>6. used' \in [{"cancel", "stop", "error", "restart", "day"} -> Nat]
    <3>1. CASE Flush
      BY <1>1, <1>5, <3>1 DEF Flush, AppendEvents
    <3>2. CASE Stop
      BY <1>1, <1>5, <3>2 DEF Stop, AppendEvents
    <3>. QED BY <1>15, <3>1, <3>2
  <2>7. active' \in BOOLEAN
    BY <1>1, <1>15 DEF Flush, Stop
  <2>8. Small
    BY <1>1, <2>1, <2>2, <2>3, <2>6, <2>7 DEF Small
  <2>9. Empty
    BY <2>1 DEF Empty
  <2>. QED BY <1>7, <2>4, <2>5, <2>8, <2>9
<1>16. CASE Evict
  <2> DEFINE late == {x \in Range(queue) : x.task \in expired}
  <2>1. /\ queue' \in Seq(Item) /\ Range(queue') = Range(queue) \ late
        /\ ended' = [ended EXCEPT !["EXPIRED"] = @ \cup TasksOf(late)]
    BY <1>2, <1>16, EvictParts
  <2>2. PICK more \in Seq(Record) : /\ buffer' = buffer \o more
                                    /\ Range(more) = {Event(x, "EXPIRED") : x \in late}
    BY <1>2, <1>16, EvictParts
  <2>3. buffer' \in Seq(Record) /\ Range(buffer') = Range(buffer) \cup Range(more)
    BY <1>1, <2>2, ConcatProperties, RangeConcatenation
  <2>4. \A e \in Range(more) : e.task \in accepted
    BY <1>4, <2>2 DEF Event
  <2>5. Typed
    BY <1>1, <1>2, <1>16, <2>1, <2>3 DEF Evict, Typed
  <2>6. Known
    BY <1>4, <1>16, <2>1, <2>3, <2>4 DEF Evict, Known
  <2>7. Small
    <3>1. TasksOf(late) \subseteq Task
      BY <1>1, <1>4 DEF TasksOf
    <3>2. ended' \in [Ends -> SUBSET Task]
      <4>1. "EXPIRED" \in Ends
        BY DEF Ends
      <4>. QED BY <1>1, <2>1, <3>1, <4>1, EndsOfTasks
    <3>3. keys' \subseteq Key
      BY <1>1, <1>16 DEF Evict, FreeKeys
    <3>. QED BY <1>1, <1>16, <3>2, <3>3 DEF Evict, Small
  <2>8. Empty
    BY <1>16 DEF Evict, Idle, Empty
  <2>. QED BY <1>7, <2>5, <2>6, <2>7, <2>8
<1>17. CASE Dispatch
  <2> DEFINE x == queue[NextUp]
             y == Entry(x.task, x.attempts + 1)
             e == Event(y, "RUNNING")
  <2>1. NextUp \in DOMAIN queue
    BY <1>2, <1>17, NextUpReady DEF Dispatch, Ready
  <2>2. x \in Range(queue) /\ x \in Item /\ x.task \in accepted
    <3>1. x \in Range(queue)
      BY <2>1 DEF Range
    <3>. QED BY <1>3, <1>4, <3>1
  <2>3. Dequeued(NextUp) \in Seq(Item) /\ Range(Dequeued(NextUp)) \subseteq Range(queue)
    BY <1>1, <2>1, EntryTaken DEF Dequeued
  <2>4. /\ queue' = Dequeued(NextUp) /\ buffer' = Append(buffer, e)
        /\ \/ /\ running' = running \cup {y} /\ cycle' = "calling"
              /\ UNCHANGED <<dlq, ended>>
           \/ PushDLQ(y) /\ UNCHANGED <<running, cycle>>
        /\ UNCHANGED <<process, active, keys, store, clock, accepted, used>>
    BY <1>17 DEF Dispatch
  <2>5. y \in Item /\ y.task = x.task /\ y.attempts = x.attempts + 1 /\ y.attempts # 0
    <3>1. x.task \in Task /\ x.attempts + 1 \in Nat /\ x.attempts + 1 # 0
      BY <2>2 DEF Item
    <3>. QED BY <3>1, IsItem
  <2> HIDE DEF x, y
  <2>6. e \in Record /\ e.task = x.task
    BY <2>5, IsRecord
  <2> HIDE DEF e
  <2>7. buffer' \in Seq(Record) /\ Range(buffer') = Range(buffer) \cup {e}
    BY <1>1, <2>4, <2>6, RangeOfAppend
  <2>8. Typed
    <3>1. IsFiniteSet(running \cup {y})
      BY <1>2, FS_AddElement
    <3>. QED BY <1>1, <1>2, <2>3, <2>4, <2>5, <2>7, <3>1 DEF Typed
  <2>9. Known
    <3>1. log' = log /\ accepted' = accepted
      BY <2>4
    <3>2. Range(queue') \subseteq Range(queue)
      BY <2>3, <2>4
    <3>3. running' \subseteq running \cup {y}
      BY <2>4
    <3>4. y.task \in accepted /\ e.task \in accepted
      BY <2>2, <2>5, <2>6
    <3> HIDE DEF process, memory, store, clock, history
    <3>. QED BY <1>4, <2>7, <3>1, <3>2, <3>3, <3>4 DEF Known
  <2>10. Small
    <3>1. PushDLQ(y) => /\ dlq' \in Seq(Task) /\ Len(dlq') <= DlqMax
                        /\ ended' = [ended EXCEPT !["DLQ"] = @ \cup {y.task}]
      BY <1>2, <2>5, PushParts
    <3>2. y.task \in Task
      BY <2>5 DEF Item
    <3>3. PushDLQ(y) => ended' \in [Ends -> SUBSET Task]
      <4>1. "DLQ" \in Ends /\ {y.task} \in SUBSET Task
        BY <3>2 DEF Ends
      <4>2. ended \in [Ends -> SUBSET Task]
        BY <1>1
      <4>3. [ended EXCEPT !["DLQ"] = @ \cup {y.task}] \in [Ends -> SUBSET Task]
        BY <4>1, <4>2, EndsOfTasks
      <4>. QED BY <3>1, <4>3
    <3>. QED BY <1>1, <2>4, <3>1, <3>3 DEF Small
  <2>11. Empty
    BY <1>6, <1>17, <2>4 DEF Dispatch, Empty
  <2>. QED BY <1>7, <2>8, <2>9, <2>10, <2>11
<1>18. CASE Await \/ EndCycle
  BY <1>1, <1>6, <1>7, <1>8, <1>18 DEF Await, EndCycle, Small, Empty
<1>19. ASSUME NEW x \in running, HandlerReturns(x) PROVE WellTyped'
  <2> DEFINE e == Event(x, "DONE")
  <2>1. x \in Item /\ x.task \in Task /\ x.task \in accepted
    BY <1>1, <1>4 DEF Item
  <2>2. e \in Record /\ e.task = x.task
    BY <2>1, IsRecord DEF Ends
  <2>3. buffer' = Append(buffer, e)
    BY <1>19 DEF HandlerReturns
  <2> HIDE DEF e
  <2>4. buffer' \in Seq(Record) /\ Range(buffer') = Range(buffer) \cup {e}
    BY <1>1, <2>2, <2>3, RangeOfAppend
  <2>5. Typed
    BY <1>1, <1>2, <1>19, <2>4, FS_RemoveElement DEF HandlerReturns, Typed
  <2>6. Known
    BY <1>4, <1>19, <2>1, <2>2, <2>4 DEF HandlerReturns, Known
  <2>7. Small
    <3>1. ended' \in [Ends -> SUBSET Task]
      BY <1>1, <1>5, <1>19, <2>1 DEF HandlerReturns, Ended, Ends
    <3>2. keys' \subseteq Key
      BY <1>1, <1>19 DEF HandlerReturns, FreeKeys
    <3>. QED BY <1>1, <1>19, <3>1, <3>2 DEF HandlerReturns, Small
  <2>8. Empty
    BY <1>19 DEF HandlerReturns, Idle, Empty
  <2>. QED BY <1>7, <2>5, <2>6, <2>7, <2>8
<1>20. ASSUME NEW x \in running, HandlerThrows(x) PROVE WellTyped'
  <2> DEFINE y == Retried(x)
             e == Event(x, "QUEUED")
  <2>1. x \in Item /\ x.task \in Task /\ x.attempts \in Nat /\ x.task \in accepted
    BY <1>1, <1>4 DEF Item
  <2>2. y \in Item /\ y.task = x.task /\ e \in Record /\ e.task = x.task
    BY <2>1, IsItem, IsRecord DEF Retried
  <2>3. /\ running' = running \ {x}
        /\ cycle' \in {"idle", "filling", "calling"}
        /\ up /\ up' = up
        /\ UNCHANGED <<process, active, store, expired, accepted, used>>
    BY <1>1, <1>6, <1>20 DEF HandlerThrows, Rejected, Idle
  <2>4. \/ UNCHANGED <<queue, keys, dlq, buffer, due, ended>>
        \/ /\ queue' = Append(queue, y) /\ buffer' = Append(buffer, e)
           /\ keys' = keys /\ due' \subseteq due
           /\ UNCHANGED <<dlq, ended>>
        \/ /\ keys' \subseteq keys /\ PushDLQ(x)
           /\ UNCHANGED <<queue, buffer, due>>
    BY <1>20 DEF HandlerThrows, KeysAfterRetry, FreeKeys
  <2> HIDE DEF y, e
  <2>5. queue' = Append(queue, y) => queue' \in Seq(Item) /\ Range(queue') = Range(queue) \cup {y}
    BY <1>1, <2>2, RangeOfAppend
  <2>6. buffer' = Append(buffer, e) => buffer' \in Seq(Record) /\ Range(buffer') = Range(buffer) \cup {e}
    BY <1>1, <2>2, RangeOfAppend
  <2>7. Typed
    <3>1. IsFiniteSet(running \ {x})
      BY <1>2, FS_RemoveElement
    <3>. QED BY <1>1, <2>3, <2>4, <2>5, <2>6, <3>1 DEF Typed
  <2>8. Known
    BY <1>4, <2>1, <2>2, <2>3, <2>4, <2>5, <2>6 DEF Known
  <2>9. Small
    <3>1. PushDLQ(x) => /\ dlq' \in Seq(Task) /\ Len(dlq') <= DlqMax
                        /\ ended' = [ended EXCEPT !["DLQ"] = @ \cup {x.task}]
      BY <1>2, <2>1, PushParts
    <3>2. PushDLQ(x) => ended' \in [Ends -> SUBSET Task]
      <4>1. "DLQ" \in Ends /\ {x.task} \in SUBSET Task
        BY <2>1 DEF Ends
      <4>2. ended \in [Ends -> SUBSET Task]
        BY <1>1
      <4>3. [ended EXCEPT !["DLQ"] = @ \cup {x.task}] \in [Ends -> SUBSET Task]
        BY <4>1, <4>2, EndsOfTasks
      <4>. QED BY <3>1, <4>3
    <3>. QED BY <1>1, <2>3, <2>4, <3>1, <3>2 DEF Small
  <2>10. Empty
    BY <2>3 DEF Empty
  <2>. QED BY <1>7, <2>7, <2>8, <2>9, <2>10
<1>21. ASSUME NEW t \in Task, BecomesDue(t) \/ Expires(t) PROVE WellTyped'
  <2>1. Small
    BY <1>1, <1>21 DEF BecomesDue, Expires, Small
  <2>2. Empty
    <3>1. UNCHANGED <<up, active, cycle, queue, running, keys, buffer>>
      BY <1>21 DEF BecomesDue, Expires
    <3>. QED BY <3>1 DEF Empty, WellTyped
  <2>. QED BY <1>7, <1>8, <1>21, <2>1, <2>2 DEF BecomesDue, Expires
<1>22. CASE Midnight
  <2>1. Range(<<>>) = {} /\ <<>> \in Seq(Record)
    BY DEF Range
  <2>2. Typed
    BY <1>1, <1>2, <1>22, <2>1 DEF Midnight, Typed
  <2>3. Known
    BY <1>4, <1>22, <2>1 DEF Midnight, Known
  <2>4. Small
    <3>1. used' \in [{"cancel", "stop", "error", "restart", "day"} -> Nat]
      BY <1>1, <1>5, <1>22 DEF Midnight, Spend
    <3>2. forgotten' \subseteq accepted
      BY <1>1, <1>4, <1>22 DEF Midnight, Forget, TasksOf
    <3>. QED BY <1>1, <1>22, <3>1, <3>2 DEF Midnight, Small
  <2>5. Empty
    <3>1. UNCHANGED <<up, active, cycle, queue, running, keys, buffer>>
      BY <1>22 DEF Midnight
    <3>. QED BY <3>1 DEF Empty, WellTyped
  <2>. QED BY <1>7, <2>2, <2>3, <2>4, <2>5
<1>23. CASE Crash
  <2>1. /\ log' \in Seq(Record) /\ Range(log') \subseteq Range(log) \cup Range(buffer)
        /\ forgotten' \subseteq forgotten \cup TasksOf(Logged)
        /\ edge' \in {"whole", "half", "bare"} /\ (edge' = "bare" => log' # <<>>)
    BY <1>2, <1>23, CrashKeeps DEF Logged
  <2>2. /\ Range(<<>>) = {} /\ <<>> \in Seq(Record) /\ <<>> \in Seq(Item) /\ <<>> \in Seq(Task)
        /\ Len(<<>>) <= DlqMax /\ IsFiniteSet({})
    BY Numbers, EmptySeq, FS_EmptySet DEF Range
  <2>3. Typed
    BY <1>23, <2>1, <2>2 DEF Crash, Typed
  <2>4. Known
    BY <1>4, <1>23, <2>1, <2>2 DEF Crash, Known
  <2>5. Small
    <3>1. forgotten' \subseteq accepted
      BY <1>1, <2>1 DEF WellTyped
    <3>. QED BY <1>1, <1>23, <2>1, <2>2, <3>1 DEF Crash, Small
  <2>6. Empty
    BY <1>23 DEF Crash, Empty
  <2>. QED BY <1>7, <2>3, <2>4, <2>5, <2>6
<1>24. CASE Restart
  <2>1. queue' \in Seq(Item) /\ TasksOf(Range(queue')) = Recoverable(log)
    BY <1>2, <1>24, RestartParts
  <2>2. Recoverable(log) \subseteq accepted /\ Recoverable(log) \subseteq Task
    <3>1. ASSUME NEW t \in Recoverable(log) PROVE t \in accepted /\ t \in Task
      <4>1. PICK e \in Range(log) : e.task = t
        BY <1>1, <3>1, RecoverableTasks
      <4>. QED BY <1>4, <4>1, <1>1
    <3>. QED BY <3>1
  <2>3. Typed
    BY <1>1, <1>2, <1>24, <2>1 DEF Restart, Typed
  <2>4. Known
    BY <1>4, <1>24, <2>1, <2>2 DEF Restart, Known, TasksOf
  <2>5. Small
    <3>1. used' \in [{"cancel", "stop", "error", "restart", "day"} -> Nat]
      BY <1>1, <1>5, <1>24 DEF Restart, Spend
    <3>2. keys' \subseteq Key
      BY <1>5, <1>24, <2>2 DEF Restart
    <3>3. due' \subseteq accepted
      BY <1>1, <1>24, <2>2 DEF Restart
    <3>. QED BY <1>1, <1>24, <3>1, <3>2, <3>3 DEF Restart, Small
  <2>6. Empty
    BY <1>24 DEF Restart, Empty
  <2>. QED BY <1>7, <2>3, <2>4, <2>5, <2>6
<1>25. CASE UNCHANGED vars
  <2>1. Small
    BY <1>1, <1>25 DEF Small, vars
  <2>2. Empty
    BY <1>25 DEF Empty, WellTyped, vars
  <2>. QED BY <1>7, <1>8, <1>25, <2>1, <2>2 DEF vars
<1>. QED BY <1>10, <1>11, <1>12, <1>13, <1>14, <1>15, <1>16, <1>17, <1>18, <1>19, <1>20,
            <1>21, <1>22, <1>23, <1>24, <1>25 DEF Next, Poll, Settle

\* Every variable keeps its type: with the dead-letter queue within its size,
\* and no event or entry of a task that nobody enqueued.
THEOREM TypesCorrect == Spec => []WellTyped
BY WellTypedInit, WellTypedStep, PTL DEF Spec

\* The property the run checks: every variable keeps its type, whatever the
\* numbers of tasks, keys, slots and stops.
THEOREM TypeCorrect == Spec => []TypeOK
<1>1. WellTyped => TypeOK
  BY DEF WellTyped
<1>. QED BY <1>1, TypesCorrect, PTL

-----------------------------------------------------------------------------
(* What each step does to the tasks and to the events.                     *)

\* The events a process that started now would find, had they all been written.
Events == log \o buffer

\* As a set they are what is logged.
LEMMA EventsParts ==
    ASSUME TypeOK
    PROVE  Events \in Seq(Record) /\ Range(Events) = Logged
BY Sequences, ConcatProperties, RangeConcatenation DEF Events, Logged

\* One more event is written.
Writes(e) == /\ e \in Record
             /\ Events' = Append(Events, e)
             /\ Logged' = Logged \cup {e}

\* What is put into the buffer is written.
LEMMA Written ==
    ASSUME TypeOK, NEW e \in Record, buffer' = Append(buffer, e), log' = log
    PROVE  Writes(e)
<1>1. log \in Seq(Record) /\ buffer \in Seq(Record)
  BY Sequences
<1>2. Range(buffer') = Range(buffer) \cup {e}
  BY <1>1, RangeOfAppend
<1>3. log \o Append(buffer, e) = Append(log \o buffer, e)
  <2>1. Append(buffer, e) = buffer \o <<e>> /\ <<e>> \in Seq(Record)
    BY <1>1, AppendIsConcat
  <2>2. log \o buffer \in Seq(Record)
    BY <1>1, ConcatProperties
  <2>3. Append(log \o buffer, e) = (log \o buffer) \o <<e>>
    BY <2>2, AppendIsConcat
  <2>. QED BY <1>1, <2>1, <2>3, ConcatAssociative
<1>. QED BY <1>2, <1>3 DEF Writes, Events, Logged

\* enqueue puts one entry at the end of the queue, and says so.
LEMMA EnqueueMoves ==
    ASSUME TypeOK, NEW t \in Task, Enqueue(t)
    PROVE  \E x \in Item, e \in Record :
              /\ x.task = t /\ x.attempts = 0
              /\ e.task = t /\ e.state = "QUEUED" /\ e.attempts = 0
              /\ queue' = Append(queue, x)
              /\ Range(queue') = Range(queue) \cup {x}
              /\ Writes(e)
<1> DEFINE x == Entry(t, 0)
           e == Event(x, "QUEUED")
<1>1. x \in Item /\ x.task = t /\ x.attempts = 0
  BY IsItem
<1>2. e \in Record /\ e.task = t /\ e.state = "QUEUED" /\ e.attempts = 0
  BY <1>1, IsRecord
<1>3. queue' = Append(queue, x) /\ buffer' = Append(buffer, e) /\ log' = log
  BY DEF Enqueue, store
<1> HIDE DEF x, e
<1>4. Range(queue') = Range(queue) \cup {x}
  BY <1>1, <1>3, Sequences, RangeOfAppend
<1>5. Writes(e)
  BY <1>2, <1>3, Written
<1>. QED BY <1>1, <1>2, <1>3, <1>4, <1>5

\* A cancelled task was waiting, and is over.
LEMMA CancelMoves ==
    ASSUME TypeOK, NEW t \in Task, Cancel(t)
    PROVE  \E x \in Range(queue), e \in Record :
              /\ x.task = t
              /\ e.task = t /\ e.state = "CANCELLED" /\ e.attempts = x.attempts
              /\ Writes(e)
              /\ t \in ended'["CANCELLED"]
<1>1. PICK i \in DOMAIN queue : /\ queue[i].task = t
                                /\ buffer' = Append(buffer, Event(queue[i], "CANCELLED"))
  BY DEF Cancel
<1>2. queue[i] \in Item /\ queue[i] \in Range(queue)
  BY <1>1, Sequences, RangeOf
<1> DEFINE e == Event(queue[i], "CANCELLED")
<1>3. /\ e \in Record /\ e.task = t /\ e.state = "CANCELLED"
      /\ e.attempts = queue[i].attempts
  BY <1>1, <1>2, IsRecord DEF Ends
<1>4. buffer' = Append(buffer, e) /\ log' = log
  BY <1>1 DEF Cancel, store
<1> HIDE DEF e
<1>5. Writes(e)
  BY <1>3, <1>4, Written
<1>6. t \in ended'["CANCELLED"]
  BY DEF Cancel, Ended, TypeOK, Ends
<1>. QED BY <1>1, <1>2, <1>3, <1>5, <1>6

\* A dispatch takes one entry out of the queue with one more attempt, and
\* has it run or gives it up.
LEMMA DispatchMoves ==
    ASSUME TypeOK, NoneTwice(queue), Dispatch
    PROVE  \E x \in Range(queue), y \in Item, e \in Record :
              /\ y.task = x.task /\ y.attempts = x.attempts + 1
              /\ e.task = x.task /\ e.state = "RUNNING" /\ e.attempts = x.attempts + 1
              /\ Range(queue') = Range(queue) \ {x}
              /\ \A z \in Range(queue) \ {x} : z.task # x.task
              /\ NoneTwice(queue')
              /\ Writes(e)
              /\ \/ running' = running \cup {y} /\ UNCHANGED ended
                 \/ /\ UNCHANGED running
                    /\ ended' = [ended EXCEPT !["DLQ"] = @ \cup {x.task}]
<1> DEFINE x == queue[NextUp]
           y == Entry(x.task, x.attempts + 1)
           e == Event(y, "RUNNING")
<1>1. Ready # {}
  BY DEF Dispatch
<1>2. /\ x \in Range(queue) /\ x \in Item
      /\ Range(Dequeued(NextUp)) = Range(queue) \ {x}
      /\ \A z \in Range(queue) \ {x} : z.task # x.task
      /\ NoneTwice(Dequeued(NextUp))
  BY <1>1, DequeuedParts
<1>3. /\ queue' = Dequeued(NextUp) /\ buffer' = Append(buffer, e) /\ log' = log
      /\ \/ running' = running \cup {y} /\ UNCHANGED ended
         \/ PushDLQ(y) /\ UNCHANGED running
  BY DEF Dispatch, store
<1>4. y \in Item /\ y.task = x.task /\ y.attempts = x.attempts + 1
  <2>1. x.task \in Task /\ x.attempts + 1 \in Nat
    BY <1>2 DEF Item
  <2>. QED BY <2>1, IsItem
<1> HIDE DEF x, y
<1>5. e \in Record /\ e.task = x.task /\ e.state = "RUNNING" /\ e.attempts = x.attempts + 1
  BY <1>4, IsRecord
<1> HIDE DEF e
<1>6. Writes(e)
  BY <1>3, <1>5, Written
<1>7. PushDLQ(y) => ended' = [ended EXCEPT !["DLQ"] = @ \cup {x.task}]
  BY <1>4, PushParts
<1>. QED BY <1>2, <1>3, <1>4, <1>5, <1>6, <1>7

\* An eviction writes one event for each entry whose time has passed.
LEMMA EvictMoves ==
    ASSUME TypeOK, Evict
    PROVE  LET late == {x \in Range(queue) : x.task \in expired}
           IN \E more \in Seq(Record) :
                 /\ Range(more) = {Event(x, "EXPIRED") : x \in late}
                 /\ Events' = Events \o more
                 /\ Logged' = Logged \cup Range(more)
<1> DEFINE late == {x \in Range(queue) : x.task \in expired}
<1>1. PICK more \in Seq(Record) : /\ buffer' = buffer \o more
                                  /\ Range(more) = {Event(x, "EXPIRED") : x \in late}
  BY EvictParts
<1>2. log \in Seq(Record) /\ buffer \in Seq(Record) /\ log' = log
  BY Sequences DEF Evict, store
<1>3. Range(buffer') = Range(buffer) \cup Range(more)
  BY <1>1, <1>2, RangeConcatenation
<1>4. log \o (buffer \o more) = (log \o buffer) \o more
  BY <1>2, ConcatAssociative
<1>. QED BY <1>1, <1>2, <1>3, <1>4 DEF Events, Logged

\* A handler that returns is done.
LEMMA ReturnMoves ==
    ASSUME TypeOK, NEW x \in running, HandlerReturns(x)
    PROVE  \E e \in Record : e.task = x.task /\ e.state = "DONE" /\ e.attempts = x.attempts
                             /\ Writes(e)
<1> DEFINE e == Event(x, "DONE")
<1>1. x \in Item
  BY TypeParts
<1>2. e \in Record /\ e.task = x.task /\ e.state = "DONE" /\ e.attempts = x.attempts
  BY <1>1, IsRecord DEF Ends
<1>3. buffer' = Append(buffer, e) /\ log' = log
  BY DEF HandlerReturns, store
<1> HIDE DEF e
<1>. QED BY <1>2, <1>3, Written

\* A failure loses the task, has it wait for its retry, or gives it up.
LEMMA ThrowMoves ==
    ASSUME TypeOK, NEW x \in running, HandlerThrows(x)
    PROVE  \/ loaded /\ UNCHANGED <<queue, buffer, log, keys, ended>>
           \/ /\ ~loaded /\ x.attempts <= MaxRetries
              /\ UNCHANGED <<keys, ended>>
              /\ \E y \in Item, e \in Record :
                    /\ y.task = x.task /\ y.attempts = x.attempts
                    /\ e.task = x.task /\ e.state = "QUEUED" /\ e.attempts = x.attempts
                    /\ queue' = Append(queue, y)
                    /\ Range(queue') = Range(queue) \cup {y}
                    /\ Writes(e)
           \/ /\ UNCHANGED <<queue, buffer, log>>
              /\ ended' = [ended EXCEPT !["DLQ"] = @ \cup {x.task}]
              /\ keys' = keys \ {KeyOf[x.task]}
<1> DEFINE y == Retried(x)
           e == Event(x, "QUEUED")
<1>1. x \in Item
  BY TypeParts
<1>2. y \in Item /\ y.task = x.task /\ y.attempts = x.attempts
  BY <1>1, IsItem DEF Retried, Item
<1>3. e \in Record /\ e.task = x.task /\ e.state = "QUEUED" /\ e.attempts = x.attempts
  BY <1>1, IsRecord
<1>4. log' = log
  BY DEF HandlerThrows, store
<1>5. \/ loaded /\ UNCHANGED <<queue, buffer, keys, ended>>
      \/ /\ ~loaded /\ x.attempts <= MaxRetries
         /\ queue' = Append(queue, y) /\ buffer' = Append(buffer, e)
         /\ UNCHANGED <<keys, ended>>
      \/ UNCHANGED <<queue, buffer>> /\ PushDLQ(x) /\ keys' = keys \ {KeyOf[x.task]}
  BY DEF HandlerThrows, CanRetry, KeysAfterRetry, FreeKeys
<1> HIDE DEF y, e
<1>6. queue' = Append(queue, y) => Range(queue') = Range(queue) \cup {y}
  BY <1>2, Sequences, RangeOfAppend
<1>7. buffer' = Append(buffer, e) => Writes(e)
  BY <1>3, <1>4, Written
<1>8. PushDLQ(x) => ended' = [ended EXCEPT !["DLQ"] = @ \cup {x.task}]
  BY <1>1, PushParts
<1>. QED BY <1>2, <1>3, <1>4, <1>5, <1>6, <1>7, <1>8

\* Every step is of one of these kinds.
LEMMA Steps ==
    ASSUME [Next]_vars
    PROVE  \/ \E t \in Task : Enqueue(t) \/ Cancel(t)
           \/ Evict \/ Dispatch
           \/ \E x \in running : HandlerReturns(x) \/ HandlerThrows(x)
           \/ Flush \/ Stop \/ Midnight \/ Crash \/ Restart
           \/ /\ UNCHANGED <<up, loaded, queue, running, buffer, log, forgotten, accepted, ended, used>>
              /\ keys \subseteq keys' /\ expired \subseteq expired'
<1> USE DEF process, memory, store, clock, history
<1>1. ASSUME NEW t \in Task, BecomesDue(t) \/ Expires(t)
      PROVE  /\ UNCHANGED <<up, loaded, queue, running, buffer, log, forgotten, accepted, ended, used>>
             /\ keys \subseteq keys' /\ expired \subseteq expired'
  BY <1>1 DEF BecomesDue, Expires
<1>2. ASSUME NEW k \in Key, EnqueueInvalid(k)
      PROVE  /\ UNCHANGED <<up, loaded, queue, running, buffer, log, forgotten, accepted, ended, used>>
             /\ keys \subseteq keys' /\ expired \subseteq expired'
  BY <1>2 DEF EnqueueInvalid
<1>3. CASE Start \/ ClearDLQ \/ Await \/ EndCycle
  BY <1>3 DEF Start, ClearDLQ, Await, EndCycle
<1>4. CASE UNCHANGED vars
  BY <1>4 DEF vars
<1>. QED BY <1>1, <1>2, <1>3, <1>4 DEF Next, Poll, Settle

-----------------------------------------------------------------------------
(* A task is in one place.                                                 *)

\* OnePlace, with the entries and not only their tasks told apart.
Places ==
    /\ NoneTwice(queue)
    /\ \A x, y \in running : x.task = y.task => x = y
    /\ \A x \in Range(queue), y \in running : x.task # y.task
    /\ Cardinality(running) <= Concurrency

\* No step brings a task to a second place.
LEMMA PlacesStep == WellTyped /\ Places /\ [Next]_vars => Places'
<1> SUFFICES ASSUME WellTyped, Places, [Next]_vars PROVE Places'
  OBVIOUS
<1>1. /\ TypeOK /\ IsFiniteSet(running) /\ Cardinality(running) \in Nat
      /\ Concurrency \in Nat
      /\ queue \in Seq(Item) /\ running \subseteq Item
  BY FS_CardinalityType, Numbers, TypeParts DEF WellTyped
<1>2. \A x \in Range(queue) \cup running : x.task \in accepted
  BY DEF WellTyped, Live, Queued, Running, TasksOf
<1>3. ASSUME UNCHANGED <<queue, running>> PROVE Places'
  BY <1>3 DEF Places, NoneTwice
<1>4. ASSUME NEW t \in Task, Enqueue(t) PROVE Places'
  <2>1. PICK x \in Item : /\ x.task = t /\ queue' = Append(queue, x)
                          /\ Range(queue') = Range(queue) \cup {x}
    BY <1>1, <1>4, EnqueueMoves
  <2>2. t \notin accepted /\ running' = running
    BY <1>4 DEF Enqueue
  <2>3. NoneTwice(queue')
    BY <1>1, <1>2, <2>1, <2>2, EntryAppendedOnce DEF Places
  <2>. QED BY <1>2, <2>1, <2>2, <2>3 DEF Places
<1>5. CASE Evict
  <2>1. NoneTwice(queue') /\ Range(queue') \subseteq Range(queue) /\ running' = running
    BY <1>1, <1>5, EvictParts DEF Places, Evict
  <2>. QED BY <2>1 DEF Places
<1>6. CASE Dispatch
  <2>1. PICK x \in Range(queue), y \in Item :
           /\ y.task = x.task
           /\ Range(queue') = Range(queue) \ {x}
           /\ \A z \in Range(queue) \ {x} : z.task # x.task
           /\ NoneTwice(queue')
           /\ running' = running \cup {y} \/ running' = running
    BY <1>1, <1>6, DispatchMoves DEF Places
  <2>2. Cardinality(running') <= Concurrency
    <3>1. Cardinality(running) < Concurrency
      BY <1>6 DEF Dispatch, SlotFree
    <3>2. y \notin running => Cardinality(running \cup {y}) = Cardinality(running) + 1
      BY <1>1, FS_AddElement
    <3> DEFINE c == Cardinality(running)
               d == Cardinality(running')
    <3>3. running' = running \cup {y} => d = c \/ d = c + 1
      <4>1. y \in running => running \cup {y} = running
        OBVIOUS
      <4>. QED BY <3>2, <4>1
    <3>4. running' = running => d = c
      OBVIOUS
    <3>5. c \in Nat /\ Concurrency \in Nat /\ c < Concurrency
      BY <1>1, <3>1
    <3> HIDE DEF c, d
    <3>6. d = c \/ d = c + 1
      BY <2>1, <3>3, <3>4
    <3>7. d <= Concurrency
      BY <3>5, <3>6
    <3>. QED BY <3>7 DEF d
  <2>. QED BY <2>1, <2>2 DEF Places
<1>7. ASSUME NEW x \in running, HandlerReturns(x) \/ HandlerThrows(x) PROVE Places'
  <2>1. running' = running \ {x}
    BY <1>7 DEF HandlerReturns, HandlerThrows
  <2>2. Cardinality(running') <= Concurrency
    <3>1. Cardinality(running \ {x}) = Cardinality(running) - 1
      BY <1>1, FS_RemoveElement
    <3>. QED BY <1>1, <2>1, <3>1 DEF Places
  <2>3. \A y \in running' : y.task # x.task
    BY <2>1 DEF Places
  <2>4. \/ queue' = queue
        \/ \E y \in Item : /\ y.task = x.task /\ queue' = Append(queue, y)
                           /\ Range(queue') = Range(queue) \cup {y}
    BY <1>1, <1>7, ThrowMoves DEF HandlerReturns
  <2>5. NoneTwice(queue')
    <3>1. CASE queue' = queue
      BY <3>1 DEF Places
    <3>2. ASSUME NEW y \in Item, y.task = x.task, queue' = Append(queue, y)
          PROVE  NoneTwice(queue')
      BY <1>1, <3>2, EntryAppendedOnce DEF Places
    <3>. QED BY <2>4, <3>1, <3>2
  <2>. QED BY <2>1, <2>2, <2>3, <2>4, <2>5 DEF Places
<1>8. CASE Crash
  <2>1. queue' = <<>> /\ running' = {} /\ Range(<<>>) = {} /\ Cardinality({}) = 0
    BY <1>8, FS_EmptySet DEF Crash, Range
  <2>. QED BY <1>1, <2>1 DEF Places, NoneTwice
<1>9. CASE Restart
  <2>1. NoneTwice(queue')
    BY <1>1, <1>9, RestartParts
  <2>2. running' = running /\ running = {}
    BY <1>9 DEF Restart, WellTyped
  <2>. QED BY <2>1, <2>2 DEF Places
<1>10. ASSUME NEW t \in Task, Cancel(t) PROVE Places'
  BY <1>3, <1>10 DEF Cancel
<1>11. CASE Flush \/ Stop \/ Midnight
  BY <1>3, <1>11 DEF Flush, Stop, Midnight, memory
<1>. QED BY <1>3, <1>4, <1>5, <1>6, <1>7, <1>8, <1>9, <1>10, <1>11, Steps

\* No task waits twice, waits while it runs, or runs twice.
THEOREM PlacesCorrect == Spec => []Places
<1>1. Init => Places
  <2> SUFFICES ASSUME Init PROVE Places
    OBVIOUS
  <2>1. queue = <<>> /\ running = {} /\ Range(<<>>) = {} /\ Cardinality({}) = 0
    BY FS_EmptySet DEF Init, Range
  <2>. QED BY <2>1, Numbers DEF Places, NoneTwice
<1>. QED BY <1>1, PlacesStep, TypesCorrect, PTL DEF Spec

\* A task is in one place, and no more run than there are slots.
THEOREM TaskInOnePlace == Spec => []OnePlace
<1>1. ASSUME WellTyped, Places PROVE OnePlace
  <2>1. Cardinality(Running) = Cardinality(running)
    <3> DEFINE f == [x \in running |-> x.task]
    <3>1. f \in Bijection(running, Running)
      <4>1. f \in [running -> Running]
        BY DEF Running, TasksOf
      <4>2. \A x, y \in running : f[x] = f[y] => x = y
        BY <1>1 DEF Places
      <4>3. \A t \in Running : \E x \in running : f[x] = t
        BY DEF Running, TasksOf
      <4>. QED BY <4>1, <4>2, <4>3 DEF Bijection, Injection, Surjection, IsInjective
    <3>2. IsFiniteSet(running)
      BY <1>1 DEF WellTyped
    <3> HIDE DEF f
    <3>3. ExistsBijection(running, Running)
      BY <3>1 DEF ExistsBijection
    <3>. QED BY <3>2, <3>3, FS_Bijection
  <2>2. Queued \cap Running = {}
    BY <1>1 DEF Places, Queued, Running, TasksOf
  <2>. QED BY <1>1, <2>1, <2>2 DEF OnePlace, Places, NoneTwice
<1>. QED BY <1>1, TypesCorrect, PlacesCorrect, PTL

-----------------------------------------------------------------------------
(* Attempts.                                                               *)

\* What waits may still be retried, and no event says more than what runs.
Attempts ==
    /\ \A x \in Range(queue) : x.attempts <= MaxRetries + used["restart"]
    /\ \A x \in running \cup Logged : x.attempts <= MaxRetries + 1 + used["restart"]

\* Restarts, and nothing else, are counted as restarts.
LEMMA RestartsCounted ==
    ASSUME WellTyped, [Next]_vars
    PROVE  /\ used["restart"] \in Nat
           /\ used'["restart"] = used["restart"] + (IF Restart THEN 1 ELSE 0)
<1>1. used \in [{"cancel", "stop", "error", "restart", "day"} -> Nat]
  BY TypeParts DEF WellTyped
<1>2. CASE Restart
  BY <1>1, <1>2 DEF Restart, Spend
<1>3. CASE ~Restart
  <2>1. \A t \in Task : Enqueue(t) \/ Cancel(t) => used'["restart"] = used["restart"]
    BY <1>1 DEF Enqueue, Cancel, Spend
  <2>2. Evict \/ Dispatch => used'["restart"] = used["restart"]
    BY DEF Evict, Dispatch
  <2>3. \A x \in running : HandlerReturns(x) \/ HandlerThrows(x) => used'["restart"] = used["restart"]
    BY DEF HandlerReturns, HandlerThrows
  <2>4. Flush \/ Stop => used'["restart"] = used["restart"]
    BY <1>1 DEF Flush, Stop, AppendEvents
  <2>5. Midnight \/ Crash => used'["restart"] = used["restart"]
    BY <1>1 DEF Midnight, Crash, Spend, history
  <2>. QED BY <1>1, <1>3, <2>1, <2>2, <2>3, <2>4, <2>5, Steps
<1>. QED BY <1>1, <1>2, <1>3

\* No step makes more attempts than the retries and the restarts allow.
LEMMA AttemptsStep == WellTyped /\ Places /\ Attempts /\ [Next]_vars => Attempts'
<1> SUFFICES ASSUME WellTyped, Places, Attempts, [Next]_vars PROVE Attempts'
  OBVIOUS
<1> DEFINE r == used["restart"]
           s == used'["restart"]
<1>1. TypeOK /\ NoneTwice(queue) /\ MaxRetries \in Nat
  BY Numbers DEF WellTyped, Places
<1>2. r \in Nat /\ s \in Nat /\ s >= r /\ (Restart => s = r + 1)
  BY RestartsCounted
<1>3. Range(queue) \cup running \subseteq Item /\ Logged \subseteq Record
  BY <1>1, LiveParts
<1>4. /\ \A x \in Range(queue) \cup running \cup Logged : x.attempts \in Nat
      /\ \A x \in Range(queue) : x.attempts <= MaxRetries + r
      /\ \A x \in running \cup Logged : x.attempts <= MaxRetries + 1 + r
  BY <1>3 DEF Attempts, Item, Record
<1>5. /\ \A x \in Range(queue) : x.attempts <= MaxRetries + s
      /\ \A x \in running \cup Logged : x.attempts <= MaxRetries + 1 + s
  BY <1>1, <1>2, <1>4
<1>6. SUFFICES /\ \A x \in Range(queue') : x.attempts <= MaxRetries + s
               /\ \A x \in running' \cup Logged' : x.attempts <= MaxRetries + 1 + s
  BY DEF Attempts
<1> HIDE DEF r, s
<1>7. ASSUME Range(queue') \subseteq Range(queue), running' \subseteq running,
             Logged' \subseteq Logged
      PROVE  /\ \A x \in Range(queue') : x.attempts <= MaxRetries + s
             /\ \A x \in running' \cup Logged' : x.attempts <= MaxRetries + 1 + s
  BY <1>5, <1>7
<1>8. ASSUME NEW t \in Task, Enqueue(t)
      PROVE  /\ \A x \in Range(queue') : x.attempts <= MaxRetries + s
             /\ \A x \in running' \cup Logged' : x.attempts <= MaxRetries + 1 + s
  <2>1. PICK x \in Item, e \in Record :
           /\ x.attempts = 0 /\ e.attempts = 0
           /\ Range(queue') = Range(queue) \cup {x} /\ Logged' = Logged \cup {e}
    BY <1>1, <1>8, EnqueueMoves DEF Writes
  <2>2. running' = running
    BY <1>8 DEF Enqueue
  <2>3. 0 <= MaxRetries + s /\ 0 <= MaxRetries + 1 + s
    BY <1>1, <1>2
  <2>. QED BY <1>5, <2>1, <2>2, <2>3
<1>9. ASSUME NEW t \in Task, Cancel(t)
      PROVE  /\ \A x \in Range(queue') : x.attempts <= MaxRetries + s
             /\ \A x \in running' \cup Logged' : x.attempts <= MaxRetries + 1 + s
  <2>1. PICK x \in Range(queue), e \in Record : e.attempts = x.attempts /\ Logged' = Logged \cup {e}
    BY <1>1, <1>9, CancelMoves DEF Writes
  <2>2. queue' = queue /\ running' = running
    BY <1>9 DEF Cancel
  <2>3. e.attempts <= MaxRetries + 1 + s
    BY <1>1, <1>2, <1>4, <1>5, <2>1
  <2>. QED BY <1>5, <2>1, <2>2, <2>3
<1>10. CASE Evict
  <2>1. Range(queue') \subseteq Range(queue) /\ running' = running
    BY <1>1, <1>10, EvictParts DEF Evict
  <2>2. PICK more : /\ Range(more) = {Event(x, "EXPIRED") : x \in {x \in Range(queue) : x.task \in expired}}
                    /\ Logged' = Logged \cup Range(more)
    BY <1>1, <1>10, EvictMoves
  <2>3. \A e \in Range(more) : e.attempts <= MaxRetries + 1 + s
    <3>1. ASSUME NEW x \in Range(queue) PROVE Event(x, "EXPIRED").attempts <= MaxRetries + 1 + s
      BY <1>1, <1>2, <1>4, <1>5 DEF Event
    <3>. QED BY <2>2, <3>1
  <2>. QED BY <1>5, <2>1, <2>2, <2>3
<1>11. CASE Dispatch
  <2>1. PICK x \in Range(queue), y \in Item, e \in Record :
           /\ y.attempts = x.attempts + 1 /\ e.attempts = x.attempts + 1
           /\ Range(queue') = Range(queue) \ {x}
           /\ Logged' = Logged \cup {e}
           /\ running' = running \cup {y} \/ running' = running
    BY <1>1, <1>11, DispatchMoves DEF Writes
  <2>2. x.attempts + 1 <= MaxRetries + 1 + s
    BY <1>1, <1>2, <1>4, <1>5
  <2>. QED BY <1>5, <2>1, <2>2
<1>12. ASSUME NEW x \in running, HandlerReturns(x)
       PROVE  /\ \A y \in Range(queue') : y.attempts <= MaxRetries + s
              /\ \A y \in running' \cup Logged' : y.attempts <= MaxRetries + 1 + s
  <2>1. PICK e \in Record : e.attempts = x.attempts /\ Logged' = Logged \cup {e}
    BY <1>1, <1>12, ReturnMoves DEF Writes
  <2>2. queue' = queue /\ running' = running \ {x}
    BY <1>12 DEF HandlerReturns
  <2>. QED BY <1>5, <2>1, <2>2
<1>13. ASSUME NEW x \in running, HandlerThrows(x)
       PROVE  /\ \A y \in Range(queue') : y.attempts <= MaxRetries + s
              /\ \A y \in running' \cup Logged' : y.attempts <= MaxRetries + 1 + s
  <2>1. running' = running \ {x}
    BY <1>13 DEF HandlerThrows
  <2>2. CASE UNCHANGED <<queue, buffer, log>>
    BY <1>5, <2>1, <2>2 DEF Logged
  <2>3. CASE ~UNCHANGED <<queue, buffer, log>>
    <3>1. PICK y \in Item, e \in Record :
             /\ x.attempts <= MaxRetries
             /\ y.attempts = x.attempts /\ e.attempts = x.attempts
             /\ Range(queue') = Range(queue) \cup {y} /\ Logged' = Logged \cup {e}
      BY <1>1, <1>13, <2>3, ThrowMoves DEF Writes
    <3>2. x.attempts <= MaxRetries + s
      BY <1>1, <1>2, <1>4, <3>1
    <3>. QED BY <1>5, <2>1, <3>1, <3>2
  <2>. QED BY <2>2, <2>3
<1>14. CASE Flush \/ Stop
  BY <1>1, <1>7, <1>14, AppendKeeps DEF Flush, Stop
<1>15. CASE Midnight
  <2>1. log' = <<>> /\ Range(<<>>) = {} /\ UNCHANGED <<queue, running, buffer>>
    BY <1>15 DEF Midnight, memory, Range
  <2>. QED BY <1>7, <2>1 DEF Logged
<1>16. CASE Crash
  <2>1. queue' = <<>> /\ running' = {} /\ buffer' = <<>> /\ Range(<<>>) = {}
    BY <1>16 DEF Crash, Range
  <2>2. Range(log') \subseteq Logged
    BY <1>1, <1>16, CrashKeeps
  <2>. QED BY <1>7, <2>1, <2>2 DEF Logged
<1>17. CASE Restart
  <2>1. /\ TasksOf(Range(queue')) = Recoverable(log)
        /\ \A x \in Range(queue') : x.attempts = Newest(log, x.task).attempts
    BY <1>1, <1>17, RestartParts
  <2>2. UNCHANGED <<running, buffer, log>>
    BY <1>17 DEF Restart, store
  <2>3. ASSUME NEW x \in Range(queue') PROVE x.attempts <= MaxRetries + s
    <3>1. x.task \in Recoverable(log)
      BY <2>1 DEF TasksOf
    <3>2. log \in Seq(Record) /\ DOMAIN log = 1 .. Len(log) /\ Len(log) \in Nat
      BY <1>1, Sequences, RangeOf
    <3>3. Traces(log, x.task) \in SUBSET (1 .. Len(log)) /\ Traces(log, x.task) # {}
      BY <3>1, <3>2 DEF Recoverable, Traces
    <3>4. Max(Traces(log, x.task)) \in DOMAIN log
      BY <3>2, <3>3, LastIsMax
    <3>5. Newest(log, x.task) \in Logged
      BY <3>4 DEF Newest, Logged, Range
    <3>6. x.attempts \in Nat /\ x.attempts <= MaxRetries + 1 + r
      BY <1>4, <2>1, <3>5
    <3>. QED BY <1>1, <1>2, <1>17, <3>6
  <2>. QED BY <1>5, <2>2, <2>3 DEF Logged
<1>18. CASE UNCHANGED <<queue, running, buffer, log>>
  BY <1>7, <1>18 DEF Logged
<1>. QED BY <1>8, <1>9, <1>10, <1>11, <1>12, <1>13, <1>14, <1>15, <1>16, <1>17, <1>18, Steps

\* A task never has more attempts than its retries allow, but for one more
\* with each restart: attempts are recovered from the log.
THEOREM AttemptsBounded == Spec => []AttemptsAreBounded
<1>1. Init => Attempts
  <2> SUFFICES ASSUME Init PROVE Attempts
    OBVIOUS
  <2>1. Range(queue) = {} /\ running = {} /\ Logged = {}
    BY DEF Init, Range, Logged
  <2>. QED BY <2>1 DEF Attempts
<1>2. Attempts => AttemptsAreBounded
  BY DEF Attempts, AttemptsAreBounded
<1>. QED BY <1>1, <1>2, AttemptsStep, TypesCorrect, PlacesCorrect, PTL DEF Spec

-----------------------------------------------------------------------------
(* Ends.                                                                   *)

\* An end that was written is one: the task is gone, or was cancelled.
EndsStay ==
    \A e \in Logged :
        e.state \in EndedStates =>
            \/ e.state \in {"DONE", "EXPIRED"} /\ e.task \notin Live
            \/ e.state = "CANCELLED" /\ e.task \in ended["CANCELLED"]

\* Who waits or runs, after a step.
LEMMA LiveIs ==
    /\ \A t : t \in Live <=> \E x \in Range(queue) \cup running : x.task = t
    /\ \A t : t \in Live' <=> \E x \in Range(queue') \cup running' : x.task = t
BY DEF Live, Queued, Running, TasksOf

\* No step brings back what has ended.
LEMMA EndsStep == WellTyped /\ Places /\ EndsStay /\ [Next]_vars => EndsStay'
<1> SUFFICES ASSUME WellTyped, Places, EndsStay, [Next]_vars PROVE EndsStay'
  OBVIOUS
<1>1. TypeOK /\ NoneTwice(queue) /\ "CANCELLED" \in DOMAIN ended /\ ended \in [Ends -> SUBSET Task]
  BY TypeParts DEF WellTyped, Places, Ends
<1>2. \A e \in Logged : e.task \in accepted
  BY DEF WellTyped, TasksOf
\* Steps after which no task is new, and every event is an old one.
<1>3. ASSUME Live' \subseteq Live, ended["CANCELLED"] \subseteq ended'["CANCELLED"],
             \A e \in Logged' \ Logged :
                e.state \in EndedStates =>
                    \/ e.state \in {"DONE", "EXPIRED"} /\ e.task \notin Live'
                    \/ e.state = "CANCELLED" /\ e.task \in ended'["CANCELLED"]
      PROVE  EndsStay'
  BY <1>3 DEF EndsStay, EndedStates
<1>4. ASSUME NEW t \in Task, Enqueue(t) PROVE EndsStay'
  <2>1. PICK x \in Item, e \in Record :
           /\ x.task = t /\ e.task = t /\ e.state = "QUEUED"
           /\ Range(queue') = Range(queue) \cup {x} /\ Logged' = Logged \cup {e}
    BY <1>1, <1>4, EnqueueMoves DEF Writes
  <2>2. t \notin accepted /\ running' = running /\ ended' = ended
    BY <1>4 DEF Enqueue
  <2>3. \A u : u \in Live' => u \in Live \/ u = t
    BY <2>1, <2>2, LiveIs
  <2>. QED BY <1>2, <2>1, <2>2, <2>3 DEF EndsStay, EndedStates
<1>5. ASSUME NEW t \in Task, Cancel(t) PROVE EndsStay'
  <2>1. PICK e \in Record :
           /\ e.task = t /\ e.state = "CANCELLED" /\ t \in ended'["CANCELLED"]
           /\ Logged' = Logged \cup {e}
    BY <1>1, <1>5, CancelMoves DEF Writes
  <2>2. queue' = queue /\ running' = running /\ ended["CANCELLED"] \subseteq ended'["CANCELLED"]
    BY <1>1, <1>5 DEF Cancel, Ended
  <2>3. Live' \subseteq Live
    BY <2>2, LiveIs
  <2>. QED BY <1>3, <2>1, <2>2, <2>3
<1>6. CASE Evict
  <2> DEFINE late == {x \in Range(queue) : x.task \in expired}
  <2>1. /\ Range(queue') = Range(queue) \ late /\ running' = running
        /\ ended["CANCELLED"] \subseteq ended'["CANCELLED"]
    BY <1>1, <1>6, EvictParts DEF Evict, Ended
  <2>2. PICK more : /\ Range(more) = {Event(x, "EXPIRED") : x \in late}
                    /\ Logged' = Logged \cup Range(more)
    BY <1>1, <1>6, EvictMoves
  <2>3. Live' \subseteq Live
    BY <2>1, LiveIs
  <2>4. ASSUME NEW e \in Range(more) PROVE e.state = "EXPIRED" /\ e.task \notin Live'
    <3>1. PICK x \in late : e = Event(x, "EXPIRED")
      BY <2>2
    <3>2. e.state = "EXPIRED" /\ e.task = x.task
      BY <3>1 DEF Event
    <3>3. \A y \in Range(queue') \cup running' : y.task # x.task
      BY <2>1 DEF Places
    <3>. QED BY <3>2, <3>3, LiveIs
  <2>. QED BY <1>3, <2>1, <2>2, <2>3, <2>4
<1>7. CASE Dispatch
  <2>1. PICK x \in Range(queue), y \in Item, e \in Record :
           /\ y.task = x.task /\ e.state = "RUNNING"
           /\ Range(queue') = Range(queue) \ {x}
           /\ Logged' = Logged \cup {e}
           /\ \/ running' = running \cup {y} /\ ended' = ended
              \/ running' = running /\ ended' = [ended EXCEPT !["DLQ"] = @ \cup {x.task}]
    BY <1>1, <1>7, DispatchMoves DEF Writes
  <2>2. Live' \subseteq Live
    BY <2>1, LiveIs
  <2>3. ended["CANCELLED"] \subseteq ended'["CANCELLED"]
    BY <1>1, <2>1
  <2>. QED BY <1>3, <2>1, <2>2, <2>3 DEF EndedStates
<1>8. ASSUME NEW x \in running, HandlerReturns(x) PROVE EndsStay'
  <2>1. PICK e \in Record : e.task = x.task /\ e.state = "DONE" /\ Logged' = Logged \cup {e}
    BY <1>1, <1>8, ReturnMoves DEF Writes
  <2>2. /\ queue' = queue /\ running' = running \ {x}
        /\ ended["CANCELLED"] \subseteq ended'["CANCELLED"]
    BY <1>1, <1>8 DEF HandlerReturns, Ended
  <2>3. Live' \subseteq Live
    BY <2>2, LiveIs
  <2>4. \A y \in Range(queue') \cup running' : y.task # x.task
    BY <2>2 DEF Places
  <2>5. x.task \notin Live'
    BY <2>4, LiveIs
  <2>. QED BY <1>3, <2>1, <2>2, <2>3, <2>5
<1>9. ASSUME NEW x \in running, HandlerThrows(x) PROVE EndsStay'
  <2>1. running' = running \ {x}
    BY <1>9 DEF HandlerThrows
  <2>2. \/ /\ UNCHANGED <<queue, buffer, log>>
           /\ ended' = ended \/ ended' = [ended EXCEPT !["DLQ"] = @ \cup {x.task}]
        \/ /\ ended' = ended
           /\ \E y \in Item, e \in Record :
                 /\ y.task = x.task /\ e.state = "QUEUED"
                 /\ Range(queue') = Range(queue) \cup {y} /\ Logged' = Logged \cup {e}
    BY <1>1, <1>9, ThrowMoves DEF Writes
  <2>3. Live' \subseteq Live
    BY <2>1, <2>2, LiveIs
  <2>4. ended["CANCELLED"] \subseteq ended'["CANCELLED"]
    BY <1>1, <2>2
  <2>5. \A e \in Logged' \ Logged : e.state = "QUEUED"
    BY <2>2 DEF Logged
  <2>. QED BY <1>3, <2>3, <2>4, <2>5 DEF EndedStates
<1>10. CASE Flush \/ Stop
  <2>1. Logged' \subseteq Logged
    BY <1>1, <1>10, AppendKeeps
  <2>2. UNCHANGED <<queue, running, ended>>
    BY <1>10 DEF Flush, Stop
  <2>. QED BY <1>3, <2>1, <2>2, LiveIs
<1>11. CASE Midnight
  <2>1. log' = <<>> /\ Range(<<>>) = {} /\ UNCHANGED <<queue, running, buffer, ended>>
    BY <1>11 DEF Midnight, memory, Range
  <2>2. Logged' \subseteq Logged
    BY <2>1 DEF Logged
  <2>. QED BY <1>3, <2>1, <2>2, LiveIs
<1>12. CASE Crash
  <2>1. queue' = <<>> /\ running' = {} /\ buffer' = <<>> /\ ended' = ended /\ Range(<<>>) = {}
    BY <1>12 DEF Crash, history, Range
  <2>2. Range(log') \subseteq Logged
    BY <1>1, <1>12, CrashKeeps
  <2>3. Logged' \subseteq Logged
    BY <2>1, <2>2 DEF Logged
  <2>. QED BY <1>3, <2>1, <2>3, LiveIs
<1>13. CASE Restart
  <2>1. TasksOf(Range(queue')) = Recoverable(log)
    BY <1>1, <1>13, RestartParts
  <2>2. /\ UNCHANGED <<running, buffer, log, ended>> /\ running = {} /\ buffer = <<>>
        /\ Range(<<>>) = {}
    BY <1>13 DEF Restart, WellTyped, store, Range
  <2>3. \A t : t \in Live' => t \in Recoverable(log)
    BY <2>1, <2>2 DEF Live, Queued, Running, TasksOf
  <2>4. \A t \in Recoverable(log), e \in Range(log) : e.task = t => e.state \notin EndedStates
    BY <1>1, Sequences, RecoverableTasks
  <2>5. Logged' = Logged /\ Logged = Range(log)
    BY <2>2 DEF Logged
  <2>. QED BY <2>2, <2>3, <2>4, <2>5 DEF EndsStay
<1>14. CASE UNCHANGED <<queue, running, buffer, log, ended>>
  <2>1. Logged' \subseteq Logged
    BY <1>14 DEF Logged
  <2>. QED BY <1>3, <1>14, <2>1, LiveIs
<1>. QED BY <1>4, <1>5, <1>6, <1>7, <1>8, <1>9, <1>10, <1>11, <1>12, <1>13, <1>14, Steps

\* A logged end is true: a task whose event says DONE or EXPIRED is neither
\* queued nor running, and one that was CANCELLED counts as cancelled for good.
THEOREM EndsCorrect == Spec => []EndsStay
<1>1. Init => EndsStay
  BY DEF Init, EndsStay, Logged, Range
<1>. QED BY <1>1, EndsStep, TypesCorrect, PlacesCorrect, PTL DEF Spec

\* Only a task that waits begins to run.
LEMMA BeginsWaiting ==
    ASSUME WellTyped, Places, [Next]_vars, NEW t, Begins(t)
    PROVE  t \in Queued
<1>1. TypeOK /\ NoneTwice(queue) /\ t \in Running' /\ t \notin Running
  BY DEF WellTyped, Places, Begins
<1>2. \A x \in running' : x.task = t => x \notin running
  BY <1>1 DEF Running, TasksOf
<1>3. PICK z \in running' : z.task = t
  BY <1>1 DEF Running, TasksOf
<1>4. z \notin running
  BY <1>2, <1>3
<1>5. CASE Dispatch
  <2>1. PICK x \in Range(queue), y \in Item :
           /\ y.task = x.task
           /\ running' = running \cup {y} \/ running' = running
    BY <1>1, <1>5, DispatchMoves
  <2>2. x.task = t
    BY <1>3, <1>4, <2>1
  <2>. QED BY <2>2 DEF Queued, TasksOf
<1>6. CASE ~Dispatch
  <2>1. \A u \in Task : Enqueue(u) \/ Cancel(u) => running' = running
    BY DEF Enqueue, Cancel
  <2>2. Evict \/ Flush \/ Stop \/ Midnight \/ Crash \/ Restart => running' \subseteq running
    BY DEF Evict, Flush, Stop, Midnight, Crash, Restart, memory
  <2>3. \A x \in running : HandlerReturns(x) \/ HandlerThrows(x) => running' \subseteq running
    BY DEF HandlerReturns, HandlerThrows
  <2>. QED BY <1>3, <1>4, <1>6, <2>1, <2>2, <2>3, Steps
<1>. QED BY <1>5, <1>6

\* No process begins a task whose end is on disk.
THEOREM EndedStaysOver == Spec => EndedIsOver
<1> DEFINE A == \A i \in DOMAIN log :
                   log[i].state \in {"DONE", "EXPIRED"} => ~Begins(log[i].task)
<1>1. WellTyped /\ Places /\ EndsStay /\ [Next]_vars => [A]_vars
  <2> SUFFICES ASSUME WellTyped, Places, EndsStay, [Next]_vars,
                      NEW i \in DOMAIN log, log[i].state \in {"DONE", "EXPIRED"},
                      Begins(log[i].task)
               PROVE  FALSE
    OBVIOUS
  <2>1. log[i] \in Logged
    BY DEF Logged, Range
  <2>2. log[i].task \notin Live
    BY <2>1 DEF EndsStay, EndedStates
  <2>3. log[i].task \in Queued
    BY BeginsWaiting
  <2>. QED BY <2>2, <2>3 DEF Live
<1>. QED BY <1>1, TypesCorrect, PlacesCorrect, EndsCorrect, PTL DEF Spec, EndedIsOver

-----------------------------------------------------------------------------
(* The log accounts for the queue.                                         *)

\* Whether a task has an event among some.
Seen(records, t) == \E e \in records : e.task = t

\* The newest event is in the part that was written last, if any is.
LEMMA NewestOfConcat ==
    ASSUME NEW a \in Seq(Record), NEW b \in Seq(Record), NEW t
    PROVE  /\ Seen(Range(b), t) => Newest(a \o b, t) = Newest(b, t)
           /\ Seen(Range(a), t) /\ ~Seen(Range(b), t) => Newest(a \o b, t) = Newest(a, t)
<1> DEFINE m == Len(a)
           n == Len(b)
           c == a \o b
<1>1. /\ m \in Nat /\ n \in Nat /\ DOMAIN a = 1 .. m /\ DOMAIN b = 1 .. n
      /\ c \in Seq(Record) /\ Len(c) = m + n
      /\ \A i \in 1 .. m + n : c[i] = IF i <= m THEN a[i] ELSE b[i - m]
  BY ConcatProperties, RangeOf
<1>2. DOMAIN c = 1 .. m + n
  BY <1>1
<1> HIDE DEF m, n, c
<1>3. /\ \A i \in 1 .. m : i \in 1 .. m + n /\ c[i] = a[i]
      /\ \A i \in 1 .. n : m + i \in 1 .. m + n /\ c[m + i] = b[i]
  <2>1. ASSUME NEW i \in 1 .. m PROVE i \in 1 .. m + n /\ c[i] = a[i]
    BY <1>1
  <2>2. ASSUME NEW i \in 1 .. n PROVE m + i \in 1 .. m + n /\ c[m + i] = b[i]
    <3>1. m + i \in 1 .. m + n /\ ~(m + i <= m) /\ m + i - m = i
      BY <1>1
    <3>. QED BY <1>1, <3>1
  <2>. QED BY <2>1, <2>2
<1>4. ASSUME NEW k \in 1 .. m + n
      PROVE  k \in 1 .. m \/ (k - m \in 1 .. n /\ m + (k - m) = k)
  BY <1>1
<1>5. ASSUME Seen(Range(b), t)
      PROVE  Newest(c, t) = Newest(b, t)
  <2> DEFINE T == Traces(b, t)
             U == Traces(c, t)
  <2>1. T \in SUBSET (1 .. n) /\ T # {}
    BY <1>1, <1>5 DEF Seen, Range, Traces
  <2>2. Max(T) \in T /\ \A i \in T : i <= Max(T)
    BY <1>1, <2>1, LastIsMax
  <2>3. Max(T) \in 1 .. n /\ b[Max(T)].task = t
    BY <1>1, <2>2 DEF Traces
  <2>4. m + Max(T) \in U
    BY <1>2, <1>3, <2>3 DEF Traces
  <2>5. U \in SUBSET (1 .. m + n) /\ m + n \in Nat
    BY <1>1, <1>2 DEF Traces
  <2>6. Max(U) \in U /\ \A i \in U : i <= Max(U)
    BY <2>4, <2>5, LastIsMax
  <2> DEFINE k == Max(U)
             j == Max(T)
  <2>7. k \in 1 .. m + n /\ c[k].task = t /\ m + j <= k
    BY <1>2, <2>4, <2>6 DEF Traces
  <2>8. /\ T \in SUBSET (1 .. n) /\ j \in 1 .. n /\ \A i \in T : i <= j
    BY <2>1, <2>2, <2>3
  <2> HIDE DEF k, j
  <2>9. k \notin 1 .. m
    BY <1>1, <2>7, <2>8
  <2>10. k - m \in 1 .. n /\ m + (k - m) = k
    BY <1>4, <2>7, <2>9
  <2>11. c[k] = b[k - m]
    BY <1>3, <2>10
  <2>12. k - m \in T
    BY <1>1, <2>7, <2>10, <2>11 DEF Traces
  <2>13. k - m <= j
    BY <2>8, <2>12
  <2>14. k - m = j
    BY <1>1, <2>7, <2>8, <2>10, <2>13
  <2>. QED BY <2>11, <2>14 DEF Newest, k, j
<1>6. ASSUME Seen(Range(a), t), ~Seen(Range(b), t)
      PROVE  Newest(c, t) = Newest(a, t)
  <2>1. \A i \in 1 .. n : b[i].task # t
    BY <1>1, <1>6 DEF Seen, Range
  <2>2. Traces(c, t) = Traces(a, t)
    <3>1. ASSUME NEW k \in 1 .. m + n, c[k].task = t
          PROVE  k \in 1 .. m /\ a[k].task = t
      <4>1. k - m \in 1 .. n /\ m + (k - m) = k => c[k] = b[k - m]
        BY <1>3
      <4>2. k \in 1 .. m
        BY <1>4, <2>1, <3>1, <4>1
      <4>. QED BY <1>3, <3>1, <4>2
    <3>2. ASSUME NEW k \in 1 .. m, a[k].task = t
          PROVE  k \in 1 .. m + n /\ c[k].task = t
      BY <1>3, <3>2
    <3>. QED BY <1>1, <1>2, <3>1, <3>2 DEF Traces
  <2>3. Traces(a, t) \in SUBSET (1 .. m) /\ Traces(a, t) # {}
    BY <1>1, <1>6 DEF Seen, Range, Traces
  <2>4. Max(Traces(a, t)) \in 1 .. m
    BY <1>1, <2>3, LastIsMax
  <2>. QED BY <1>3, <2>2, <2>4 DEF Newest
<1>. QED BY <1>5, <1>6 DEF c

\* An event that is appended is the newest of its task, and of no other.
LEMMA NewestOfAppend ==
    ASSUME NEW a \in Seq(Record), NEW e \in Record, NEW t
    PROVE  /\ Newest(Append(a, e), e.task) = e
           /\ Seen(Range(a), t) /\ t # e.task => Newest(Append(a, e), t) = Newest(a, t)
<1>1. Append(a, e) = a \o <<e>> /\ <<e>> \in Seq(Record)
  BY AppendIsConcat
<1>2. Range(<<e>>) = {e}
  BY DEF Range
<1>3. Newest(<<e>>, e.task) = e
  <2>1. Traces(<<e>>, e.task) = {1}
    BY DEF Traces
  <2>2. Max({1}) = 1
    <3>1. \E x \in {1} : \A y \in {1} : x >= y
      OBVIOUS
    <3>. QED BY <3>1 DEF Max
  <2>3. <<e>>[1] = e
    OBVIOUS
  <2> DEFINE s == <<e>>
  <2>4. s[Max(Traces(s, e.task))] = e
    BY <2>1, <2>2, <2>3
  <2>. QED BY <2>4 DEF Newest
<1>4. Newest(a \o <<e>>, e.task) = Newest(<<e>>, e.task)
  BY <1>1, <1>2, NewestOfConcat DEF Seen
<1>5. Seen(Range(a), t) /\ t # e.task => Newest(a \o <<e>>, t) = Newest(a, t)
  <2>1. t # e.task => ~Seen(Range(<<e>>), t)
    BY <1>2 DEF Seen
  <2>. QED BY <1>1, <2>1, NewestOfConcat
<1>. QED BY <1>1, <1>3, <1>4, <1>5

\* What is cut out matters to nobody who is not in it.
LEMMA NewestOfCut ==
    ASSUME NEW a \in Seq(Record), NEW gone \in Seq(Record), NEW b \in Seq(Record), NEW t,
           ~Seen(Range(gone), t), Seen(Range(a) \cup Range(b), t)
    PROVE  Newest(a \o (gone \o b), t) = Newest(a \o b, t)
<1>1. gone \o b \in Seq(Record) /\ Range(gone \o b) = Range(gone) \cup Range(b)
  BY ConcatProperties, RangeConcatenation
<1>2. CASE Seen(Range(b), t)
  <2>1. Seen(Range(gone \o b), t)
    BY <1>1, <1>2 DEF Seen
  <2>2. Newest(a \o (gone \o b), t) = Newest(gone \o b, t)
    <3> DEFINE c == gone \o b
    <3>1. c \in Seq(Record) /\ Seen(Range(c), t)
      BY <1>1, <2>1
    <3> HIDE DEF c
    <3>2. Newest(a \o c, t) = Newest(c, t)
      BY <3>1, NewestOfConcat
    <3>. QED BY <3>2 DEF c
  <2>3. Newest(gone \o b, t) = Newest(b, t)
    BY <1>2, NewestOfConcat
  <2>4. Newest(a \o b, t) = Newest(b, t)
    BY <1>2, NewestOfConcat
  <2>. QED BY <2>2, <2>3, <2>4
<1>3. CASE ~Seen(Range(b), t)
  <2>1. ~Seen(Range(gone \o b), t) /\ Seen(Range(a), t)
    BY <1>1, <1>3 DEF Seen
  <2>2. Newest(a \o (gone \o b), t) = Newest(a, t)
    <3> DEFINE c == gone \o b
    <3>1. c \in Seq(Record) /\ ~Seen(Range(c), t)
      BY <1>1, <2>1
    <3> HIDE DEF c
    <3>2. Newest(a \o c, t) = Newest(a, t)
      BY <2>1, <3>1, NewestOfConcat
    <3>. QED BY <3>2 DEF c
  <2>3. Newest(a \o b, t) = Newest(a, t)
    BY <1>3, <2>1, NewestOfConcat
  <2>. QED BY <2>2, <2>3
<1>. QED BY <1>2, <1>3

\* The tasks that a process which started now would recover.
Pending == {t \in Task \ expired :
               /\ Seen(Logged, t)
               /\ \A e \in Logged : e.task = t => e.state \notin EndedStates}

\* Whether a task is recovered does not depend on the order of events.
LEMMA PendingIsRecoverable ==
    ASSUME TypeOK
    PROVE  Recoverable(Events) = Pending
<1>1. Events \in Seq(Record) /\ Range(Events) = Logged
  BY EventsParts
<1>2. \A t : t \in Recoverable(Events) <=> t \in Pending
  BY <1>1, RecoverableTasks DEF Pending, Seen
<1>. QED BY <1>2 DEF Recoverable, Pending

\* Whoever waits or runs was seen, with the attempts of its newest event, and
\* nobody else is pending.
Accounted ==
    /\ \A t \in Live \ forgotten : Seen(Logged, t)
    /\ \A x \in Range(queue) \cup running :
          x.task \notin forgotten => Newest(Events, x.task).attempts = x.attempts
    /\ up /\ ~loaded => Pending \subseteq Live \cup ended["DLQ"] \cup forgotten

\* The same of any log, and of any tasks that are left out.
AccountedIn(events, F) ==
    /\ \A t \in Live \ F : Seen(Range(events), t)
    /\ \A x \in Range(queue) \cup running :
          x.task \notin F => Newest(events, x.task).attempts = x.attempts
    /\ up /\ ~loaded => Recoverable(events) \subseteq Live \cup ended["DLQ"] \cup F

\* It is the same.
LEMMA AccountedIs == TypeOK => (Accounted <=> AccountedIn(Events, forgotten))
<1> SUFFICES ASSUME TypeOK PROVE Accounted <=> AccountedIn(Events, forgotten)
  OBVIOUS
<1>1. Range(Events) = Logged /\ Recoverable(Events) = Pending
  BY EventsParts, PendingIsRecoverable
<1>. QED BY <1>1 DEF Accounted, AccountedIn

\* Events are cut out, and whose they were is noted.
LEMMA AccountedCut ==
    ASSUME NEW a \in Seq(Record), NEW gone \in Seq(Record), NEW b \in Seq(Record), NEW F,
           AccountedIn(a \o (gone \o b), F)
    PROVE  AccountedIn(a \o b, F \cup TasksOf(Range(gone)))
<1> DEFINE c == a \o (gone \o b)
           d == a \o b
           G == F \cup TasksOf(Range(gone))
<1>1. c \in Seq(Record) /\ Range(c) = Range(a) \cup Range(gone) \cup Range(b)
  <2> DEFINE e == gone \o b
  <2>1. e \in Seq(Record) /\ Range(e) = Range(gone) \cup Range(b)
    BY ConcatProperties, RangeConcatenation
  <2> HIDE DEF e
  <2>2. a \o e \in Seq(Record) /\ Range(a \o e) = Range(a) \cup Range(e)
    BY <2>1, ConcatProperties, RangeConcatenation
  <2>. QED BY <2>1, <2>2 DEF e
<1>2. d \in Seq(Record) /\ Range(d) = Range(a) \cup Range(b)
  BY ConcatProperties, RangeConcatenation
<1>3. ASSUME NEW t, t \notin G
      PROVE  /\ t \notin F /\ ~Seen(Range(gone), t)
             /\ Seen(Range(d), t) <=> Seen(Range(c), t)
             /\ Seen(Range(c), t) => Newest(c, t) = Newest(d, t)
  <2>1. t \notin F /\ ~Seen(Range(gone), t)
    BY <1>3 DEF TasksOf, Seen
  <2>2. Seen(Range(d), t) <=> Seen(Range(c), t)
    BY <1>1, <1>2, <2>1 DEF Seen
  <2>3. Seen(Range(c), t) => Newest(c, t) = Newest(d, t)
    <3>1. Seen(Range(c), t) => Seen(Range(a) \cup Range(b), t)
      BY <1>2, <2>2
    <3>. QED BY <2>1, <3>1, NewestOfCut
  <2>. QED BY <2>1, <2>2, <2>3
<1>4. AccountedIn(c, F)
  OBVIOUS
<1> HIDE DEF c, d, G
<1>5. \A t \in Live \ G : Seen(Range(d), t)
  BY <1>3, <1>4 DEF AccountedIn
<1>6. ASSUME NEW x \in Range(queue) \cup running, x.task \notin G
      PROVE  Newest(d, x.task).attempts = x.attempts
  <2>1. x.task \in Live
    BY LiveIs
  <2>2. x.task \notin F /\ Newest(c, x.task) = Newest(d, x.task)
    BY <1>3, <1>4, <1>6, <2>1 DEF AccountedIn
  <2>. QED BY <1>4, <2>2 DEF AccountedIn
<1>7. ASSUME NEW t \in Recoverable(d), t \notin G PROVE t \in Recoverable(c)
  <2>1. \A e \in Range(c) : e.task = t => e \in Range(d)
    <3>1. \A e \in Range(gone) : e.task # t
      BY <1>3, <1>7 DEF Seen
    <3>. QED BY <1>1, <1>2, <3>1
  <2>2. \A e \in Range(d) : e \in Range(c)
    BY <1>1, <1>2
  <2>. QED BY <1>1, <1>2, <1>7, <2>1, <2>2, RecoverableTasks
<1>8. F \subseteq G
  BY DEF G
<1>9. AccountedIn(d, G)
  BY <1>4, <1>5, <1>6, <1>7, <1>8 DEF AccountedIn
<1>. QED BY <1>9 DEF d, G

\* Events that are written a second time, after they were put before the others
\* that are still to be written, change nothing.
LEMMA AccountedTwice ==
    ASSUME NEW a \in Seq(Record), NEW b \in Seq(Record), NEW again \in Seq(Record), NEW F,
           Range(again) \subseteq Range(b), AccountedIn(a \o b, F)
    PROVE  AccountedIn((a \o again) \o b, F)
<1> DEFINE c == a \o b
           f == a \o again
           d == f \o b
<1>1. c \in Seq(Record) /\ Range(c) = Range(a) \cup Range(b)
  BY ConcatProperties, RangeConcatenation
<1>2. f \in Seq(Record) /\ Range(f) = Range(a) \cup Range(again)
  BY ConcatProperties, RangeConcatenation
<1>3. AccountedIn(c, F)
  OBVIOUS
<1>4. ASSUME NEW t PROVE /\ Seen(Range(b), t) => Newest(c, t) = Newest(b, t)
                         /\ Seen(Range(a), t) /\ ~Seen(Range(b), t) => Newest(c, t) = Newest(a, t)
                         /\ Seen(Range(a), t) /\ ~Seen(Range(again), t) => Newest(f, t) = Newest(a, t)
  BY NewestOfConcat
<1> HIDE DEF c, f
<1>5. d \in Seq(Record) /\ Range(d) = Range(c)
  <2>1. d \in Seq(Record) /\ Range(d) = Range(f) \cup Range(b)
    BY <1>2, ConcatProperties, RangeConcatenation
  <2>. QED BY <1>1, <1>2, <2>1
<1>6. ASSUME NEW t PROVE /\ Seen(Range(b), t) => Newest(d, t) = Newest(b, t)
                         /\ Seen(Range(f), t) /\ ~Seen(Range(b), t) => Newest(d, t) = Newest(f, t)
  BY <1>2, NewestOfConcat
<1> HIDE DEF d
<1>7. ASSUME NEW t, Seen(Range(c), t) PROVE Newest(d, t) = Newest(c, t)
  <2>1. CASE Seen(Range(b), t)
    BY <1>4, <1>6, <2>1
  <2>2. CASE ~Seen(Range(b), t)
    <3>1. Seen(Range(a), t) /\ ~Seen(Range(again), t) /\ Seen(Range(f), t)
      BY <1>1, <1>2, <1>7, <2>2 DEF Seen
    <3>. QED BY <1>4, <1>6, <2>2, <3>1
  <2>. QED BY <2>1, <2>2
<1>8. Recoverable(d) = Recoverable(c)
  <2>1. \A t : t \in Recoverable(d) <=> t \in Recoverable(c)
    BY <1>1, <1>5, RecoverableTasks
  <2>. QED BY <2>1 DEF Recoverable
<1>9. ASSUME NEW x \in Range(queue) \cup running, x.task \notin F
      PROVE  Newest(d, x.task).attempts = x.attempts
  <2>1. x.task \in Live
    BY LiveIs
  <2>2. Newest(d, x.task) = Newest(c, x.task)
    BY <1>3, <1>7, <1>9, <2>1 DEF AccountedIn
  <2>. QED BY <1>3, <1>9, <2>2 DEF AccountedIn
<1>10. AccountedIn(d, F)
  BY <1>3, <1>5, <1>8, <1>9 DEF AccountedIn
<1>. QED BY <1>10 DEF d, f

\* A flush, whatever part of it reaches the disk, leaves log and buffer such
\* that they account for all whose event is not lost.
LEMMA AccountedAppend ==
    ASSUME TypeOK, Accounted, Flush \/ Stop
    PROVE  AccountedIn(log' \o buffer', forgotten')
<1>1. /\ log \in Seq(Record) /\ buffer \in Seq(Record) /\ Len(buffer) \in Nat
      /\ AccountedIn(log \o buffer, forgotten)
  BY Sequences, RangeOf, AccountedIs DEF Events
<1>2. <<>> \in Seq(Record)
  BY EmptySeq
\* What is written before what is still to be written.
<1>3. ASSUME NEW n \in 0 .. Len(buffer), NEW end \in Endings(n), Write(n, end),
             NEW rest \in Seq(Record),
             AccountedIn((log \o SubSeq(buffer, 1, n)) \o rest, forgotten)
      PROVE  log' \in Seq(Record) /\ AccountedIn(log' \o rest, forgotten \cup Spoilt(n, end))
  <2>1. PICK kept \in Seq(Record), gone \in Seq(Record), new \in Seq(Record) :
           /\ log \o SubSeq(buffer, 1, n) = kept \o (gone \o new)
           /\ log' = kept \o new
           /\ Spoilt(n, end) = TasksOf(Range(gone))
    BY <1>3, WriteParts
  <2> DEFINE later == new \o rest
             middle == gone \o new
  <2>2. later \in Seq(Record) /\ middle \in Seq(Record) /\ log' \in Seq(Record)
    BY <2>1, Regrouped
  <2>3. middle \o rest = gone \o later /\ (kept \o new) \o rest = kept \o later
    <3>1. (gone \o new) \o rest = gone \o (new \o rest)
      BY Regrouped
    <3>2. (kept \o new) \o rest = kept \o (new \o rest)
      BY Regrouped
    <3>. QED BY <3>1, <3>2
  <2>4. log \o SubSeq(buffer, 1, n) = kept \o middle
    BY <2>1
  <2> HIDE DEF later, middle
  <2>5. (kept \o middle) \o rest = kept \o (middle \o rest)
    <3>1. kept \in Seq(Record) /\ middle \in Seq(Record) /\ rest \in Seq(Record)
      BY <2>2
    <3>. QED BY <3>1, ConcatAssociative
  <2>6. AccountedIn(kept \o (gone \o later), forgotten)
    BY <1>3, <2>5, <2>3, <2>4
  <2>7. AccountedIn(kept \o later, forgotten \cup TasksOf(Range(gone)))
    BY <2>2, <2>6, AccountedCut
  <2>. QED BY <2>1, <2>2, <2>3, <2>7
<1>4. ASSUME NEW n \in 0 .. Len(buffer), NEW end \in Endings(n), n = Len(buffer), Write(n, end),
             buffer' = <<>>, forgotten' = forgotten \cup Spoilt(n, end)
      PROVE  AccountedIn(log' \o buffer', forgotten')
  <2>1. SubSeq(buffer, 1, n) = buffer
    BY <1>1, <1>4, SubSeqFull
  <2>2. (log \o buffer) \o <<>> = log \o buffer
    BY <1>1, Regrouped, ConcatEmptySeq
  <2>3. AccountedIn((log \o SubSeq(buffer, 1, n)) \o <<>>, forgotten)
    BY <1>1, <2>1, <2>2
  <2>4. AccountedIn(log' \o <<>>, forgotten \cup Spoilt(n, end))
    BY <1>2, <1>3, <1>4, <2>3
  <2>. QED BY <1>4, <2>4
<1>5. ASSUME NEW n \in 0 .. Len(buffer), NEW end \in Endings(n), Write(n, end), buffer' = Unwritten,
             forgotten' = forgotten \cup (Dropped \cup Spoilt(n, end))
      PROVE  AccountedIn(log' \o buffer', forgotten')
  <2> DEFINE some == SubSeq(buffer, 1, n)
  <2>1. some \in Seq(Record) /\ Range(some) \subseteq Range(buffer)
    <3>1. some \in Seq(Record) /\ Range(some) = {buffer[k] : k \in 1 .. n}
      BY <1>1, PieceOf
    <3>2. \A k \in 1 .. n : buffer[k] \in Range(buffer)
      BY <1>1 DEF Range
    <3>. QED BY <3>1, <3>2
  <2> HIDE DEF some
  <2>2. AccountedIn((log \o some) \o buffer, forgotten)
    BY <1>1, <2>1, AccountedTwice
  <2>3. log' \in Seq(Record) /\ AccountedIn(log' \o buffer, forgotten \cup Spoilt(n, end))
    BY <1>1, <1>3, <1>5, <2>2 DEF some
  <2>4. PICK gone \in Seq(Record) : buffer = gone \o Unwritten /\ Dropped = TasksOf(Range(gone))
    BY UnwrittenParts
  <2>5. Unwritten \in Seq(Record)
    BY UnwrittenParts
  <2> HIDE DEF Unwritten
  <2>6. AccountedIn(log' \o (gone \o Unwritten), forgotten \cup Spoilt(n, end))
    BY <2>3, <2>4
  <2>7. AccountedIn(log' \o Unwritten, (forgotten \cup Spoilt(n, end)) \cup TasksOf(Range(gone)))
    BY <2>3, <2>5, <2>6, AccountedCut
  <2>8. forgotten' = (forgotten \cup Spoilt(n, end)) \cup TasksOf(Range(gone))
    BY <1>5, <2>4
  <2>. QED BY <1>5, <2>7, <2>8
<1>6. ASSUME buffer' = <<>>, log' = log, forgotten' = forgotten \cup TasksOf(Range(buffer))
      PROVE  AccountedIn(log' \o buffer', forgotten')
  <2>1. buffer \o <<>> = buffer
    BY <1>1, ConcatEmptySeq
  <2>2. AccountedIn(log \o (buffer \o <<>>), forgotten)
    BY <1>1, <2>1
  <2>3. AccountedIn(log \o <<>>, forgotten \cup TasksOf(Range(buffer)))
    BY <1>1, <1>2, <2>2, AccountedCut
  <2>. QED BY <1>6, <2>3
<1>. QED BY <1>4, <1>5, <1>6, AppendParts

\* After a step, when all that was seen is still there.
LEMMA StillSeen ==
    ASSUME \A t \in Live \ forgotten : Seen(Logged, t), forgotten \subseteq forgotten',
           Logged \subseteq Logged', \A t \in Live' : t \in Live \/ Seen(Logged', t)
    PROVE  \A t \in Live' \ forgotten' : Seen(Logged', t)
BY DEF Seen

\* After each step log and buffer tell of whatever waits or runs.
LEMMA AccountedStep == WellTyped /\ WellTyped' /\ Places /\ Accounted /\ [Next]_vars => Accounted'
<1> SUFFICES ASSUME WellTyped, WellTyped', Places, Accounted, [Next]_vars PROVE Accounted'
  OBVIOUS
<1>1. /\ TypeOK /\ NoneTwice(queue)
      /\ Range(queue) \cup running \subseteq Item /\ Logged \subseteq Record
      /\ log \in Seq(Record) /\ buffer \in Seq(Record) /\ queue \in Seq(Item)
      /\ Events \in Seq(Record) /\ Range(Events) = Logged
      /\ ended \in [Ends -> SUBSET Task] /\ "DLQ" \in Ends /\ "CANCELLED" \in Ends
      /\ "EXPIRED" \in Ends /\ "DONE" \in Ends
  BY LiveParts, Sequences, EventsParts, TypeParts DEF WellTyped, Places, Ends
<1>2. /\ \A t \in Live \cup TasksOf(Logged) : t \in accepted
      /\ \A e \in Logged : e.task \in accepted
  BY DEF WellTyped, TasksOf
<1>3. \A x, y \in Range(queue) : x.task = y.task => x = y
  BY <1>1 DEF NoneTwice, Range
<1>4. /\ \A t \in Live \ forgotten : Seen(Logged, t)
      /\ \A x \in Range(queue) \cup running :
            x.task \notin forgotten => /\ Newest(Events, x.task).attempts = x.attempts
                                       /\ Seen(Logged, x.task)
      /\ up /\ ~loaded => Pending \subseteq Live \cup ended["DLQ"] \cup forgotten
  BY LiveIs DEF Accounted
\* An event of a task about which the others do not differ.
<1>5. ASSUME NEW e, Writes(e), forgotten' = forgotten,
             \A x \in Range(queue') \cup running' :
                \/ x.task = e.task /\ x.attempts = e.attempts
                \/ x.task # e.task /\ x \in Range(queue) \cup running
      PROVE  /\ \A t \in Live' \ forgotten' : Seen(Logged', t)
             /\ \A x \in Range(queue') \cup running' :
                   x.task \notin forgotten' => Newest(Events', x.task).attempts = x.attempts
  <2>1. e \in Record /\ Events' = Append(Events, e) /\ Logged' = Logged \cup {e}
    BY <1>5 DEF Writes
  <2>2. ASSUME NEW x \in Range(queue') \cup running', x.task \notin forgotten
        PROVE  Seen(Logged', x.task) /\ Newest(Events', x.task).attempts = x.attempts
    <3>1. CASE x.task = e.task /\ x.attempts = e.attempts
      <4>1. Newest(Events', x.task) = e
        BY <1>1, <2>1, <3>1, NewestOfAppend
      <4>. QED BY <2>1, <3>1, <4>1 DEF Seen
    <3>2. CASE x.task # e.task /\ x \in Range(queue) \cup running
      <4>1. Seen(Logged, x.task) /\ Newest(Events, x.task).attempts = x.attempts
        BY <1>4, <2>2, <3>2
      <4>2. Newest(Events', x.task) = Newest(Events, x.task)
        BY <1>1, <2>1, <3>2, <4>1, NewestOfAppend
      <4>. QED BY <2>1, <4>1, <4>2 DEF Seen
    <3>. QED BY <1>5, <3>1, <3>2
  <2>. QED BY <1>5, <2>2, LiveIs
\* Then a task is pending that was so, or the event is its own.
<1>6. ASSUME NEW e, Writes(e), expired' = expired
      PROVE  /\ Pending' \subseteq Pending \cup {e.task}
             /\ e.state \in EndedStates => e.task \notin Pending'
  BY <1>6 DEF Writes, Pending, Seen
<1>7. ASSUME NEW t \in Task, Enqueue(t) PROVE Accounted'
  <2>1. PICK x \in Item, e \in Record :
           /\ x.task = t /\ x.attempts = 0 /\ e.task = t /\ e.attempts = 0
           /\ Range(queue') = Range(queue) \cup {x} /\ Writes(e)
    BY <1>1, <1>7, EnqueueMoves
  <2>2. /\ t \notin accepted
        /\ UNCHANGED <<up, loaded, running, forgotten, expired, ended>>
    BY <1>7 DEF Enqueue, process, store
  <2>3. \A y \in Range(queue) \cup running : y.task # t
    BY <1>2, <2>2, LiveIs
  <2>4. Live' = Live \cup {t}
    <3>1. \A u : u \in Live' <=> u \in Live \/ u = t
      BY <2>1, <2>2, LiveIs
    <3>. QED BY <3>1
  <2>5. \A y \in Range(queue') \cup running' :
                \/ y.task = e.task /\ y.attempts = e.attempts
                \/ y.task # e.task /\ y \in Range(queue) \cup running
    BY <2>1, <2>2, <2>3
  <2>6. Pending' \subseteq Pending \cup {t}
    BY <1>6, <2>1, <2>2
  <2>7. up' /\ ~loaded' => Pending' \subseteq Live' \cup ended'["DLQ"] \cup forgotten'
    BY <1>4, <2>2, <2>4, <2>6
  <2>. QED BY <1>5, <2>1, <2>2, <2>5, <2>7 DEF Accounted
<1>8. ASSUME NEW t \in Task, Cancel(t) PROVE Accounted'
  <2>1. PICK x \in Range(queue), e \in Record :
           /\ x.task = t /\ e.task = t /\ e.state = "CANCELLED" /\ e.attempts = x.attempts
           /\ Writes(e)
    BY <1>1, <1>8, CancelMoves
  <2>2. UNCHANGED <<up, loaded, queue, running, forgotten, expired>>
    BY <1>8 DEF Cancel, process, store, clock
  <2>3. \A y \in running : y.task # t
    BY <2>1 DEF Places
  <2>4. \A y \in Range(queue') \cup running' :
                \/ y.task = e.task /\ y.attempts = e.attempts
                \/ y.task # e.task /\ y \in Range(queue) \cup running
    BY <1>3, <2>1, <2>2, <2>3
  <2>5. Pending' \subseteq Pending
    BY <1>6, <2>1, <2>2 DEF EndedStates
  <2>6. ended'["DLQ"] = ended["DLQ"]
    BY <1>1, <1>8 DEF Cancel, Ended
  <2>7. Live' = Live
    BY <2>2 DEF Live, Queued, Running
  <2>. QED BY <1>4, <1>5, <2>1, <2>2, <2>4, <2>5, <2>6, <2>7 DEF Accounted
<1>9. CASE Evict
  <2> DEFINE late == {x \in Range(queue) : x.task \in expired}
  <2>1. /\ Range(queue') = Range(queue) \ late
        /\ ended' = [ended EXCEPT !["EXPIRED"] = @ \cup TasksOf(late)]
        /\ UNCHANGED <<up, loaded, running, forgotten, expired>>
    BY <1>1, <1>9, EvictParts DEF Evict, process, store, clock
  <2>2. PICK more \in Seq(Record) :
           /\ Range(more) = {Event(x, "EXPIRED") : x \in late}
           /\ Events' = Events \o more
           /\ Logged' = Logged \cup Range(more)
    BY <1>1, <1>9, EvictMoves
  <2>3. \A e \in Range(more) : \E x \in late : e.task = x.task
    BY <2>2 DEF Event
  <2>4. \A y \in Range(queue') \cup running' : y \in Range(queue) \cup running
    BY <2>1
  <2>5. ASSUME NEW y \in Range(queue') \cup running'
        PROVE  ~Seen(Range(more), y.task)
    <3>1. \A x \in late : x.task # y.task
      BY <1>3, <2>1 DEF Places
    <3>. QED BY <2>3, <3>1 DEF Seen
  <2>6. \A y \in Range(queue') \cup running' :
           y.task \notin forgotten' => Newest(Events', y.task).attempts = y.attempts
    <3>1. ASSUME NEW y \in Range(queue') \cup running', y.task \notin forgotten'
          PROVE  Newest(Events', y.task).attempts = y.attempts
      <4>1. Seen(Range(Events), y.task) /\ Newest(Events, y.task).attempts = y.attempts
        BY <1>1, <1>4, <2>1, <2>4, <3>1
      <4>2. Newest(Events', y.task) = Newest(Events, y.task)
        BY <1>1, <2>2, <2>5, <4>1, NewestOfConcat
      <4>. QED BY <4>1, <4>2
    <3>. QED BY <3>1
  <2>7. \A t \in Live' : t \in Live
    BY <2>4, LiveIs
  <2>8. \A t \in Live' \ forgotten' : Seen(Logged', t)
    BY <1>4, <2>1, <2>2, <2>7, StillSeen
  <2>9. up' /\ ~loaded' => Pending' \subseteq Live' \cup ended'["DLQ"] \cup forgotten'
    <3>1. \A e \in Range(more) : e.task \in expired
      BY <2>3
    <3>2. Pending' \subseteq Pending
      BY <2>1, <2>2, <3>1 DEF Pending, Seen
    <3>3. ASSUME NEW t \in Live, t \notin expired PROVE t \in Live'
      <4>1. PICK x \in Range(queue) \cup running : x.task = t
        BY LiveIs
      <4>2. x \in Range(queue') \cup running'
        BY <2>1, <3>3, <4>1
      <4>. QED BY <4>1, <4>2, LiveIs
    <3>4. \A t \in Pending : t \notin expired
      BY DEF Pending
    <3>5. ended'["DLQ"] = ended["DLQ"]
      BY <1>1, <2>1
    <3>. QED BY <1>4, <2>1, <3>2, <3>3, <3>4, <3>5
  <2>. QED BY <2>6, <2>8, <2>9 DEF Accounted
<1>10. CASE Dispatch
  <2>1. PICK x \in Range(queue), y \in Item, e \in Record :
           /\ y.task = x.task /\ y.attempts = x.attempts + 1
           /\ e.task = x.task /\ e.state = "RUNNING" /\ e.attempts = x.attempts + 1
           /\ Range(queue') = Range(queue) \ {x}
           /\ \A z \in Range(queue) \ {x} : z.task # x.task
           /\ Writes(e)
           /\ \/ running' = running \cup {y} /\ ended' = ended
              \/ running' = running /\ ended' = [ended EXCEPT !["DLQ"] = @ \cup {x.task}]
    BY <1>1, <1>10, DispatchMoves
  <2>2. UNCHANGED <<up, loaded, forgotten, expired>>
    BY <1>10 DEF Dispatch, process, store, clock
  <2>3. \A z \in running : z.task # x.task
    BY DEF Places
  <2>4. \A z \in Range(queue') \cup running' :
                \/ z.task = e.task /\ z.attempts = e.attempts
                \/ z.task # e.task /\ z \in Range(queue) \cup running
    BY <2>1, <2>3
  <2>5. Pending' \subseteq Pending \cup {x.task}
    BY <1>6, <2>1, <2>2
  <2>6. x.task \in Live' \cup ended'["DLQ"]
    <3>1. running' = running \cup {y} => x.task \in Live'
      BY <2>1, LiveIs
    <3>. QED BY <1>1, <2>1, <3>1
  <2>7. \A t \in Live : t \in Live' \/ t = x.task
    <3>1. \A z \in Range(queue) \cup running : z \in Range(queue') \cup running' \/ z = x
      BY <2>1
    <3>. QED BY <3>1, LiveIs
  <2>8. ended["DLQ"] \subseteq ended'["DLQ"]
    BY <1>1, <2>1
  <2>. QED BY <1>4, <1>5, <2>1, <2>2, <2>4, <2>5, <2>6, <2>7, <2>8 DEF Accounted
<1>11. ASSUME NEW x \in running, HandlerReturns(x) PROVE Accounted'
  <2>1. PICK e \in Record : e.task = x.task /\ e.state = "DONE" /\ Writes(e)
    BY <1>1, <1>11, ReturnMoves
  <2>2. /\ running' = running \ {x}
        /\ UNCHANGED <<up, loaded, queue, forgotten, expired>>
    BY <1>11 DEF HandlerReturns, process, store, clock
  <2>3. \A y \in Range(queue') \cup running' : y.task # x.task /\ y \in Range(queue) \cup running
    BY <2>2 DEF Places
  <2>4. Pending' \subseteq Pending \ {x.task}
    BY <1>6, <2>1, <2>2 DEF EndedStates
  <2>5. \A t \in Live : t \in Live' \/ t = x.task
    <3>1. \A z \in Range(queue) \cup running : z \in Range(queue') \cup running' \/ z = x
      BY <2>2
    <3>. QED BY <3>1, LiveIs
  <2>6. ended'["DLQ"] = ended["DLQ"]
    BY <1>1, <1>11 DEF HandlerReturns, Ended
  <2>. QED BY <1>4, <1>5, <2>1, <2>2, <2>3, <2>4, <2>5, <2>6 DEF Accounted
<1>12. ASSUME NEW x \in running, HandlerThrows(x) PROVE Accounted'
  <2>1. /\ running' = running \ {x}
        /\ UNCHANGED <<up, loaded, forgotten, expired>>
    BY <1>12 DEF HandlerThrows, process, store
  <2>2. \A t \in Live : t \in Live' \/ t = x.task
    <3>1. queue' = queue \/ \E y : Range(queue') = Range(queue) \cup {y}
      BY <1>1, <1>12, ThrowMoves
    <3>2. \A z \in Range(queue) \cup running : z \in Range(queue') \cup running' \/ z = x
      BY <2>1, <3>1
    <3>. QED BY <3>2, LiveIs
  <2>3. ASSUME UNCHANGED <<queue, buffer, log>>
        PROVE  /\ \A t \in Live' \ forgotten' : Seen(Logged', t)
               /\ \A y \in Range(queue') \cup running' :
                     y.task \notin forgotten' => Newest(Events', y.task).attempts = y.attempts
               /\ Pending' = Pending
    <3>1. Logged' = Logged /\ Events' = Events
      BY <2>3 DEF Logged, Events
    <3>2. \A t \in Live' : t \in Live
      BY <2>1, <2>3, LiveIs
    <3>. QED BY <1>4, <2>1, <2>3, <3>1, <3>2 DEF Pending
  <2>4. CASE loaded /\ UNCHANGED <<queue, buffer, log>>
    BY <2>1, <2>3, <2>4 DEF Accounted
  <2>5. CASE /\ UNCHANGED <<queue, buffer, log>>
             /\ ended' = [ended EXCEPT !["DLQ"] = @ \cup {x.task}]
    <3>1. ended["DLQ"] \cup {x.task} = ended'["DLQ"]
      BY <1>1, <2>5
    <3>. QED BY <1>4, <2>1, <2>2, <2>3, <2>5, <3>1 DEF Accounted
  <2>6. ASSUME NEW y \in Item, NEW e \in Record,
               y.task = x.task, y.attempts = x.attempts,
               e.task = x.task, e.attempts = x.attempts,
               Range(queue') = Range(queue) \cup {y}, Writes(e), ended' = ended
        PROVE  Accounted'
    <3>1. \A z \in Range(queue) \cup (running \ {x}) : z.task # x.task
      BY DEF Places
    <3>2. \A z \in Range(queue') \cup running' :
                \/ z.task = e.task /\ z.attempts = e.attempts
                \/ z.task # e.task /\ z \in Range(queue) \cup running
      BY <2>1, <2>6, <3>1
    <3>3. Pending' \subseteq Pending \cup {x.task}
      BY <1>6, <2>1, <2>6
    <3>4. x.task \in Live'
      BY <2>6, LiveIs
    <3>. QED BY <1>4, <1>5, <2>1, <2>2, <2>6, <3>2, <3>3, <3>4 DEF Accounted
  <2>. QED BY <1>1, <1>12, <2>4, <2>5, <2>6, ThrowMoves
\* Steps that touch log and buffer only.
<1>13. ASSUME AccountedIn(Events', forgotten'), UNCHANGED <<up, loaded, queue, running, expired, ended>>
       PROVE  Accounted'
  <2>1. Live' = Live
    BY <1>13 DEF Live, Queued, Running
  <2>2. (Events \in Seq(Record) /\ Range(Events) = Logged)'
    <3>1. TypeOK'
      BY DEF WellTyped
    <3>. QED BY <3>1, EventsParts, PTL
  <2>3. ASSUME NEW t \in Pending' PROVE t \in Recoverable(Events')
    BY <1>13, <2>2, <2>3, RecoverableTasks DEF Pending, Seen
  <2>. QED BY <1>13, <2>1, <2>2, <2>3 DEF Accounted, AccountedIn
<1>14. CASE Flush \/ Stop
  <2>1. UNCHANGED <<up, loaded, queue, running, expired, ended>>
    BY <1>14 DEF Flush, Stop, process, clock
  <2>. QED BY <1>1, <1>13, <1>14, <2>1, AccountedAppend DEF Events
<1>15. CASE Midnight
  <2>1. /\ log' = <<>> /\ UNCHANGED <<up, loaded, queue, running, buffer, expired, ended>>
        /\ forgotten' = forgotten \cup TasksOf(Range(log))
    BY <1>15 DEF Midnight, Forget, process, memory, clock
  <2>2. /\ <<>> \in Seq(Record)
        /\ <<>> \o (log \o buffer) = log \o buffer
    BY <1>1, ConcatEmptySeq, EmptySeq DEF Events
  <2>3. AccountedIn(<<>> \o (log \o buffer), forgotten)
    BY <1>1, <2>2, AccountedIs DEF Events
  <2>4. AccountedIn(<<>> \o buffer, forgotten \cup TasksOf(Range(log)))
    BY <1>1, <2>2, <2>3, AccountedCut
  <2>. QED BY <1>13, <2>1, <2>4 DEF Events
<1>16. CASE Crash
  <2>1. queue' = <<>> /\ running' = {} /\ ~up' /\ Range(<<>>) = {}
    BY <1>16 DEF Crash, Range
  <2>2. Live' = {}
    BY <2>1 DEF Live, Queued, Running, TasksOf
  <2>. QED BY <2>1, <2>2 DEF Accounted
<1>17. CASE Restart
  <2>1. /\ TasksOf(Range(queue')) = Recoverable(log)
        /\ \A x \in Range(queue') : x.attempts = Newest(log, x.task).attempts
    BY <1>1, <1>17, RestartParts
  <2>2. UNCHANGED <<running, buffer, log, expired, ended>> /\ running = {} /\ buffer = <<>>
    BY <1>17 DEF Restart, WellTyped, store
  <2>3. Events' = log /\ Events = log
    <3>1. log \o <<>> = log
      BY <1>1, ConcatEmptySeq
    <3>. QED BY <2>2, <3>1 DEF Events
  <2>4. Logged' = Logged /\ Pending' = Pending
    BY <2>2 DEF Logged, Pending
  <2>5. Live' = Pending
    <3>1. Live' = TasksOf(Range(queue'))
      BY <2>2 DEF Live, Queued, Running, TasksOf
    <3>. QED BY <1>1, <2>1, <2>3, <3>1, PendingIsRecoverable
  <2>6. \A t \in Live' : Seen(Logged', t)
    BY <2>4, <2>5 DEF Pending
  <2>7. \A x \in Range(queue') \cup running' : Newest(Events', x.task).attempts = x.attempts
    BY <2>1, <2>2, <2>3
  <2>. QED BY <2>4, <2>5, <2>6, <2>7 DEF Accounted
<1>18. CASE /\ UNCHANGED <<up, loaded, queue, running, buffer, log, forgotten, accepted, ended, used>>
            /\ keys \subseteq keys' /\ expired \subseteq expired'
  <2>1. Logged' = Logged /\ Events' = Events /\ Live' = Live
    BY <1>18 DEF Logged, Events, Live, Queued, Running
  <2>2. Pending' \subseteq Pending
    BY <1>18, <2>1 DEF Pending
  <2>. QED BY <1>4, <1>18, <2>1, <2>2 DEF Accounted
<1>. QED BY <1>7, <1>8, <1>9, <1>10, <1>11, <1>12, <1>14, <1>15, <1>16, <1>17, <1>18, Steps

\* A process that started now would take over what waits and runs, and, but for
\* the dead, nothing else.
THEOREM LogAccountsForQueue == Spec => []LogIsFaithful
<1>1. Init => Accounted
  <2> SUFFICES ASSUME Init PROVE Accounted
    OBVIOUS
  <2>1. Range(<<>>) = {} /\ queue = <<>> /\ running = {} /\ log = <<>> /\ buffer = <<>>
    BY DEF Init, Range
  <2>2. Live = {} /\ Logged = {}
    BY <2>1 DEF Live, Queued, Running, TasksOf, Logged
  <2>. QED BY <2>1, <2>2 DEF Accounted, Pending, Seen
<1>2. Spec => []Accounted
  BY <1>1, AccountedStep, TypesCorrect, PlacesCorrect, PTL DEF Spec
<1>3. WellTyped /\ EndsStay /\ Accounted => LogIsFaithful
  <2> SUFFICES ASSUME WellTyped, EndsStay, Accounted PROVE LogIsFaithful
    OBVIOUS
  <2>1. Recoverable(log \o buffer) = Pending
    BY PendingIsRecoverable DEF Events, WellTyped
  <2>2. Live \ (expired \cup ended["CANCELLED"] \cup forgotten) \subseteq Pending
    <3>1. Live \subseteq Task
      BY TypeParts DEF WellTyped
    <3>. QED BY <3>1 DEF Accounted, EndsStay, Pending
  <2>. QED BY <2>1, <2>2 DEF Accounted, LogIsFaithful, Events
<1>. QED BY <1>2, <1>3, TypesCorrect, EndsCorrect, PTL

-----------------------------------------------------------------------------
(* Idempotency keys.                                                       *)

\* No two of the tasks have one key.
OneHolder(ts) ==
    \A s, t \in ts : KeyOf[s] # NoKey /\ KeyOf[s] = KeyOf[t] => s = t

\* Each of the tasks holds its key, and holds it alone.
HeldIn(ts, ks) == OneHolder(ts) /\ \A t \in ts : KeyOf[t] # NoKey => KeyOf[t] \in ks

\* The tasks that would be recovered, had only the first n events been written.
PendingAt(n) ==
    {t \in Task \ expired :
        /\ \E i \in 1 .. n : Events[i].task = t
        /\ \A i \in 1 .. n : Events[i].task = t => Events[i].state \notin EndedStates}

\* No task was given up, by its caller or the queue, and no event is missing.
Undisturbed == ended["CANCELLED"] \cup ended["DLQ"] \cup forgotten = {}

\* Keys are held by whoever waits or runs; while nothing was given up, also by
\* those whom a failed retry lost and a restart would bring back, wherever the
\* log breaks off.
Keys ==
    /\ ended["CANCELLED"] = {} /\ used["restart"] = 0 => HeldIn(Live, keys)
    /\ Undisturbed => /\ up => HeldIn(Live \cup Pending, keys)
                      /\ \A n \in 0 .. Len(Events) : OneHolder(PendingAt(n))

\* Fewer tasks, and no fewer keys.
LEMMA HeldByFewer ==
    ASSUME NEW ts, NEW us, NEW ks, NEW ls,
           HeldIn(ts, ks), us \subseteq ts, ks \subseteq ls
    PROVE  HeldIn(us, ls)
BY DEF HeldIn, OneHolder

\* One task more, whose key was free.
LEMMA HeldByOneMore ==
    ASSUME NEW ts, NEW us, NEW ks, NEW t,
           HeldIn(ts, ks), KeyOf[t] \notin ks, us \subseteq ts \cup {t}
    PROVE  HeldIn(us, ks \cup ({KeyOf[t]} \ {NoKey}))
BY DEF HeldIn, OneHolder

\* Tasks give up their keys and go.
LEMMA HeldByOthers ==
    ASSUME NEW ts, NEW us, NEW ks, NEW gone,
           HeldIn(ts, ks), gone \subseteq ts, us \subseteq ts \ gone
    PROVE  HeldIn(us, ks \ {KeyOf[t] : t \in gone})
BY DEF HeldIn, OneHolder

\* What was written does not change, and time only expires tasks.
LEMMA PendingAtKept ==
    ASSUME NEW k \in Nat, NEW n \in 0 .. k, \A i \in 1 .. k : Events'[i] = Events[i],
           expired \subseteq expired'
    PROVE  PendingAt(n)' \subseteq PendingAt(n)
<1>1. \A i \in 1 .. n : i \in 1 .. k
  OBVIOUS
<1>. QED BY <1>1 DEF PendingAt

\* All events together.
LEMMA PendingAtEnd ==
    ASSUME TypeOK
    PROVE  PendingAt(Len(Events)) = Pending
<1>1. Events \in Seq(Record) /\ Range(Events) = Logged
  BY EventsParts
<1>2. \A e : e \in Logged <=> \E i \in 1 .. Len(Events) : Events[i] = e
  BY <1>1, RangeOf
<1>. QED BY <1>2 DEF PendingAt, Pending, Seen

\* What is recorded of the past stays.
LEMMA RecordsGrow ==
    ASSUME WellTyped, [Next]_vars
    PROVE  (\A e \in Ends : ended[e] \subseteq ended'[e]) /\ forgotten \subseteq forgotten'
<1>1. TypeOK /\ ended \in [Ends -> SUBSET Task]
  BY TypeParts DEF WellTyped
<1> DEFINE G == (\A e \in Ends : ended[e] \subseteq ended'[e]) /\ forgotten \subseteq forgotten'
<1>2. ASSUME NEW t \in Task, Enqueue(t) \/ Cancel(t) PROVE G
  BY <1>1, <1>2 DEF Enqueue, Cancel, Ended, store
<1>3. CASE Evict
  BY <1>1, <1>3 DEF Evict, Ended, store
<1>4. CASE Dispatch
  BY <1>1, <1>4 DEF Dispatch, PushDLQ, Ended, store
<1>5. ASSUME NEW x \in running, HandlerReturns(x) \/ HandlerThrows(x) PROVE G
  BY <1>1, <1>5 DEF HandlerReturns, HandlerThrows, PushDLQ, Ended, store
<1>6. CASE Flush \/ Stop
  BY <1>1, <1>6, AppendKeeps DEF Flush, Stop
<1>7. CASE Midnight
  BY <1>1, <1>7 DEF Midnight, Forget
<1>8. CASE Crash \/ Restart
  BY <1>1, <1>8, CrashKeeps DEF Crash, Restart, history, store
<1>9. CASE UNCHANGED <<up, loaded, queue, running, buffer, log, forgotten, accepted, ended, used>>
  BY <1>9
<1>. QED BY <1>2, <1>3, <1>4, <1>5, <1>6, <1>7, <1>8, <1>9, Steps

\* Where there are events somebody has them.
LEMMA NobodyLost ==
    ASSUME NEW events \in Seq(Record), TasksOf(Range(events)) = {}
    PROVE  events = <<>>
<1>1. DOMAIN events = 1 .. Len(events) /\ Len(events) \in Nat
  BY RangeOf
<1>2. \A i \in DOMAIN events : events[i].task \in TasksOf(Range(events))
  BY DEF Range, TasksOf
<1>3. ASSUME events # <<>> PROVE FALSE
  <2>1. Len(events) \in Nat \ {0}
    BY <1>3, EmptySeq
  <2>2. 1 \in DOMAIN events
    BY <1>1, <2>1
  <2>. QED BY <1>2, <2>2
<1>. QED BY <1>3

\* An append that spoils no event adds what it wrote to the log.
LEMMA WriteWhole ==
    ASSUME TypeOK, NEW n \in 0 .. Len(buffer), NEW end \in Endings(n), Write(n, end),
           Spoilt(n, end) = {}
    PROVE  log' = log \o SubSeq(buffer, 1, n)
<1>1. PICK kept \in Seq(Record), gone \in Seq(Record), new \in Seq(Record) :
         /\ log \o SubSeq(buffer, 1, n) = kept \o (gone \o new)
         /\ log' = kept \o new
         /\ Spoilt(n, end) = TasksOf(Range(gone))
  BY WriteParts
<1>2. gone = <<>>
  BY <1>1, NobodyLost
<1>3. gone \o new = new
  BY <1>2, ConcatEmptySeq
<1>. QED BY <1>1, <1>3

\* After each step a key has one holder in every prefix of the events.
LEMMA KeysStep == WellTyped /\ WellTyped' /\ Places /\ Keys /\ [Next]_vars => Keys'
<1> SUFFICES ASSUME WellTyped, WellTyped', Places, Keys, [Next]_vars PROVE Keys'
  OBVIOUS
<1>1. /\ TypeOK /\ TypeOK' /\ NoneTwice(queue)
      /\ log \in Seq(Record) /\ buffer \in Seq(Record)
      /\ Events \in Seq(Record) /\ Range(Events) = Logged /\ Len(Events) \in Nat
      /\ ended \in [Ends -> SUBSET Task] /\ "DLQ" \in Ends /\ "CANCELLED" \in Ends
  BY Sequences, EventsParts, TypeParts, RangeOf DEF WellTyped, Places, Ends
<1>2. /\ ended["CANCELLED"] \subseteq ended'["CANCELLED"] /\ ended["DLQ"] \subseteq ended'["DLQ"]
      /\ forgotten \subseteq forgotten'
  BY <1>1, RecordsGrow
<1>3. Undisturbed' => Undisturbed
  BY <1>2 DEF Undisturbed
<1>4. ended'["CANCELLED"] = {} /\ used'["restart"] = 0
         => ended["CANCELLED"] = {} /\ used["restart"] = 0 /\ ~Restart
  BY <1>2, RestartsCounted
<1> DEFINE H  == Live \cup Pending
           H1 == Live' \cup Pending'
           AtEveryCut == \A n \in 0 .. Len(Events) : OneHolder(PendingAt(n))
\* What has to be shown of a step.
<1>5. ASSUME HeldIn(Live, keys) /\ ~Restart => HeldIn(Live', keys') \/ ended'["CANCELLED"] # {},
             Undisturbed' /\ AtEveryCut /\ (up => HeldIn(H, keys))
                => (up' => HeldIn(H1, keys')) /\ AtEveryCut'
      PROVE  Keys'
  BY <1>3, <1>4, <1>5 DEF Keys
\* The prefixes of what is written, when one event is added.
<1>6. ASSUME NEW e, Writes(e), AtEveryCut, expired \subseteq expired', HeldIn(H1, keys')
      PROVE  AtEveryCut'
  <2>1. e \in Record /\ Events' = Append(Events, e)
    BY <1>6 DEF Writes
  <2>2. /\ Len(Events') = Len(Events) + 1
        /\ \A i \in 1 .. Len(Events) : Events'[i] = Events[i]
    BY <1>1, <2>1, AppendProperties
  <2>3. ASSUME NEW n \in 0 .. Len(Events) PROVE OneHolder(PendingAt(n))'
    <3>1. PendingAt(n)' \subseteq PendingAt(n)
      BY <1>1, <1>6, <2>2, PendingAtKept
    <3>. QED BY <1>6, <3>1 DEF OneHolder
  <2>4. OneHolder(Pending')
    BY <1>6 DEF HeldIn, OneHolder
  <2>5. (PendingAt(Len(Events)) = Pending)'
    BY <1>1, PendingAtEnd, PTL
  <2>6. ASSUME NEW n \in 0 .. Len(Events') PROVE OneHolder(PendingAt(n))'
    <3>1. n \in 0 .. Len(Events) \/ n = Len(Events')
      BY <1>1, <2>2
    <3>. QED BY <2>3, <2>4, <2>5, <3>1 DEF OneHolder
  <2>. QED BY <2>6
\* Steps that write nothing.
<1>7. ASSUME AtEveryCut, Events' = Events, expired \subseteq expired'
      PROVE  AtEveryCut'
  <2>1. ASSUME NEW n \in 0 .. Len(Events) PROVE OneHolder(PendingAt(n))'
    <3>1. PendingAt(n)' \subseteq PendingAt(n)
      BY <1>1, <1>7, PendingAtKept
    <3>. QED BY <1>7, <3>1 DEF OneHolder
  <2>. QED BY <1>7, <2>1
<1>8. ASSUME NEW e, Writes(e), expired' = expired
      PROVE  /\ Pending' \subseteq Pending \cup {e.task}
             /\ e.state \in EndedStates => e.task \notin Pending'
  BY <1>8 DEF Writes, Pending, Seen
<1>9. /\ \A x \in Range(queue) \cup running : x.task \in Live
      /\ \A t : t \in Live' <=> \E x \in Range(queue') \cup running' : x.task = t
      /\ \A t : t \in Live <=> \E x \in Range(queue) \cup running : x.task = t
  BY LiveIs
<1> HIDE DEF H, H1
<1>10. H = Live \cup Pending /\ H1 = Live' \cup Pending'
  BY DEF H, H1
<1> HIDE DEF AtEveryCut
<1>11. ASSUME NEW t \in Task, Enqueue(t) PROVE Keys'
  <2>1. PICK x \in Item, e \in Record :
           /\ x.task = t /\ e.task = t
           /\ Range(queue') = Range(queue) \cup {x} /\ Writes(e)
    BY <1>1, <1>11, EnqueueMoves
  <2>2. /\ KeyOf[t] \notin keys /\ keys' = keys \cup ({KeyOf[t]} \ {NoKey})
        /\ up /\ UNCHANGED <<running, expired>>
    BY <1>11 DEF Enqueue, Idle
  <2>3. Live' \subseteq Live \cup {t}
    BY <1>9, <2>1, <2>2
  <2>4. Pending' \subseteq Pending \cup {t}
    BY <1>8, <2>1, <2>2
  <2>5. HeldIn(Live, keys) => HeldIn(Live', keys')
    BY <2>2, <2>3, HeldByOneMore
  <2>6. HeldIn(H, keys) => HeldIn(H1, keys')
    <3>1. H1 \subseteq H \cup {t}
      BY <1>10, <2>3, <2>4
    <3>. QED BY <2>2, <3>1, HeldByOneMore
  <2>. QED BY <1>5, <1>6, <2>1, <2>2, <2>5, <2>6
<1>12. ASSUME NEW t \in Task, Cancel(t) PROVE Keys'
  <2>1. t \in ended'["CANCELLED"]
    BY <1>1, <1>12, CancelMoves
  <2>. QED BY <1>5, <2>1 DEF Undisturbed
<1>13. CASE Evict
  <2> DEFINE late == {x \in Range(queue) : x.task \in expired}
  <2>1. /\ Range(queue') = Range(queue) \ late
        /\ keys' = keys \ {KeyOf[t] : t \in TasksOf(late)}
        /\ up /\ UNCHANGED <<running, expired>>
    BY <1>1, <1>13, EvictParts DEF Evict, Idle, clock
  <2>2. PICK more \in Seq(Record) :
           /\ Range(more) = {Event(x, "EXPIRED") : x \in late}
           /\ Events' = Events \o more
           /\ Logged' = Logged \cup Range(more)
    BY <1>1, <1>13, EvictMoves
  <2>3. \A e \in Range(more) : e.task \in expired
    BY <2>2 DEF Event
  <2>4. \A t : t \in TasksOf(late) => t \in Live /\ t \in expired
    BY <1>9 DEF TasksOf
  <2>5. \A t \in Live' : t \in Live /\ t \notin TasksOf(late)
    <3>1. \A x \in Range(queue') \cup running' : x.task \in Live /\ \A y \in late : y.task # x.task
      BY <1>9, <2>1 DEF Places
    <3>. QED BY <1>9, <3>1 DEF TasksOf
  <2>6. \A t \in Pending' : t \in Pending /\ t \notin expired
    BY <2>1, <2>2, <2>3 DEF Pending, Seen
  <2> DEFINE gone == TasksOf(late)
  <2>7. gone \subseteq Live /\ Live' \subseteq Live \ gone /\ keys' = keys \ {KeyOf[t] : t \in gone}
    BY <2>1, <2>4, <2>5
  <2>8. gone \subseteq H /\ H1 \subseteq H \ gone
    BY <1>10, <2>4, <2>5, <2>6
  <2> HIDE DEF gone
  <2>9. HeldIn(Live, keys) => HeldIn(Live', keys')
    BY <2>7, HeldByOthers
  <2>10. HeldIn(H, keys) => HeldIn(H1, keys')
    BY <2>7, <2>8, HeldByOthers
  <2>11. AtEveryCut => AtEveryCut'
    <3> DEFINE m == Len(Events)
    <3>1. /\ Len(Events') = m + Len(more) /\ Len(more) \in Nat
          /\ \A i \in 1 .. m + Len(more) :
                Events'[i] = IF i <= m THEN Events[i] ELSE more[i - m]
      BY <1>1, <2>2, ConcatProperties
    <3>2. \A i \in 1 .. m : Events'[i] = Events[i]
      BY <1>1, <3>1
    <3>3. ASSUME NEW n \in 0 .. Len(Events') PROVE \E k \in 0 .. m : PendingAt(n)' \subseteq PendingAt(k)
      <4>1. CASE n <= m
        <5>1. n \in 0 .. m
          BY <1>1, <3>1, <4>1
        <5>2. PendingAt(n)' \subseteq PendingAt(n)
          BY <1>1, <2>1, <3>2, <5>1, PendingAtKept
        <5>. QED BY <5>1, <5>2
      <4>2. CASE ~(n <= m)
        <5>1. ASSUME NEW i \in 1 .. n, Events'[i].task \notin expired
              PROVE  i \in 1 .. m
          <6>1. ASSUME ~(i <= m) PROVE FALSE
            <7>1. i - m \in 1 .. Len(more) /\ Events'[i] = more[i - m]
              BY <1>1, <3>1, <6>1
            <7>2. more[i - m] \in Range(more)
              BY <7>1, RangeOf
            <7>. QED BY <2>3, <5>1, <7>1, <7>2
          <6>. QED BY <1>1, <3>1, <6>1
        <5>2. \A i \in 1 .. m : i \in 1 .. n
          BY <1>1, <3>1, <4>2
        <5>3. PendingAt(n)' \subseteq PendingAt(m)
          BY <2>1, <3>2, <5>1, <5>2 DEF PendingAt
        <5>. QED BY <1>1, <5>3
      <4>. QED BY <4>1, <4>2
    <3>. QED BY <3>3 DEF AtEveryCut, OneHolder
  <2>. QED BY <1>5, <2>1, <2>9, <2>10, <2>11
<1>14. CASE Dispatch
  <2>1. PICK x \in Range(queue), y \in Item, e \in Record :
           /\ y.task = x.task /\ e.task = x.task
           /\ Range(queue') = Range(queue) \ {x}
           /\ Writes(e)
           /\ \/ running' = running \cup {y} /\ ended' = ended
              \/ running' = running /\ ended' = [ended EXCEPT !["DLQ"] = @ \cup {x.task}]
    BY <1>1, <1>14, DispatchMoves
  <2>2. keys' = keys /\ expired' = expired /\ up' = up /\ up
    BY <1>14 DEF Dispatch, process, clock, WellTyped
  <2>3. Live' \subseteq Live
    BY <1>9, <2>1
  <2>4. HeldIn(Live, keys) => HeldIn(Live', keys')
    BY <2>2, <2>3, HeldByFewer
  <2>5. H1 \subseteq H
    <3>1. x.task \in Live
      BY <1>9
    <3>2. Pending' \subseteq Pending \cup {x.task}
      BY <1>8, <2>1, <2>2
    <3>. QED BY <1>10, <2>3, <3>1, <3>2
  <2>6. HeldIn(H, keys) => HeldIn(H1, keys')
    BY <2>2, <2>5, HeldByFewer
  <2>. QED BY <1>5, <1>6, <2>1, <2>2, <2>4, <2>6
<1>15. ASSUME NEW x \in running, HandlerReturns(x) PROVE Keys'
  <2>1. PICK e \in Record : e.task = x.task /\ e.state = "DONE" /\ Writes(e)
    BY <1>1, <1>15, ReturnMoves
  <2>2. /\ running' = running \ {x} /\ up
        /\ UNCHANGED <<queue, expired>>
        /\ keys' = keys \ {KeyOf[t] : t \in {x.task}}
    BY <1>15 DEF HandlerReturns, Idle, FreeKeys, clock
  <2>3. \A y \in Range(queue') \cup running' : y.task # x.task /\ y \in Range(queue) \cup running
    BY <2>2 DEF Places
  <2>4. Live' \subseteq Live \ {x.task} /\ {x.task} \subseteq Live
    BY <1>9, <2>3
  <2>5. Pending' \subseteq Pending \ {x.task}
    BY <1>8, <2>1, <2>2 DEF EndedStates
  <2>6. HeldIn(Live, keys) => HeldIn(Live', keys')
    BY <2>2, <2>4, HeldByOthers
  <2>7. {x.task} \subseteq H /\ H1 \subseteq H \ {x.task}
    BY <1>10, <2>4, <2>5
  <2>8. HeldIn(H, keys) => HeldIn(H1, keys')
    BY <2>2, <2>7, HeldByOthers
  <2>. QED BY <1>5, <1>6, <2>1, <2>2, <2>6, <2>8
<1>16. ASSUME NEW x \in running, HandlerThrows(x) PROVE Keys'
  <2>1. running' = running \ {x} /\ UNCHANGED <<up, expired>> /\ up
    BY <1>16 DEF HandlerThrows, process, WellTyped
  <2>2. CASE UNCHANGED <<queue, buffer, log, keys>>
    <3>1. Live' \subseteq Live
      BY <1>9, <2>1, <2>2
    <3>2. Pending' = Pending /\ Events' = Events
      BY <2>1, <2>2 DEF Pending, Logged, Events
    <3>3. H1 \subseteq H
      BY <1>10, <3>1, <3>2
    <3>. QED BY <1>5, <1>7, <2>1, <2>2, <3>1, <3>2, <3>3, HeldByFewer
  <2>3. ASSUME NEW y \in Item, NEW e \in Record, y.task = x.task, e.task = x.task,
               Range(queue') = Range(queue) \cup {y}, Writes(e), keys' = keys
        PROVE  Keys'
    <3>1. Live' \subseteq Live
      BY <1>9, <2>1, <2>3
    <3>2. H1 \subseteq H
      <4>1. x.task \in Live
        BY <1>9
      <4>2. Pending' \subseteq Pending \cup {x.task}
        BY <1>8, <2>1, <2>3
      <4>. QED BY <1>10, <3>1, <4>1, <4>2
    <3>3. HeldIn(H, keys) => HeldIn(H1, keys')
      BY <2>3, <3>2, HeldByFewer
    <3>4. HeldIn(Live, keys) => HeldIn(Live', keys')
      BY <2>3, <3>1, HeldByFewer
    <3>. QED BY <1>5, <1>6, <2>1, <2>3, <3>3, <3>4
  <2>4. CASE /\ UNCHANGED <<queue, buffer, log>>
             /\ ended' = [ended EXCEPT !["DLQ"] = @ \cup {x.task}]
             /\ keys' = keys \ {KeyOf[x.task]}
    <3>1. \A y \in Range(queue') \cup running' : y.task # x.task /\ y \in Range(queue) \cup running
      BY <2>1, <2>4 DEF Places
    <3>2. Live' \subseteq Live \ {x.task} /\ {x.task} \subseteq Live
      BY <1>9, <3>1
    <3>3. keys' = keys \ {KeyOf[t] : t \in {x.task}}
      BY <2>4
    <3>4. HeldIn(Live, keys) => HeldIn(Live', keys')
      BY <3>2, <3>3, HeldByOthers
    <3>5. ~Undisturbed'
      BY <1>1, <2>4 DEF Undisturbed
    <3>. QED BY <1>5, <3>4, <3>5
  <2>. QED BY <1>1, <1>16, <2>2, <2>3, <2>4, ThrowMoves
<1>17. CASE UNCHANGED <<up, queue, running, expired>> /\ Logged' = Logged /\ Events' = Events
            /\ keys \subseteq keys'
  <2>1. Live' = Live /\ Pending' = Pending
    BY <1>17 DEF Live, Queued, Running, Pending
  <2>. QED BY <1>5, <1>7, <1>10, <1>17, <2>1, HeldByFewer
<1>18. CASE Flush \/ Stop
  <2>1. UNCHANGED <<up, queue, running, expired, keys>>
    BY <1>18 DEF Flush, Stop, process, clock
  <2>2. HeldIn(Live, keys) => HeldIn(Live', keys')
    BY <2>1 DEF Live, Queued, Running
\* Nothing was lost, or something is missing and the events need not tell.
  <2>3. CASE forgotten' # {}
    BY <1>5, <2>2, <2>3 DEF Undisturbed
  <2>4. ASSUME NEW n \in 0 .. Len(buffer), NEW end \in Endings(n), Write(n, end), Spoilt(n, end) = {}
        PROVE  log' = log \o SubSeq(buffer, 1, n)
    BY <1>1, <2>4, WriteWhole
  <2>5. ASSUME NEW n \in 0 .. Len(buffer), NEW end \in Endings(n), n = Len(buffer), Write(n, end),
               buffer' = <<>>, Spoilt(n, end) = {}
        PROVE  Keys'
    <3>1. log' = log \o buffer
      BY <1>1, <2>4, <2>5, SubSeqFull
    <3>2. Events' = Events
      <4>1. (log \o buffer) \o <<>> = log \o buffer
        BY <1>1, ConcatEmptySeq DEF Events
      <4>. QED BY <2>5, <3>1, <4>1 DEF Events
    <3>3. Logged' = Logged
      <4>1. Range(<<>>) = {}
        BY DEF Range
      <4>2. Range(log \o buffer) = Range(log) \cup Range(buffer)
        BY <1>1, RangeConcatenation
      <4>. QED BY <2>5, <3>1, <4>1, <4>2 DEF Logged
    <3>. QED BY <1>17, <2>1, <3>2, <3>3
\* Events that were written are written again: every prefix of the log tells as
\* much as a prefix told before.
  <2>6. ASSUME NEW n \in 0 .. Len(buffer), NEW end \in Endings(n), Write(n, end),
               buffer' = buffer, Spoilt(n, end) = {}
        PROVE  Keys'
    <3> DEFINE some == SubSeq(buffer, 1, n)
               h == Len(log)
               k == Len(buffer)
    <3>1. log' = log \o some
      BY <2>4, <2>6
    <3>2. h \in Nat /\ k \in Nat /\ n \in Nat /\ n <= k
      BY <1>1, RangeOf
    <3>3. /\ some \in Seq(Record) /\ Len(some) = n
          /\ \A i \in 1 .. n : some[i] = buffer[i]
          /\ Range(some) \subseteq Range(buffer)
      <4>1. /\ some \in Seq(Record) /\ Len(some) = n - 1 + 1
            /\ \A i \in 1 .. n - 1 + 1 : some[i] = buffer[1 + i - 1]
            /\ Range(some) = {buffer[i] : i \in 1 .. n}
        BY <1>1, <3>2, PieceOf
      <4>2. n - 1 + 1 = n /\ \A i \in 1 .. n : 1 + i - 1 = i
        BY <3>2
      <4>3. \A i \in 1 .. n : buffer[i] \in Range(buffer)
        BY <1>1, <3>2 DEF Range
      <4>. QED BY <4>1, <4>2, <4>3
    <3> HIDE DEF some, h, k
    <3>4. Logged' = Logged
      <4>1. Range(log') = Range(log) \cup Range(some)
        BY <1>1, <3>1, <3>3, RangeConcatenation
      <4>. QED BY <2>6, <3>3, <4>1 DEF Logged
    <3>5. Live' = Live /\ Pending' = Pending
      BY <2>1, <3>4 DEF Live, Queued, Running, Pending
    <3>6. /\ Len(Events) = h + k
          /\ \A i \in 1 .. h + k : Events[i] = IF i <= h THEN log[i] ELSE buffer[i - h]
      BY <1>1, ConcatProperties DEF Events, h, k
    <3>7. /\ log' \in Seq(Record) /\ Len(log') = h + n
          /\ \A i \in 1 .. h + n : log'[i] = IF i <= h THEN log[i] ELSE some[i - h]
      BY <1>1, <3>1, <3>3, ConcatProperties DEF h
    <3>8. /\ Len(Events') = h + n + k
          /\ \A i \in 1 .. h + n + k :
                Events'[i] = IF i <= h + n THEN log'[i] ELSE buffer[i - (h + n)]
      <4> DEFINE g == log'
      <4>1. g \in Seq(Record) /\ Len(g) = h + n /\ Events' = g \o buffer
        BY <2>6, <3>7 DEF Events
      <4> HIDE DEF g
      <4>2. /\ Len(g \o buffer) = h + n + k
            /\ \A i \in 1 .. h + n + k :
                  (g \o buffer)[i] = IF i <= h + n THEN g[i] ELSE buffer[i - (h + n)]
          <5>1. /\ Len(g \o buffer) = Len(g) + Len(buffer)
                /\ \A i \in 1 .. Len(g) + Len(buffer) :
                      (g \o buffer)[i] = IF i <= Len(g) THEN g[i] ELSE buffer[i - Len(g)]
            BY <1>1, <4>1, ConcatProperties
          <5>2. Len(g) = h + n /\ Len(buffer) = k
            BY <4>1 DEF k
          <5>. QED BY <5>1, <5>2
      <4>. QED BY <4>1, <4>2 DEF g
    <3>9. ASSUME NEW j \in 0 .. h + n + k
          PROVE  \E m \in 0 .. h + k : PendingAt(j)' \subseteq PendingAt(m)
      <4>1. CASE j <= h + n
        <5>1. ASSUME NEW i \in 1 .. j PROVE Events'[i] = Events[i]
          <6>1. i \in 1 .. h + n + k /\ i \in 1 .. h + k /\ i \in 1 .. h + n
            BY <3>2, <4>1
          <6>2. ~(i <= h) => i - h \in 1 .. n
            BY <3>2, <6>1
          <6>. QED BY <3>3, <3>6, <3>7, <3>8, <6>1, <6>2
        <5>2. j \in Nat /\ j \in 0 .. h + k
          BY <3>2, <4>1
        <5>3. PendingAt(j)' \subseteq PendingAt(j)
          BY <2>1, <5>1, <5>2 DEF PendingAt
        <5>. QED BY <5>2, <5>3
      <4>2. CASE ~(j <= h + n)
        <5> DEFINE m == IF j - (h + n) <= n THEN h + n ELSE j - n
        <5>1. m \in 0 .. h + k /\ m <= j /\ j - n <= m /\ h + n <= m
          BY <3>2, <4>2
        <5> HIDE DEF m
        <5>2. ASSUME NEW i \in 1 .. m PROVE \E q \in 1 .. j : Events'[q] = Events[i]
          <6>1. CASE i <= h + n
            <7>1. i \in 1 .. h + n + k /\ i \in 1 .. h + k /\ i \in 1 .. h + n /\ i \in 1 .. j
              BY <3>2, <4>2, <6>1
            <7>2. ~(i <= h) => i - h \in 1 .. n
              BY <3>2, <7>1
            <7>3. Events'[i] = Events[i]
              BY <3>3, <3>6, <3>7, <3>8, <7>1, <7>2
            <7>. QED BY <7>1, <7>3
          <6>2. CASE ~(i <= h + n)
            <7>1. i \in 1 .. h + k /\ ~(i <= h) /\ m = j - n
              BY <3>2, <5>1, <6>2 DEF m
            <7>2. /\ i + n \in 1 .. j /\ i + n \in 1 .. h + n + k
                  /\ ~(i + n <= h + n) /\ (i + n) - (h + n) = i - h
              BY <3>2, <7>1
            <7>3. Events'[i + n] = buffer[i - h] /\ Events[i] = buffer[i - h]
              BY <3>6, <3>8, <7>1, <7>2
            <7>. QED BY <7>2, <7>3
          <6>. QED BY <6>1, <6>2
        <5>3. ASSUME NEW q \in 1 .. j PROVE \E i \in 1 .. m : Events[i] = Events'[q]
          <6>1. CASE q <= h + n
            <7>1. q \in 1 .. h + n + k /\ q \in 1 .. h + k /\ q \in 1 .. h + n /\ q \in 1 .. m
              BY <3>2, <5>1, <6>1
            <7>2. ~(q <= h) => q - h \in 1 .. n
              BY <3>2, <7>1
            <7>3. Events'[q] = Events[q]
              BY <3>3, <3>6, <3>7, <3>8, <7>1, <7>2
            <7>. QED BY <7>1, <7>3
          <6>2. CASE ~(q <= h + n)
            <7>1. /\ q - n \in 1 .. m /\ q - n \in 1 .. h + k /\ ~(q - n <= h)
                  /\ q \in 1 .. h + n + k /\ (q - n) - h = q - (h + n)
              BY <3>2, <5>1, <6>2
            <7>2. Events'[q] = buffer[q - (h + n)] /\ Events[q - n] = buffer[(q - n) - h]
              BY <3>6, <3>8, <6>2, <7>1
            <7>. QED BY <7>1, <7>2
          <6>. QED BY <6>1, <6>2
        <5>4. PendingAt(j)' \subseteq PendingAt(m)
          <6>1. ASSUME NEW t \in PendingAt(j)' PROVE t \in PendingAt(m)
            <7>1. /\ t \in Task \ expired
                  /\ \E q \in 1 .. j : Events'[q].task = t
                  /\ \A q \in 1 .. j : Events'[q].task = t => Events'[q].state \notin EndedStates
              BY <2>1, <6>1 DEF PendingAt
            <7>2. \E i \in 1 .. m : Events[i].task = t
              BY <5>3, <7>1
            <7>3. \A i \in 1 .. m : Events[i].task = t => Events[i].state \notin EndedStates
              BY <5>2, <7>1
            <7>. QED BY <7>1, <7>2, <7>3 DEF PendingAt
          <6>. QED BY <6>1
        <5>. QED BY <5>1, <5>4
      <4>. QED BY <4>1, <4>2
    <3>10. AtEveryCut => AtEveryCut'
      <4>1. SUFFICES ASSUME AtEveryCut, NEW j \in 0 .. h + n + k PROVE OneHolder(PendingAt(j))'
        BY <3>8 DEF AtEveryCut
      <4>2. PICK m \in 0 .. h + k : PendingAt(j)' \subseteq PendingAt(m)
        BY <3>9
      <4>3. OneHolder(PendingAt(m))
        BY <3>6, <4>1 DEF AtEveryCut
      <4>. QED BY <4>2, <4>3 DEF OneHolder
    <3>11. HeldIn(H, keys) => HeldIn(H1, keys')
      BY <1>10, <2>1, <3>5
    <3>. QED BY <1>5, <2>1, <2>2, <3>10, <3>11
  <2>7. CASE forgotten' = {}
    <3>1. ASSUME NEW n \in 0 .. Len(buffer), NEW end \in Endings(n), n = Len(buffer), Write(n, end),
                 buffer' = <<>>, forgotten' = forgotten \cup Spoilt(n, end)
          PROVE  Keys'
      BY <2>5, <2>7, <3>1
    <3>2. ASSUME NEW n \in 0 .. Len(buffer), NEW end \in Endings(n), Write(n, end),
                 buffer' = Unwritten, forgotten' = forgotten \cup (Dropped \cup Spoilt(n, end))
          PROVE  Keys'
      <4>1. Dropped = {} /\ Spoilt(n, end) = {}
        BY <2>7, <3>2
      <4>2. PICK gone \in Seq(Record) :
               buffer = gone \o Unwritten /\ Dropped = TasksOf(Range(gone))
        BY <1>1, UnwrittenParts
      <4>3. gone = <<>>
        BY <4>1, <4>2, NobodyLost
      <4>4. Unwritten \in Seq(Record)
        BY <1>1, UnwrittenParts
      <4> HIDE DEF Unwritten
      <4>5. buffer' = buffer
        BY <3>2, <4>2, <4>3, <4>4, ConcatEmptySeq
      <4>. QED BY <2>6, <3>2, <4>1, <4>5
    <3>3. ASSUME buffer # <<>>, forgotten' = forgotten \cup TasksOf(Range(buffer))
          PROVE  FALSE
      <4>1. TasksOf(Range(buffer)) = {}
        BY <2>7, <3>3
      <4>. QED BY <1>1, <3>3, <4>1, NobodyLost
    <3>. QED BY <1>1, <1>18, <3>1, <3>2, <3>3, AppendParts
  <2>. QED BY <2>3, <2>7
<1>19. CASE Midnight
  <2>1. /\ log' = <<>> /\ forgotten' = forgotten \cup TasksOf(Range(log))
        /\ UNCHANGED <<up, queue, running, buffer, expired, keys>>
    BY <1>19 DEF Midnight, Forget, memory, process, clock
  <2>2. CASE log # <<>>
    <3>1. forgotten' # {}
      BY <1>1, <2>1, <2>2, NobodyLost
    <3>2. HeldIn(Live, keys) => HeldIn(Live', keys')
      BY <2>1 DEF Live, Queued, Running
    <3>. QED BY <1>5, <3>1, <3>2 DEF Undisturbed
  <2>3. CASE log = <<>>
    BY <1>17, <2>1, <2>3 DEF Events, Logged
  <2>. QED BY <2>2, <2>3
<1>20. CASE Crash
  <2>1. queue' = <<>> /\ running' = {} /\ buffer' = <<>> /\ ~up' /\ expired' = expired
    BY <1>20 DEF Crash, clock
  <2>2. Live' = {}
    <3>1. Range(<<>>) = {}
      BY DEF Range
    <3>. QED BY <2>1, <3>1 DEF Live, Queued, Running, TasksOf
  <2>3. HeldIn(Live', keys')
    BY <2>2 DEF HeldIn, OneHolder
  <2>4. CASE forgotten' # {}
    <3>1. HeldIn(Live, keys) => HeldIn(Live', keys')
      BY <2>3
    <3>. QED BY <1>5, <2>4, <3>1 DEF Undisturbed
  <2>5. SUFFICES ASSUME forgotten' = {} PROVE Keys'
    BY <2>4
  <2>6. PICK n \in 0 .. Len(buffer) : /\ log' = log \o SubSeq(buffer, 1, n)
                                      /\ SubSeq(buffer, 1, n) \in Seq(Record)
                                      /\ log' \in Seq(Record)
    <3>1. PICK n \in 0 .. Len(buffer) : \E end \in Endings(n) :
             Write(n, end) /\ forgotten' = forgotten \cup Spoilt(n, end)
      BY <1>1, <1>20, CrashParts
    <3>2. PICK end \in Endings(n) : Write(n, end) /\ forgotten' = forgotten \cup Spoilt(n, end)
      BY <3>1
    <3>3. log' = log \o SubSeq(buffer, 1, n)
      BY <1>1, <2>5, <3>2, WriteWhole
    <3>4. SubSeq(buffer, 1, n) \in Seq(Record)
      BY <1>1, RangeOf, PieceOf
    <3>. QED BY <1>1, <3>2, <3>3, <3>4, WriteKeeps
  <2>7. Events' = log \o SubSeq(buffer, 1, n)
    <3>1. log' \o <<>> = log'
      BY <2>6, ConcatEmptySeq
    <3>. QED BY <2>1, <2>6, <3>1 DEF Events
  <2> DEFINE some == SubSeq(buffer, 1, n)
             k == Len(log) + n
  <2>8. /\ Len(log) \in Nat /\ Len(buffer) \in Nat /\ n \in Nat /\ n <= Len(buffer)
        /\ DOMAIN buffer = 1 .. Len(buffer)
    BY <1>1, RangeOf
  <2>9. Len(some) = n /\ \A i \in 1 .. n : some[i] = buffer[i]
    <3>1. \A i \in 1 .. n : buffer[i] \in Record
      BY <1>1, <2>8
    <3>2. 1 \in Int /\ n \in Int /\ n - 1 + 1 = n /\ \A i \in 1 .. n : 1 + i - 1 = i
      BY <2>8
    <3>. QED BY <2>8, <3>1, <3>2, SubSeqProperties
  <2>10. some \in Seq(Record)
    BY <2>6
  <2>11. Events' = log \o some
    BY <2>7
  <2> HIDE DEF some
  <2>12. /\ Len(Events') = k
         /\ \A i \in 1 .. k : Events'[i] = IF i <= Len(log) THEN log[i] ELSE some[i - Len(log)]
    BY <1>1, <2>9, <2>10, <2>11, ConcatProperties
  <2>13. /\ Len(Events) = Len(log) + Len(buffer)
         /\ \A i \in 1 .. Len(log) + Len(buffer) :
               Events[i] = IF i <= Len(log) THEN log[i] ELSE buffer[i - Len(log)]
    BY <1>1, ConcatProperties DEF Events
  <2>14. k \in Nat /\ k <= Len(Events)
    BY <2>8, <2>13
  <2>15. ASSUME NEW i \in 1 .. k PROVE Events'[i] = Events[i]
    <3>1. i \in 1 .. Len(log) + Len(buffer)
      BY <2>8
    <3>2. ~(i <= Len(log)) => i - Len(log) \in 1 .. n
      BY <2>8
    <3>. QED BY <2>9, <2>12, <2>13, <3>1, <3>2
  <2> HIDE DEF k
  <2>16. AtEveryCut => AtEveryCut'
    <3>1. SUFFICES ASSUME AtEveryCut, NEW j \in 0 .. k PROVE OneHolder(PendingAt(j))'
      BY <2>12 DEF AtEveryCut
    <3>2. PendingAt(j)' \subseteq PendingAt(j)
      BY <2>1, <2>14, <2>15, PendingAtKept
    <3>3. j \in 0 .. Len(Events)
      BY <1>1, <2>14
    <3>4. OneHolder(PendingAt(j))
      BY <3>1, <3>3 DEF AtEveryCut
    <3>. QED BY <3>2, <3>4 DEF OneHolder
  <2>. QED BY <1>5, <2>1, <2>3, <2>16
<1>21. CASE Restart
  <2>1. TasksOf(Range(queue')) = Recoverable(log)
    BY <1>1, <1>21, RestartParts
  <2>2. /\ UNCHANGED <<running, buffer, log, expired>> /\ running = {} /\ buffer = <<>>
        /\ keys' = {KeyOf[t] : t \in Recoverable(log)} \ {NoKey}
    BY <1>21 DEF Restart, WellTyped, store
  <2>3. Events' = Events /\ Events = log
    <3>1. log \o <<>> = log
      BY <1>1, ConcatEmptySeq
    <3>. QED BY <2>2, <3>1 DEF Events
  <2>4. Pending' = Pending /\ Recoverable(log) = Pending
    BY <1>1, <2>2, <2>3, PendingIsRecoverable DEF Pending, Logged
  <2>5. Live' = Pending
    BY <2>1, <2>2, <2>4 DEF Live, Queued, Running, TasksOf
  <2>6. H1 = Pending
    BY <1>10, <2>4, <2>5
  <2>7. AtEveryCut => HeldIn(H1, keys')
    <3>1. PendingAt(Len(Events)) = Pending
      BY <1>1, PendingAtEnd
    <3>2. AtEveryCut => OneHolder(Pending)
      BY <1>1, <3>1 DEF AtEveryCut
    <3>3. \A t \in Pending : KeyOf[t] # NoKey => KeyOf[t] \in keys'
      BY <2>2, <2>4
    <3>. QED BY <2>6, <3>2, <3>3 DEF HeldIn
  <2>. QED BY <1>5, <1>7, <1>21, <2>2, <2>3, <2>7
<1>22. CASE /\ UNCHANGED <<up, loaded, queue, running, buffer, log, forgotten, accepted, ended, used>>
            /\ keys \subseteq keys' /\ expired \subseteq expired'
  <2>1. Events' = Events /\ Live' = Live
    BY <1>22 DEF Events, Live, Queued, Running
  <2>2. Pending' \subseteq Pending
    BY <1>22 DEF Pending, Logged
  <2>3. H1 \subseteq H
    BY <1>10, <2>1, <2>2
  <2>. QED BY <1>5, <1>7, <1>22, <2>1, <2>3, HeldByFewer
<1>. QED BY <1>11, <1>12, <1>13, <1>14, <1>15, <1>16, <1>18, <1>19, <1>20, <1>21, <1>22, Steps

\* Two tasks with one key are never both under way.
THEOREM KeysExclude == Spec => []OneTaskPerKey
<1>1. Init => Keys
  <2> SUFFICES ASSUME Init PROVE Keys
    OBVIOUS
  <2>1. Range(<<>>) = {} /\ queue = <<>> /\ running = {} /\ log = <<>> /\ buffer = <<>>
    BY DEF Init, Range
  <2>2. Live = {} /\ Logged = {}
    BY <2>1 DEF Live, Queued, Running, TasksOf, Logged
  <2>3. Pending = {}
    BY <2>2 DEF Pending, Seen
  <2>4. Events = <<>> /\ Len(Events) = 0
    BY <2>1 DEF Events
  <2>5. PendingAt(0) = {}
    BY DEF PendingAt
  <2>. QED BY <2>2, <2>3, <2>4, <2>5 DEF Keys, HeldIn, OneHolder
<1>2. Spec => []Keys
  BY <1>1, KeysStep, TypesCorrect, PlacesCorrect, PTL DEF Spec
<1>3. WellTyped /\ Keys => OneTaskPerKey
  <2> SUFFICES ASSUME WellTyped, Keys,
                      ended["CANCELLED"] = {},
                      used["restart"] = 0 \/ ended["DLQ"] \cup forgotten = {},
                      NEW x \in Range(queue) \cup running,
                      NEW y \in Range(queue) \cup running,
                      KeyOf[x.task] # NoKey
               PROVE  /\ KeyOf[x.task] \in keys
                      /\ KeyOf[x.task] = KeyOf[y.task] => x.task = y.task
    BY DEF OneTaskPerKey
  <2>1. x.task \in Live /\ y.task \in Live
    BY LiveIs
  <2>2. up
    <3>1. Range(<<>>) = {}
      BY DEF Range
    <3>. QED BY <3>1 DEF WellTyped
  <2>3. HeldIn(Live, keys) \/ HeldIn(Live \cup Pending, keys)
    BY <2>2 DEF Keys, Undisturbed
  <2>. QED BY <2>1, <2>3 DEF HeldIn, OneHolder
<1>. QED BY <1>2, <1>3, TypesCorrect, PTL
=============================================================================
