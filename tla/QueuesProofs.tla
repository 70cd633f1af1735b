---------------------------- MODULE QueuesProofs ----------------------------
(* The two queues of the kernels: the ring buffer is a bounded queue, for any *)
(* capacity and any items, and the mailbox has each message in one place and  *)
(* settles each promise once, for any messages, loops and bounds.             *)
EXTENDS RingBufferProps, MailboxProps, SiftingProofs

-----------------------------------------------------------------------------
(* The inductive invariant of the ring buffer.                             *)

\* What a push half done knows, as long as no race has spoiled it.
PushKnows ==
    /\ push # "idle" => pushItem \in Item
    /\ push = "advance" => pushHead <= head /\ (head = pushHead => tail - head = Capacity)
    /\ push \in {"write", "publish"} => tail - head < Capacity
    /\ push = "publish" => slots[Index(tail)] = pushItem

\* And a pop.
PopKnows ==
    /\ pop # "idle" => popHead = head
    /\ pop \in {"take", "release"} => head < tail
    /\ pop = "release" => popItem \in Item

RingInv ==
    /\ RingTypeOK
    /\ raced => overwrite
    /\ push = "advance" => overwrite
    /\ ~raced => /\ PushKnows /\ PopKnows
                 /\ \A n \in 1 .. tail - head : Nth(n) \in Item

-----------------------------------------------------------------------------
(* Slots.                                                                  *)

\* An index is that of a slot.
LEMMA IndexType ==
    ASSUME NEW a \in Nat
    PROVE  Index(a) \in 0 .. Capacity - 1
BY RingAssumption DEF RingAssumption, Index

\* Division with remainder.
LEMMA DivMod ==
    ASSUME NEW a \in Nat, NEW c \in Nat, c > 0
    PROVE  \E k \in Int : a = c * k + (a % c)
<1>1. a = c * (a \div c) + (a % c)
  OBVIOUS
<1>2. a \div c \in Int
  OBVIOUS
<1> QED
  BY <1>1, <1>2

\* Cursors less than Capacity apart have different slots.
LEMMA IndexInjective ==
    ASSUME NEW a \in Nat, NEW b \in Nat, a < b, b - a < Capacity
    PROVE  Index(a) # Index(b)
<1>1. Capacity \in Nat /\ Capacity > 0
  BY RingAssumption DEF RingAssumption
<1>2. PICK p \in Int : a = Capacity * p + (a % Capacity)
  BY <1>1, DivMod
<1>3. PICK q \in Int : b = Capacity * q + (b % Capacity)
  BY <1>1, DivMod
<1>4. SUFFICES ASSUME a % Capacity = b % Capacity
               PROVE  FALSE
  BY DEF Index
<1>5. a % Capacity \in Int
  BY <1>1
<1>6. PICK d \in Int : b - a = Capacity * d
  <2>1. b - a = Capacity * (q - p)
    BY <1>1, <1>2, <1>3, <1>4, <1>5
  <2> QED
    BY <2>1
<1>7. CASE d <= 0
  BY <1>1, <1>6, <1>7
<1>8. CASE d >= 1
  BY <1>1, <1>6, <1>8
<1> QED
  BY <1>7, <1>8

-----------------------------------------------------------------------------
(* What the steps that move cursors or use slots do to the items in the       *)
(* buffer.                                                                    *)

\* Overwriting drops the oldest item of a full buffer.
LEMMA AdvanceDropsFirst ==
    ASSUME RingInv, PushAdvance, ~raced'
    PROVE  /\ tail - head = Capacity /\ head' = head + 1
           /\ \A n \in 1 .. tail' - head' : Nth(n)' = Nth(n + 1)
<1>1. ~raced /\ pop = "idle" /\ head = pushHead
  BY DEF PushAdvance, RingInv, RingTypeOK
<1>2. tail - head = Capacity /\ head' = head + 1
  BY <1>1 DEF PushAdvance, RingInv, PushKnows
<1>3. pop' = "idle" /\ slots' = slots /\ tail' = tail /\ head \in Nat
  BY <1>1 DEF PushAdvance, consumer, RingInv, RingTypeOK
<1>4. ASSUME NEW n \in 1 .. tail' - head'
      PROVE  Nth(n)' = Nth(n + 1)
  <2>1. head' + n - 1 = head + (n + 1) - 1
    BY <1>2, <1>3
  <2> QED
    BY <1>1, <1>3, <2>1 DEF Nth
<1> QED
  BY <1>2, <1>4

\* Writing a slot that is not yet visible changes no item.
LEMMA WriteKeepsItems ==
    ASSUME RingInv, PushWrite, ~raced
    PROVE  \A n \in 1 .. tail - head : Nth(n)' = Nth(n)
<1>1. /\ slots' = [slots EXCEPT ![Index(tail)] = pushItem]
      /\ UNCHANGED <<head, tail, pop, popItem>>
      /\ tail - head < Capacity /\ head \in Nat /\ tail \in Nat
      /\ slots \in [0 .. Capacity - 1 -> Item \cup {None}] /\ Capacity \in Nat
  BY RingAssumption DEF PushWrite, consumer, RingInv, PushKnows, RingTypeOK, RingAssumption
<1>2. ASSUME NEW n \in 1 .. tail - head
      PROVE  Nth(n)' = Nth(n)
  <2>1. head + n - 1 \in Nat /\ head + n - 1 < tail /\ tail - (head + n - 1) < Capacity
    BY <1>1
  <2>2. Index(head + n - 1) # Index(tail) /\ Index(head + n - 1) \in 0 .. Capacity - 1
    BY <1>1, <2>1, IndexInjective, IndexType
  <2>3. slots'[Index(head + n - 1)] = slots[Index(head + n - 1)]
    BY <1>1, <2>2
  <2> QED
    BY <1>1, <2>3 DEF Nth
<1> QED
  BY <1>2

\* Taking the first item keeps it in the thread and the others in place.
LEMMA TakeKeepsItems ==
    ASSUME RingInv, PopTake, ~raced
    PROVE  /\ \A n \in 1 .. tail - head : Nth(n)' = Nth(n)
           /\ popItem' = Nth(1)
           /\ push = "publish" => slots'[Index(tail)] = slots[Index(tail)]
<1>1. /\ slots' = [slots EXCEPT ![Index(head)] = None] /\ popItem' = slots[Index(head)]
      /\ UNCHANGED <<head, tail>> /\ pop = "take" /\ pop' = "release"
      /\ head < tail /\ tail <= head + Capacity /\ head \in Nat /\ tail \in Nat
      /\ push = "publish" => tail - head < Capacity
      /\ slots \in [0 .. Capacity - 1 -> Item \cup {None}]
      /\ Capacity \in Nat
  BY RingAssumption DEF PopTake, RingInv, PushKnows, PopKnows, RingTypeOK, RingAssumption
<1>2. head + 1 - 1 = head
  BY <1>1
<1>3. popItem' = Nth(1)
  BY <1>1, <1>2 DEF Nth
<1>4. ASSUME NEW n \in 1 .. tail - head
      PROVE  Nth(n)' = Nth(n)
  <2>1. CASE n = 1
    BY <1>1, <1>2, <2>1 DEF Nth
  <2>2. CASE n # 1
    <3>1. head + n - 1 \in Nat /\ head < head + n - 1 /\ (head + n - 1) - head < Capacity
      BY <1>1, <2>2
    <3>2. Index(head) # Index(head + n - 1) /\ Index(head + n - 1) \in 0 .. Capacity - 1
      BY <1>1, <3>1, IndexInjective, IndexType
    <3> QED
      BY <1>1, <2>2, <3>2 DEF Nth
  <2> QED
    BY <2>1, <2>2
<1>5. ASSUME push = "publish"
      PROVE  slots'[Index(tail)] = slots[Index(tail)]
  <2>1. Index(head) # Index(tail) /\ Index(tail) \in 0 .. Capacity - 1
    BY <1>1, <1>5, IndexInjective, IndexType
  <2> QED
    BY <1>1, <2>1
<1> QED
  BY <1>3, <1>4, <1>5

\* Moving the read cursor removes the oldest item.
LEMMA ReleaseDropsFirst ==
    ASSUME RingInv, PopRelease, ~raced
    PROVE  /\ head < tail /\ head' = head + 1 /\ popped' = Nth(1)
           /\ \A n \in 1 .. tail' - head' : Nth(n)' = Nth(n + 1)
<1>1. /\ head < tail /\ head' = head + 1 /\ head \in Nat /\ tail \in Nat
      /\ UNCHANGED <<tail, slots>> /\ pop = "release" /\ pop' = "idle" /\ popped' = popItem
  BY DEF PopRelease, RingInv, PopKnows, RingTypeOK
<1>2. ASSUME NEW n \in 1 .. tail' - head'
      PROVE  Nth(n)' = Nth(n + 1)
  <2>1. head' + n - 1 = head + (n + 1) - 1 /\ n + 1 # 1
    BY <1>1
  <2> QED
    BY <1>1, <2>1 DEF Nth
<1> QED
  BY <1>1, <1>2 DEF Nth

\* Moving the write cursor adds the new item at the end.
LEMMA PublishAddsLast ==
    ASSUME RingInv, PushPublish, ~raced
    PROVE  /\ tail - head < Capacity /\ tail' = tail + 1 /\ pushItem \in Item
           /\ \A n \in 1 .. tail - head : Nth(n)' = Nth(n)
           /\ \A n \in Nat : n = tail - head + 1 => Nth(n)' = pushItem
<1>1. /\ tail - head < Capacity /\ tail' = tail + 1 /\ pushItem \in Item
      /\ UNCHANGED <<head, slots, pop, popItem>> /\ head \in Nat /\ tail \in Nat
      /\ head <= tail /\ slots[Index(tail)] = pushItem /\ (pop = "release" => head < tail)
  BY DEF PushPublish, consumer, RingInv, PushKnows, PopKnows, RingTypeOK
<1>2. head + (tail - head + 1) - 1 = tail /\ (tail - head + 1 = 1 => pop # "release")
  BY <1>1
<1>3. ASSUME NEW n \in Nat, n = tail - head + 1
      PROVE  Nth(n)' = pushItem
  BY <1>1, <1>2, <1>3 DEF Nth
<1> QED
  BY <1>1, <1>3 DEF Nth

-----------------------------------------------------------------------------
(* The invariant is kept.                                                  *)

\* Every step keeps the invariant.
LEMMA InvStep ==
    ASSUME RingInv, [RingNext]_ringVars
    PROVE  RingInv'
<1>a. /\ RingTypeOK /\ (raced => overwrite) /\ (push = "advance" => overwrite)
      /\ ~raced => /\ PushKnows /\ PopKnows
                   /\ \A n \in 1 .. tail - head : Nth(n) \in Item
  BY DEF RingInv
<1>b. Capacity \in Nat /\ Capacity >= 2 /\ None \notin Item
  BY RingAssumption DEF RingAssumption
<1>1. ASSUME NEW x \in Item, PushLoad(x)
      PROVE  RingInv'
  <2>1. RingTypeOK' /\ (raced' => overwrite') /\ (push' = "advance" => overwrite')
    BY <1>1, <1>a DEF PushLoad, RingTypeOK, consumer
  <2>2. ASSUME ~raced'
        PROVE  PushKnows' /\ PopKnows' /\ \A n \in 1 .. tail' - head' : Nth(n)' \in Item
    <3>1. PushKnows'
      BY <1>1, <1>a, <1>b, <2>2 DEF PushLoad, PushKnows, RingTypeOK, Full, consumer
    <3>2. PopKnows'
      BY <1>1, <1>a, <2>2 DEF PushLoad, PopKnows, consumer
    <3>3. \A n \in 1 .. tail' - head' : Nth(n)' \in Item
      BY <1>1, <1>a, <2>2 DEF PushLoad, Nth, consumer
    <3> QED
      BY <3>1, <3>2, <3>3
  <2> QED
    BY <2>1, <2>2 DEF RingInv
<1>2. CASE PushAdvance
  <2>1. (raced' => overwrite') /\ (push' = "advance" => overwrite')
    BY <1>2, <1>a DEF PushAdvance
  <2>2. ASSUME ~raced'
        PROVE  /\ PushKnows' /\ PopKnows' /\ head' <= tail' /\ tail' <= head' + Capacity
               /\ \A n \in 1 .. tail' - head' : Nth(n)' \in Item
    <3>1. /\ ~raced /\ pop' = "idle" /\ push' = "write" /\ tail' = tail /\ pushItem' = pushItem
          /\ pushItem \in Item /\ head \in Nat /\ tail \in Nat
      BY <1>2, <1>a, <2>2 DEF PushAdvance, consumer, PushKnows, RingTypeOK
    <3>2. /\ tail - head = Capacity /\ head' = head + 1
          /\ \A n \in 1 .. tail' - head' : Nth(n)' = Nth(n + 1)
      BY <1>2, <2>2, AdvanceDropsFirst
    <3>3. \A n \in 1 .. tail' - head' : n + 1 \in 1 .. tail - head
      BY <3>1, <3>2
    <3>4. \A n \in 1 .. tail' - head' : Nth(n)' \in Item
      BY <1>a, <3>1, <3>2, <3>3
    <3> QED
      BY <1>b, <3>1, <3>2, <3>4 DEF PushKnows, PopKnows
  <2>3. RingTypeOK'
    BY <1>2, <1>a, <2>2 DEF PushAdvance, RingTypeOK, consumer
  <2> QED
    BY <2>1, <2>2, <2>3 DEF RingInv
<1>3. CASE PushWrite
  <2>1. (raced' => overwrite') /\ (push' = "advance" => overwrite')
    BY <1>3, <1>a DEF PushWrite
  <2>2. RingTypeOK'
    BY <1>3, <1>a, IndexType DEF PushWrite, RingTypeOK, consumer
  <2>3. ASSUME ~raced'
        PROVE  PushKnows' /\ PopKnows' /\ \A n \in 1 .. tail' - head' : Nth(n)' \in Item
    <3>1. ~raced /\ UNCHANGED <<head, tail, pushItem, pop, popHead, popItem>>
      BY <1>3, <2>3 DEF PushWrite, consumer
    <3>2. PushKnows'
      BY <1>3, <1>a, <3>1, IndexType DEF PushWrite, PushKnows, RingTypeOK
    <3>3. PopKnows'
      BY <1>a, <3>1 DEF PopKnows
    <3>4. \A n \in 1 .. tail' - head' : Nth(n)' \in Item
      BY <1>3, <1>a, <3>1, WriteKeepsItems
    <3> QED
      BY <3>2, <3>3, <3>4
  <2> QED
    BY <2>1, <2>2, <2>3 DEF RingInv
<1>4. CASE PushPublish
  <2>1. (raced' => overwrite') /\ (push' = "advance" => overwrite')
    BY <1>4, <1>a DEF PushPublish
  <2>2. RingTypeOK'
    BY <1>4, <1>a, <1>b DEF PushPublish, RingTypeOK, PushKnows, consumer
  <2>3. ASSUME ~raced'
        PROVE  PushKnows' /\ PopKnows' /\ \A n \in 1 .. tail' - head' : Nth(n)' \in Item
    <3>1. ~raced /\ push' = "idle" /\ UNCHANGED <<head, pop, popHead, popItem>>
          /\ head \in Nat /\ tail \in Nat
      BY <1>4, <1>a, <2>3 DEF PushPublish, consumer, RingTypeOK
    <3>2. /\ tail' = tail + 1 /\ pushItem \in Item
          /\ \A n \in 1 .. tail - head : Nth(n)' = Nth(n)
          /\ \A n \in Nat : n = tail - head + 1 => Nth(n)' = pushItem
      BY <1>4, <3>1, PublishAddsLast
    <3>3. \A n \in 1 .. tail' - head' : n \in 1 .. tail - head \/ n = tail - head + 1
      BY <3>1, <3>2
    <3> QED
      BY <1>a, <3>1, <3>2, <3>3 DEF PushKnows, PopKnows
  <2> QED
    BY <2>1, <2>2, <2>3 DEF RingInv
<1>5. CASE PopLoadHead \/ PopLoadTail
  <2>1. RingTypeOK' /\ (raced' => overwrite') /\ (push' = "advance" => overwrite')
    BY <1>5, <1>a DEF PopLoadHead, PopLoadTail, RingTypeOK, producer
  <2>2. ASSUME ~raced'
        PROVE  PushKnows' /\ PopKnows' /\ \A n \in 1 .. tail' - head' : Nth(n)' \in Item
    <3>1. PushKnows'
      BY <1>5, <1>a, <2>2 DEF PopLoadHead, PopLoadTail, PushKnows, producer
    <3>2. PopKnows'
      BY <1>5, <1>a, <2>2 DEF PopLoadHead, PopLoadTail, PopKnows, IsEmpty, RingTypeOK
    <3>3. \A n \in 1 .. tail' - head' : Nth(n)' \in Item
      BY <1>5, <1>a, <2>2 DEF PopLoadHead, PopLoadTail, Nth
    <3> QED
      BY <3>1, <3>2, <3>3
  <2> QED
    BY <2>1, <2>2 DEF RingInv
<1>6. CASE PopTake
  <2>1. (raced' => overwrite') /\ (push' = "advance" => overwrite')
    BY <1>6, <1>a DEF PopTake, producer
  <2>2. RingTypeOK'
    BY <1>6, <1>a, IndexType DEF PopTake, RingTypeOK, producer
  <2>3. ASSUME ~raced'
        PROVE  PushKnows' /\ PopKnows' /\ \A n \in 1 .. tail' - head' : Nth(n)' \in Item
    <3>1. /\ ~raced /\ UNCHANGED <<head, tail, producer, popHead>> /\ pop = "take"
          /\ pop' = "release" /\ head \in Nat /\ tail \in Nat
      BY <1>6, <1>a, <2>3 DEF PopTake, RingTypeOK
    <3>2. /\ \A n \in 1 .. tail - head : Nth(n)' = Nth(n)
          /\ popItem' = Nth(1)
          /\ push = "publish" => slots'[Index(tail)] = slots[Index(tail)]
      BY <1>6, <3>1, TakeKeepsItems
    <3>3. head < tail
      BY <1>a, <3>1 DEF PopKnows
    <3>4. popItem' \in Item
      BY <1>a, <3>1, <3>2, <3>3
    <3>5. PushKnows'
      BY <1>a, <3>1, <3>2 DEF PushKnows, producer
    <3>6. PopKnows'
      BY <1>a, <3>1, <3>3, <3>4 DEF PopKnows
    <3> QED
      BY <1>a, <3>1, <3>2, <3>5, <3>6
  <2> QED
    BY <2>1, <2>2, <2>3 DEF RingInv
<1>7. CASE PopRelease
  <2>1. (raced' => overwrite') /\ (push' = "advance" => overwrite')
    BY <1>7, <1>a DEF PopRelease, producer
  <2>2. RingTypeOK'
    BY <1>7, <1>a, <1>b DEF PopRelease, RingTypeOK, PopKnows, producer
  <2>3. ASSUME ~raced'
        PROVE  PushKnows' /\ PopKnows' /\ \A n \in 1 .. tail' - head' : Nth(n)' \in Item
    <3>1. /\ ~raced /\ UNCHANGED <<tail, slots, producer>> /\ pop' = "idle"
          /\ head \in Nat /\ tail \in Nat /\ pushHead \in Nat
      BY <1>7, <1>a, <2>3 DEF PopRelease, RingTypeOK
    <3>2. /\ head < tail /\ head' = head + 1
          /\ \A n \in 1 .. tail' - head' : Nth(n)' = Nth(n + 1)
      BY <1>7, <3>1, ReleaseDropsFirst
    <3>3. \A n \in 1 .. tail' - head' : n + 1 \in 1 .. tail - head
      BY <3>1, <3>2
    <3>4. PushKnows'
      BY <1>a, <1>b, <3>1, <3>2 DEF PushKnows, producer
    <3> QED
      BY <1>a, <3>1, <3>2, <3>3, <3>4 DEF PopKnows
  <2> QED
    BY <2>1, <2>2, <2>3 DEF RingInv
<1>8. CASE UNCHANGED ringVars
  BY <1>8, <1>a DEF ringVars, producer, consumer, RingInv, RingTypeOK, PushKnows, PopKnows, Nth
<1> QED
  BY <1>1, <1>2, <1>3, <1>4, <1>5, <1>6, <1>7, <1>8 DEF RingNext, Push, Pop

-----------------------------------------------------------------------------
(* The buffer as a queue.                                                  *)

ContentsKnown ==
    /\ Contents \in Seq(Item)
    /\ Len(Contents) = tail - head
    /\ \A n \in 1 .. tail - head : Contents[n] = Nth(n)

\* What is between the cursors are items.
LEMMA ContentsAreItems == RingInv /\ ~raced => ContentsKnown
<1> SUFFICES ASSUME RingInv, ~raced
             PROVE  ContentsKnown
  OBVIOUS
<1>1. tail - head \in Nat /\ \A n \in 1 .. tail - head : Nth(n) \in Item
  BY DEF RingInv, RingTypeOK
<1>2. Contents \in [1 .. tail - head -> Item]
  BY <1>1 DEF Contents
<1>3. Contents \in Seq(Item)
  BY <1>1, <1>2, SeqDef
<1>4. DOMAIN Contents = 1 .. tail - head
  BY <1>2
<1>5. Len(Contents) = tail - head
  BY <1>1, <1>3, <1>4, LenProperties
<1> QED
  BY <1>3, <1>5 DEF ContentsKnown, Contents

\* The items less the first.
LEMMA ContentsTail ==
    ASSUME ContentsKnown, ContentsKnown', head \in Nat, tail \in Nat, head < tail,
           tail' = tail, head' = head + 1,
           \A n \in 1 .. tail' - head' : Nth(n)' = Nth(n + 1)
    PROVE  Contents # <<>> /\ Contents' = Tail(Contents) /\ Head(Contents) = Nth(1)
<1>1. Contents \in Seq(Item) /\ Contents' \in Seq(Item) /\ Len(Contents) = tail - head
      /\ Len(Contents') = tail - head - 1
  BY DEF ContentsKnown
<1>2. Contents # <<>>
  BY <1>1
<1>3. /\ Tail(Contents) \in Seq(Item) /\ Len(Tail(Contents)) = Len(Contents) - 1
      /\ \A i \in 1 .. Len(Tail(Contents)) : Tail(Contents)[i] = Contents[i + 1]
  BY <1>1, <1>2, HeadTailProperties
<1>4. ASSUME NEW i \in 1 .. Len(Contents')
      PROVE  Contents'[i] = Tail(Contents)[i]
  <2>1. i \in 1 .. tail' - head' /\ i + 1 \in 1 .. tail - head
    BY <1>1
  <2>2. Contents'[i] = Nth(i)' /\ Contents[i + 1] = Nth(i + 1)
    BY <2>1 DEF ContentsKnown
  <2> QED
    BY <1>1, <1>3, <2>1, <2>2
<1>5. Contents' = Tail(Contents)
  BY <1>1, <1>3, <1>4, SeqEqual
<1>6. Head(Contents) = Nth(1)
  BY <1>1, <1>2 DEF ContentsKnown
<1> QED
  BY <1>2, <1>5, <1>6

\* The items and one more.
LEMMA ContentsAppend ==
    ASSUME ContentsKnown, ContentsKnown', head \in Nat, tail \in Nat, head <= tail,
           tail' = tail + 1, head' = head, NEW x \in Item,
           \A n \in 1 .. tail - head : Nth(n)' = Nth(n),
           \A n \in Nat : n = tail - head + 1 => Nth(n)' = x
    PROVE  Contents' = Append(Contents, x)
<1>1. Contents \in Seq(Item) /\ Contents' \in Seq(Item) /\ Len(Contents) = tail - head
      /\ Len(Contents') = tail - head + 1
  BY DEF ContentsKnown
<1>2. /\ Append(Contents, x) \in Seq(Item) /\ Len(Append(Contents, x)) = Len(Contents) + 1
      /\ \A i \in 1 .. Len(Contents) : Append(Contents, x)[i] = Contents[i]
      /\ Append(Contents, x)[Len(Contents) + 1] = x
  BY <1>1, AppendProperties
<1>3. ASSUME NEW i \in 1 .. Len(Contents')
      PROVE  Contents'[i] = Append(Contents, x)[i]
  <2>1. Contents'[i] = Nth(i)'
    BY <1>1 DEF ContentsKnown
  <2>2. CASE i \in 1 .. tail - head
    BY <1>1, <1>2, <2>1, <2>2 DEF ContentsKnown
  <2>3. CASE i = tail - head + 1
    BY <1>1, <1>2, <2>1, <2>3
  <2> QED
    BY <1>1, <2>2, <2>3
<1> QED
  BY <1>1, <1>2, <1>3, SeqEqual

\* The items, as they were.
LEMMA ContentsSame ==
    ASSUME ContentsKnown, ContentsKnown', head \in Nat, tail \in Nat,
           tail' = tail, head' = head, \A n \in 1 .. tail - head : Nth(n)' = Nth(n)
    PROVE  Contents' = Contents
<1>1. Contents \in Seq(Item) /\ Contents' \in Seq(Item) /\ Len(Contents) = tail - head
      /\ Len(Contents') = tail - head
  BY DEF ContentsKnown
<1>2. \A i \in 1 .. Len(Contents') : Contents'[i] = Contents[i]
  BY <1>1 DEF ContentsKnown
<1> QED
  BY <1>1, <1>2, SeqEqual

\* Every step of the buffer is one of the queue, or none.
LEMMA QueueStep ==
    ASSUME RingInv, RingInv', [RingNext]_ringVars
    PROVE  [Queue!FifoNext]_(Queue!fifo)
<1>a. /\ overwrite' = overwrite /\ (raced => raced')
      /\ (raced' => overwrite) /\ raced \in BOOLEAN
  BY DEF RingInv, RingTypeOK, RingNext, ringVars, Push, Pop, PushLoad, PushAdvance, PushWrite, PushPublish,
         PopLoadHead, PopLoadTail, PopTake, PopRelease
<1>1. CASE raced'
  BY <1>1, <1>a DEF Queue!FifoNext, Queue!Break
<1>2. CASE ~raced'
  <2>a. /\ ~raced /\ ContentsKnown
        /\ head \in Nat /\ tail \in Nat /\ head <= tail /\ tail <= head + Capacity
        /\ Capacity \in Nat /\ Capacity >= 2
    BY <1>2, <1>a, ContentsAreItems, RingAssumption DEF RingInv, RingTypeOK, RingAssumption
  <2>b. ContentsKnown'
    BY <1>2, ContentsAreItems, PTL
  <2>h. Held = Contents /\ Held' = Contents' /\ UNCHANGED raced
    <3>1. raced = FALSE /\ raced' = FALSE
      BY <1>2, <2>a DEF RingInv, RingTypeOK
    <3> QED
      BY <3>1 DEF Held
  <2>c. Len(Contents) = tail - head /\ (head = tail => Contents = <<>>)
    BY <2>a DEF ContentsKnown
  <2>1. ASSUME NEW x \in Item, PushLoad(x)
        PROVE  [Queue!FifoNext]_(Queue!fifo)
    <3>1. UNCHANGED <<head, tail, popped>> /\ \A n \in 1 .. tail - head : Nth(n)' = Nth(n)
      BY <2>1 DEF PushLoad, consumer, Nth
    <3>2. Contents' = Contents
      BY <2>a, <2>b, <3>1, ContentsSame
    <3>3. CASE answer' = answer
      BY <1>2, <1>a, <2>a, <2>h, <3>1, <3>2, <3>3 DEF Queue!fifo
    <3>4. CASE answer' # answer
      <4>1. Full(head) /\ ~overwrite /\ answer' = FALSE
        BY <2>1, <3>4 DEF PushLoad
      <4>2. tail - head = Capacity
        BY <2>a, <4>1 DEF Full
      <4> QED
        BY <1>2, <1>a, <2>a, <2>h, <2>c, <3>1, <3>2, <4>1, <4>2 DEF Queue!FifoNext, Queue!Refuse
    <3> QED
      BY <3>3, <3>4
  <2>2. CASE PushAdvance
    <3>1. /\ tail - head = Capacity /\ head' = head + 1
          /\ \A n \in 1 .. tail' - head' : Nth(n)' = Nth(n + 1)
      BY <1>2, <2>2, AdvanceDropsFirst
    <3>2. tail' = tail /\ overwrite /\ UNCHANGED <<answer, popped>>
      BY <2>2 DEF PushAdvance, consumer, RingInv
    <3>3. Contents' = Tail(Contents)
      BY <2>a, <2>b, <3>1, <3>2, ContentsTail
    <3> QED
      BY <1>2, <1>a, <2>a, <2>h, <2>c, <3>1, <3>2, <3>3 DEF Queue!FifoNext, Queue!Discard
  <2>3. CASE PushWrite
    <3>1. UNCHANGED <<head, tail, popped, answer>>
      BY <2>3 DEF PushWrite, consumer
    <3>2. Contents' = Contents
      BY <2>a, <2>b, <2>3, <3>1, ContentsSame, WriteKeepsItems
    <3> QED
      BY <1>2, <1>a, <2>a, <2>h, <3>1, <3>2 DEF Queue!fifo
  <2>4. CASE PushPublish
    <3>1. /\ tail - head < Capacity /\ tail' = tail + 1 /\ pushItem \in Item
          /\ \A n \in 1 .. tail - head : Nth(n)' = Nth(n)
          /\ \A n \in Nat : n = tail - head + 1 => Nth(n)' = pushItem
      BY <2>a, <2>4, PublishAddsLast
    <3>2. head' = head /\ popped' = popped /\ answer' = TRUE
      BY <2>4 DEF PushPublish, consumer
    <3>3. Contents' = Append(Contents, pushItem)
      BY <2>a, <2>b, <3>1, <3>2, ContentsAppend
    <3>4. Len(Contents) < Capacity
      BY <2>c, <3>1
    <3> QED
      BY <1>2, <1>a, <2>a, <2>h, <3>1, <3>2, <3>3, <3>4 DEF Queue!FifoNext, Queue!Put
  <2>5. CASE PopLoadHead
    <3>1. UNCHANGED <<head, tail, popped, answer>> /\ \A n \in 1 .. tail - head : Nth(n)' = Nth(n)
      BY <2>5 DEF PopLoadHead, producer, Nth
    <3>2. Contents' = Contents
      BY <2>a, <2>b, <3>1, ContentsSame
    <3> QED
      BY <1>2, <1>a, <2>a, <2>h, <3>1, <3>2 DEF Queue!fifo
  <2>6. CASE PopLoadTail
    <3>1. UNCHANGED <<head, tail, answer>> /\ \A n \in 1 .. tail - head : Nth(n)' = Nth(n)
      BY <2>6 DEF PopLoadTail, producer, Nth
    <3>2. Contents' = Contents
      BY <2>a, <2>b, <3>1, ContentsSame
    <3>3. popHead = head
      BY <2>a, <2>6 DEF PopLoadTail, RingInv, PopKnows
    <3>4. CASE IsEmpty
      <4>1. popped' = None /\ Contents = <<>>
        BY <2>6, <2>c, <3>3, <3>4 DEF PopLoadTail, IsEmpty
      <4> QED
        BY <1>2, <1>a, <2>a, <2>h, <3>1, <3>2, <4>1 DEF Queue!FifoNext, Queue!Miss
    <3>5. CASE ~IsEmpty
      <4>1. popped' = popped
        BY <2>6, <3>5 DEF PopLoadTail
      <4> QED
        BY <1>2, <1>a, <2>a, <2>h, <3>1, <3>2, <4>1 DEF Queue!fifo
    <3> QED
      BY <3>4, <3>5
  <2>7. CASE PopTake
    <3>1. UNCHANGED <<head, tail, popped, answer>>
      BY <2>7 DEF PopTake, producer
    <3>2. Contents' = Contents
      BY <2>a, <2>b, <2>7, <3>1, ContentsSame, TakeKeepsItems
    <3> QED
      BY <1>2, <1>a, <2>a, <2>h, <3>1, <3>2 DEF Queue!fifo
  <2>8. CASE PopRelease
    <3>1. /\ head < tail /\ head' = head + 1 /\ popped' = Nth(1)
          /\ \A n \in 1 .. tail' - head' : Nth(n)' = Nth(n + 1)
      BY <2>a, <2>8, ReleaseDropsFirst
    <3>2. tail' = tail /\ answer' = answer
      BY <2>8 DEF PopRelease, producer
    <3>3. Contents # <<>> /\ Contents' = Tail(Contents) /\ Head(Contents) = Nth(1)
      BY <2>a, <2>b, <3>1, <3>2, ContentsTail
    <3> QED
      BY <1>2, <1>a, <2>a, <2>h, <3>1, <3>2, <3>3 DEF Queue!FifoNext, Queue!Take
  <2>9. CASE UNCHANGED ringVars
    <3>1. UNCHANGED <<head, tail, popped, answer>> /\ \A n \in 1 .. tail - head : Nth(n)' = Nth(n)
      BY <2>9 DEF ringVars, producer, consumer, Nth
    <3>2. Contents' = Contents
      BY <2>a, <2>b, <3>1, ContentsSame
    <3> QED
      BY <1>2, <1>a, <2>a, <2>h, <3>1, <3>2 DEF Queue!fifo
  <2> QED
    BY <2>1, <2>2, <2>3, <2>4, <2>5, <2>6, <2>7, <2>8, <2>9 DEF RingNext, Push, Pop
<1> QED
  BY <1>1, <1>2

-----------------------------------------------------------------------------
(* The theorems.                                                           *)

\* An empty buffer satisfies the invariant.
LEMMA InvInit == RingInit => RingInv
<1> SUFFICES ASSUME RingInit
             PROVE  RingInv
  OBVIOUS
<1>1. Capacity \in Nat /\ Capacity >= 2
  BY RingAssumption DEF RingAssumption
<1>2. RingTypeOK
  <2>1. slots \in [0 .. Capacity - 1 -> Item \cup {None}]
    BY DEF RingInit
  <2>2. head = 0 /\ tail = 0 /\ 0 \in Nat /\ raced = FALSE
    BY DEF RingInit
  <2>3. head <= tail /\ tail <= head + Capacity
    BY <1>1, <2>2
  <2> QED
    BY <2>1, <2>2, <2>3 DEF RingInit, RingTypeOK
<1>3. PushKnows /\ PopKnows
  BY DEF RingInit, PushKnows, PopKnows
<1>4. \A n \in 1 .. tail - head : Nth(n) \in Item
  BY DEF RingInit
<1>5. raced = FALSE /\ push = "idle"
  BY DEF RingInit
<1> QED
  BY <1>2, <1>3, <1>4, <1>5 DEF RingInv

\* The invariant, of which the next theorem is a part.
THEOREM RingCorrect == RingSpec => []RingInv
<1>1. RingInv /\ [RingNext]_ringVars => RingInv'
  BY InvStep
<1> QED
  BY <1>1, InvInit, PTL DEF RingSpec

\* Every variable keeps its type, and the cursors stay within Capacity.
THEOREM RingTypeCorrect == RingSpec => []RingTypeOK
<1>1. RingInv => RingTypeOK
  BY DEF RingInv
<1> QED
  BY <1>1, RingCorrect, PTL

\* The buffer implements the bounded queue.
THEOREM QueueCorrect == RingSpec => KeepsFifo
<1>1. RingInit => Queue!FifoInit
  <2> SUFFICES ASSUME RingInit
               PROVE  Queue!FifoInit
    OBVIOUS
  <2>1. ContentsKnown
    BY InvInit, ContentsAreItems DEF RingInit
  <2>2. Contents = <<>>
    BY <2>1 DEF ContentsKnown, RingInit
  <2>3. Held = <<>>
    BY <2>2 DEF RingInit, Held
  <2> QED
    BY <2>3 DEF RingInit, Queue!FifoInit
<1>2. RingInv /\ RingInv' /\ [RingNext]_ringVars => [Queue!FifoNext]_(Queue!fifo)
  BY QueueStep
<1> QED
  BY <1>1, <1>2, RingCorrect, PTL DEF RingSpec, KeepsFifo, Queue!FifoSpec

-----------------------------------------------------------------------------
(* The inductive invariant of the mailbox.                                 *)

LoopState == {Resting("none"), Resting("timer")} \cup
    [how : {"done", "failed", "handled"}, message : Message, left : 0 .. Batch - 1]

Standing == {"none", "sent", "waiting", "timeout", "closed", "lost", "got request", "got reply"}

\* The types of the variables, and of the table of loops itself.
Types ==
    /\ up \in BOOLEAN /\ polling \in BOOLEAN /\ writable \in BOOLEAN
    /\ timer \in Loop \cup {NoLoop} /\ loops \in [Loop -> LoopState]
    /\ queue \in Seq(Message)
    /\ dlq \in Seq(Message) /\ Len(dlq) <= DlqMax
    /\ waiters \subseteq Request /\ request \in [Request -> Standing]
    /\ file \in Seq(Message) /\ saved \in 0 .. Len(file)
    /\ sent \subseteq Message /\ expired \subseteq sent
    /\ heard \subseteq sent /\ settled \subseteq sent
    /\ spent \in [stops : 0 .. MaxStops, crashes : 0 .. MaxCrashes]

\* What is in a queue, in a cycle or in the file has been sent.
Known == Range(queue) \cup InFlight \cup Range(file) \subseteq sent

\* Between two processes there is nothing but the file.
Down ==
    /\ ~polling /\ timer = NoLoop /\ \A l \in Loop : ~Busy(l) /\ loops[l].how = "none"
    /\ queue = <<>> /\ waiters = {} /\ settled = {}
    /\ spent.crashes > 0

WellTyped == Types /\ Known /\ (~up => Down)

\* Nothing is in the queue or in the file twice, two cycles have two messages,
\* and what one place has, no other has.
Places ==
    /\ IsInjective(queue) /\ IsInjective(file)
    /\ \A k, l \in Loop : Busy(k) /\ Busy(l) /\ loops[k].message = loops[l].message => k = l
    /\ Range(queue) \cap InFlight = {}
    /\ (Range(queue) \cup InFlight) \cap settled = {}
    /\ spent.crashes = 0 => sent = Range(queue) \cup InFlight \cup settled

\* A request that stands anywhere has been sent, so that it is sent once.
Promises ==
    /\ WaitersAreWaiting
    /\ \A r \in Request : request[r] # "none" => [kind |-> "request", id |-> r] \in sent

\* The cycle that has a message nobody handles will find that it failed.
DeadLetters ==
    /\ UnheardIsDead
    /\ \A l \in Loop :
          /\ Busy(l) /\ loops[l].message \in Plains /\ loops[l].message.id \in Unheard
          => loops[l].how = "failed"

\* Each stop so far may have left a loop behind; one more polls by right.
Polls ==
    Cardinality({l \in Loop : loops[l].how # "none"})
        <= spent.stops + (IF polling THEN 1 ELSE 0)

MailboxInv == WellTyped /\ Places /\ Promises /\ DeadLetters /\ Polls

-----------------------------------------------------------------------------
(* Messages, loops and dead letters.                                       *)

\* What is not plain has the id of a request and ends it.
LEMMA MessageTypes ==
    /\ \A m \in Message \ Plains : m.id \in Request /\ Got[m.kind] \in {"got request", "got reply"}
    /\ \A m \in Plains : m.id \in Plain /\ m.kind = "plain"
    /\ \A r \in Request : /\ [kind |-> "request", id |-> r] \in Message \ Plains
                          /\ [kind |-> "reply", id |-> r] \in Message \ Plains
<1>1. ASSUME NEW m \in Message \ Plains
      PROVE  m.id \in Request /\ Got[m.kind] \in {"got request", "got reply"}
  <2>1. CASE m \in Requests
    <3>1. PICK r \in Request : m = [kind |-> "request", id |-> r]
      BY <2>1 DEF Requests
    <3>2. m.id = r /\ m.kind = "request"
      BY <3>1
    <3>3. Got["request"] = "got request"
      BY DEF Got
    <3>. QED BY <3>2, <3>3
  <2>2. CASE m \in Replies
    <3>1. PICK r \in Request : m = [kind |-> "reply", id |-> r]
      BY <2>2 DEF Replies
    <3>2. m.id = r /\ m.kind = "reply"
      BY <3>1
    <3>3. Got["reply"] = "got reply"
      BY DEF Got
    <3>. QED BY <3>2, <3>3
  <2>. QED BY <1>1, <2>1, <2>2 DEF Message
<1>2. \A m \in Plains : m.id \in Plain /\ m.kind = "plain"
  BY DEF Plains
<1>3. ASSUME NEW r \in Request, NEW kind \in {"request", "reply"}
      PROVE  [kind |-> kind, id |-> r] \in Message \ Plains
  <2>1. [kind |-> kind, id |-> r] \in Requests \cup Replies
    BY DEF Requests, Replies
  <2>2. [kind |-> kind, id |-> r].kind # "plain"
    OBVIOUS
  <2>3. [kind |-> kind, id |-> r] \notin Plains
    BY <1>2, <2>2
  <2>. QED BY <2>1, <2>3 DEF Message
<1>. QED BY <1>1, <1>2, <1>3

\* A loop rests, or is busy with a message.
LEMMA LoopTypes ==
    ASSUME Types, NEW l \in Loop
    PROVE  /\ Busy(l) => loops[l] \in [how : {"done", "failed", "handled"},
                                       message : Message, left : 0 .. Batch - 1]
           /\ ~Busy(l) => loops[l] \in {Resting("none"), Resting("timer")}
<1>1. loops[l] \in LoopState
  BY DEF Types
<1>2. \A x \in {"none", "timer"} : Resting(x).how = x
  BY DEF Resting
<1>. QED BY <1>1, <1>2 DEF LoopState, Busy

\* The types are those that TypeOK asks for.
LEMMA TypesAreOK == Types => TypeOK
<1> SUFFICES ASSUME Types
             PROVE  TypeOK
  OBVIOUS
<1>1. \A l \in Loop :
          IF Busy(l)
          THEN loops[l] \in [how : {"done", "failed", "handled"},
                             message : Message, left : 0 .. Batch - 1]
          ELSE loops[l] \in {Resting("none"), Resting("timer")}
  BY LoopTypes
<1>. QED BY <1>1 DEF Types, TypeOK, Standing

\* The dead letters that a queue has no room for are dropped only when it is
\* full.
LEMMA Trimmed ==
    ASSUME NEW d \in Seq(Message)
    PROVE  /\ Trim(d) \in Seq(Message) /\ Len(Trim(d)) <= DlqMax
           /\ Trim(d) = d \/ Len(Trim(d)) = DlqMax
<1>1. DlqMax \in Nat \ {0} /\ Len(d) \in Nat /\ DOMAIN d = 1 .. Len(d)
  BY MailboxAssumption DEF MailboxAssumption
<1>2. CASE Len(d) <= DlqMax
  BY <1>1, <1>2 DEF Trim
<1>3. CASE Len(d) > DlqMax
  <2> DEFINE a == Len(d) + 1 - DlqMax
  <2>1. Trim(d) = SubSeq(d, a, Len(d))
    BY <1>3 DEF Trim
  <2>2. a \in Int /\ Len(d) \in Int /\ a \in 1 .. Len(d) /\ Len(d) - a + 1 = DlqMax /\ a <= Len(d) + 1
    BY <1>1, <1>3
  <2>3. \A k \in a .. Len(d) : d[k] \in Message
    BY <1>1, <2>2
  <2> HIDE DEF a
  <2>4. SubSeq(d, a, Len(d)) \in Seq(Message) /\ Len(SubSeq(d, a, Len(d))) = DlqMax
    BY <1>1, <2>2, <2>3, SubSeqProperties
  <2>. QED BY <1>1, <2>1, <2>4
<1>. QED BY <1>1, <1>2, <1>3

\* A cycle ends: it waits for its timer, or is no more.
Ends(l, q) ==
    /\ queue' = q
    /\ \E how \in {"none", "timer"} : loops' = [loops EXCEPT ![l] = Resting(how)]
    /\ timer' \in {timer, l}
    /\ UNCHANGED <<waiters, request, heard>>

\* What comes of the message m, in a cycle that then is `how`.
Meets(m, how) ==
    \/ /\ how = "done" /\ m \notin Plains /\ m.id \in waiters
       /\ waiters' = waiters \ {m.id}
       /\ request' = [request EXCEPT ![m.id] = Got[m.kind]]
       /\ UNCHANGED heard
    \/ /\ how \in {"failed", "handled"}
       /\ m.id \in Unheard => how = "failed"
       /\ heard' \in {heard, heard \cup {m}}
       /\ UNCHANGED <<waiters, request>>

\* It takes the i-th of the messages q.
Takes(l, q, i, how, left) ==
    /\ queue' = RemoveAt(q, i)
    /\ loops' = [loops EXCEPT ![l] = [how |-> how, message |-> q[i], left |-> left]]
    /\ UNCHANGED timer
    /\ Meets(q[i], how)

\* A cycle ends or takes a message, which is one of those in the queue.
LEMMA CycleGoesOn ==
    ASSUME NEW l \in Loop, NEW q \in Seq(Message), NEW left \in 0 .. Batch,
           TakeOrEnd(l, q, left)
    PROVE  \/ Ends(l, q)
           \/ \E i \in DOMAIN q, how \in {"done", "failed", "handled"}, n \in 0 .. Batch - 1 :
                 Takes(l, q, i, how, n)
<1>1. Batch \in Nat
  BY MailboxAssumption DEF MailboxAssumption
<1>2. CASE queue' = q /\ Schedule(l) /\ UNCHANGED <<waiters, request, heard>>
  BY <1>2 DEF Schedule, Ends
<1>3. CASE ~(queue' = q /\ Schedule(l) /\ UNCHANGED <<waiters, request, heard>>)
  <2> DEFINE i == First(q)
             m == q[i]
             n == left - 1
             Goes(how) == loops' = [loops EXCEPT ![l] = [how |-> how, message |-> m, left |-> n]]
  <2>1. q # <<>> /\ left > 0
    BY <1>3 DEF TakeOrEnd
  <2>2. i \in DOMAIN q
    <3> DEFINE urgent == {k \in DOMAIN q : q[k] \in Replies}
               places == IF urgent # {} THEN urgent ELSE DOMAIN q
    <3>1. Len(q) \in Nat /\ places \in SUBSET (1 .. Len(q)) /\ places # {}
      BY <2>1
    <3>2. Min(places) \in places
      BY <3>1, FirstIsMin
    <3>3. i = Min(places)
      BY DEF First
    <3>. QED BY <3>2, <3>3
  <2>3. n \in 0 .. Batch - 1
    BY <1>1, <2>1
  <2>4. queue' = RemoveAt(q, i) /\ UNCHANGED timer
    BY <1>3 DEF TakeOrEnd, Without
  <2>5. \/ /\ m \notin Plains /\ m.id \in waiters
           /\ waiters' = waiters \ {m.id}
           /\ request' = [request EXCEPT ![m.id] = Got[m.kind]]
           /\ Goes("done")
           /\ UNCHANGED heard
        \/ /\ m \in Replies \/ m.id \in Unheard
           /\ Goes("failed")
           /\ UNCHANGED <<waiters, request, heard>>
        \/ /\ ~(m \in Replies \/ m.id \in Unheard)
           /\ Goes("handled")
           /\ heard' = heard \cup {m}
           /\ UNCHANGED <<waiters, request>>
    BY <1>3 DEF TakeOrEnd
  <2> HIDE DEF i, m, n
  <2>6. \E how \in {"done", "failed", "handled"} : Goes(how) /\ Meets(m, how)
    BY <2>5 DEF Meets
  <2>. QED BY <2>2, <2>3, <2>4, <2>6 DEF Takes, m, i, n
<1>. QED BY <1>2, <1>3

\* The sweep parts the queue: what has expired is late, the rest in time.
LEMMA Swept ==
    ASSUME NEW q \in Seq(Message)
    PROVE  /\ InTime(q) \in Seq(Message)
           /\ Range(InTime(q)) = Range(q) \ expired
           /\ IsInjective(q) => IsInjective(InTime(q))
<1>1. /\ InTime(q) \in Seq(Message)
      /\ Range(InTime(q)) = Range(q) \cap (Range(q) \ expired)
      /\ IsInjective(q) => IsInjective(InTime(q))
  BY RangeOfSifted DEF InTime
<1>. QED BY <1>1

\* It finds those that have expired in both buckets.
LEMMA Evicted ==
    ASSUME queue \in Seq(Message)
    PROVE  Late \in Seq(Message) /\ Range(Late) = Range(queue) \cap expired
<1> DEFINE a == Sifted(queue, expired \cap Replies)
           b == Sifted(queue, expired \ Replies)
<1>1. a \in Seq(Message) /\ Range(a) = Range(queue) \cap (expired \cap Replies)
  BY RangeOfSifted
<1>2. b \in Seq(Message) /\ Range(b) = Range(queue) \cap (expired \ Replies)
  BY RangeOfSifted
<1> HIDE DEF a, b
<1>3. a \o b \in Seq(Message) /\ Range(a \o b) = Range(a) \cup Range(b)
  BY <1>1, <1>2, RangeOfConcat
<1>4. Late = a \o b
  BY DEF Late, a, b
<1>. QED BY <1>1, <1>2, <1>3, <1>4

\* What the loops other than l have in hand.
Elsewhere(l) == {loops[k].message : k \in {j \in Loop : j # l /\ Busy(j)}}

\* Before it goes on, a cycle of l settles the messages `gone`, and records in
\* the dead letters those that nobody handles; q are the messages that stay.
Clears(l, q, gone) ==
    /\ q \in Seq(Message) /\ gone \subseteq sent
    /\ Range(q) \cup gone \cup Elsewhere(l) = Range(queue) \cup InFlight
    /\ Range(q) \subseteq Range(queue) /\ (IsInjective(queue) => IsInjective(q))
    /\ Places => Range(q) \cap gone = {} /\ gone \cap Elsewhere(l) = {}
    /\ settled' = settled \cup gone
    /\ dlq' \in Seq(Message) /\ Len(dlq') <= DlqMax /\ Len(dlq) <= Len(dlq')
    /\ Range(dlq) \subseteq Range(dlq') \/ Len(dlq') = DlqMax
    /\ DeadLetters =>
         \A m \in gone : m \in Plains /\ m.id \in Unheard => m \in Range(dlq') \/ Len(dlq') = DlqMax

\* The message of a loop and what is elsewhere is all that is in flight.
LEMMA InHand ==
    ASSUME NEW l \in Loop
    PROVE  InFlight = Elsewhere(l) \cup (IF Busy(l) THEN {loops[l].message} ELSE {})
BY DEF InFlight, Elsewhere

\* A cycle that begins, or goes on after a message, clears and goes on.
LEMMA CycleDoes ==
    ASSUME WellTyped, NEW l \in Loop, Fire(l) \/ Settle(l)
    PROVE  /\ up /\ loops[l].how # "none"
           /\ UNCHANGED <<up, polling, disk, sent, expired, spent>>
           /\ \E q \in Seq(Message), gone \in SUBSET sent :
                 /\ Clears(l, q, gone)
                 /\ \/ Ends(l, q)
                    \/ \E i \in DOMAIN q, how \in {"done", "failed", "handled"}, n \in 0 .. Batch - 1 :
                          Takes(l, q, i, how, n)
<1>1. /\ queue \in Seq(Message) /\ dlq \in Seq(Message) /\ Len(dlq) <= DlqMax
      /\ sent \subseteq Message /\ Batch \in Nat \ {0}
      /\ Range(queue) \subseteq sent /\ InFlight \subseteq sent
  BY MailboxAssumption DEF WellTyped, Types, Known, MailboxAssumption
<1>2. CASE Fire(l)
  <2> DEFINE q == InTime(queue)
             gone == Range(Late)
             d == dlq \o Late
  <2>1. ~Busy(l) /\ loops[l].how = "timer"
    BY <1>2 DEF Fire, Busy
  <2>2. /\ q \in Seq(Message) /\ Range(q) = Range(queue) \ expired
        /\ IsInjective(queue) => IsInjective(q)
    BY <1>1, Swept
  <2>3. Late \in Seq(Message) /\ gone = Range(queue) \cap expired
    BY <1>1, Evicted
  <2>4. InFlight = Elsewhere(l)
    BY <2>1, InHand
  <2>5. d \in Seq(Message) /\ Range(d) = Range(dlq) \cup gone /\ Len(dlq) <= Len(d)
    <3>1. d \in Seq(Message) /\ Range(d) = Range(dlq) \cup gone
      BY <1>1, <2>3, RangeOfConcat
    <3>2. Len(d) = Len(dlq) + Len(Late) /\ Len(dlq) \in Nat /\ Len(Late) \in Nat
      BY <1>1, <2>3, ConcatProperties
    <3>. QED BY <3>1, <3>2
  <2>6. dlq' = Trim(d) /\ settled' = settled \cup gone /\ TakeOrEnd(l, q, Batch)
    BY <1>2 DEF Fire
  <2>7. UNCHANGED <<up, polling, disk, sent, expired, spent>> /\ up
    BY <1>2 DEF Fire
  <2> HIDE DEF q, gone, d
  <2>8. /\ dlq' \in Seq(Message) /\ Len(dlq') <= DlqMax /\ Len(dlq) <= Len(dlq')
        /\ dlq' = d \/ Len(dlq') = DlqMax
    BY <1>1, <2>5, <2>6, Trimmed
  <2>9. Places => Range(q) \cap gone = {} /\ gone \cap Elsewhere(l) = {}
    BY <2>2, <2>3, <2>4 DEF Places
  <2>10. Clears(l, q, gone)
    <3>1. gone \subseteq sent /\ Range(q) \subseteq Range(queue) /\ Range(q) \cup gone \cup Elsewhere(l) = Range(queue) \cup InFlight
      BY <1>1, <2>2, <2>3, <2>4
    <3>2. Range(dlq) \subseteq Range(dlq') \/ Len(dlq') = DlqMax
      BY <2>5, <2>8
    <3>3. \A m \in gone : m \in Range(dlq') \/ Len(dlq') = DlqMax
      BY <2>5, <2>8
    <3>. QED BY <2>2, <2>6, <2>8, <2>9, <3>1, <3>2, <3>3 DEF Clears
  <2>11. gone \in SUBSET sent
    BY <2>10 DEF Clears
  <2>12. Batch \in 0 .. Batch
    BY <1>1
  <2>13. \/ Ends(l, q)
         \/ \E i \in DOMAIN q, how \in {"done", "failed", "handled"}, n \in 0 .. Batch - 1 :
               Takes(l, q, i, how, n)
    BY <2>2, <2>6, <2>12, CycleGoesOn
  <2>. QED BY <2>1, <2>2, <2>7, <2>10, <2>11, <2>13
<1>3. CASE Settle(l)
  <2> DEFINE m == loops[l].message
             left == loops[l].left
             d == Append(dlq, m)
  <2>1. Busy(l) /\ loops[l].how # "none"
    BY <1>3 DEF Settle, Busy
  <2>2. m \in Message /\ left \in 0 .. Batch /\ m \in InFlight
    <3>1. loops[l] \in [how : {"done", "failed", "handled"}, message : Message, left : 0 .. Batch - 1]
      BY <2>1, LoopTypes DEF WellTyped
    <3>2. left \in 0 .. Batch - 1 /\ m \in Message
      BY <3>1
    <3>3. m \in InFlight
      BY <2>1, InHand
    <3>. QED BY <1>1, <3>2, <3>3
  <2>3. d \in Seq(Message) /\ Range(d) = Range(dlq) \cup {m} /\ Len(dlq) <= Len(d)
    <3>1. d \in Seq(Message) /\ Range(d) = Range(dlq) \cup {m}
      BY <1>1, <2>2, RangeOfAppend
    <3>2. Len(d) = Len(dlq) + 1 /\ Len(dlq) \in Nat
      BY <1>1, <2>2, AppendProperties
    <3>. QED BY <3>1, <3>2
  <2>4. /\ settled' = settled \cup {m} /\ TakeOrEnd(l, queue, left)
        /\ \/ loops[l].how \in {"done", "handled"} /\ dlq' = dlq
           \/ dlq' = Trim(d)
    BY <1>3 DEF Settle, Dead
  <2>5. UNCHANGED <<up, polling, disk, sent, expired, spent>> /\ up
    BY <1>3 DEF Settle
  <2>6. InFlight = Elsewhere(l) \cup {m}
    BY <2>1, InHand
  <2>7. Places => m \notin Range(queue) /\ m \notin Elsewhere(l)
    BY <2>1, <2>2 DEF Places, Elsewhere
  <2>8. DeadLetters /\ m \in Plains /\ m.id \in Unheard => loops[l].how = "failed"
    BY <2>1 DEF DeadLetters
  <2> HIDE DEF m, left, d
  <2>9. /\ dlq' \in Seq(Message) /\ Len(dlq') <= DlqMax /\ Len(dlq) <= Len(dlq')
        /\ Range(dlq) \subseteq Range(dlq') \/ Len(dlq') = DlqMax
        /\ (dlq' = dlq /\ loops[l].how # "failed") \/ m \in Range(dlq') \/ Len(dlq') = DlqMax
    <3>1. CASE loops[l].how \in {"done", "handled"} /\ dlq' = dlq
      BY <1>1, <3>1
    <3>2. CASE dlq' = Trim(d)
      <4>1. /\ dlq' \in Seq(Message) /\ Len(dlq') <= DlqMax /\ Len(dlq) <= Len(dlq')
            /\ dlq' = d \/ Len(dlq') = DlqMax
        BY <1>1, <2>3, <3>2, Trimmed
      <4>. QED BY <2>3, <4>1
    <3>. QED BY <2>4, <3>1, <3>2
  <2>10. Clears(l, queue, {m})
    <3>1. {m} \subseteq sent /\ Range(queue) \cup {m} \cup Elsewhere(l) = Range(queue) \cup InFlight
      BY <1>1, <2>2, <2>6
    <3>2. Places => Range(queue) \cap {m} = {} /\ {m} \cap Elsewhere(l) = {}
      BY <2>7
    <3>. QED BY <1>1, <2>4, <2>8, <2>9, <3>1, <3>2 DEF Clears
  <2>11. {m} \in SUBSET sent
    BY <2>10 DEF Clears
  <2>12. \/ Ends(l, queue)
         \/ \E i \in DOMAIN queue, how \in {"done", "failed", "handled"}, n \in 0 .. Batch - 1 :
               Takes(l, queue, i, how, n)
    BY <1>1, <2>2, <2>4, CycleGoesOn
  <2>. QED BY <1>1, <2>1, <2>5, <2>10, <2>11, <2>12
<1>. QED BY <1>2, <1>3

\* What is in flight after the loop l has turned to something else.
LEMMA FlightAfter ==
    ASSUME loops \in [Loop -> LoopState], NEW l \in Loop, NEW x,
           loops' = [loops EXCEPT ![l] = x]
    PROVE  /\ \A k \in Loop : loops'[k] = IF k = l THEN x ELSE loops[k]
           /\ InFlight' = Elsewhere(l) \cup
                          (IF x.how \in {"none", "timer"} THEN {} ELSE {x.message})
<1>1. \A k \in Loop : loops'[k] = IF k = l THEN x ELSE loops[k]
  OBVIOUS
<1>2. \A k \in Loop : Busy(k)' <=> IF k = l THEN x.how \notin {"none", "timer"} ELSE Busy(k)
  BY <1>1 DEF Busy
<1>3. InFlight' = {loops'[k].message : k \in {j \in Loop : Busy(j)'}}
  BY DEF InFlight
<1>4. InFlight' \subseteq Elsewhere(l) \cup (IF x.how \in {"none", "timer"} THEN {} ELSE {x.message})
  BY <1>1, <1>2, <1>3 DEF Elsewhere
<1>5. Elsewhere(l) \subseteq InFlight'
  BY <1>1, <1>2, <1>3 DEF Elsewhere
<1>6. x.how \notin {"none", "timer"} => x.message \in InFlight'
  BY <1>1, <1>2, <1>3
<1>. QED BY <1>1, <1>4, <1>5, <1>6

\* After a cycle has ended, what is elsewhere is all that is in flight.
LEMMA FlightEnds ==
    ASSUME loops \in [Loop -> LoopState], NEW l \in Loop, NEW q, Ends(l, q)
    PROVE  /\ \A k \in Loop : k # l => loops'[k] = loops[k]
           /\ loops'[l].how \in {"none", "timer"}
           /\ InFlight' = Elsewhere(l)
<1>1. PICK how \in {"none", "timer"} : loops' = [loops EXCEPT ![l] = Resting(how)]
  BY DEF Ends
<1> DEFINE x == Resting(how)
<1>2. x.how = how
  BY DEF Resting
<1> HIDE DEF x
<1>3. loops' = [loops EXCEPT ![l] = x]
  BY <1>1 DEF x
<1>4. /\ \A k \in Loop : loops'[k] = IF k = l THEN x ELSE loops[k]
      /\ InFlight' = Elsewhere(l) \cup (IF x.how \in {"none", "timer"} THEN {} ELSE {x.message})
  BY <1>3, FlightAfter
<1>. QED BY <1>2, <1>4

\* After a cycle has taken a message, that is in flight too.
LEMMA FlightTakes ==
    ASSUME loops \in [Loop -> LoopState], NEW l \in Loop, NEW q, NEW i, NEW n,
           NEW how \in {"done", "failed", "handled"}, Takes(l, q, i, how, n)
    PROVE  /\ \A k \in Loop : k # l => loops'[k] = loops[k]
           /\ loops'[l].how = how /\ loops'[l].message = q[i]
           /\ InFlight' = Elsewhere(l) \cup {q[i]}
<1> DEFINE x == [how |-> how, message |-> q[i], left |-> n]
<1>1. loops' = [loops EXCEPT ![l] = x]
  BY DEF Takes
<1>2. x.how = how /\ x.message = q[i]
  OBVIOUS
<1> HIDE DEF x
<1>3. /\ \A k \in Loop : loops'[k] = IF k = l THEN x ELSE loops[k]
      /\ InFlight' = Elsewhere(l) \cup (IF x.how \in {"none", "timer"} THEN {} ELSE {x.message})
  BY <1>1, FlightAfter
<1>4. x.how \notin {"none", "timer"}
  BY <1>2
<1>5. InFlight' = Elsewhere(l) \cup {q[i]}
  BY <1>2, <1>3, <1>4
<1>. QED BY <1>2, <1>3, <1>5

-----------------------------------------------------------------------------
(* The types, step by step.                                                *)

\* Sending puts a message, the first of its kind, into the queue.
Sends(m) ==
    /\ Send(m)
    /\ request' = request \/ \E r \in Request : /\ m = [kind |-> "request", id |-> r]
                                                /\ request' = [request EXCEPT ![r] = "sent"]
    /\ UNCHANGED <<up, poll, dlq, waiters, settled, writable, saved, expired, heard, spent>>

\* The steps, the ways of sending and the turns of a cycle taken together.
LEMMA Steps ==
    ASSUME [Next]_vars
    PROVE  \/ \E m \in Message : Sends(m)
           \/ \E r \in Request : AwaitReply(r) \/ TimeOut(r)
           \/ Start \/ Stop \/ Close
           \/ \E l \in Loop : Fire(l) \/ Settle(l)
           \/ \E m \in Message : Expire(m)
           \/ Save \/ Crash \/ Restart
           \/ UNCHANGED vars
<1>1. ASSUME NEW m \in Plains, SendPlain(m) PROVE m \in Message /\ Sends(m)
  BY <1>1 DEF SendPlain, Sends, Message
<1>2. ASSUME NEW r \in Request, SendRequest(r)
      PROVE  \E m \in Message : Sends(m)
  <2>1. [kind |-> "request", id |-> r] \in Message
    BY MessageTypes
  <2>2. Sends([kind |-> "request", id |-> r])
    BY <1>2 DEF SendRequest, Sends
  <2>. QED BY <2>1, <2>2
<1>3. ASSUME NEW r \in Request, Reply(r)
      PROVE  \E m \in Message : Sends(m)
  <2>1. [kind |-> "reply", id |-> r] \in Message
    BY MessageTypes
  <2>2. Sends([kind |-> "reply", id |-> r])
    BY <1>3 DEF Reply, Sends
  <2>. QED BY <2>1, <2>2
<1>. QED BY <1>1, <1>2, <1>3 DEF Next

\* A step keeps the types.
LEMMA TypesStep ==
    ASSUME WellTyped, [Next]_vars
    PROVE  Types'
<1> USE DEF Types
<1>0. /\ Types
      /\ DlqMax \in Nat \ {0} /\ {MaxStops, MaxCrashes} \subseteq Nat
      /\ Range(queue) \cup InFlight \cup Range(file) \subseteq sent
  BY MailboxAssumption DEF WellTyped, Known, MailboxAssumption
<1>1. ASSUME NEW m \in Message, Sends(m) PROVE Types'
  <2>1. /\ queue' = Append(queue, m) /\ file' \in {file, Append(file, m)}
        /\ sent' = sent \cup {m}
    BY <1>1 DEF Sends, Send
  <2>2. Append(queue, m) \in Seq(Message) /\ Append(file, m) \in Seq(Message)
        /\ Len(Append(file, m)) = Len(file) + 1 /\ Len(file) \in Nat
    BY <1>0, AppendProperties
  <2>3. file' \in Seq(Message) /\ saved \in 0 .. Len(file')
    <3>1. saved \in 0 .. Len(file) /\ file \in Seq(Message)
      BY <1>0
    <3>2. saved \in 0 .. Len(Append(file, m))
      BY <2>2, <3>1
    <3>. QED BY <2>1, <2>2, <3>1, <3>2
  <2>4. request' \in [Request -> Standing]
    BY <1>0, <1>1 DEF Sends, Standing
  <2>5. UNCHANGED <<up, polling, timer, loops, dlq, waiters, settled, writable, saved, expired, heard, spent>>
    BY <1>1 DEF Sends, poll
  <2>. QED BY <1>0, <2>1, <2>2, <2>3, <2>4, <2>5
<1>2. ASSUME NEW r \in Request, AwaitReply(r) PROVE Types'
  <2>1. /\ request' = [request EXCEPT ![r] = "waiting"] /\ waiters' = waiters \cup {r}
        /\ UNCHANGED <<up, polling, timer, loops, queue, dlq, settled, writable, file, saved,
                       sent, expired, heard, spent>>
    BY <1>2 DEF AwaitReply, poll, disk, ghosts
  <2>2. request' \in [Request -> Standing]
    BY <1>0, <2>1 DEF Standing
  <2>. QED BY <1>0, <2>1, <2>2
<1>3. ASSUME NEW r \in Request, TimeOut(r) PROVE Types'
  <2>1. /\ request' = [request EXCEPT ![r] = "timeout"] /\ waiters' = waiters \ {r}
        /\ UNCHANGED <<up, polling, timer, loops, queue, dlq, settled, writable, file, saved,
                       sent, expired, heard, spent>>
    BY <1>3 DEF TimeOut, AfterTimeout, poll, disk, ghosts
  <2>2. request' \in [Request -> Standing]
    BY <1>0, <2>1 DEF Standing
  <2>. QED BY <1>0, <2>1, <2>2
<1>4. CASE Start
  <2>1. PICK l \in Loop : loops' = [loops EXCEPT ![l] = Resting("timer")] /\ timer' = l
    BY <1>4 DEF Start
  <2>2. loops' \in [Loop -> LoopState]
    BY <1>0, <2>1 DEF LoopState
  <2>. QED BY <1>0, <1>4, <2>1, <2>2 DEF Start, letter, disk, ghosts
<1>5. ASSUME StopPolling
      PROVE  loops' \in [Loop -> LoopState] /\ timer' \in Loop \cup {NoLoop} /\ polling' \in BOOLEAN
  <2>1. loops' = [l \in Loop |-> IF l = timer /\ loops[l].how = "timer" THEN Resting("none") ELSE loops[l]]
    BY <1>5 DEF StopPolling
  <2>2. loops' \in [Loop -> LoopState]
    BY <1>0, <2>1 DEF LoopState
  <2>. QED BY <1>5, <2>2 DEF StopPolling
<1>6. ASSUME spent.stops < MaxStops, spent' = [spent EXCEPT !.stops = @ + 1]
      PROVE  spent' \in [stops : 0 .. MaxStops, crashes : 0 .. MaxCrashes]
  <2>1. spent.stops \in Nat /\ spent.stops + 1 \in 0 .. MaxStops
    BY <1>0, <1>6
  <2>. QED BY <1>0, <1>6, <2>1
<1>7. CASE Stop
  <2>1. /\ StopPolling /\ spent.stops < MaxStops /\ spent' = [spent EXCEPT !.stops = @ + 1]
        /\ UNCHANGED <<up, queue, dlq, waiters, request, settled, writable, file, saved, sent, expired, heard>>
    BY <1>7 DEF Stop, letter, disk
  <2>. QED BY <1>0, <1>5, <1>6, <2>1
<1>8. CASE Close
  <2>1. /\ StopPolling /\ spent.stops < MaxStops /\ spent' = [spent EXCEPT !.stops = @ + 1]
        /\ request' = AfterClose /\ waiters' = {} /\ writable' = FALSE
        /\ UNCHANGED <<up, queue, dlq, settled, file, saved, sent, expired, heard>>
    BY <1>8 DEF Close
  <2>2. request' \in [Request -> Standing]
    BY <1>0, <2>1 DEF AfterClose, Standing
  <2>. QED BY <1>0, <1>5, <1>6, <2>1, <2>2
<1>9. ASSUME NEW l \in Loop, Fire(l) \/ Settle(l) PROVE Types'
  <2>1. UNCHANGED <<up, polling, writable, file, saved, sent, expired, spent>>
    BY <1>9, CycleDoes DEF disk
  <2>2. PICK q \in Seq(Message), gone \in SUBSET sent :
           /\ Clears(l, q, gone)
           /\ \/ Ends(l, q)
              \/ \E i \in DOMAIN q, how \in {"done", "failed", "handled"}, n \in 0 .. Batch - 1 :
                    Takes(l, q, i, how, n)
    BY <1>9, CycleDoes
  <2>3. /\ dlq' \in Seq(Message) /\ Len(dlq') <= DlqMax /\ settled' \subseteq sent
        /\ Range(q) \subseteq sent
    BY <1>0, <2>2 DEF Clears
  <2>4. CASE Ends(l, q)
    <3>1. loops' \in [Loop -> LoopState]
      BY <1>0, <2>4 DEF Ends, LoopState
    <3>2. queue' = q /\ timer' \in Loop \cup {NoLoop} /\ UNCHANGED <<waiters, request, heard>>
      BY <1>0, <2>4 DEF Ends
    <3>. QED BY <1>0, <2>1, <2>2, <2>3, <3>1, <3>2
  <2>5. ASSUME NEW i \in DOMAIN q, NEW how \in {"done", "failed", "handled"}, NEW n \in 0 .. Batch - 1,
               Takes(l, q, i, how, n)
        PROVE  Types'
    <3>1. q[i] \in Message /\ q[i] \in sent
      BY <2>3 DEF Range
    <3>2. queue' \in Seq(Message) /\ UNCHANGED timer
      BY <2>5, RangeOfRemoveAt DEF Takes
    <3>3. loops' \in [Loop -> LoopState]
      BY <1>0, <2>5, <3>1 DEF Takes, LoopState
    <3>4. waiters' \subseteq Request /\ request' \in [Request -> Standing] /\ heard' \subseteq sent
      <4>1. CASE /\ q[i] \notin Plains /\ waiters' = waiters \ {q[i].id} /\ UNCHANGED heard
                 /\ request' = [request EXCEPT ![q[i].id] = Got[q[i].kind]]
        <5>1. Got[q[i].kind] \in Standing
          BY <3>1, <4>1, MessageTypes DEF Standing
        <5>. QED BY <1>0, <4>1, <5>1
      <4>2. CASE heard' \in {heard, heard \cup {q[i]}} /\ UNCHANGED <<waiters, request>>
        BY <1>0, <3>1, <4>2
      <4>. QED BY <2>5, <4>1, <4>2 DEF Takes, Meets
    <3>. QED BY <1>0, <2>1, <2>3, <3>2, <3>3, <3>4
  <2>. QED BY <2>2, <2>4, <2>5
<1>10. ASSUME NEW m \in Message, Expire(m) PROVE Types'
  BY <1>0, <1>10 DEF Expire, poll, letter, disk
<1>11. CASE Save
  <2>1. saved' \in 0 .. Len(file) /\ UNCHANGED <<up, polling, timer, loops, queue, dlq, waiters,
           request, settled, writable, file, sent, expired, heard, spent>>
    BY <1>0, <1>11 DEF Save, poll, letter, ghosts
  <2>. QED BY <1>0, <2>1
<1>12. CASE Crash
  <2>1. file' \in Seq(Message) /\ Len(file') = saved
    <3>1. /\ saved \in 0 .. Len(file) /\ Len(file) \in Nat /\ DOMAIN file = 1 .. Len(file)
          /\ file \in Seq(Message) /\ saved \in Int /\ 1 \in Int
      BY <1>0
    <3>2. \A k \in 1 .. saved : file[k] \in Message
      BY <3>1
    <3>3. SubSeq(file, 1, saved) \in Seq(Message)
          /\ Len(SubSeq(file, 1, saved)) = IF 1 <= saved THEN saved - 1 + 1 ELSE 0
      BY <3>1, <3>2, SubSeqProperties
    <3>4. file' = SubSeq(file, 1, saved)
      BY <1>12 DEF Crash
    <3>. QED BY <3>1, <3>3, <3>4
  <2>2. spent' \in [stops : 0 .. MaxStops, crashes : 0 .. MaxCrashes]
    <3>1. spent.crashes \in Nat /\ spent.crashes < MaxCrashes /\ spent' = [spent EXCEPT !.crashes = @ + 1]
      BY <1>0, <1>12 DEF Crash
    <3>2. spent.crashes + 1 \in 0 .. MaxCrashes
      BY <1>0, <3>1
    <3>. QED BY <1>0, <3>1, <3>2
  <2>3. loops' \in [Loop -> LoopState] /\ request' \in [Request -> Standing]
    BY <1>12 DEF Crash, LoopState, Standing
  <2>4. <<>> \in Seq(Message) /\ Len(<<>>) = 0
    OBVIOUS
  <2>5. /\ up' = FALSE /\ polling' = FALSE /\ timer' = NoLoop
        /\ queue' = <<>> /\ dlq' = <<>> /\ waiters' = {} /\ settled' = {}
        /\ UNCHANGED <<writable, saved, sent, expired, heard>>
    BY <1>12 DEF Crash
  <2>6. Len(dlq') <= DlqMax /\ saved' \in 0 .. Len(file')
    BY <1>0, <2>1, <2>4, <2>5
  <2>. QED BY <1>0, <2>1, <2>2, <2>3, <2>4, <2>5, <2>6
<1>13. CASE Restart
  <2>1. queue' \in Seq(Message)
    BY <1>0, <1>13, Swept DEF Restart
  <2>2. /\ up' = TRUE /\ file' = <<>> /\ saved' = 0 /\ writable' = TRUE
        /\ UNCHANGED <<polling, timer, loops, dlq, waiters, request, settled, sent, expired, heard, spent>>
    BY <1>13 DEF Restart, poll, ghosts
  <2>3. file' \in Seq(Message) /\ saved' \in 0 .. Len(file')
    BY <2>2
  <2>. QED BY <1>0, <2>1, <2>2, <2>3
<1>14. CASE UNCHANGED vars
  BY <1>0, <1>14 DEF vars, poll, letter, disk, ghosts
<1>. QED
  BY <1>1, <1>2, <1>3, <1>4, <1>7, <1>8, <1>9, <1>10, <1>11, <1>12, <1>13, <1>14, Steps

-----------------------------------------------------------------------------
(* One place for each message.                                             *)

\* Starting and stopping leaves the cycles that are under way alone.
LEMMA CyclesGoOn ==
    ASSUME loops \in [Loop -> LoopState], Start \/ StopPolling
    PROVE  /\ InFlight' = InFlight
           /\ \A k \in Loop : Busy(k)' <=> Busy(k)
           /\ \A k \in Loop : Busy(k) => loops'[k] = loops[k]
<1>1. \A x \in {"none", "timer"} : Resting(x).how = x
  BY DEF Resting
<1>2. \A k \in Loop : loops'[k] = loops[k] \/ (~Busy(k) /\ ~Busy(k)')
  <2>1. CASE Start
    <3>1. PICK l \in Loop : loops[l].how = "none" /\ loops' = [loops EXCEPT ![l] = Resting("timer")]
      BY <2>1 DEF Start
    <3>2. \A k \in Loop : loops'[k] = IF k = l THEN Resting("timer") ELSE loops[k]
      BY <3>1, FlightAfter
    <3>. QED BY <1>1, <3>1, <3>2 DEF Busy
  <2>2. CASE StopPolling
    <3>1. \A k \in Loop :
             loops'[k] = IF k = timer /\ loops[k].how = "timer" THEN Resting("none") ELSE loops[k]
      BY <2>2 DEF StopPolling
    <3>. QED BY <1>1, <3>1 DEF Busy
  <2>. QED BY <2>1, <2>2
<1>3. \A k \in Loop : (Busy(k)' <=> Busy(k)) /\ (Busy(k) => loops'[k] = loops[k])
  BY <1>2 DEF Busy
<1>. QED BY <1>3 DEF InFlight

\* What the file keeps when the process ends is its beginning.
LEMMA FileAfter ==
    ASSUME Types, Crash
    PROVE  /\ Range(file') \subseteq Range(file)
           /\ IsInjective(file) => IsInjective(file')
<1>1. /\ saved \in 0 .. Len(file) /\ Len(file) \in Nat /\ DOMAIN file = 1 .. Len(file)
      /\ saved \in Int /\ 1 \in Int
  BY DEF Types
<1>2. file' = SubSeq(file, 1, saved)
  BY DEF Crash
<1>3. \A k \in 1 .. saved : file[k] \in Message
  BY <1>1 DEF Types
<1>4. /\ file' \in Seq(Message) /\ Len(file') = saved
      /\ \A k \in 1 .. saved : file'[k] = file[k]
  <2>1. /\ SubSeq(file, 1, saved) \in Seq(Message)
        /\ Len(SubSeq(file, 1, saved)) = IF 1 <= saved THEN saved - 1 + 1 ELSE 0
        /\ \A k \in 1 .. saved - 1 + 1 : SubSeq(file, 1, saved)[k] = file[1 + k - 1]
    BY <1>1, <1>3, SubSeqProperties
  <2>2. saved - 1 + 1 = saved /\ \A k \in 1 .. saved : 1 + k - 1 = k
    BY <1>1
  <2>3. Len(SubSeq(file, 1, saved)) = saved
    BY <1>1, <2>1
  <2>. QED BY <1>2, <2>1, <2>2, <2>3
<1>5. DOMAIN file' = 1 .. saved /\ 1 .. saved \subseteq DOMAIN file
  BY <1>1, <1>4
<1>6. Range(file') \subseteq Range(file)
  BY <1>4, <1>5 DEF Range
<1>7. IsInjective(file) => IsInjective(file')
  BY <1>4, <1>5 DEF IsInjective
<1>. QED BY <1>6, <1>7

\* No cycle is left.
LEMMA NoFlightAfter ==
    ASSUME Crash
    PROVE  InFlight' = {} /\ \A k \in Loop : ~Busy(k)' /\ loops'[k].how = "none"
<1>1. \A k \in Loop : loops'[k].how = "none"
  BY DEF Crash, Resting
<1>. QED BY <1>1 DEF InFlight, Busy

\* The empty sequence.
LEMMA NothingIn == Range(<<>>) = {} /\ IsInjective(<<>>)
BY DEF Range, IsInjective

\* Nothing unsent gets anywhere.
LEMMA KnownStep ==
    ASSUME WellTyped, [Next]_vars
    PROVE  Known'
<1>1. /\ queue \in Seq(Message) /\ file \in Seq(Message) /\ sent \subseteq Message
      /\ loops \in [Loop -> LoopState]
      /\ Range(queue) \subseteq sent /\ InFlight \subseteq sent /\ Range(file) \subseteq sent
  BY DEF WellTyped, Types, Known
<1>2. CASE UNCHANGED <<loops, queue, file, sent>>
  BY <1>1, <1>2 DEF Known, InFlight, Busy
<1>3. CASE (Start \/ StopPolling) /\ UNCHANGED <<queue, file, sent>>
  BY <1>1, <1>3, CyclesGoOn DEF Known
<1>4. ASSUME NEW m \in Message, Sends(m) PROVE Known'
  <2>1. /\ queue' = Append(queue, m) /\ file' \in {file, Append(file, m)}
        /\ sent' = sent \cup {m} /\ loops' = loops
    BY <1>4 DEF Sends, Send, poll
  <2>2. Range(Append(queue, m)) = Range(queue) \cup {m} /\ Range(Append(file, m)) = Range(file) \cup {m}
    BY <1>1, RangeOfAppend
  <2>3. InFlight' = InFlight
    BY <2>1 DEF InFlight, Busy
  <2>. QED BY <1>1, <2>1, <2>2, <2>3 DEF Known
<1>5. ASSUME NEW l \in Loop, Fire(l) \/ Settle(l) PROVE Known'
  <2>1. UNCHANGED <<file, sent>>
    BY <1>5, CycleDoes DEF disk
  <2>2. PICK q \in Seq(Message), gone \in SUBSET sent :
           /\ Clears(l, q, gone)
           /\ \/ Ends(l, q)
              \/ \E i \in DOMAIN q, how \in {"done", "failed", "handled"}, n \in 0 .. Batch - 1 :
                    Takes(l, q, i, how, n)
    BY <1>5, CycleDoes
  <2>3. Range(q) \subseteq sent /\ Elsewhere(l) \subseteq sent
    BY <1>1, <2>2 DEF Clears
  <2>4. CASE Ends(l, q)
    <3>1. InFlight' = Elsewhere(l)
      BY <1>1, <2>4, FlightEnds
    <3>. QED BY <1>1, <2>1, <2>3, <2>4, <3>1 DEF Known, Ends
  <2>5. ASSUME NEW i \in DOMAIN q, NEW how \in {"done", "failed", "handled"}, NEW n \in 0 .. Batch - 1,
               Takes(l, q, i, how, n)
        PROVE  Known'
    <3>1. InFlight' = Elsewhere(l) \cup {q[i]}
      BY <1>1, <2>5, FlightTakes
    <3>2. q[i] \in sent
      BY <2>3 DEF Range
    <3>3. Range(queue') \subseteq Range(q)
      BY <2>5, RangeOfRemoveAt DEF Takes
    <3>. QED BY <1>1, <2>1, <2>3, <3>1, <3>2, <3>3 DEF Known
  <2>. QED BY <2>2, <2>4, <2>5
<1>6. CASE Crash
  <2>1. queue' = <<>> /\ UNCHANGED sent
    BY <1>6 DEF Crash
  <2>2. Range(file') \subseteq Range(file)
    BY <1>6, FileAfter DEF WellTyped
  <2>. QED BY <1>1, <1>6, <2>1, <2>2, NoFlightAfter, NothingIn DEF Known
<1>7. CASE Restart
  <2>1. queue' = InTime(file) /\ file' = <<>> /\ UNCHANGED <<loops, sent>>
    BY <1>7 DEF Restart, poll, ghosts
  <2>2. Range(queue') \subseteq Range(file)
    BY <1>1, <2>1, Swept
  <2>3. InFlight' = InFlight
    BY <2>1 DEF InFlight, Busy
  <2>. QED BY <1>1, <2>1, <2>2, <2>3, NothingIn DEF Known
<1>8. ASSUME NEW r \in Request, AwaitReply(r) \/ TimeOut(r)
      PROVE  UNCHANGED <<loops, queue, file, sent>>
  BY <1>8 DEF AwaitReply, TimeOut, poll, disk, ghosts
<1>9. ASSUME NEW m \in Message, Expire(m)
      PROVE  UNCHANGED <<loops, queue, file, sent>>
  BY <1>9 DEF Expire, poll, letter, disk
<1>10. Start => UNCHANGED <<queue, file, sent>>
  BY DEF Start, letter, disk, ghosts
<1>11. Stop \/ Close => StopPolling /\ UNCHANGED <<queue, file, sent>>
  BY DEF Stop, Close, letter, disk
<1>12. Save \/ UNCHANGED vars => UNCHANGED <<loops, queue, file, sent>>
  BY DEF Save, vars, poll, letter, disk, ghosts
<1>. QED
  BY <1>2, <1>3, <1>4, <1>5, <1>6, <1>7, <1>8, <1>9, <1>10, <1>11, <1>12, Steps

\* Nothing happens between two processes but that time passes.
LEMMA DownStep ==
    ASSUME WellTyped, [Next]_vars
    PROVE  ~up' => Down'
<1>1. CASE Crash
  <2>1. /\ ~polling' /\ timer' = NoLoop /\ queue' = <<>> /\ waiters' = {} /\ settled' = {}
        /\ spent' = [spent EXCEPT !.crashes = @ + 1]
    BY <1>1 DEF Crash
  <2>2. spent'.crashes > 0
    <3>1. spent \in [stops : 0 .. MaxStops, crashes : 0 .. MaxCrashes] /\ MaxCrashes \in Nat
      BY MailboxAssumption DEF WellTyped, Types, MailboxAssumption
    <3>2. spent.crashes \in Nat
      BY <3>1
    <3>3. spent'.crashes = spent.crashes + 1
      BY <2>1, <3>1
    <3>. QED BY <3>2, <3>3
  <2>. QED BY <1>1, <2>1, <2>2, NoFlightAfter DEF Down
<1>2. CASE UNCHANGED <<up, poll, queue, waiters, settled, spent>>
  BY <1>2 DEF WellTyped, Down, poll, Busy
<1>3. CASE up' = TRUE
  BY <1>3
<1>4. \A m \in Message : Expire(m) => UNCHANGED <<up, poll, queue, waiters, settled, spent>>
  BY DEF Expire, letter
<1>5. UNCHANGED vars => UNCHANGED <<up, poll, queue, waiters, settled, spent>>
  BY DEF vars, letter, ghosts
<1>6. (\E m \in Message : Sends(m)) \/ (\E r \in Request : AwaitReply(r) \/ TimeOut(r))
      \/ Start \/ Stop \/ Close \/ (\E l \in Loop : Fire(l) \/ Settle(l)) \/ Save \/ Restart
      => up' = TRUE
  <2>1. up \in BOOLEAN
    BY DEF WellTyped, Types
  <2>2. \A m \in Message : Sends(m) => up' = TRUE
    BY <2>1 DEF Sends, Send
  <2>3. \A r \in Request : AwaitReply(r) \/ TimeOut(r) => up' = TRUE
    BY <2>1 DEF AwaitReply, TimeOut
  <2>4. \A l \in Loop : Fire(l) \/ Settle(l) => up' = TRUE
    BY <2>1 DEF Fire, Settle
  <2>5. Start \/ Stop \/ Close \/ Save \/ Restart => up' = TRUE
    BY <2>1 DEF Start, Stop, Close, Save, Restart
  <2>. QED BY <2>2, <2>3, <2>4, <2>5
<1>. QED BY <1>1, <1>2, <1>3, <1>4, <1>5, <1>6, Steps

\* Every message stays in one place.
LEMMA PlacesStep ==
    ASSUME WellTyped, Places, [Next]_vars
    PROVE  Places'
<1>1. /\ queue \in Seq(Message) /\ file \in Seq(Message) /\ loops \in [Loop -> LoopState]
      /\ spent \in [stops : 0 .. MaxStops, crashes : 0 .. MaxCrashes]
      /\ Range(queue) \subseteq sent /\ InFlight \subseteq sent /\ Range(file) \subseteq sent
      /\ settled \subseteq sent
  BY DEF WellTyped, Types, Known
<1>2. CASE UNCHANGED <<queue, file, loops, settled, sent, spent>>
  BY <1>2 DEF Places, InFlight, Busy
<1>3. CASE (Start \/ StopPolling) /\ UNCHANGED <<queue, file, settled, sent>>
           /\ spent'.crashes = spent.crashes
  BY <1>1, <1>3, CyclesGoOn DEF Places
<1>4. ASSUME NEW m \in Message, Sends(m) PROVE Places'
  <2>1. /\ queue' = Append(queue, m) /\ file' \in {file, Append(file, m)}
        /\ sent' = sent \cup {m} /\ m \notin sent
        /\ UNCHANGED <<loops, settled, spent>>
    BY <1>4 DEF Sends, Send, poll
  <2>2. Range(queue') = Range(queue) \cup {m}
    BY <1>1, <2>1, RangeOfAppend
  <2>3. IsInjective(queue') /\ IsInjective(file')
    <3>1. m \notin Range(queue) /\ m \notin Range(file) /\ IsInjective(queue) /\ IsInjective(file)
      BY <1>1, <2>1 DEF Places
    <3>2. IsInjective(Append(queue, m))
      BY <1>1, <3>1, AppendedOnce
    <3>3. IsInjective(Append(file, m))
      BY <1>1, <3>1, AppendedOnce
    <3>. QED BY <2>1, <3>1, <3>2, <3>3
  <2>4. InFlight' = InFlight
    BY <2>1 DEF InFlight, Busy
  <2>5. \A k, l \in Loop : Busy(k)' /\ Busy(l)' /\ loops'[k].message = loops'[l].message => k = l
    BY <2>1 DEF Places, Busy
  <2>. QED BY <1>1, <2>1, <2>2, <2>3, <2>4, <2>5 DEF Places
<1>5. ASSUME NEW l \in Loop, Fire(l) \/ Settle(l) PROVE Places'
  <2>1. UNCHANGED <<file, sent, spent>>
    BY <1>5, CycleDoes DEF disk
  <2>2. PICK q \in Seq(Message), gone \in SUBSET sent :
           /\ Clears(l, q, gone)
           /\ \/ Ends(l, q)
              \/ \E i \in DOMAIN q, how \in {"done", "failed", "handled"}, n \in 0 .. Batch - 1 :
                    Takes(l, q, i, how, n)
    BY <1>5, CycleDoes
  <2>3. /\ IsInjective(q) /\ settled' = settled \cup gone
        /\ Range(q) \cap Elsewhere(l) = {}
        /\ (Range(q) \cup Elsewhere(l)) \cap settled' = {}
        /\ spent.crashes = 0 => sent = Range(q) \cup Elsewhere(l) \cup settled'
    <3>1. Elsewhere(l) \subseteq InFlight
      BY InHand
    <3>. QED BY <2>2, <3>1 DEF Clears, Places
  <2>4. \A k, j \in Loop :
           k # l /\ j # l /\ Busy(k) /\ Busy(j) /\ loops[k].message = loops[j].message => k = j
    BY DEF Places
  <2>5. CASE Ends(l, q)
    <3>1. /\ \A k \in Loop : k # l => loops'[k] = loops[k]
          /\ loops'[l].how \in {"none", "timer"} /\ InFlight' = Elsewhere(l)
      BY <1>1, <2>5, FlightEnds
    <3>2. \A k, j \in Loop : Busy(k)' /\ Busy(j)' /\ loops'[k].message = loops'[j].message => k = j
      BY <2>4, <3>1 DEF Busy
    <3>3. queue' = q
      BY <2>5 DEF Ends
    <3>. QED BY <2>1, <2>3, <3>1, <3>2, <3>3 DEF Places
  <2>6. ASSUME NEW i \in DOMAIN q, NEW how \in {"done", "failed", "handled"}, NEW n \in 0 .. Batch - 1,
               Takes(l, q, i, how, n)
        PROVE  Places'
    <3>1. /\ \A k \in Loop : k # l => loops'[k] = loops[k]
          /\ loops'[l].message = q[i] /\ InFlight' = Elsewhere(l) \cup {q[i]}
      BY <1>1, <2>6, FlightTakes
    <3>2. Range(queue') = Range(q) \ {q[i]} /\ IsInjective(queue')
      BY <2>3, <2>6, RangeOfRemoveAt DEF Takes
    <3>3. q[i] \in Range(q)
      BY DEF Range
    <3>4. \A k \in Loop : k # l /\ Busy(k)' => loops'[k].message \in Elsewhere(l)
      BY <3>1 DEF Busy, Elsewhere
    <3>5. \A k \in Loop : k # l /\ Busy(k)' => loops'[k].message # q[i]
      BY <2>3, <3>3, <3>4
    <3>6. \A k, j \in Loop : Busy(k)' /\ Busy(j)' /\ loops'[k].message = loops'[j].message => k = j
      <4>1. ASSUME NEW k \in Loop, NEW j \in Loop, Busy(k)', Busy(j)',
                   loops'[k].message = loops'[j].message
            PROVE  k = j
        <5>1. CASE k # l /\ j # l
          BY <2>4, <3>1, <4>1, <5>1 DEF Busy
        <5>2. CASE k = l \/ j = l
          BY <3>1, <3>5, <4>1, <5>2
        <5>. QED BY <5>1, <5>2
      <4>. QED BY <4>1
    <3>7. /\ Range(queue') \cap InFlight' = {}
          /\ (Range(queue') \cup InFlight') \cap settled' = {}
      BY <2>3, <3>1, <3>2, <3>3
    <3>8. spent'.crashes = 0 => sent' = Range(queue') \cup InFlight' \cup settled'
      BY <2>1, <2>3, <3>1, <3>2, <3>3
    <3>9. IsInjective(file')
      BY <2>1 DEF Places
    <3>. QED BY <3>2, <3>6, <3>7, <3>8, <3>9 DEF Places
  <2>. QED BY <2>2, <2>5, <2>6
<1>6. CASE Crash
  <2>1. queue' = <<>> /\ settled' = {} /\ up' = FALSE
    BY <1>6 DEF Crash
  <2>2. IsInjective(file')
    BY <1>6, FileAfter DEF WellTyped, Places
  <2>3. spent'.crashes > 0
    BY <2>1, DownStep DEF Down
  <2>4. spent'.crashes # 0
    <3>1. spent'.crashes \in Nat
      BY TypesStep DEF Types
    <3>. QED BY <2>3, <3>1
  <2>. QED BY <1>6, <2>1, <2>2, <2>4, NoFlightAfter, NothingIn DEF Places
<1>7. CASE Restart
  <2>1. queue' = InTime(file) /\ file' = <<>> /\ UNCHANGED <<loops, sent, settled, spent>>
    BY <1>7 DEF Restart, poll, ghosts
  <2>2. Down
    BY <1>7 DEF Restart, WellTyped
  <2>3. spent'.crashes # 0
    <3>1. spent.crashes \in Nat
      BY <1>1
    <3>. QED BY <2>1, <2>2, <3>1 DEF Down
  <2>4. InFlight' = {} /\ settled' = {} /\ \A k \in Loop : ~Busy(k)'
    BY <2>1, <2>2 DEF Down, InFlight, Busy
  <2>5. IsInjective(queue')
    BY <1>1, <2>1, Swept DEF Places
  <2>. QED BY <2>1, <2>3, <2>4, <2>5, NothingIn DEF Places
<1>8. ASSUME NEW r \in Request, AwaitReply(r) \/ TimeOut(r)
      PROVE  UNCHANGED <<queue, file, loops, settled, sent, spent>>
  BY <1>8 DEF AwaitReply, TimeOut, poll, disk, ghosts
<1>9. ASSUME NEW m \in Message, Expire(m)
      PROVE  UNCHANGED <<queue, file, loops, settled, sent, spent>>
  BY <1>9 DEF Expire, poll, letter, disk
<1>10. Start => UNCHANGED <<queue, file, settled, sent>> /\ spent'.crashes = spent.crashes
  BY DEF Start, letter, disk, ghosts
<1>11. Stop \/ Close => /\ StopPolling /\ UNCHANGED <<queue, file, settled, sent>>
                        /\ spent'.crashes = spent.crashes
  <2>1. spent' = [spent EXCEPT !.stops = @ + 1] => spent'.crashes = spent.crashes
    BY <1>1
  <2>. QED BY <2>1 DEF Stop, Close, letter, disk
<1>12. Save \/ UNCHANGED vars => UNCHANGED <<queue, file, loops, settled, sent, spent>>
  BY DEF Save, vars, poll, letter, disk, ghosts
<1>. QED
  BY <1>2, <1>3, <1>4, <1>5, <1>6, <1>7, <1>8, <1>9, <1>10, <1>11, <1>12, Steps

-----------------------------------------------------------------------------
(* The promises of the requests, and the dead letters.                     *)

\* A request leaves "waiting" exactly when its waiter goes.
LEMMA PromisesStep ==
    ASSUME WellTyped, Promises, [Next]_vars
    PROVE  Promises'
<1>1. /\ waiters \subseteq Request /\ request \in [Request -> Standing]
      /\ waiters = {r \in Request : request[r] = "waiting"}
      /\ \A r \in Request : request[r] # "none" => [kind |-> "request", id |-> r] \in sent
  BY DEF WellTyped, Types, Promises, WaitersAreWaiting
<1>2. CASE UNCHANGED <<waiters, request, sent>>
  BY <1>1, <1>2 DEF Promises, WaitersAreWaiting
<1>3. ASSUME NEW m \in Message, Sends(m) PROVE Promises'
  <2>1. sent' = sent \cup {m} /\ m \notin sent /\ waiters' = waiters
    BY <1>3 DEF Sends, Send
  <2>2. CASE request' = request
    BY <1>1, <2>1, <2>2 DEF Promises, WaitersAreWaiting
  <2>3. ASSUME NEW r \in Request, m = [kind |-> "request", id |-> r],
               request' = [request EXCEPT ![r] = "sent"]
        PROVE  Promises'
    <3>1. request[r] = "none"
      BY <1>1, <2>1, <2>3
    <3>2. \A s \in Request : request'[s] = IF s = r THEN "sent" ELSE request[s]
      BY <1>1, <2>3
    <3>3. \A s \in Request : request'[s] # "none" => [kind |-> "request", id |-> s] \in sent'
      BY <1>1, <2>1, <2>3, <3>2
    <3>4. waiters' = {s \in Request : request'[s] = "waiting"}
      BY <1>1, <2>1, <3>1, <3>2
    <3>. QED BY <3>3, <3>4 DEF Promises, WaitersAreWaiting
  <2>. QED BY <1>3, <2>2, <2>3 DEF Sends
<1>4. ASSUME NEW r \in Request, request[r] # "none", NEW x \in Standing, x # "none",
             request' = [request EXCEPT ![r] = x], sent' = sent,
             waiters' = IF x = "waiting" THEN waiters \cup {r} ELSE waiters \ {r}
      PROVE  Promises'
  <2>1. \A s \in Request : request'[s] = IF s = r THEN x ELSE request[s]
    BY <1>1, <1>4
  <2>2. \A s \in Request : request'[s] # "none" => [kind |-> "request", id |-> s] \in sent'
    BY <1>1, <1>4, <2>1
  <2>3. waiters' = {s \in Request : request'[s] = "waiting"}
    BY <1>1, <1>4, <2>1
  <2>. QED BY <2>2, <2>3 DEF Promises, WaitersAreWaiting
<1>5. ASSUME NEW r \in Request, AwaitReply(r) PROVE Promises'
  <2>1. /\ request[r] # "none" /\ request' = [request EXCEPT ![r] = "waiting"]
        /\ sent' = sent /\ waiters' = waiters \cup {r}
    BY <1>5 DEF AwaitReply, ghosts
  <2>2. "waiting" \in Standing
    BY DEF Standing
  <2>. QED BY <1>4, <2>1, <2>2
<1>6. ASSUME NEW r \in Request, TimeOut(r) PROVE Promises'
  <2>1. /\ request[r] # "none" /\ request' = [request EXCEPT ![r] = "timeout"]
        /\ sent' = sent /\ waiters' = waiters \ {r}
    BY <1>1, <1>6 DEF TimeOut, AfterTimeout, ghosts
  <2>2. "timeout" \in Standing
    BY DEF Standing
  <2>. QED BY <1>4, <2>1, <2>2
<1>7. CASE Close
  <2>1. request' = AfterClose /\ waiters' = {} /\ sent' = sent
    BY <1>7 DEF Close
  <2>2. \A r \in Request : request'[r] = IF r \in waiters THEN "closed" ELSE request[r]
    BY <2>1 DEF AfterClose
  <2>. QED BY <1>1, <2>1, <2>2 DEF Promises, WaitersAreWaiting
<1>8. CASE Crash
  <2>1. waiters' = {} /\ sent' = sent
        /\ request' = [r \in Request |-> IF request[r] = "none" THEN "none" ELSE "lost"]
    BY <1>8 DEF Crash
  <2>2. \A r \in Request : request'[r] = IF request[r] = "none" THEN "none" ELSE "lost"
    BY <2>1
  <2>. QED BY <1>1, <2>1, <2>2 DEF Promises, WaitersAreWaiting
<1>9. ASSUME NEW l \in Loop, Fire(l) \/ Settle(l) PROVE Promises'
  <2>1. sent' = sent
    BY <1>9, CycleDoes
  <2>2. PICK q \in Seq(Message) :
           \/ Ends(l, q)
           \/ \E i \in DOMAIN q, how \in {"done", "failed", "handled"}, n \in 0 .. Batch - 1 :
                 Takes(l, q, i, how, n)
    BY <1>9, CycleDoes
  <2>3. CASE UNCHANGED <<waiters, request>>
    BY <1>2, <2>1, <2>3
  <2>4. ASSUME NEW m \in Message, m \notin Plains, m.id \in waiters,
               waiters' = waiters \ {m.id},
               request' = [request EXCEPT ![m.id] = Got[m.kind]]
        PROVE  Promises'
    <3> DEFINE r == m.id
               x == Got[m.kind]
    <3>1. r \in Request /\ x \in {"got request", "got reply"}
      BY <2>4, MessageTypes
    <3>2. request[r] # "none" /\ waiters' = waiters \ {r} /\ request' = [request EXCEPT ![r] = x]
      BY <1>1, <2>4
    <3> HIDE DEF r, x
    <3>3. x \in Standing /\ x # "none" /\ x # "waiting"
      BY <3>1 DEF Standing
    <3>. QED BY <1>4, <2>1, <3>1, <3>2, <3>3
  <2>5. ASSUME NEW i \in DOMAIN q, NEW how \in {"done", "failed", "handled"}, NEW n \in 0 .. Batch - 1,
               Takes(l, q, i, how, n)
        PROVE  Promises'
    <3>1. q[i] \in Message
      OBVIOUS
    <3>. QED BY <2>3, <2>4, <2>5, <3>1 DEF Takes, Meets
  <2>6. Ends(l, q) => UNCHANGED <<waiters, request>>
    BY DEF Ends
  <2>. QED BY <2>2, <2>3, <2>5, <2>6
<1>10. Start \/ Stop => UNCHANGED <<waiters, request, sent>>
  BY DEF Start, Stop, letter, ghosts
<1>11. ASSUME NEW m \in Message, Expire(m) PROVE UNCHANGED <<waiters, request, sent>>
  BY <1>11 DEF Expire, letter
<1>12. Save \/ Restart \/ UNCHANGED vars => UNCHANGED <<waiters, request, sent>>
  BY DEF Save, Restart, vars, letter, ghosts
<1>. QED
  BY <1>2, <1>3, <1>5, <1>6, <1>7, <1>8, <1>9, <1>10, <1>11, <1>12, Steps

\* A message nobody handles is among the dead letters once it is settled, as
\* long as there is room.
LEMMA DeadLettersStep ==
    ASSUME WellTyped, DeadLetters, [Next]_vars
    PROVE  DeadLetters'
<1> DEFINE Lost(m) == m \in Plains /\ m.id \in Unheard
           Fails(k) == Busy(k) /\ Lost(loops[k].message) => loops[k].how = "failed"
<1>1. /\ queue \in Seq(Message) /\ dlq \in Seq(Message) /\ Len(dlq) <= DlqMax
      /\ loops \in [Loop -> LoopState]
      /\ \A m \in settled : Lost(m) => m \in Range(dlq) \/ Len(dlq) = DlqMax
      /\ \A k \in Loop : Fails(k)
  BY DEF WellTyped, Types, DeadLetters, UnheardIsDead
<1>2. ASSUME \A m \in settled' : Lost(m) => m \in Range(dlq') \/ Len(dlq') = DlqMax,
             \A k \in Loop : Fails(k)'
      PROVE  DeadLetters'
  BY <1>2 DEF DeadLetters, UnheardIsDead
<1>3. CASE UNCHANGED <<settled, dlq, loops>>
  <2>1. \A k \in Loop : Fails(k)'
    BY <1>1, <1>3 DEF Busy
  <2>. QED BY <1>1, <1>2, <1>3, <2>1
<1>4. CASE (Start \/ StopPolling) /\ UNCHANGED <<settled, dlq>>
  <2>1. \A k \in Loop : Fails(k)'
    BY <1>1, <1>4, CyclesGoOn
  <2>. QED BY <1>1, <1>2, <1>4, <2>1
<1>5. ASSUME NEW l \in Loop, Fire(l) \/ Settle(l) PROVE DeadLetters'
  <2>2. PICK q \in Seq(Message), gone \in SUBSET sent :
           /\ Clears(l, q, gone)
           /\ \/ Ends(l, q)
              \/ \E i \in DOMAIN q, how \in {"done", "failed", "handled"}, n \in 0 .. Batch - 1 :
                    Takes(l, q, i, how, n)
    BY <1>5, CycleDoes
  <2>3. /\ settled' = settled \cup gone
        /\ dlq' \in Seq(Message) /\ Len(dlq') <= DlqMax /\ Len(dlq) <= Len(dlq')
        /\ Range(dlq) \subseteq Range(dlq') \/ Len(dlq') = DlqMax
        /\ \A m \in gone : Lost(m) => m \in Range(dlq') \/ Len(dlq') = DlqMax
    BY <2>2 DEF Clears
  <2>4. Len(dlq) = DlqMax => Len(dlq') = DlqMax
    <3>1. Len(dlq) \in Nat /\ Len(dlq') \in Nat
      BY <1>1, <2>3
    <3>. QED BY <2>3, <3>1
  <2>5. \A m \in settled' : Lost(m) => m \in Range(dlq') \/ Len(dlq') = DlqMax
    <3>1. ASSUME NEW m \in settled, Lost(m)
          PROVE  m \in Range(dlq') \/ Len(dlq') = DlqMax
      <4>1. m \in Range(dlq) \/ Len(dlq) = DlqMax
        BY <1>1, <3>1
      <4> HIDE DEF Lost
      <4>. QED BY <2>3, <2>4, <4>1
    <3> HIDE DEF Lost
    <3>. QED BY <2>3, <3>1
  <2>6. CASE Ends(l, q)
    <3>1. /\ \A k \in Loop : k # l => loops'[k] = loops[k]
          /\ loops'[l].how \in {"none", "timer"}
      BY <1>1, <2>6, FlightEnds
    <3>2. \A k \in Loop : Fails(k)'
      BY <1>1, <3>1 DEF Busy
    <3>. QED BY <1>2, <2>5, <3>2
  <2>7. ASSUME NEW i \in DOMAIN q, NEW how \in {"done", "failed", "handled"}, NEW n \in 0 .. Batch - 1,
               Takes(l, q, i, how, n)
        PROVE  DeadLetters'
    <3>1. /\ \A k \in Loop : k # l => loops'[k] = loops[k]
          /\ loops'[l].how = how /\ loops'[l].message = q[i]
      BY <1>1, <2>7, FlightTakes
    <3>2. Lost(q[i]) => how = "failed"
      BY <2>7 DEF Takes, Meets
    <3>3. Fails(l)'
      BY <3>1, <3>2
    <3>4. \A k \in Loop : k # l => Fails(k)'
      BY <1>1, <3>1 DEF Busy
    <3>. QED BY <1>2, <2>5, <3>3, <3>4
  <2>. QED BY <2>2, <2>6, <2>7
<1>6. CASE Crash
  <2>1. settled' = {}
    BY <1>6 DEF Crash
  <2>2. \A k \in Loop : Fails(k)'
    BY <1>6, NoFlightAfter
  <2>. QED BY <1>2, <2>1, <2>2
<1>7. ASSUME NEW m \in Message, Sends(m) \/ Expire(m) PROVE UNCHANGED <<settled, dlq, loops>>
  BY <1>7 DEF Sends, Expire, poll, letter
<1>8. ASSUME NEW r \in Request, AwaitReply(r) \/ TimeOut(r)
      PROVE  UNCHANGED <<settled, dlq, loops>>
  BY <1>8 DEF AwaitReply, TimeOut, poll
<1>9. Start => UNCHANGED <<settled, dlq>>
  BY DEF Start, letter
<1>10. Stop \/ Close => StopPolling /\ UNCHANGED <<settled, dlq>>
  BY DEF Stop, Close, letter
<1>11. Save \/ Restart \/ UNCHANGED vars => UNCHANGED <<settled, dlq, loops>>
  BY DEF Save, Restart, vars, poll, letter
<1>. QED
  BY <1>3, <1>4, <1>5, <1>6, <1>7, <1>8, <1>9, <1>10, <1>11, Steps

-----------------------------------------------------------------------------
(* The number of poll loops.                                               *)

\* The loops there are.
Running == {l \in Loop : loops[l].how # "none"}

\* Loops can be counted.
LEMMA Countable ==
    ASSUME NEW A \in SUBSET Loop
    PROVE  IsFiniteSet(A) /\ Cardinality(A) \in Nat
<1>1. IsFiniteSet(Loop)
  BY MailboxAssumption DEF MailboxAssumption
<1>2. IsFiniteSet(A)
  BY <1>1, FS_Subset
<1>. QED BY <1>2, FS_CardinalityType

\* Where no loop is added, no more are counted.
LEMMA NoMoreLoops ==
    ASSUME NEW A \in SUBSET Loop, NEW B \in SUBSET A
    PROVE  Cardinality(B) <= Cardinality(A)
<1>1. IsFiniteSet(A)
  BY Countable
<1>. QED BY <1>1, FS_Subset

\* A loop is added by start alone, which finds the mailbox not polling, so
\* that the call that stopped it is counted.
LEMMA PollsStep ==
    ASSUME WellTyped, Polls, [Next]_vars
    PROVE  Polls'
<1> DEFINE count == Cardinality(Running)
<1>1. /\ loops \in [Loop -> LoopState] /\ polling \in BOOLEAN
      /\ spent.stops \in Nat /\ spent \in [stops : 0 .. MaxStops, crashes : 0 .. MaxCrashes]
      /\ Running \in SUBSET Loop /\ Running' \in SUBSET Loop
      /\ count \in Nat /\ count' \in Nat
      /\ count <= spent.stops + (IF polling THEN 1 ELSE 0)
  <2>1. loops \in [Loop -> LoopState] /\ polling \in BOOLEAN
        /\ spent \in [stops : 0 .. MaxStops, crashes : 0 .. MaxCrashes]
    BY DEF WellTyped, Types
  <2>2. Running \in SUBSET Loop /\ Running' \in SUBSET Loop
    BY DEF Running
  <2>3. count \in Nat /\ count' \in Nat
    BY <2>2, Countable
  <2>4. count <= spent.stops + (IF polling THEN 1 ELSE 0)
    BY DEF Polls, Running
  <2>5. spent.stops \in Nat
    BY <2>1
  <2>. QED BY <2>1, <2>2, <2>3, <2>4, <2>5
<1>2. ASSUME count' <= spent'.stops + (IF polling' THEN 1 ELSE 0)
      PROVE  Polls'
  BY <1>2 DEF Polls, Running
<1>3. ASSUME Running' \subseteq Running PROVE count' <= count
  BY <1>1, <1>3, NoMoreLoops
<1> HIDE DEF count
<1>4. CASE Running' \subseteq Running /\ spent'.stops = spent.stops /\ polling' = polling
  BY <1>1, <1>2, <1>3, <1>4
<1>5. CASE Start
  <2>1. PICK l \in Loop : loops[l].how = "none" /\ loops' = [loops EXCEPT ![l] = Resting("timer")]
    BY <1>5 DEF Start
  <2>2. \A k \in Loop : loops'[k] = IF k = l THEN Resting("timer") ELSE loops[k]
    BY <1>1, <2>1, FlightAfter
  <2>3. Running' = Running \cup {l} /\ l \notin Running
    BY <2>1, <2>2 DEF Running, Resting
  <2>4. IsFiniteSet(Running)
    BY <1>1, Countable
  <2>5. count' = count + 1
    BY <2>3, <2>4, FS_AddElement DEF count
  <2>6. ~polling /\ polling' = TRUE /\ spent' = spent
    BY <1>5 DEF Start, MayStart, ghosts
  <2>. QED BY <1>1, <1>2, <2>5, <2>6
<1>6. CASE StopPolling /\ spent' = [spent EXCEPT !.stops = @ + 1]
  <2>1. \A k \in Loop :
           loops'[k] = IF k = timer /\ loops[k].how = "timer" THEN Resting("none") ELSE loops[k]
    BY <1>6 DEF StopPolling
  <2>2. Running' \subseteq Running
    BY <2>1 DEF Running, Resting
  <2>3. count' <= count
    BY <1>3, <2>2
  <2>4. spent'.stops = spent.stops + 1
    BY <1>1, <1>6
  <2>5. polling' = FALSE
    BY <1>6 DEF StopPolling
  <2>. QED BY <1>1, <1>2, <2>3, <2>4, <2>5
<1>7. ASSUME NEW l \in Loop, Fire(l) \/ Settle(l) PROVE Polls'
  <2>1. loops[l].how # "none" /\ polling' = polling /\ spent' = spent
    BY <1>7, CycleDoes
  <2>2. PICK q \in Seq(Message) :
           \/ Ends(l, q)
           \/ \E i \in DOMAIN q, how \in {"done", "failed", "handled"}, n \in 0 .. Batch - 1 :
                 Takes(l, q, i, how, n)
    BY <1>7, CycleDoes
  <2>3. \A k \in Loop : k # l => loops'[k] = loops[k]
    BY <1>1, <2>2, FlightEnds, FlightTakes
  <2>4. Running' \subseteq Running
    BY <2>1, <2>3 DEF Running
  <2>. QED BY <1>4, <2>1, <2>4
<1>8. CASE Crash
  <2>1. Running' = {} /\ polling' = FALSE /\ spent' = [spent EXCEPT !.crashes = @ + 1]
    BY <1>8, NoFlightAfter DEF Running, Crash
  <2>2. spent'.stops = spent.stops
    BY <1>1, <2>1
  <2>3. Running' \subseteq Running
    BY <2>1
  <2>4. count' = 0
    BY <2>1, FS_EmptySet DEF count
  <2>. QED BY <1>1, <1>2, <2>1, <2>2, <2>4
<1>9. CASE UNCHANGED <<loops, polling, spent>>
  <2>1. Running' = Running
    BY <1>9 DEF Running
  <2>. QED BY <1>4, <1>9, <2>1
<1>10. ASSUME NEW m \in Message, Sends(m) \/ Expire(m) PROVE UNCHANGED <<loops, polling, spent>>
  BY <1>10 DEF Sends, Expire, poll
<1>11. ASSUME NEW r \in Request, AwaitReply(r) \/ TimeOut(r)
      PROVE  UNCHANGED <<loops, polling, spent>>
  BY <1>11 DEF AwaitReply, TimeOut, poll, ghosts
<1>12. Stop \/ Close => StopPolling /\ spent' = [spent EXCEPT !.stops = @ + 1]
  BY DEF Stop, Close
<1>13. Save \/ Restart \/ UNCHANGED vars => UNCHANGED <<loops, polling, spent>>
  BY DEF Save, Restart, vars, poll, ghosts
<1>. QED
  BY <1>5, <1>6, <1>7, <1>8, <1>9, <1>10, <1>11, <1>12, <1>13, Steps

-----------------------------------------------------------------------------
(* The mailbox is correct.                                                 *)

\* The first process starts with nothing.
LEMMA MailboxInit == Init => MailboxInv
<1> SUFFICES ASSUME Init
             PROVE  MailboxInv
  OBVIOUS
<1>1. /\ DlqMax \in Nat \ {0} /\ {MaxStops, MaxCrashes} \subseteq Nat
  BY MailboxAssumption DEF MailboxAssumption
<1>2. \A l \in Loop : loops[l] = Resting("none") /\ loops[l].how = "none" /\ ~Busy(l)
  BY DEF Init, Resting, Busy
<1>3. InFlight = {}
  BY <1>2 DEF InFlight
<1>4. Types
  <2>1. loops \in [Loop -> LoopState]
    BY DEF Init, LoopState
  <2>2. request \in [Request -> Standing]
    BY DEF Init, Standing
  <2>3. spent \in [stops : 0 .. MaxStops, crashes : 0 .. MaxCrashes]
    BY <1>1 DEF Init
  <2>4. queue \in Seq(Message) /\ dlq \in Seq(Message) /\ Len(dlq) <= DlqMax
        /\ file \in Seq(Message) /\ saved \in 0 .. Len(file)
    BY <1>1 DEF Init
  <2>. QED BY <2>1, <2>2, <2>3, <2>4 DEF Init, Types
<1>5. WellTyped
  BY <1>3, <1>4, NothingIn DEF Init, WellTyped, Known
<1>6. Places
  BY <1>2, <1>3, NothingIn DEF Init, Places
<1>7. Promises
  BY DEF Init, Promises, WaitersAreWaiting
<1>8. DeadLetters
  BY <1>2 DEF Init, DeadLetters, UnheardIsDead
<1>9. Polls
  <2>1. Running = {}
    BY <1>2 DEF Running
  <2>2. Cardinality(Running) = 0
    BY <2>1, FS_EmptySet
  <2>. QED BY <2>2 DEF Init, Polls, Running
<1>. QED BY <1>5, <1>6, <1>7, <1>8, <1>9 DEF MailboxInv

\* A step keeps all that is invariant.
LEMMA MailboxStep ==
    ASSUME MailboxInv, [Next]_vars
    PROVE  MailboxInv'
<1>1. WellTyped /\ Places /\ Promises /\ DeadLetters /\ Polls
  BY DEF MailboxInv
<1>2. WellTyped'
  BY <1>1, TypesStep, KnownStep, DownStep DEF WellTyped
<1>. QED
  BY <1>1, <1>2, PlacesStep, PromisesStep, DeadLettersStep, PollsStep DEF MailboxInv

\* The invariant that all of the below rests on holds in every reachable
\* state.
THEOREM MailboxHolds == Spec => []MailboxInv
<1>1. MailboxInv /\ [Next]_vars => MailboxInv'
  BY MailboxStep
<1>. QED BY MailboxInit, <1>1, PTL DEF Spec

\* Two cycles never have one message, so there are as many in flight as
\* there are busy loops.
LEMMA InFlightCount ==
    ASSUME Places
    PROVE  Cardinality(InFlight) = Cardinality({l \in Loop : Busy(l)})
<1> DEFINE L == {l \in Loop : Busy(l)}
           f == [l \in L |-> loops[l].message]
<1>1. IsFiniteSet(L)
  BY Countable
<1>2. f \in [L -> InFlight] /\ \A m \in InFlight : \E l \in L : f[l] = m
  BY DEF InFlight
<1>3. f \in Surjection(L, InFlight)
  BY <1>2 DEF Surjection
<1>4. f \in Injection(L, InFlight)
  BY <1>2 DEF Injection, IsInjective, Places
<1> HIDE DEF L, f
<1>5. Cardinality(InFlight) = Cardinality(L)
  BY <1>1, <1>3, <1>4, FS_Surjection
<1>. QED BY <1>5 DEF L

\* A message is in one place, however many cycles interleave.
LEMMA PlacesAreOne ==
    ASSUME WellTyped, Places
    PROVE  OnePlace
<1>1. queue \in Seq(Message) /\ IsInjective(queue)
  BY DEF WellTyped, Types, Places
<1>2. Cardinality(Range(queue)) = Len(queue)
  BY <1>1, LengthIsCount
<1>. QED BY <1>2, InFlightCount DEF OnePlace, Places

\* Every variable of the mailbox has its type; the dead letters are bounded.
THEOREM MailboxTypeCorrect == Spec => []TypeOK
<1>1. MailboxInv => TypeOK
  BY TypesAreOK DEF MailboxInv, WellTyped
<1>. QED BY <1>1, MailboxHolds, PTL

\* No message is handed out twice by a process, and none disappears without a
\* crash, whatever the interleaving of sends, cycles, stops and expiries.
THEOREM EachInOnePlace == Spec => []OnePlace
<1>1. MailboxInv => OnePlace
  BY PlacesAreOne DEF MailboxInv
<1>. QED BY <1>1, MailboxHolds, PTL

\* A settled message that nobody handles is among the dead letters, or these
\* are full: #pushDLQ drops for no other reason.
THEOREM DeadLettersKept == Spec => []UnheardIsDead
<1>1. MailboxInv => UnheardIsDead
  BY DEF MailboxInv, DeadLetters
<1>. QED BY <1>1, MailboxHolds, PTL

\* A waiter is there exactly as long as its caller waits: reply, timeout and
\* close take the two away together.
THEOREM WaitersMatch == Spec => []WaitersAreWaiting
<1>1. MailboxInv => WaitersAreWaiting
  BY DEF MailboxInv, Promises
<1>. QED BY <1>1, MailboxHolds, PTL

\* There is at most one poll loop more than stop and close were called, for
\* every number of loops and calls.
THEOREM PollLoopsBounded == Spec => []LoopsAreBounded
<1>1. ASSUME MailboxInv PROVE LoopsAreBounded
  <2>1. spent.stops \in Nat /\ polling \in BOOLEAN /\ Running \in SUBSET Loop
    <3>1. spent \in [stops : 0 .. MaxStops, crashes : 0 .. MaxCrashes]
      BY <1>1 DEF MailboxInv, WellTyped, Types
    <3>. QED BY <1>1, <3>1 DEF MailboxInv, WellTyped, Types, Running
  <2>2. Cardinality(Running) \in Nat
    BY <2>1, Countable
  <2>3. Cardinality(Running) <= spent.stops + (IF polling THEN 1 ELSE 0)
    BY <1>1 DEF MailboxInv, Polls, Running
  <2>4. Cardinality(Running) <= 1 + spent.stops
    BY <2>1, <2>2, <2>3
  <2>. QED BY <2>4 DEF LoopsAreBounded, Running
<1>. QED BY <1>1, MailboxHolds, PTL
=============================================================================
