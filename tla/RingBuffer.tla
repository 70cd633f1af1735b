----------------------------- MODULE RingBuffer -----------------------------
(* 0.kernel/src/ringbuf.rs: a ring buffer between one thread that pushes and  *)
(* one that pops. Each access to a cursor the other thread moves is a step,   *)
(* and so is each use of the slots, which a mutex guards; a relaxed load that *)
(* returns an old value is a load that was done earlier. Cursors do not wrap  *)
(* (they are 64 bits wide), the counters of dropped and overwritten items and *)
(* len are left out.                                                          *)
EXTENDS Integers

CONSTANTS
    Item,           \* what is pushed
    None,           \* an empty slot, or nothing to pop
    Capacity,       \* slots, a power of two
    MaxCursor       \* bound: where the cursors end

ASSUME RingAssumption ==
    /\ Capacity \in Nat /\ Capacity >= 2
    /\ MaxCursor \in Nat
    /\ None \notin Item

VARIABLES
    overwrite,      \* the mode
    slots, head, tail,
    push,           \* the producer: where it is in push,
    pushHead,       \* the read cursor it saw
    pushItem,       \* and what it pushes
    pop,            \* the consumer: where it is in pop,
    popHead,        \* the read cursor it saw
    popItem,        \* and what it took
    answer, popped, \* what the last push and the last pop returned
    raced           \* history: an overwriting push has met a pop half done

producer == <<push, pushHead, pushItem, answer>>
consumer == <<pop, popHead, popItem, popped>>
ringVars == <<overwrite, slots, head, tail, producer, consumer, raced>>

RingInit ==
    /\ overwrite \in BOOLEAN
    /\ slots = [i \in 0 .. Capacity - 1 |-> None]
    /\ head = 0 /\ tail = 0
    /\ push = "idle" /\ pushHead = 0 /\ pushItem = None
    /\ pop = "idle" /\ popHead = 0 /\ popItem = None
    /\ answer = TRUE /\ popped = None
    /\ raced = FALSE

\* & mask
Index(cursor) == cursor % Capacity

\* wrapping_sub makes of a read cursor ahead of the write cursor a full buffer.
Full(h) == tail - h >= Capacity \/ h > tail

-----------------------------------------------------------------------------
(* push: its loads and their check, the advance of the read cursor, the slot, *)
(* and the write cursor, which only push moves.                               *)

PushLoad(x) ==
    /\ push = "idle" /\ tail < MaxCursor
    /\ pushHead' = head
    /\ pushItem' = x
    /\ \/ ~Full(head) /\ push' = "write" /\ UNCHANGED answer
       \/ Full(head) /\ ~overwrite /\ answer' = FALSE /\ UNCHANGED push
       \/ Full(head) /\ overwrite /\ push' = "advance" /\ UNCHANGED answer
    /\ UNCHANGED <<overwrite, slots, head, tail, consumer, raced>>

PushAdvance ==
    /\ push = "advance"
    /\ head' = head + 1
    /\ push' = "write"
    /\ raced' = (raced \/ pop # "idle" \/ head # pushHead)
    /\ UNCHANGED <<overwrite, slots, tail, pushHead, pushItem, answer, consumer>>

PushWrite ==
    /\ push = "write"
    /\ slots' = [slots EXCEPT ![Index(tail)] = pushItem]
    /\ push' = "publish"
    /\ UNCHANGED <<overwrite, head, tail, pushHead, pushItem, answer, consumer, raced>>

PushPublish ==
    /\ push = "publish"
    /\ tail' = tail + 1
    /\ answer' = TRUE
    /\ push' = "idle"
    /\ UNCHANGED <<overwrite, slots, head, pushHead, pushItem, consumer, raced>>

-----------------------------------------------------------------------------
(* pop                                                                        *)

PopLoadHead ==
    /\ pop = "idle" /\ head <= MaxCursor
    /\ popHead' = head
    /\ pop' = "check"
    /\ UNCHANGED <<overwrite, slots, head, tail, producer, popItem, popped, raced>>

\* Bug: an empty buffer is not noticed.
BugIsEmpty == FALSE

IsEmpty == popHead = tail

PopLoadTail ==
    /\ pop = "check"
    /\ IF IsEmpty
       THEN pop' = "idle" /\ popped' = None
       ELSE pop' = "take" /\ UNCHANGED popped
    /\ UNCHANGED <<overwrite, slots, head, tail, producer, popHead, popItem, raced>>

PopTake ==
    /\ pop = "take"
    /\ popItem' = slots[Index(popHead)]
    /\ slots' = [slots EXCEPT ![Index(popHead)] = None]
    /\ pop' = "release"
    /\ UNCHANGED <<overwrite, head, tail, producer, popHead, popped, raced>>

PopRelease ==
    /\ pop = "release"
    /\ head' = head + 1
    /\ popped' = popItem
    /\ pop' = "idle"
    /\ UNCHANGED <<overwrite, slots, tail, producer, popHead, popItem, raced>>

-----------------------------------------------------------------------------
Push == PushAdvance \/ PushWrite \/ PushPublish \/ \E x \in Item : PushLoad(x)

Pop == PopLoadHead \/ PopLoadTail \/ PopTake \/ PopRelease

RingNext == Push \/ Pop

RingSpec == RingInit /\ [][RingNext]_ringVars
=============================================================================
