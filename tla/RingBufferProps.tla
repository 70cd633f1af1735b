-------------------------- MODULE RingBufferProps --------------------------
(* What the ring buffer must guarantee.                                    *)
EXTENDS RingBuffer, Sequences

\* Every variable has its type, and the cursors of a buffer that was not raced
\* are at most Capacity apart.
RingTypeOK ==
    /\ overwrite \in BOOLEAN
    /\ slots \in [0 .. Capacity - 1 -> Item \cup {None}]
    /\ head \in Nat /\ tail \in Nat
    /\ push \in {"idle", "advance", "write", "publish"}
    /\ pop \in {"idle", "check", "take", "release"}
    /\ pushHead \in Nat /\ pushItem \in Item \cup {None}
    /\ popHead \in Nat /\ popItem \in Item \cup {None}
    /\ answer \in BOOLEAN /\ popped \in Item \cup {None}
    /\ raced \in BOOLEAN
    /\ ~raced => head <= tail /\ tail <= head + Capacity

\* The item that is n-th in the buffer, from 1. A pop may have taken the first
\* one and not yet have moved the cursor.
Nth(n) == IF n = 1 /\ pop = "release" THEN popItem ELSE slots[Index(head + n - 1)]

Contents == [n \in 1 .. tail - head |-> Nth(n)]

Held == IF raced THEN <<>> ELSE Contents

Queue == INSTANCE Fifo WITH items <- Held, broken <- raced

\* ringbuf.rs:5-17: the buffer is a bounded queue, in which an item is visible
\* once its push is over and takes a place until its pop is over; push says
\* whether there was room, pop returns the oldest item, or nothing when there
\* is none. This holds without overwriting, and with it until an overwriting
\* push moves the read cursor while a pop is half done, or has seen a cursor
\* that a pop has moved since (:69).
KeepsFifo == Queue!FifoSpec
=============================================================================
