-------------------------------- MODULE Fifo --------------------------------
(* What the ring buffer promises to one producer and one consumer: a bounded  *)
(* queue, and true answers. In overwrite mode a full queue gives up its       *)
(* oldest item for a new one; nothing is promised any more once that has met  *)
(* a pop half done.                                                           *)
EXTENDS Naturals, Sequences

CONSTANTS Item, Capacity, None

VARIABLES
    items,          \* what is in the queue, the oldest first
    overwrite,      \* the mode
    answer,         \* what the last push returned
    popped,         \* what the last pop returned
    broken          \* an overwriting push has met a pop half done

fifo == <<items, overwrite, answer, popped, broken>>

FifoInit ==
    /\ items = <<>>
    /\ overwrite \in BOOLEAN
    /\ answer = TRUE
    /\ popped = None
    /\ broken = FALSE

Put(x) ==
    /\ Len(items) < Capacity
    /\ items' = Append(items, x)
    /\ answer' = TRUE
    /\ UNCHANGED <<overwrite, popped, broken>>

Refuse ==
    /\ ~overwrite /\ Len(items) = Capacity
    /\ answer' = FALSE
    /\ UNCHANGED <<items, overwrite, popped, broken>>

Discard ==
    /\ overwrite /\ Len(items) = Capacity
    /\ items' = Tail(items)
    /\ UNCHANGED <<overwrite, answer, popped, broken>>

Take ==
    /\ items # <<>>
    /\ items' = Tail(items)
    /\ popped' = Head(items)
    /\ UNCHANGED <<overwrite, answer, broken>>

Miss ==
    /\ items = <<>>
    /\ popped' = None
    /\ UNCHANGED <<items, overwrite, answer, broken>>

Break ==
    /\ overwrite /\ broken' = TRUE
    /\ UNCHANGED overwrite

FifoNext ==
    \/ ~broken /\ (Refuse \/ Discard \/ Take \/ Miss \/ \E x \in Item : Put(x))
    \/ Break

FifoSpec == FifoInit /\ [][FifoNext]_fifo
=============================================================================
