---------------------------- MODULE MCRingBuffer ----------------------------
(* Values for the ring buffer.                                             *)
EXTENDS RingBufferProps

CONSTANTS x, y, nothing

TwoItems == {x, y}
=============================================================================
