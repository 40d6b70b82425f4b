-------------------------- MODULE MCCircularBuffer --------------------------
(* A ring of three bytes, two byte values, calls of up to four bytes: each *)
(* pair of indices, every fill level, and calls larger than the ring.      *)
EXTENDS CircularBuffer
=============================================================================
