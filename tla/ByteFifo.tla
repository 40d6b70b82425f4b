------------------------------ MODULE ByteFifo ------------------------------
(***************************************************************************)
(* What CircularBuffer promises its users (7005_NVirt/NVirt): a bounded    *)
(* first-in first-out queue of bytes.  A write stores the longest prefix   *)
(* that fits, a read hands out the longest prefix that is stored, and both *)
(* tell the caller how many bytes they moved.                              *)
(***************************************************************************)
EXTENDS Integers, Sequences

CONSTANTS
  Capacity,   \* the capacity given to the constructor
  Byte,       \* the values of one char
  MaxBytes    \* bound: the largest "bytes" argument of one call

VARIABLES
  fifo,       \* the stored bytes, oldest first
  handed,     \* the bytes the last read copied to its caller
  moved       \* the return value of the last call

vars == <<fifo, handed, moved>>

Least(a, b) == IF a <= b THEN a ELSE b

Chunk == UNION {[1..n -> Byte] : n \in 0..MaxBytes}

Init == fifo = <<>> /\ handed = <<>> /\ moved = 0

Write(bytes) ==
  LET n == Least(Len(bytes), Capacity - Len(fifo))
  IN  /\ fifo' = fifo \o SubSeq(bytes, 1, n)
      /\ moved' = n
      /\ UNCHANGED handed

Read(bytes) ==
  LET n == Least(bytes, Len(fifo))
  IN  /\ handed' = SubSeq(fifo, 1, n)
      /\ fifo' = SubSeq(fifo, n + 1, Len(fifo))
      /\ moved' = n

Next == \/ \E bytes \in Chunk : Write(bytes)
        \/ \E bytes \in 0..MaxBytes : Read(bytes)

Spec == Init /\ [][Next]_vars
=============================================================================
