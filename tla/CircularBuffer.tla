--------------------------- MODULE CircularBuffer ---------------------------
(***************************************************************************)
(* The byte ring of the network emulator                                   *)
(* (7005_NVirt/NVirt/src/CircularBuffer.cpp): two indices, a size and an   *)
(* array; write() and read() copy in one piece, or in two when the copy    *)
(* passes the end of the array.  A memcpy is a pointwise update of "data". *)
(***************************************************************************)
EXTENDS Integers, Sequences

CONSTANTS
  Capacity,   \* capacity_
  Byte,       \* the values of one char
  Zero,       \* the char the constructor's memset stores
  MaxBytes    \* bound: the largest "bytes" argument of one call

ASSUME CapacityAssumption == Capacity \in Nat \ {0}
ASSUME ByteAssumption == Zero \in Byte /\ MaxBytes \in Nat

VARIABLES
  beg_index, end_index, size, data,
  handed,     \* the bytes the last read copied into the caller's array
  moved       \* the return value of the last call

ringVars == <<beg_index, end_index, size, data>>
vars == <<beg_index, end_index, size, data, handed, moved>>

Index == 0..(Capacity - 1)
Chunk == UNION {[1..n -> Byte] : n \in 0..MaxBytes}

Least(a, b) == IF a <= b THEN a ELSE b

Init ==
  /\ beg_index = 0 /\ end_index = 0 /\ size = 0
  /\ data = [i \in Index |-> Zero]
  /\ handed = <<>> /\ moved = 0

(* The room to the end of the array, and the index after moving n bytes.   *)
Wraps(index, n) == n > Capacity - index

Advance(index, n) ==
  IF Wraps(index, n)            THEN n - (Capacity - index)
  ELSE IF index + n = Capacity  THEN 0
  ELSE index + n

(* memcpy of the first n bytes to end_index, and of the rest to index 0.   *)
CopyInSameSource(bytes, n) ==    \* slip: both copies start at bytes[1]
  [i \in Index |->
     IF i >= end_index /\ i < end_index + n       THEN bytes[i - end_index + 1]
     ELSE IF Wraps(end_index, n) /\ i < n - (Capacity - end_index)
                                                  THEN bytes[i + 1]
     ELSE data[i]]

CopyIn(bytes, n) ==
  [i \in Index |->
     IF i >= end_index /\ i < end_index + n       THEN bytes[i - end_index + 1]
     ELSE IF Wraps(end_index, n) /\ i < n - (Capacity - end_index)
                                    THEN bytes[(Capacity - end_index) + i + 1]
     ELSE data[i]]

(* memcpy of n bytes from beg_index, continued from index 0.               *)
CopyOut(n) ==
  [k \in 1..n |-> IF beg_index + k - 1 < Capacity
                    THEN data[beg_index + k - 1]
                    ELSE data[(k - 1) - (Capacity - beg_index)]]

WriteUnbounded(bytes) ==         \* slip: the free room does not limit the copy
  LET n == Least(Len(bytes), Capacity)
  IN  /\ data' = CopyIn(bytes, n)
      /\ end_index' = Advance(end_index, n)
      /\ size' = Least(size + n, Capacity)
      /\ moved' = n
      /\ UNCHANGED <<beg_index, handed>>

Write(bytes) ==
  LET n == Least(Len(bytes), Capacity - size)
  IN  /\ data' = CopyIn(bytes, n)
      /\ end_index' = Advance(end_index, n)
      /\ size' = size + n
      /\ moved' = n
      /\ UNCHANGED <<beg_index, handed>>

Read(bytes) ==
  LET n == Least(bytes, size)
  IN  /\ handed' = CopyOut(n)
      /\ beg_index' = Advance(beg_index, n)
      /\ size' = size - n
      /\ moved' = n
      /\ UNCHANGED <<end_index, data>>

Next == \/ \E bytes \in Chunk : Write(bytes)
        \/ \E bytes \in 0..MaxBytes : Read(bytes)

Spec == Init /\ [][Next]_vars

-----------------------------------------------------------------------------
(* Every index stays inside the array and the size inside the capacity, so *)
(* no memcpy of write() or read() leaves the allocation.                   *)
TypeOK ==
  /\ beg_index \in Index /\ end_index \in Index
  /\ size \in 0..Capacity
  /\ data \in [Index -> Byte]
  /\ moved \in Nat

(* The three counters agree: end_index is size bytes past beg_index.  The  *)
(* code keeps them separately and updates two of them in each call.        *)
IndexInv == end_index = Advance(beg_index, size)

(* The bytes the ring stores, oldest first. *)
Contents == CopyOut(size)

Fifo == INSTANCE ByteFifo WITH fifo <- Contents

(* Call for call: a write of these bytes appends these bytes (the abstract *)
(* step alone would accept any others), and a read of that many hands out  *)
(* that many.                                                              *)
CallByCall ==
  [][/\ \A bytes \in Chunk : Write(bytes) => Fifo!Write(bytes)
     /\ \A bytes \in 0..MaxBytes : Read(bytes) => Fifo!Read(bytes)]_vars

(* The ring is a bounded FIFO of bytes, whatever the sizes of the calls    *)
(* and wherever the indices stand: nothing is lost, duplicated, reordered  *)
(* or torn where a copy is split at the end of the array, and a call does  *)
(* to the bytes stored what the same call does to a FIFO.                  *)
ImplementsFifo == Fifo!Spec /\ CallByCall
=============================================================================
