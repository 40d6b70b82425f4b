------------------------ MODULE CircularBuffer_proofs ------------------------
(***************************************************************************)
(* For every capacity and every set of byte values: the indices of the     *)
(* ring stay inside the array, agree with the size, and the ring           *)
(* implements the bounded FIFO of ByteFifo.                                *)
(***************************************************************************)
EXTENDS CircularBuffer, TLAPS

IInv == TypeOK /\ IndexInv

USE CapacityAssumption, ByteAssumption

(* The chunk a caller passes is a sequence of at most MaxBytes bytes.      *)
LEMMA ChunkIsSeq ==
  ASSUME NEW bytes \in Chunk
  PROVE  /\ bytes \in Seq(Byte) /\ Len(bytes) \in 0..MaxBytes
         /\ \A k \in 1..Len(bytes) : bytes[k] \in Byte
  <1>1. PICK n \in 0..MaxBytes : bytes \in [1..n -> Byte]
    BY DEF Chunk
  <1>2. QED BY <1>1

(* Moving an index by n bytes, n no larger than the array, leaves it       *)
(* inside the array.                                                       *)
LEMMA AdvanceInside ==
  ASSUME NEW i \in Index, NEW n \in 0..Capacity
  PROVE  Advance(i, n) \in Index
  BY DEF Index, Advance, Wraps

(* Moving by m and then by n is moving by m + n.                           *)
LEMMA AdvanceAdds ==
  ASSUME NEW i \in Index, NEW m \in 0..Capacity, NEW n \in 0..Capacity,
         m + n <= Capacity
  PROVE  Advance(Advance(i, m), n) = Advance(i, m + n)
  BY DEF Index, Advance, Wraps

LEMMA InitInv == Init => IInv
  BY DEF Init, IInv, TypeOK, IndexInv, Index, Advance, Wraps

LEMMA WriteInv ==
  ASSUME IInv, NEW bytes \in Chunk, Write(bytes)
  PROVE  IInv'
  <1> DEFINE n == Least(Len(bytes), Capacity - size)
  <1>1. n \in 0..(Capacity - size) /\ n <= Len(bytes) /\ n \in 0..Capacity
    BY ChunkIsSeq DEF IInv, TypeOK, Least
  <1>2. data' \in [Index -> Byte]
    <2>1. data' = CopyIn(bytes, n) BY DEF Write
    <2>2. ASSUME NEW i \in Index, i >= end_index, i < end_index + n
          PROVE  bytes[i - end_index + 1] \in Byte
      <3>1. i - end_index + 1 \in 1..Len(bytes)
        BY <1>1, <2>2, ChunkIsSeq DEF IInv, TypeOK, Index
      <3>2. QED BY <3>1, ChunkIsSeq
    <2>3. ASSUME NEW i \in Index, i < n - (Capacity - end_index)
          PROVE  bytes[(Capacity - end_index) + i + 1] \in Byte
      <3>1. (Capacity - end_index) + i + 1 \in 1..Len(bytes)
        BY <1>1, <2>3, ChunkIsSeq DEF IInv, TypeOK, Index
      <3>2. QED BY <3>1, ChunkIsSeq
    <2>4. QED BY <2>1, <2>2, <2>3 DEF CopyIn, IInv, TypeOK
  <1>3. end_index' = Advance(end_index, n) /\ size' = size + n
        /\ moved' = n /\ beg_index' = beg_index
    BY DEF Write
  <1>4. end_index' \in Index BY <1>1, <1>3, AdvanceInside DEF IInv, TypeOK
  <1>5. end_index' = Advance(beg_index, size + n)
    BY <1>1, <1>3, AdvanceAdds DEF IInv, TypeOK, IndexInv
  <1>6. TypeOK' BY <1>1, <1>2, <1>3, <1>4 DEF IInv, TypeOK
  <1>7. IndexInv' BY <1>3, <1>5 DEF IndexInv, Advance, Wraps
  <1>8. QED BY <1>6, <1>7 DEF IInv

LEMMA ReadInv ==
  ASSUME IInv, NEW bytes \in 0..MaxBytes, Read(bytes)
  PROVE  IInv'
  <1> DEFINE n == Least(bytes, size)
  <1>1. n \in 0..size /\ n \in 0..Capacity
    BY DEF IInv, TypeOK, Least
  <1>2. beg_index' = Advance(beg_index, n) /\ size' = size - n /\ moved' = n
        /\ end_index' = end_index /\ data' = data
    BY DEF Read
  <1>3. beg_index' \in Index BY <1>1, <1>2, AdvanceInside DEF IInv, TypeOK
  <1>4. TypeOK' BY <1>1, <1>2, <1>3 DEF IInv, TypeOK
  <1>5. Advance(beg_index', size') = Advance(beg_index, size)
    BY <1>1, <1>2, AdvanceAdds DEF IInv, TypeOK
  <1>6. IndexInv' BY <1>2, <1>5 DEF IInv, IndexInv, Advance, Wraps
  <1>7. QED BY <1>4, <1>6 DEF IInv

LEMMA StepInv == IInv /\ [Next]_vars => IInv'
  <1> SUFFICES ASSUME IInv, [Next]_vars PROVE IInv' OBVIOUS
  <1>1. CASE \E bytes \in Chunk : Write(bytes) BY <1>1, WriteInv
  <1>2. CASE \E bytes \in 0..MaxBytes : Read(bytes) BY <1>2, ReadInv
  <1>3. CASE UNCHANGED vars
    BY <1>3 DEF vars, IInv, TypeOK, IndexInv, Advance, Wraps
  <1>4. QED BY <1>1, <1>2, <1>3 DEF Next

(* The indices of the ring stay inside the array and agree with its size:  *)
(* no copy of write() or read() leaves the allocation.                     *)
THEOREM IndexCorrect == Spec => [](TypeOK /\ IndexInv)
  <1>1. IInv /\ [Next]_vars => IInv' BY StepInv
  <1>2. IInv => TypeOK /\ IndexInv BY DEF IInv
  <1>3. QED BY <1>1, <1>2, InitInv, PTL DEF Spec
-----------------------------------------------------------------------------
(* Refinement.  The k-th stored byte sits at Slot(beg_index, k).           *)
Slot(b, k) == IF b + k - 1 < Capacity THEN b + k - 1
                                      ELSE (k - 1) - (Capacity - b)

ContentsOf(b, s, d) == [k \in 1..s |-> d[Slot(b, k)]]

LEMMA ContentsAt ==
  ASSUME NEW b \in Index, NEW s \in 0..Capacity, NEW d \in [Index -> Byte]
  PROVE  /\ ContentsOf(b, s, d) \in Seq(Byte) /\ Len(ContentsOf(b, s, d)) = s
         /\ \A k \in 1..s : /\ Slot(b, k) \in Index
                            /\ ContentsOf(b, s, d)[k] = d[Slot(b, k)]
  <1>1. \A k \in 1..s : Slot(b, k) \in Index
    BY DEF Index, Slot
  <1>2. ContentsOf(b, s, d) \in [1..s -> Byte] /\ s \in Nat
    BY <1>1 DEF ContentsOf
  <1>3. QED BY <1>1, <1>2 DEF ContentsOf

LEMMA ContentsIs == Contents = ContentsOf(beg_index, size, data)
  BY DEF Contents, CopyOut, ContentsOf, Slot

(* A write of n bytes does not touch the slots in use.                     *)
LEMMA SlotKept ==
  ASSUME NEW b \in Index, NEW s \in 0..Capacity, NEW n \in 0..(Capacity - s),
         NEW k \in 1..s
  PROVE  /\ ~(/\ Slot(b, k) >= Advance(b, s)
              /\ Slot(b, k) < Advance(b, s) + n)
         /\ ~(/\ Wraps(Advance(b, s), n)
              /\ Slot(b, k) < n - (Capacity - Advance(b, s)))
  BY DEF Slot, Advance, Wraps, Index

(* The slot of the j-th new byte is filled with the j-th byte written.     *)
LEMMA SlotFilled ==
  ASSUME NEW b \in Index, NEW s \in 0..Capacity, NEW n \in 0..(Capacity - s),
         NEW k \in (s + 1)..(s + n)
  PROVE  LET e == Advance(b, s)
             i == Slot(b, k)
         IN  \/ i >= e /\ i < e + n /\ i - e + 1 = k - s
             \/ /\ ~(i >= e /\ i < e + n)
                /\ Wraps(e, n) /\ i < n - (Capacity - e)
                /\ (Capacity - e) + i + 1 = k - s
  BY DEF Slot, Advance, Wraps, Index

(* Skipping n bytes from the front moves every slot by n places.           *)
LEMMA SlotSkipped ==
  ASSUME NEW b \in Index, NEW s \in 0..Capacity, NEW n \in 0..s,
         NEW k \in 1..(s - n)
  PROVE  Slot(Advance(b, n), k) = Slot(b, n + k) /\ n + k \in 1..s
  BY DEF Slot, Advance, Wraps, Index

(* The elements of a sequence extended by a prefix of another.             *)
LEMMA AppendPrefix ==
  ASSUME NEW S, NEW c \in Seq(S), NEW x \in Seq(S), NEW n \in 0..Len(x)
  PROVE  /\ c \o SubSeq(x, 1, n) \in Seq(S)
         /\ Len(c \o SubSeq(x, 1, n)) = Len(c) + n
         /\ \A k \in 1..Len(c) : (c \o SubSeq(x, 1, n))[k] = c[k]
         /\ \A k \in (Len(c) + 1)..(Len(c) + n) :
               (c \o SubSeq(x, 1, n))[k] = x[k - Len(c)]
  <1>1. /\ SubSeq(x, 1, n) \in Seq(S) /\ Len(SubSeq(x, 1, n)) = n
        /\ \A k \in 1..n : SubSeq(x, 1, n)[k] = x[k]
    OBVIOUS
  <1>2. ASSUME NEW p \in Seq(S)
        PROVE  /\ c \o p \in Seq(S) /\ Len(c \o p) = Len(c) + Len(p)
               /\ \A k \in 1..Len(c) : (c \o p)[k] = c[k]
               /\ \A k \in (Len(c) + 1)..(Len(c) + Len(p)) :
                     (c \o p)[k] = p[k - Len(c)]
    OBVIOUS
  <1>3. \A k \in (Len(c) + 1)..(Len(c) + n) : k - Len(c) \in 1..n
    OBVIOUS
  <1>4. QED BY <1>1, <1>2, <1>3

(* Two sequences of the same length with the same elements are equal.      *)
LEMMA SeqEqual ==
  ASSUME NEW S, NEW s \in Seq(S), NEW t \in Seq(S), Len(s) = Len(t),
         \A k \in 1..Len(s) : s[k] = t[k]
  PROVE  s = t
  OBVIOUS

LEMMA InitRefines == Init => Fifo!Init
  <1> SUFFICES ASSUME Init PROVE Fifo!Init OBVIOUS
  <1>1. size = 0 /\ handed = <<>> /\ moved = 0 BY DEF Init
  <1>2. Contents = <<>>
    BY <1>1 DEF Contents, CopyOut
  <1>3. QED BY <1>1, <1>2 DEF Fifo!Init

(* A write appends the stored prefix, also when it is split at the end.    *)
LEMMA WriteRefines ==
  ASSUME IInv, NEW bytes \in Chunk, Write(bytes)
  PROVE  Fifo!Write(bytes)
  <1> DEFINE n == Least(Len(bytes), Capacity - size)
             new == Contents \o SubSeq(bytes, 1, n)
  <1>0. /\ Contents \in Seq(Byte) /\ Len(Contents) = size
        /\ \A k \in 1..size : /\ Slot(beg_index, k) \in Index
                              /\ Contents[k] = data[Slot(beg_index, k)]
    BY ContentsAt, ContentsIs DEF IInv, TypeOK
  <1>1. n \in 0..(Capacity - size) /\ n <= Len(bytes) /\ n \in 0..Capacity
    BY ChunkIsSeq DEF IInv, TypeOK, Least
  <1>2. /\ data' = CopyIn(bytes, n) /\ size' = size + n /\ moved' = n
        /\ beg_index' = beg_index /\ handed' = handed
    BY DEF Write
  <1>3. IInv' BY WriteInv
  <1>4. /\ Contents' \in Seq(Byte) /\ Len(Contents') = size + n
        /\ \A k \in 1..(size + n) :
             /\ Slot(beg_index, k) \in Index
             /\ Contents'[k] = data'[Slot(beg_index, k)]
    <2>1. Contents' = ContentsOf(beg_index, size + n, data')
      BY <1>2 DEF Contents, CopyOut, ContentsOf, Slot
    <2>2. size + n \in 0..Capacity /\ data' \in [Index -> Byte]
          /\ beg_index \in Index
      BY <1>2, <1>3 DEF IInv, TypeOK
    <2>3. QED BY <2>1, <2>2, ContentsAt
  <1>5. /\ new \in Seq(Byte) /\ Len(new) = size + n
        /\ \A k \in 1..size : new[k] = Contents[k]
        /\ \A k \in (size + 1)..(size + n) : new[k] = bytes[k - size]
    <2>1. Contents \in Seq(Byte) /\ bytes \in Seq(Byte) /\ n \in 0..Len(bytes)
      BY <1>0, <1>1, ChunkIsSeq
    <2>2. ASSUME NEW c \in Seq(Byte), NEW x \in Seq(Byte), NEW m \in 0..Len(x)
          PROVE  LET r == c \o SubSeq(x, 1, m)
                 IN  /\ r \in Seq(Byte) /\ Len(r) = Len(c) + m
                     /\ \A k \in 1..Len(c) : r[k] = c[k]
                     /\ \A k \in (Len(c) + 1)..(Len(c) + m) :
                           r[k] = x[k - Len(c)]
      BY AppendPrefix
    <2>3. QED BY <1>0, <2>1, <2>2
  <1>6. ASSUME NEW k \in 1..size
        PROVE  Contents'[k] = new[k]
    <2>1. data'[Slot(beg_index, k)] = data[Slot(beg_index, k)]
      BY <1>0, <1>1, <1>2, SlotKept DEF CopyIn, IInv, TypeOK, IndexInv
    <2>2. k \in 1..(size + n) BY <1>1 DEF IInv, TypeOK
    <2>3. QED BY <1>4, <1>5, <2>1, <2>2, <1>0
  <1>7. ASSUME NEW k \in (size + 1)..(size + n)
        PROVE  Contents'[k] = new[k]
    <2>1. data'[Slot(beg_index, k)] = bytes[k - size]
      <3>1. k \in 1..(size + n) BY <1>1 DEF IInv, TypeOK
      <3>2. QED
        BY <1>1, <1>2, <1>4, <3>1, SlotFilled DEF CopyIn, IInv, TypeOK, IndexInv
    <2>2. k \in 1..(size + n) BY <1>1 DEF IInv, TypeOK
    <2>3. QED BY <1>4, <1>5, <2>1, <2>2
  <1>8. \A k \in 1..(size + n) : Contents'[k] = new[k]
    <2>1. size \in Nat /\ n \in Nat BY <1>1 DEF IInv, TypeOK
    <2>2. \A k \in 1..(size + n) : k \in 1..size \/ k \in (size + 1)..(size + n)
      BY <2>1
    <2>3. QED BY <1>6, <1>7, <2>2
  <1>9. Contents' = new BY <1>4, <1>5, <1>8, SeqEqual
  <1>10. Fifo!Least(Len(bytes), Capacity - Len(Contents)) = n
    BY <1>0 DEF Fifo!Least, Least
  <1>11. QED BY <1>2, <1>9, <1>10 DEF Fifo!Write

(* A read hands out the oldest bytes and leaves the rest in order.         *)
LEMMA ReadRefines ==
  ASSUME IInv, NEW bytes \in 0..MaxBytes, Read(bytes)
  PROVE  Fifo!Read(bytes)
  <1> DEFINE n == Least(bytes, size)
             rest == SubSeq(Contents, n + 1, Len(Contents))
             first == SubSeq(Contents, 1, n)
  <1>0. /\ Contents \in Seq(Byte) /\ Len(Contents) = size
        /\ \A k \in 1..size : /\ Slot(beg_index, k) \in Index
                              /\ Contents[k] = data[Slot(beg_index, k)]
    BY ContentsAt, ContentsIs DEF IInv, TypeOK
  <1>1. n \in 0..size /\ n \in 0..Capacity
    BY DEF IInv, TypeOK, Least
  <1>2. /\ handed' = CopyOut(n) /\ size' = size - n /\ moved' = n
        /\ beg_index' = Advance(beg_index, n) /\ data' = data
    BY DEF Read
  <1>3. IInv' BY ReadInv
  <1>4. /\ Contents' \in Seq(Byte) /\ Len(Contents') = size - n
        /\ \A k \in 1..(size - n) :
             Contents'[k] = data[Slot(Advance(beg_index, n), k)]
    <2>1. Contents' = ContentsOf(Advance(beg_index, n), size - n, data)
      BY <1>2 DEF Contents, CopyOut, ContentsOf, Slot
    <2>2. size - n \in 0..Capacity /\ data \in [Index -> Byte]
          /\ Advance(beg_index, n) \in Index
      BY <1>2, <1>3 DEF IInv, TypeOK
    <2>3. QED BY <2>1, <2>2, ContentsAt
  <1>5. /\ rest \in Seq(Byte) /\ Len(rest) = size - n
        /\ \A k \in 1..(size - n) : rest[k] = Contents[n + k]
    BY <1>1, <1>0 DEF IInv, TypeOK
  <1>6. ASSUME NEW k \in 1..(size - n)
        PROVE  Contents'[k] = rest[k]
    <2>1. Slot(Advance(beg_index, n), k) = Slot(beg_index, n + k)
          /\ n + k \in 1..size
      BY <1>1, SlotSkipped DEF IInv, TypeOK
    <2>2. QED BY <1>0, <1>4, <1>5, <2>1
  <1>7. Contents' = rest BY <1>4, <1>5, <1>6, SeqEqual
  <1>8. handed' = first
    <2>1. /\ first \in Seq(Byte) /\ Len(first) = n
          /\ \A k \in 1..n : first[k] = Contents[k]
      BY <1>1, <1>0 DEF IInv, TypeOK
    <2>2. handed' = [k \in 1..n |-> data[Slot(beg_index, k)]]
      BY <1>2 DEF CopyOut, Slot
    <2>3. \A k \in 1..n : k \in 1..size BY <1>1 DEF IInv, TypeOK
    <2>4. \A k \in 1..n : data[Slot(beg_index, k)] = first[k]
                          /\ data[Slot(beg_index, k)] \in Byte
      BY <2>1, <2>3, <1>0 DEF IInv, TypeOK
    <2>5. handed' \in Seq(Byte) /\ Len(handed') = n
          /\ \A k \in 1..n : handed'[k] = first[k]
      BY <1>1, <2>2, <2>4
    <2>6. QED BY <2>1, <2>5, SeqEqual
  <1>9. Fifo!Least(bytes, Len(Contents)) = n
    BY <1>0 DEF Fifo!Least, Least
  <1>10. QED BY <1>2, <1>7, <1>8, <1>9 DEF Fifo!Read

(* Each call does to the stored bytes what the same call does to a FIFO.   *)
LEMMA CallsCorrect == Spec => CallByCall
  <1> DEFINE Calls ==
        /\ \A bytes \in Chunk : Write(bytes) => Fifo!Write(bytes)
        /\ \A bytes \in 0..MaxBytes : Read(bytes) => Fifo!Read(bytes)
  <1>1. IInv => Calls BY WriteRefines, ReadRefines
  <1>2. IInv /\ [Next]_vars => IInv' BY StepInv
  <1>3. QED BY <1>1, <1>2, InitInv, PTL DEF Spec, CallByCall

(* The ring with its two indices implements the bounded FIFO of bytes,     *)
(* and each call what the same call of the FIFO does.                      *)
THEOREM Refinement == Spec => ImplementsFifo
  <1>1. IInv /\ [Next]_vars => IInv' BY StepInv
  <1>2. ASSUME IInv, [Next]_vars PROVE [Fifo!Next]_(Fifo!vars)
    <2>1. ASSUME NEW bytes \in Chunk, Write(bytes) PROVE Fifo!Next
      <3>1. Fifo!Write(bytes) BY <1>2, <2>1, WriteRefines
      <3>2. bytes \in Fifo!Chunk BY DEF Chunk, Fifo!Chunk
      <3>3. QED BY <3>1, <3>2 DEF Fifo!Next
    <2>2. ASSUME NEW bytes \in 0..MaxBytes, Read(bytes) PROVE Fifo!Next
      <3>1. Fifo!Read(bytes) BY <1>2, <2>2, ReadRefines
      <3>2. QED BY <3>1 DEF Fifo!Next
    <2>3. CASE UNCHANGED vars
      BY <2>3 DEF vars, Fifo!vars, Contents, CopyOut
    <2>4. QED BY <1>2, <2>1, <2>2, <2>3 DEF Next
  <1>3. QED
    BY <1>1, <1>2, InitInv, InitRefines, CallsCorrect, PTL
       DEF Spec, ImplementsFifo, Fifo!Spec
=============================================================================
