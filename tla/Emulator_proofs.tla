--------------------------- MODULE Emulator_proofs ---------------------------
(***************************************************************************)
(* For every packet size and ring size: the emulator's ring never holds a  *)
(* part of a packet, and the emulator implements PacketChannel, a channel  *)
(* that loses packets and does nothing else to them.  The second rests on  *)
(* what CircularBuffer_proofs shows of the ring.                           *)
(***************************************************************************)
EXTENDS Emulator, SequenceTheorems, TLAPS

USE SizeAssumption

IInv == size \in 0..BUFLEN /\ WholePackets

LEMMA NextMultiple ==
  ASSUME NEW n \in Nat, NEW s \in Nat, s = n * P_SIZE
  PROVE  /\ s + P_SIZE = (n + 1) * P_SIZE
         /\ s - P_SIZE = (n - 1) * P_SIZE
         /\ s >= n
         /\ s >= P_SIZE => n >= 1
  <1>1. (n + 1) * P_SIZE = n * P_SIZE + P_SIZE
        /\ (n - 1) * P_SIZE = n * P_SIZE - P_SIZE
    OBVIOUS
  <1>2. n * P_SIZE >= n OBVIOUS
  <1>3. n = 0 => n * P_SIZE = 0 OBVIOUS
  <1>4. QED BY <1>1, <1>2, <1>3

(* The room check is strict, so a write stores the packet in full. *)
LEMMA RecieveStep == IInv /\ recieve_data => IInv'
  <1>1. SUFFICES ASSUME IInv, recieve_data PROVE IInv' OBVIOUS
  <1>2. Len(Bytes(Head(inq))) = P_SIZE BY DEF Bytes
  <1>3. size' = size + P_SIZE /\ size' \in 0..BUFLEN
    BY <1>1, <1>2
    DEF IInv, recieve_data, HasRoom, c_buffer!Write, c_buffer!Least
  <1>4. PICK n \in 0..BUFLEN : size = n * P_SIZE
    BY <1>1 DEF IInv, WholePackets
  <1>5. n \in Nat /\ size \in Nat BY <1>1 DEF IInv
  <1>6. size' = (n + 1) * P_SIZE BY <1>3, <1>4, <1>5, NextMultiple
  <1>7. size' >= n + 1 BY <1>3, <1>5, <1>6, NextMultiple
  <1>8. n + 1 \in 0..BUFLEN BY <1>3, <1>5, <1>7
  <1>9. QED BY <1>3, <1>6, <1>8 DEF IInv, WholePackets

LEMMA TransmitStep == IInv /\ transmit_data => IInv'
  <1>1. SUFFICES ASSUME IInv, transmit_data PROVE IInv' OBVIOUS
  <1>2. size' = size - P_SIZE /\ size' \in 0..BUFLEN /\ size >= P_SIZE
    BY <1>1 DEF IInv, transmit_data, HoldsPacket, c_buffer!Read, c_buffer!Least
  <1>3. PICK n \in 0..BUFLEN : size = n * P_SIZE
    BY <1>1 DEF IInv, WholePackets
  <1>4. n \in Nat /\ size \in Nat BY <1>1 DEF IInv
  <1>5. size' = (n - 1) * P_SIZE /\ n >= 1
    BY <1>2, <1>3, <1>4, NextMultiple
  <1>6. n - 1 \in 0..BUFLEN BY <1>4, <1>5
  <1>7. QED BY <1>2, <1>5, <1>6 DEF IInv, WholePackets

(* The ring only ever holds whole packets, for every P_SIZE and BUFLEN,    *)
(* multiple of each other or not.                                          *)
THEOREM NoTornPacket == Spec => []WholePackets
  <1>1. Init => IInv
    <2>1. SUFFICES ASSUME Init PROVE IInv OBVIOUS
    <2>2. size = 0 /\ 0 \in 0..BUFLEN /\ 0 = 0 * P_SIZE
      BY <2>1 DEF Init, c_buffer!Init
    <2>3. QED BY <2>2 DEF IInv, WholePackets
  <1>2. IInv /\ [Next]_vars => IInv'
    <2>1. ASSUME IInv, check_command PROVE IInv'
      BY <2>1 DEF check_command, quit, set_ploss, ringVars, IInv, WholePackets
    <2>2. ASSUME IInv, NEW p \in Packet, Arrive(p) PROVE IInv'
      BY <2>2 DEF Arrive, ringVars, IInv, WholePackets
    <2>3. ASSUME IInv, UNCHANGED vars PROVE IInv'
      BY <2>3 DEF vars, IInv, WholePackets
    <2>4. QED BY <2>1, <2>2, <2>3, RecieveStep, TransmitStep DEF Next
  <1>3. IInv => WholePackets BY DEF IInv
  <1>4. QED BY <1>1, <1>2, <1>3, PTL DEF Spec
-----------------------------------------------------------------------------
(* The ring, with what is proved of it.                                    *)
Tagged == Packet \X (1..P_SIZE)

Ring == INSTANCE CircularBuffer_proofs WITH
          Capacity <- BUFLEN,
          Byte <- (Packet \X (1..P_SIZE)) \cup {NoByte},
          Zero <- NoByte,
          MaxBytes <- P_SIZE

LEMMA RingConstants ==
  /\ BUFLEN \in Nat \ {0} /\ P_SIZE \in Nat
  /\ NoByte \in (Packet \X (1..P_SIZE)) \cup {NoByte}
  OBVIOUS

(* The two instances of CircularBuffer are the same.                       *)
LEMMA SameState ==
  /\ c_buffer!Contents = Ring!Contents
  /\ c_buffer!TypeOK <=> Ring!TypeOK
  /\ c_buffer!Init <=> Ring!Init
  BY DEF c_buffer!Contents, Ring!Contents, c_buffer!CopyOut, Ring!CopyOut,
         c_buffer!TypeOK, Ring!TypeOK, c_buffer!Index, Ring!Index, c_buffer!Init, Ring!Init

LEMMA SameNext == c_buffer!Contents' = Ring!Contents'
  BY DEF c_buffer!Contents, Ring!Contents, c_buffer!CopyOut, Ring!CopyOut

LEMMA SameWrite ==
  ASSUME NEW bytes
  PROVE  c_buffer!Write(bytes) <=> Ring!Write(bytes)
  BY DEF c_buffer!Write, Ring!Write, c_buffer!Least, Ring!Least, c_buffer!CopyIn, Ring!CopyIn,
         c_buffer!Advance, Ring!Advance, c_buffer!Index, Ring!Index, c_buffer!Wraps, Ring!Wraps

LEMMA SameRead ==
  ASSUME NEW bytes
  PROVE  c_buffer!Read(bytes) <=> Ring!Read(bytes)
  BY DEF c_buffer!Read, Ring!Read, c_buffer!Least, Ring!Least, c_buffer!CopyOut, Ring!CopyOut,
         c_buffer!Advance, Ring!Advance, c_buffer!Wraps, Ring!Wraps

-----------------------------------------------------------------------------
(* Cutting a string of bytes into n packets.                               *)
Piece(c, i) == [k \in 1..P_SIZE |-> c[(i - 1) * P_SIZE + k]]
Cut(c, n) == [i \in 1..n |-> Piece(c, i)]

LEMMA Quotient ==
  ASSUME NEW n \in Nat
  PROVE  (n * P_SIZE) \div P_SIZE = n
  OBVIOUS

(* The k-th byte of the i-th packet is one of the string, and is the k-th  *)
(* after those of the packets before.                                      *)
LEMMA Place ==
  ASSUME NEW n \in Nat, NEW i \in 1..n, NEW k \in 1..P_SIZE
  PROVE  /\ (i - 1) * P_SIZE + k \in 1..(n * P_SIZE)
         /\ i * P_SIZE + k = P_SIZE + ((i - 1) * P_SIZE + k)
         /\ i * P_SIZE + k \in Nat
  <1>1. i * P_SIZE = (i - 1) * P_SIZE + P_SIZE
    OBVIOUS
  <1>2. (i - 1) * P_SIZE >= 0 /\ (i - 1) * P_SIZE \in Nat
    OBVIOUS
  <1>3. i * P_SIZE <= n * P_SIZE
    OBVIOUS
  <1> QED BY <1>1, <1>2, <1>3

LEMMA CutType ==
  ASSUME NEW S, NEW c \in Seq(S), NEW n \in Nat, Len(c) = n * P_SIZE
  PROVE  /\ Cut(c, n) \in Seq([1..P_SIZE -> S]) /\ Len(Cut(c, n)) = n
         /\ \A i \in 1..n : Cut(c, n)[i] = Piece(c, i)
  <1>1. \A i \in 1..n, k \in 1..P_SIZE : c[(i - 1) * P_SIZE + k] \in S
    BY Place
  <1>2. \A i \in 1..n : Piece(c, i) \in [1..P_SIZE -> S]
    BY <1>1 DEF Piece
  <1>3. Cut(c, n) \in [1..n -> [1..P_SIZE -> S]]
    BY <1>2 DEF Cut
  <1>4. \A i \in 1..n : Cut(c, n)[i] = Piece(c, i)
    BY DEF Cut
  <1>5. Cut(c, n) \in Seq([1..P_SIZE -> S]) /\ Len(Cut(c, n)) = n
    BY <1>3
  <1> QED BY <1>4, <1>5

(* d is c followed by b; d is c without its first m bytes.                *)
IsJoin(S, c, b, d) ==
  /\ d \in Seq(S) /\ Len(d) = Len(c) + Len(b)
  /\ \A j \in 1..Len(c) : d[j] = c[j]
  /\ \A j \in 1..Len(b) : d[Len(c) + j] = b[j]

IsRest(S, c, m, d) ==
  /\ d \in Seq(S) /\ Len(d) = Len(c) - m
  /\ \A j \in 1..(Len(c) - m) : d[j] = c[m + j]

LEMMA Concat ==
  ASSUME NEW S, NEW c \in Seq(S), NEW b \in Seq(S), NEW d, d = c \o b
  PROVE  IsJoin(S, c, b, d)
  BY SMTT(30) DEF IsJoin

LEMMA Remainder ==
  ASSUME NEW S, NEW c \in Seq(S), NEW m \in Nat, m <= Len(c),
         NEW d, d = SubSeq(c, m + 1, Len(c))
  PROVE  IsRest(S, c, m, d)
  BY SMTT(30) DEF IsRest

(* A packet more: the pieces of the string stay, the new one is last.      *)
LEMMA PieceJoined ==
  ASSUME NEW S, NEW c \in Seq(S), NEW b \in Seq(S), NEW n \in Nat,
         NEW d, IsJoin(S, c, b, d), Len(c) = n * P_SIZE, Len(b) = P_SIZE
  PROVE  /\ d \in Seq(S) /\ Len(d) = (n + 1) * P_SIZE
         /\ \A i \in 1..n : Piece(d, i) = Piece(c, i)
         /\ Piece(d, n + 1) = b
  <1>1. /\ d \in Seq(S) /\ Len(d) = n * P_SIZE + P_SIZE
        /\ \A j \in 1..(n * P_SIZE) : d[j] = c[j]
        /\ \A j \in 1..P_SIZE : d[n * P_SIZE + j] = b[j]
    BY DEF IsJoin
  <1>2. Len(d) = (n + 1) * P_SIZE
    BY <1>1, NextMultiple
  <1>3. ASSUME NEW i \in 1..n PROVE Piece(d, i) = Piece(c, i)
    <2>1. \A k \in 1..P_SIZE : (i - 1) * P_SIZE + k \in 1..(n * P_SIZE)
      BY Place, Zenon
    <2>2. \A k \in 1..P_SIZE : d[(i - 1) * P_SIZE + k] = c[(i - 1) * P_SIZE + k]
      BY <1>1, <2>1, Zenon
    <2> QED BY <2>2, Zenon DEF Piece
  <1>4. Piece(d, n + 1) = b
    <2>1. b = [k \in 1..P_SIZE |-> b[k]]
      OBVIOUS
    <2>2. (n + 1) - 1 = n
      OBVIOUS
    <2> QED BY <1>1, <2>1, <2>2, Zenon DEF Piece
  <1> QED BY <1>1, <1>2, <1>3, <1>4, Zenon

LEMMA SeqAppended ==
  ASSUME NEW T, NEW q \in Seq(T), NEW r \in Seq(T), NEW b \in T,
         Len(r) = Len(q) + 1, r[Len(q) + 1] = b,
         \A i \in 1..Len(q) : r[i] = q[i]
  PROVE  r = Append(q, b)
  OBVIOUS

LEMMA CutAppend ==
  ASSUME NEW S, NEW c \in Seq(S), NEW b \in Seq(S), NEW n \in Nat,
         Len(c) = n * P_SIZE, Len(b) = P_SIZE
  PROVE  Cut(c \o b, n + 1) = Append(Cut(c, n), b)
  <1>1. n + 1 \in Nat /\ b \in [1..P_SIZE -> S]
    OBVIOUS
  <1> DEFINE T == [1..P_SIZE -> S]
             q == Cut(c, n)
  <1>2. PICK d : d = c \o b
    OBVIOUS
  <1>3. IsJoin(S, c, b, d)
    BY <1>2, Concat
  <1> DEFINE r == Cut(d, n + 1)
  <1>4. /\ d \in Seq(S) /\ Len(d) = (n + 1) * P_SIZE
        /\ \A i \in 1..n : Piece(d, i) = Piece(c, i)
        /\ Piece(d, n + 1) = b
    BY <1>3, PieceJoined
  <1>5. q \in Seq(T) /\ Len(q) = n /\ \A i \in 1..n : q[i] = Piece(c, i)
    BY CutType, Zenon
  <1>6. r \in Seq(T) /\ Len(r) = n + 1 /\ \A i \in 1..(n + 1) : r[i] = Piece(d, i)
    <2>1. Len(d) = (n + 1) * P_SIZE /\ n + 1 \in Nat /\ d \in Seq(S)
      BY <1>1, <1>4
    <2> QED BY <2>1, CutType, Zenon
  <1>7. b \in T
    BY <1>1
  <1> HIDE DEF T, q, r
  <1>8. (\A i \in 1..n : r[i] = q[i]) /\ r[n + 1] = b
    BY <1>4, <1>5, <1>6
  <1>9. r = Append(q, b)
    BY <1>5, <1>6, <1>7, <1>8, SeqAppended
  <1> QED BY <1>2, <1>9 DEF q, r

(* A packet less: the first piece is the string's beginning, the others    *)
(* are those of the rest.                                                  *)
LEMMA PieceLeft ==
  ASSUME NEW S, NEW c \in Seq(S), NEW n \in Nat \ {0}, Len(c) = n * P_SIZE,
         NEW d, IsRest(S, c, P_SIZE, d)
  PROVE  /\ d \in Seq(S) /\ Len(d) = (n - 1) * P_SIZE
         /\ \A i \in 1..(n - 1) : Piece(d, i) = Piece(c, i + 1)
         /\ Piece(c, 1) = SubSeq(c, 1, P_SIZE)
  <1>1. P_SIZE <= Len(c) /\ Len(c) - P_SIZE = (n - 1) * P_SIZE
    BY NextMultiple
  <1>2. /\ d \in Seq(S) /\ Len(d) = (n - 1) * P_SIZE
        /\ \A j \in 1..((n - 1) * P_SIZE) : d[j] = c[P_SIZE + j]
    BY <1>1, Zenon DEF IsRest
  <1>3. ASSUME NEW i \in 1..(n - 1) PROVE Piece(d, i) = Piece(c, i + 1)
    <2>1. n - 1 \in Nat /\ i \in 1..(n - 1)
      OBVIOUS
    <2>2. \A k \in 1..P_SIZE : /\ (i - 1) * P_SIZE + k \in 1..((n - 1) * P_SIZE)
                               /\ i * P_SIZE + k = P_SIZE + ((i - 1) * P_SIZE + k)
      BY <2>1, Place, Zenon
    <2>3. \A k \in 1..P_SIZE : d[(i - 1) * P_SIZE + k] = c[i * P_SIZE + k]
      BY <1>2, <2>2, Zenon
    <2>4. (i + 1) - 1 = i
      OBVIOUS
    <2> QED BY <2>3, <2>4 DEF Piece
  <1>4. Piece(c, 1) = SubSeq(c, 1, P_SIZE)
    <2>1. SubSeq(c, 1, P_SIZE) = [k \in 1..P_SIZE |-> c[k]]
      BY <1>1
    <2>2. \A k \in 1..P_SIZE : (1 - 1) * P_SIZE + k = k
      OBVIOUS
    <2> QED BY <2>1, <2>2 DEF Piece
  <1> QED BY <1>2, <1>3, <1>4

LEMMA SeqRest ==
  ASSUME NEW T, NEW q \in Seq(T), NEW r \in Seq(T), Len(q) = Len(r) + 1,
         \A i \in 1..Len(r) : r[i] = q[i + 1]
  PROVE  q # <<>> /\ Head(q) = q[1] /\ Tail(q) = r
  OBVIOUS

LEMMA CutTail ==
  ASSUME NEW S, NEW c \in Seq(S), NEW n \in Nat \ {0}, Len(c) = n * P_SIZE
  PROVE  /\ Cut(c, n) # <<>>
         /\ Head(Cut(c, n)) = SubSeq(c, 1, P_SIZE)
         /\ Tail(Cut(c, n)) = Cut(SubSeq(c, P_SIZE + 1, Len(c)), n - 1)
  <1>1. n \in Nat /\ n - 1 \in Nat
    OBVIOUS
  <1>2. P_SIZE \in Nat /\ P_SIZE <= Len(c)
    BY NextMultiple
  <1>3. PICK rest : rest = SubSeq(c, P_SIZE + 1, Len(c))
    OBVIOUS
  <1>4. IsRest(S, c, P_SIZE, rest)
    BY <1>2, <1>3, Remainder
  <1> DEFINE T == [1..P_SIZE -> S]
             q == Cut(c, n)
             r == Cut(rest, n - 1)
  <1>5. /\ rest \in Seq(S) /\ Len(rest) = (n - 1) * P_SIZE
        /\ \A i \in 1..(n - 1) : Piece(rest, i) = Piece(c, i + 1)
        /\ Piece(c, 1) = SubSeq(c, 1, P_SIZE)
    BY <1>4, PieceLeft, Zenon
  <1>6. q \in Seq(T) /\ Len(q) = n /\ \A i \in 1..n : q[i] = Piece(c, i)
    BY <1>1, CutType, Zenon
  <1>7. r \in Seq(T) /\ Len(r) = n - 1 /\ \A i \in 1..(n - 1) : r[i] = Piece(rest, i)
    BY <1>1, <1>5, CutType, Zenon
  <1> HIDE DEF T, q, r
  <1>8. \A i \in 1..Len(r) : r[i] = q[i + 1]
    BY <1>5, <1>6, <1>7
  <1>9. q # <<>> /\ Head(q) = q[1] /\ Tail(q) = r
    BY <1>6, <1>7, <1>8, SeqRest
  <1>10. q[1] = SubSeq(c, 1, P_SIZE)
    BY <1>5, <1>6
  <1> QED BY <1>3, <1>9, <1>10 DEF q, r
-----------------------------------------------------------------------------
(* What is stored is tagged with the packet it is of, and so is what was   *)
(* sent; a byte of the constructor is never among them.                    *)
StateInv ==
  /\ data_loss \in 0..100 /\ running \in BOOLEAN
  /\ inq \in Seq(Packet) /\ arrived \subseteq Packet
  /\ Ring!Contents \in Seq(Tagged)
  /\ sent \in Seq([1..P_SIZE -> Tagged])

EmulatorInv == Ring!IInv /\ WholePackets /\ StateInv

LEMMA PacketBytes ==
  ASSUME NEW p \in Packet
  PROVE  /\ Bytes(p) \in Ring!Chunk
         /\ Bytes(p) \in Seq(Tagged) /\ Len(Bytes(p)) = P_SIZE
  <1>1. Bytes(p) \in [1..P_SIZE -> Tagged]
    BY DEF Bytes, Tagged
  <1>2. Bytes(p) \in [1..P_SIZE -> (Packet \X (1..P_SIZE)) \cup {NoByte}]
    BY <1>1 DEF Tagged
  <1>3. P_SIZE \in 0..P_SIZE
    OBVIOUS
  <1> QED BY <1>1, <1>2, <1>3 DEF Ring!Chunk

LEMMA RingSize ==
  ASSUME EmulatorInv
  PROVE  /\ size \in 0..BUFLEN /\ Len(Ring!Contents) = size
         /\ \E n \in Nat : size = n * P_SIZE /\ size \div P_SIZE = n
  <1>1. size \in 0..BUFLEN
    BY DEF EmulatorInv, Ring!IInv, Ring!TypeOK
  <1>2. Len(Ring!Contents) = size
    BY <1>1 DEF Ring!Contents, Ring!CopyOut
  <1>3. PICK n \in 0..BUFLEN : size = n * P_SIZE
    BY DEF EmulatorInv, WholePackets
  <1>4. n \in Nat /\ (n * P_SIZE) \div P_SIZE = n
    BY Quotient
  <1> QED BY <1>1, <1>2, <1>3, <1>4

LEMMA StoredIs ==
  ASSUME NEW n \in Nat, size \div P_SIZE = n
  PROVE  Stored = Cut(Ring!Contents, n)
  BY SameState DEF Stored, Cut, Piece

(* recieve_data puts one packet behind the stored bytes, whole.            *)
LEMMA RecieveRing ==
  ASSUME EmulatorInv, recieve_data
  PROVE  /\ Head(inq) \in Packet
         /\ Ring!IInv' /\ size' = size + P_SIZE
         /\ Ring!Contents' = Ring!Contents \o Bytes(Head(inq))
  <1> DEFINE p == Head(inq)
  <1>1. p \in Packet
    BY DEF EmulatorInv, StateInv, recieve_data
  <1>2. Ring!IInv /\ Ring!Write(Bytes(p)) /\ BUFLEN - size > P_SIZE
    BY SameWrite DEF EmulatorInv, recieve_data, HasRoom
  <1>3. Ring!IInv' /\ Ring!Fifo!Write(Bytes(p))
    BY <1>1, <1>2, PacketBytes, RingConstants, Ring!WriteInv, Ring!WriteRefines
  <1>4. Len(Bytes(p)) = P_SIZE /\ Bytes(p) \in Seq(Tagged)
    BY <1>1, PacketBytes
  <1>5. Len(Ring!Contents) = size /\ size \in 0..BUFLEN
    BY RingSize
  <1>6. SubSeq(Bytes(p), 1, P_SIZE) = Bytes(p)
    BY <1>4
  <1>7. Ring!Contents' = Ring!Contents \o Bytes(p)
    BY <1>2, <1>3, <1>4, <1>5, <1>6 DEF Ring!Fifo!Write, Ring!Fifo!Least
  <1>8. size' = size + P_SIZE
    BY <1>2, <1>4, <1>5 DEF Ring!Write, Ring!Least
  <1> QED BY <1>1, <1>3, <1>7, <1>8

(* transmit_data takes the first packet off, whole.                        *)
LEMMA TransmitRing ==
  ASSUME EmulatorInv, transmit_data
  PROVE  /\ Ring!IInv' /\ size' = size - P_SIZE /\ size >= P_SIZE
         /\ handed' = SubSeq(Ring!Contents, 1, P_SIZE)
         /\ Ring!Contents' = SubSeq(Ring!Contents, P_SIZE + 1, Len(Ring!Contents))
  <1>1. Ring!IInv /\ Ring!Read(P_SIZE) /\ size >= P_SIZE
    BY SameRead DEF EmulatorInv, transmit_data, HoldsPacket
  <1>2. P_SIZE \in 0..P_SIZE
    OBVIOUS
  <1>3. Ring!IInv' /\ Ring!Fifo!Read(P_SIZE)
    BY <1>1, <1>2, RingConstants, Ring!ReadInv, Ring!ReadRefines
  <1>4. Len(Ring!Contents) = size /\ size \in 0..BUFLEN
    BY RingSize
  <1>5. /\ handed' = SubSeq(Ring!Contents, 1, P_SIZE)
        /\ Ring!Contents' = SubSeq(Ring!Contents, P_SIZE + 1, Len(Ring!Contents))
    BY <1>1, <1>3, <1>4 DEF Ring!Fifo!Read, Ring!Fifo!Least
  <1>6. size' = size - P_SIZE
    BY <1>1, <1>4 DEF Ring!Read, Ring!Least
  <1> QED BY <1>1, <1>3, <1>5, <1>6

LEMMA RingKept ==
  ASSUME UNCHANGED ringVars
  PROVE  /\ Ring!Contents' = Ring!Contents /\ size' = size
         /\ Ring!IInv => Ring!IInv'
  BY DEF ringVars, Ring!Contents, Ring!CopyOut, Ring!IInv, Ring!TypeOK, Ring!IndexInv,
         Ring!Advance, Ring!Wraps

LEMMA EmulatorInit == Init => EmulatorInv
  <1> SUFFICES ASSUME Init PROVE EmulatorInv
    OBVIOUS
  <1>1. Ring!IInv
    BY SameState, RingConstants, Ring!InitInv DEF Init
  <1>2. size = 0 /\ 0 \in 0..BUFLEN /\ 0 = 0 * P_SIZE
    BY DEF Init, c_buffer!Init
  <1>3. Ring!Contents = <<>>
    BY <1>2 DEF Ring!Contents, Ring!CopyOut
  <1> QED BY <1>1, <1>2, <1>3 DEF EmulatorInv, WholePackets, StateInv, Init

LEMMA EmulatorStep == EmulatorInv /\ WholePackets' /\ [Next]_vars => EmulatorInv'
  <1> SUFFICES ASSUME EmulatorInv, WholePackets', [Next]_vars PROVE EmulatorInv'
    OBVIOUS
  <1> USE DEF EmulatorInv
  <1>1. CASE recieve_data
    <2>1. PICK b \in Seq(Tagged) : b = Bytes(Head(inq))
      BY <1>1, RecieveRing, PacketBytes
    <2>2. PICK c \in Seq(Tagged) : c = Ring!Contents
      BY DEF StateInv
    <2>3. c \o b \in Seq(Tagged)
      OBVIOUS
    <2>4. Ring!Contents' \in Seq(Tagged) /\ Ring!IInv'
      BY <1>1, <2>1, <2>2, <2>3, RecieveRing
    <2>5. inq' \in Seq(Packet)
      BY <1>1 DEF recieve_data, StateInv
    <2> QED BY <1>1, <2>4, <2>5 DEF recieve_data, StateInv
  <1>2. CASE transmit_data
    <2>1. PICK c \in Seq(Tagged) : c = Ring!Contents
      BY DEF StateInv
    <2>2. Len(c) = size /\ size \in Nat /\ size >= P_SIZE
      BY <1>2, <2>1, RingSize, TransmitRing
    <2>3. SubSeq(c, 1, P_SIZE) \in [1..P_SIZE -> Tagged] /\ SubSeq(c, P_SIZE + 1, Len(c)) \in Seq(Tagged)
      <3>1. \A i \in 1..P_SIZE : SubSeq(c, 1, P_SIZE)[i] = c[i] /\ c[i] \in Tagged
        BY <2>2
      <3>2. SubSeq(c, 1, P_SIZE) = [i \in 1..P_SIZE |-> c[i]]
        BY <2>2
      <3>3. SubSeq(c, P_SIZE + 1, Len(c)) \in Seq(Tagged)
        BY <2>2
      <3> QED BY <3>1, <3>2, <3>3
    <2>4. handed' \in [1..P_SIZE -> Tagged] /\ Ring!Contents' \in Seq(Tagged) /\ Ring!IInv'
      BY <1>2, <2>1, <2>3, TransmitRing
    <2>5. sent' = sent \/ sent' = Append(sent, handed')
      BY <1>2 DEF transmit_data
    <2>6. sent' \in Seq([1..P_SIZE -> Tagged])
      BY <2>4, <2>5 DEF StateInv
    <2> QED BY <1>2, <2>4, <2>6 DEF transmit_data, StateInv
  <1>3. CASE check_command
    <2>1. UNCHANGED <<ringVars, inq, sent, arrived>> /\ running' \in BOOLEAN
      BY <1>3 DEF check_command, quit, set_ploss, StateInv
    <2>2. data_loss' \in 0..100
      <3>1. CASE quit
        BY <3>1 DEF quit, StateInv
      <3>2. ASSUME NEW ploss \in LossSettings, set_ploss(ploss) PROVE data_loss' \in 0..100
        <4>1. ploss \in Int
          BY LossAssumption
        <4> QED BY <3>2, <4>1 DEF set_ploss, StateInv
      <3> QED BY <1>3, <3>1, <3>2 DEF check_command
    <2> QED BY <2>1, <2>2, RingKept DEF StateInv
  <1>4. ASSUME NEW p \in Packet, Arrive(p) PROVE EmulatorInv'
    <2>1. inq' \in Seq(Packet)
      BY <1>4 DEF Arrive, StateInv
    <2> QED BY <1>4, <2>1, RingKept DEF Arrive, StateInv
  <1>5. CASE UNCHANGED vars
    BY <1>5, RingKept DEF vars, ringVars, StateInv
  <1> QED BY <1>1, <1>2, <1>3, <1>4, <1>5 DEF Next

LEMMA EmulatorInvariance == Spec => []EmulatorInv
  <1>1. EmulatorInv => WholePackets
    BY DEF EmulatorInv
  <1> QED BY EmulatorInit, EmulatorStep, NoTornPacket, PTL DEF Spec

(* The loss rate stays a percentage, and what waits, is stored or was sent *)
(* are bytes of packets: what the constructor put in the ring never        *)
(* leaves it.                                                              *)
THEOREM EmulatorTypes == Spec => []TypeOK
  <1>1. EmulatorInv => TypeOK
    BY SameState DEF EmulatorInv, StateInv, TypeOK, Tagged, Ring!IInv
  <1> QED BY <1>1, EmulatorInvariance, PTL

-----------------------------------------------------------------------------
(* Refinement.  The datagrams on the socket as strings of bytes.           *)
Wire(w) == [i \in 1..Len(w) |-> Bytes(w[i])]

Frames == [1..P_SIZE -> Tagged]

LEMMA WireType ==
  ASSUME NEW w \in Seq(Packet)
  PROVE  /\ Wire(w) \in Seq(Frames) /\ Len(Wire(w)) = Len(w)
         /\ \A i \in 1..Len(w) : Wire(w)[i] = Bytes(w[i])
  <1>1. \A i \in 1..Len(w) : Bytes(w[i]) \in Frames
    BY DEF Bytes, Frames, Tagged
  <1> QED BY <1>1 DEF Wire

LEMMA Joined ==
  ASSUME NEW T, NEW s \in Seq(T), NEW x \in T, NEW v \in Seq(T), NEW u \in Seq(T),
         Len(u) = Len(v) + 1, u[1] = x, \A i \in 1..Len(v) : v[i] = u[i + 1]
  PROVE  Append(s, x) \o v = s \o u
  <1>1. /\ Append(s, x) \in Seq(T) /\ Len(Append(s, x)) = Len(s) + 1
        /\ Append(s, x)[Len(s) + 1] = x /\ \A i \in 1..Len(s) : Append(s, x)[i] = s[i]
    OBVIOUS
  <1>2. PICK y \in Seq(T) : y = Append(s, x)
    BY <1>1
  <1>3. PICK l : l = y \o v
    OBVIOUS
  <1>4. PICK r : r = s \o u
    OBVIOUS
  <1>5. /\ l \in Seq(T) /\ Len(l) = Len(y) + Len(v)
        /\ \A i \in 1..Len(y) : l[i] = y[i]
        /\ \A i \in 1..Len(v) : l[Len(y) + i] = v[i]
    <2>1. IsJoin(T, y, v, l)
      BY <1>3, Concat
    <2> QED BY <2>1, Zenon DEF IsJoin
  <1>6. /\ r \in Seq(T) /\ Len(r) = Len(s) + Len(u)
        /\ \A i \in 1..Len(s) : r[i] = s[i]
        /\ \A i \in 1..Len(u) : r[Len(s) + i] = u[i]
    <2>1. IsJoin(T, s, u, r)
      BY <1>4, Concat
    <2> QED BY <2>1, Zenon DEF IsJoin
  <1>7. /\ Len(y) = Len(s) + 1 /\ y[Len(s) + 1] = x
        /\ \A i \in 1..Len(s) : y[i] = s[i]
    BY <1>1, <1>2
  <1>8. Len(s) \in Nat /\ Len(v) \in Nat /\ Len(l) = Len(s) + 1 + Len(v) /\ Len(r) = Len(l)
    BY <1>5, <1>6, <1>7
  <1>9. \A i \in 1..Len(s) : l[i] = r[i]
    BY <1>5, <1>6, <1>7
  <1>10. l[Len(s) + 1] = r[Len(s) + 1]
    BY <1>5, <1>6, <1>7
  <1>11. \A i \in 1..Len(v) : l[Len(s) + 1 + i] = r[Len(s) + 1 + i]
    <2> TAKE i \in 1..Len(v)
    <2>1. l[Len(s) + 1 + i] = v[i]
      BY <1>5, <1>7
    <2>2. i + 1 \in 1..Len(u) /\ Len(s) + (i + 1) = Len(s) + 1 + i
      BY <1>8
    <2>3. r[Len(s) + (i + 1)] = u[i + 1]
      BY <1>6, <2>2
    <2> QED BY <2>1, <2>2, <2>3
  <1>12. ASSUME NEW i \in 1..Len(l) PROVE l[i] = r[i]
    <2>1. CASE i <= Len(s) + 1
      BY <1>8, <1>9, <1>10, <2>1
    <2>2. CASE i > Len(s) + 1
      <3>1. i - (Len(s) + 1) \in 1..Len(v) /\ Len(s) + 1 + (i - (Len(s) + 1)) = i
        BY <1>8, <2>2
      <3> QED BY <1>11, <3>1
    <2> QED BY <1>8, <2>1, <2>2
  <1>13. l = r
    BY <1>5, <1>6, <1>8, <1>12
  <1> QED BY <1>2, <1>3, <1>4, <1>13

LEMMA JoinedAppend ==
  ASSUME NEW T, NEW s \in Seq(T), NEW u \in Seq(T), NEW x \in T
  PROVE  s \o Append(u, x) = Append(s \o u, x)
  OBVIOUS

LEMMA JoinedTail ==
  ASSUME NEW T, NEW s \in Seq(T), NEW u \in Seq(T), s # <<>>
  PROVE  s \o u # <<>> /\ Head(s \o u) = Head(s) /\ Tail(s \o u) = Tail(s) \o u
  OBVIOUS

(* A queue of packets without its first, and with one more.                *)
LEMMA Shorter ==
  ASSUME NEW T, NEW q \in Seq(T), q # <<>>
  PROVE  /\ Tail(q) \in Seq(T) /\ Len(q) = Len(Tail(q)) + 1 /\ Head(q) = q[1]
         /\ \A i \in 1..Len(Tail(q)) : Tail(q)[i] = q[i + 1]
  OBVIOUS

LEMMA Longer ==
  ASSUME NEW T, NEW q \in Seq(T), NEW p \in T
  PROVE  /\ Append(q, p) \in Seq(T) /\ Len(Append(q, p)) = Len(q) + 1
         /\ Append(q, p)[Len(q) + 1] = p
         /\ \A i \in 1..Len(q) : Append(q, p)[i] = q[i]
  OBVIOUS

LEMMA StoredType ==
  ASSUME EmulatorInv
  PROVE  Stored \in Seq(Frames)
  <1>1. PICK n \in Nat : size = n * P_SIZE /\ size \div P_SIZE = n
    BY RingSize
  <1>2. PICK c \in Seq(Tagged) : c = Ring!Contents
    BY DEF EmulatorInv, StateInv
  <1>3. Len(c) = n * P_SIZE
    BY <1>1, <1>2, RingSize
  <1>4. Cut(c, n) \in Seq([1..P_SIZE -> Tagged])
    BY <1>3, CutType
  <1> QED BY <1>1, <1>2, <1>4, StoredIs DEF Frames

LEMMA StoredAppend ==
  ASSUME EmulatorInv, recieve_data
  PROVE  Stored' = Append(Stored, Bytes(Head(inq)))
  <1>1. PICK n \in Nat : size = n * P_SIZE /\ size \div P_SIZE = n
    BY RingSize
  <1>2. PICK c \in Seq(Tagged) : c = Ring!Contents
    BY DEF EmulatorInv, StateInv
  <1>3. PICK b \in Seq(Tagged) : b = Bytes(Head(inq)) /\ Len(b) = P_SIZE
    BY RecieveRing, PacketBytes
  <1>4. Len(c) = n * P_SIZE
    BY <1>1, <1>2, RingSize
  <1>5. Cut(c \o b, n + 1) = Append(Cut(c, n), b)
    BY <1>3, <1>4, CutAppend
  <1>6. size' = (n + 1) * P_SIZE /\ Ring!Contents' = c \o b
    BY <1>1, <1>2, <1>3, RecieveRing, NextMultiple
  <1>7. size' \div P_SIZE = n + 1
    BY <1>6, Quotient
  <1>8. Stored' = Cut(c \o b, n + 1)
    BY <1>6, <1>7, SameNext DEF Stored, Cut, Piece
  <1> QED BY <1>1, <1>2, <1>3, <1>5, <1>8, StoredIs

LEMMA StoredTail ==
  ASSUME EmulatorInv, transmit_data
  PROVE  /\ Stored # <<>> /\ handed' = Head(Stored) /\ Stored' = Tail(Stored)
  <1>1. PICK n \in Nat : size = n * P_SIZE /\ size \div P_SIZE = n
    BY RingSize
  <1>2. PICK c \in Seq(Tagged) : c = Ring!Contents
    BY DEF EmulatorInv, StateInv
  <1>3. Len(c) = n * P_SIZE
    BY <1>1, <1>2, RingSize
  <1>4. n \in Nat \ {0} /\ size' = (n - 1) * P_SIZE /\ n - 1 \in Nat
    BY <1>1, TransmitRing, NextMultiple
  <1>5. /\ Cut(c, n) # <<>> /\ Head(Cut(c, n)) = SubSeq(c, 1, P_SIZE)
        /\ Tail(Cut(c, n)) = Cut(SubSeq(c, P_SIZE + 1, Len(c)), n - 1)
    BY <1>3, <1>4, CutTail
  <1>6. /\ Ring!Contents' = SubSeq(c, P_SIZE + 1, Len(c)) /\ handed' = SubSeq(c, 1, P_SIZE)
    BY <1>2, TransmitRing
  <1>7. size' \div P_SIZE = n - 1
    BY <1>4, Quotient
  <1>8. Stored' = Cut(SubSeq(c, P_SIZE + 1, Len(c)), n - 1)
    BY <1>6, <1>7, SameNext DEF Stored, Cut, Piece
  <1> QED BY <1>1, <1>2, <1>5, <1>6, <1>8, StoredIs

LEMMA StoredKept ==
  ASSUME UNCHANGED ringVars
  PROVE  Stored' = Stored
  BY RingKept, SameState, SameNext DEF Stored

Transit == Stored \o Wire(inq)

LEMMA ChannelStep ==
  ASSUME EmulatorInv, [Next]_vars
  PROVE  \/ UNCHANGED <<Transit, sent>>
         \/ \E p \in Packet : Transit' = Append(Transit, Bytes(p)) /\ sent' = sent
         \/ Transit # <<>> /\ Transit' = Tail(Transit)
              /\ (sent' = sent \/ sent' = Append(sent, Head(Transit)))
  <1>1. PICK s \in Seq(Frames) : s = Stored
    BY StoredType
  <1>2. inq \in Seq(Packet)
    BY DEF EmulatorInv, StateInv
  <1>3. PICK u \in Seq(Frames) : u = Wire(inq) /\ Len(u) = Len(inq)
                                 /\ \A i \in 1..Len(inq) : u[i] = Bytes(inq[i])
    BY <1>2, WireType
  <1>4. CASE recieve_data
    <2>1. inq # <<>> /\ inq' = Tail(inq) /\ sent' = sent
      BY <1>4 DEF recieve_data
    <2>2. PICK w \in Seq(Packet) : w = Tail(inq)
      BY <1>2, <2>1, Shorter
    <2>3. /\ Len(inq) = Len(w) + 1 /\ Head(inq) = inq[1]
          /\ \A i \in 1..Len(w) : w[i] = inq[i + 1]
      BY <1>2, <2>1, <2>2, Shorter
    <2>4. PICK v \in Seq(Frames) : v = Wire(w) /\ Len(v) = Len(w)
                                   /\ \A i \in 1..Len(w) : v[i] = Bytes(w[i])
      BY WireType
    <2>5. PICK x \in Frames : x = Bytes(Head(inq))
      BY <1>4, RecieveRing DEF Bytes, Frames, Tagged
    <2>6. Len(u) = Len(v) + 1 /\ u[1] = x /\ \A i \in 1..Len(v) : v[i] = u[i + 1]
      BY <1>3, <2>3, <2>4, <2>5
    <2>7. Append(s, x) \o v = s \o u
      BY <2>6, Joined
    <2>8. Stored' = Append(s, x) /\ Wire(inq)' = v
      BY <1>1, <1>4, <2>1, <2>2, <2>4, <2>5, StoredAppend DEF Wire
    <2> QED BY <1>1, <1>3, <2>1, <2>7, <2>8 DEF Transit
  <1>5. CASE transmit_data
    <2>1. s # <<>> /\ handed' = Head(s) /\ Stored' = Tail(s)
      BY <1>1, <1>5, StoredTail
    <2>2. s \o u # <<>> /\ Head(s \o u) = Head(s) /\ Tail(s \o u) = Tail(s) \o u
      BY <2>1, JoinedTail
    <2>3. inq' = inq /\ (sent' = sent \/ sent' = Append(sent, handed'))
      BY <1>5 DEF transmit_data
    <2>4. Transit' = Tail(s) \o u /\ Transit = s \o u
      BY <1>1, <1>3, <2>1, <2>3 DEF Transit, Wire
    <2> QED BY <2>1, <2>2, <2>3, <2>4
  <1>6. CASE check_command
    BY <1>6, StoredKept DEF check_command, quit, set_ploss, Transit, Wire
  <1>7. ASSUME NEW p \in Packet, Arrive(p), inq' = Append(inq, p)
        PROVE  Transit' = Append(Transit, Bytes(p)) /\ sent' = sent
    <2>1. Stored' = s /\ sent' = sent
      BY <1>1, <1>7, StoredKept DEF Arrive
    <2>2. PICK w \in Seq(Packet) : w = Append(inq, p)
      BY <1>2, Longer
    <2>3. Len(w) = Len(inq) + 1 /\ w[Len(inq) + 1] = p /\ \A i \in 1..Len(inq) : w[i] = inq[i]
      BY <1>2, <2>2, Longer
    <2>4. PICK v \in Seq(Frames) : v = Wire(w) /\ Len(v) = Len(w)
                                   /\ \A i \in 1..Len(w) : v[i] = Bytes(w[i])
      BY WireType
    <2>5. PICK x \in Frames : x = Bytes(p)
      BY DEF Bytes, Frames, Tagged
    <2>6. v = Append(u, x)
      BY <1>2, <1>3, <2>3, <2>4, <2>5, SeqAppended
    <2>7. s \o Append(u, x) = Append(s \o u, x)
      BY JoinedAppend
    <2>8. Wire(inq)' = v
      BY <1>7, <2>2, <2>4 DEF Wire
    <2> QED BY <1>1, <1>3, <2>1, <2>5, <2>6, <2>7, <2>8 DEF Transit
  <1>8. ASSUME NEW p \in Packet, Arrive(p), inq' = inq
        PROVE  UNCHANGED <<Transit, sent>>
    BY <1>8, StoredKept DEF Arrive, Transit, Wire
  <1>9. CASE UNCHANGED vars
    BY <1>9, StoredKept DEF vars, ringVars, Transit, Wire
  <1>10. ASSUME NEW p \in Packet, Arrive(p) PROVE inq' = inq \/ inq' = Append(inq, p)
    BY <1>10 DEF Arrive
  <1> QED BY <1>4, <1>5, <1>6, <1>7, <1>8, <1>9, <1>10 DEF Next

(* Whatever the loss rate, the sizes of packets and ring and the packets   *)
(* that arrive, and wherever the ring splits a packet: the emulator sends  *)
(* on what arrived, byte for byte and in order, and may lose some.         *)
THEOREM EmulatorIsChannel == Spec => ImplementsChannel
  <1>1. Init => Channel!Init
    <2> SUFFICES ASSUME Init PROVE Channel!Init
      OBVIOUS
    <2>1. size \div P_SIZE = 0 /\ inq = <<>> /\ sent = <<>>
      BY Quotient DEF Init, c_buffer!Init
    <2>2. Stored = <<>> /\ [i \in 1..Len(inq) |-> Bytes(inq[i])] = <<>>
      BY <2>1 DEF Stored
    <2> QED BY <2>1, <2>2 DEF Channel!Init
  <1>2. ASSUME EmulatorInv, [Next]_vars PROVE [Channel!Next]_(Channel!vars)
    <2>1. CASE UNCHANGED <<Transit, sent>>
      BY <2>1 DEF Transit, Wire, Channel!vars
    <2>2. ASSUME NEW p \in Packet, Transit' = Append(Transit, Bytes(p)), sent' = sent
          PROVE  Channel!Next
      BY <2>2 DEF Transit, Wire, Channel!Next, Channel!Accept
    <2>3. ASSUME Transit # <<>>, Transit' = Tail(Transit),
                 sent' = sent \/ sent' = Append(sent, Head(Transit))
          PROVE  Channel!Next
      BY <2>3 DEF Transit, Wire, Channel!Next, Channel!Lose, Channel!SendOn
    <2> QED BY <1>2, <2>1, <2>2, <2>3, ChannelStep
  <1> QED BY <1>1, <1>2, EmulatorInvariance, PTL DEF Spec, ImplementsChannel, Channel!Spec
=============================================================================
