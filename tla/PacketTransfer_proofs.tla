----------------------- MODULE PacketTransfer_proofs -----------------------
(***************************************************************************)
(* For every header and packet size, any transfers and any bounds on       *)
(* losses, doubles and ended processes: a clean transfer is taken in       *)
(* order, ends with its last piece and is not called completed before the  *)
(* receiver has all of it.                                                 *)
(*                                                                         *)
(* The invariant relates the positions of the two sides, which the code    *)
(* never compares: what the receiver took last is the item the sender      *)
(* waits for or the one before it, and which of the two shows in what is   *)
(* under way.                                                              *)
(***************************************************************************)
EXTENDS PacketTransfer, SequenceTheorems, TLAPS

(* The receiver took the header of the current transfer. *)
Accepted == SocketInfo.header_received \/ taken # <<>>

(* The last item of it the receiver took: 0 the header, -1 none yet. *)
Have == IF Accepted THEN Len(taken) ELSE -1

Item == IF item = 0 THEN HeaderOf(transfer) ELSE PacketOf(transfer, item)

Waiting ==
  \/ Have = item - 1 /\ acks = 0 /\ down \in {<<>>, <<Item>>}
  \/ Have = item /\ acks \in {0, 1} /\ down = <<>>

(* Both sides of a clean transfer over UDP. *)
InStep ==
  /\ item < 0 => down = <<>> /\ acks = 0
  /\ item < 0 /\ reported => Have = transfer.packets
  /\ item >= 0 => ~reported
  /\ item >= 0 /\ ~awaiting => Have = item - 1 /\ down = <<>> /\ acks = 0
  /\ item >= 0 /\ awaiting => Waiting

(* The bytes of the first n packets. *)
SizeOfFirst(t, n) == IF n = t.packets THEN TotalSize(t) ELSE n * packet_size

(* What a clean transfer's receiver took over UDP. *)
TakenUdp ==
  /\ Len(taken) <= transfer.packets
  /\ \A i \in 1..Len(taken) : taken[i] = PacketOf(transfer, i)
  /\ SocketInfo.header_received =>
       /\ SocketInfo.packets = transfer.packets - Len(taken)
       /\ SocketInfo.totalRecv = SizeOfFirst(transfer, Len(taken))

Byte(n) == [kind |-> "data", of |-> transfer, n |-> n]

(* What it took over TCP, and what it has still to read. *)
TakenTcp ==
  /\ \A i \in 1..Len(taken) : taken[i] = Byte(i)
  /\ ~Accepted => stream = StreamOf(transfer)
  /\ Accepted =>
       /\ Len(stream) = TotalSize(transfer) - Len(taken)
       /\ \A j \in 1..Len(stream) : stream[j] = Byte(Len(taken) + j)
  /\ SocketInfo.header_received => SocketInfo.totalRecv = Len(taken)

(* The receiver of a clean transfer, whichever the protocol: it waits for  *)
(* data of which more is to come, or has it all and is saving it, or waits *)
(* for a header.                                                           *)
Holds ==
  /\ ~crashed
  /\ dialogs \in {0, 1}
  /\ SocketInfo.header_received =>
       /\ SocketInfo.initPackets = transfer.packets
       /\ SocketInfo.total_size = TotalSize(transfer)
       /\ SocketInfo.mode = transfer.mode
       /\ dialogs = 0 => Len(taken) < Pieces \/ transfer.packets = 0
  /\ dialogs # 0 => SocketInfo.header_received /\ taken # <<>> /\ Received
  /\ ~SocketInfo.header_received => taken = <<>> \/ Received

Transfer == [id : Nat, mode : {"file", "packet"}, packets : Nat, last : 1..packet_size]
Datagram == [kind : {"header", "data"}, of : Transfer, n : Nat, size : 1..packet_size]
StreamByte == [kind : {"header", "data"}, of : Transfer, n : Nat]

Info == [header_received : BOOLEAN, initPackets : Int, packets : Int,
         total_size : Int, totalRecv : Int, mode : {"file", "packet"}]

SenderType ==
  /\ transfer \in Transfer
  /\ item \in -1..transfer.packets
  /\ awaiting \in BOOLEAN /\ reported \in BOOLEAN
  /\ awaiting => item >= 0

ReceiverType ==
  /\ SocketInfo \in Info
  /\ SocketInfo.packets <= SocketInfo.initPackets
  /\ dialogs \in Nat
  /\ taken \in Seq(Datagram \cup StreamByte)
  /\ crashed \in BOOLEAN

NetType ==
  /\ down \in Seq(Datagram)
  /\ acks \in Nat
  /\ stream \in Seq(StreamByte)
  /\ clean \in BOOLEAN
  /\ protocol \in {"TCP", "UDP"}
  /\ protocol = "TCP" => item = -1 /\ down = <<>> /\ acks = 0
  /\ protocol = "UDP" => stream = <<>>

TypeInv == SenderType /\ ReceiverType /\ NetType

CleanInv ==
  clean => /\ Holds
           /\ protocol = "UDP" => InStep /\ TakenUdp
           /\ protocol = "TCP" => TakenTcp

IInv == TypeInv /\ CleanInv

-----------------------------------------------------------------------------
(***************************************************************************)
(* Sizes and sequences.                                                    *)
(***************************************************************************)

(* A product grows with its first factor. *)
LEMMA Products ==
  ASSUME NEW a \in Nat, NEW b \in Nat, NEW c \in Nat \ {0}
  PROVE  /\ a * c \in Nat /\ (a + 1) * c = a * c + c /\ c * a = a * c
         /\ 0 * c = 0
         /\ a < b => a * c + c <= b * c
<1>1. a * c \in Nat /\ (a + 1) * c = a * c + c /\ c * a = a * c /\ 0 * c = 0
  OBVIOUS
<1>2. ASSUME a < b PROVE a * c + c <= b * c
  <2>1. PICK d \in Nat : b = a + 1 + d
    <3>1. b - a - 1 \in Nat /\ b = a + 1 + (b - a - 1)
      BY <1>2
    <3> QED BY <3>1
  <2>2. b * c = a * c + c + d * c
    BY <2>1
  <2>3. d * c \in Nat
    OBVIOUS
  <2> QED BY <2>2, <2>3, <1>1
<1> QED BY <1>1, <1>2

(* The bytes after one packet more, for init_udp_receive: they are those   *)
(* of the transfer just when the packet was its last, and fit its buffer.  *)
LEMMA Sizes ==
  ASSUME NEW t \in Transfer
  PROVE  /\ TotalSize(t) \in Nat
         /\ TotalSize(t) = 0 <=> t.packets = 0
         /\ TotalSize(t) <= packet_size * t.packets
         /\ SizeOfFirst(t, 0) = 0
         /\ \A n \in 0..(t.packets - 1) :
              /\ PacketOf(t, n + 1).size \in 1..packet_size
              /\ SizeOfFirst(t, n) \in Nat
              /\ SizeOfFirst(t, n) + PacketOf(t, n + 1).size = SizeOfFirst(t, n + 1)
              /\ SizeOfFirst(t, n + 1) <= packet_size * t.packets
              /\ SizeOfFirst(t, n + 1) = TotalSize(t) <=> n + 1 = t.packets
<1> DEFINE p == t.packets
           c == packet_size
<1>0. p \in Nat /\ c \in Nat \ {0} /\ t.last \in 1..c
  BY PacketSizeAssumption DEF Transfer
<1>1. CASE p = 0
  <2>1. 0 * c = 0 /\ c * 0 = 0
    BY <1>0
  <2> QED BY <1>0, <1>1, <2>1 DEF TotalSize, SizeOfFirst
<1>2. CASE p > 0
  <2>1. p - 1 \in Nat /\ p = (p - 1) + 1
    BY <1>0, <1>2
  <2>2. (p - 1) * c \in Nat /\ p * c = (p - 1) * c + c /\ c * p = p * c
    BY <2>1, <1>0, Products
  <2>3. TotalSize(t) = (p - 1) * c + t.last
    BY <1>0, <1>2 DEF TotalSize
  <2>4. TotalSize(t) \in Nat /\ TotalSize(t) # 0 /\ TotalSize(t) <= c * p
    BY <1>0, <2>2, <2>3
  <2>5. SizeOfFirst(t, 0) = 0
    BY <1>0, <1>2, Products DEF SizeOfFirst
  <2>6. ASSUME NEW n \in 0..(p - 1)
        PROVE  /\ PacketOf(t, n + 1).size \in 1..c
               /\ SizeOfFirst(t, n) \in Nat
               /\ SizeOfFirst(t, n) + PacketOf(t, n + 1).size = SizeOfFirst(t, n + 1)
               /\ SizeOfFirst(t, n + 1) <= c * p
               /\ SizeOfFirst(t, n + 1) = TotalSize(t) <=> n + 1 = p
    <3>1. n \in Nat /\ n # p /\ SizeOfFirst(t, n) = n * c /\ n * c \in Nat
          /\ (n + 1) * c = n * c + c
      BY <1>0, <2>1, Products DEF SizeOfFirst
    <3>2. PacketOf(t, n + 1).size = IF n + 1 = p THEN t.last ELSE c
      BY DEF PacketOf
    <3>3. CASE n + 1 = p
      <4>1. SizeOfFirst(t, n + 1) = TotalSize(t) /\ n = p - 1
        BY <3>3, <3>1, <1>0 DEF SizeOfFirst
      <4> QED BY <4>1, <3>1, <3>2, <3>3, <2>3, <2>4, <1>0
    <3>4. CASE n + 1 # p
      <4>1. SizeOfFirst(t, n + 1) = (n + 1) * c
        BY <3>4 DEF SizeOfFirst
      <4>2. n < p - 1
        BY <3>4, <3>1, <1>0
      <4>3. n * c + c <= (p - 1) * c
        BY <4>2, <3>1, <2>1, <1>0, Products
      <4> HIDE DEF p, c
      <4> QED BY <4>1, <4>3, <3>1, <3>2, <3>4, <2>2, <2>3, <1>0
    <3> QED BY <3>3, <3>4
  <2> HIDE DEF c
  <2> QED BY <2>4, <2>5, <2>6, <1>2 DEF c
<1> QED BY <1>0, <1>1, <1>2

(* A read splits what is there; a datagram is taken out of a queue. *)
LEMMA Splits ==
  ASSUME NEW S, NEW s \in Seq(S), NEW n \in 0..Len(s)
  PROVE  /\ SubSeq(s, 1, n) \in Seq(S) /\ Len(SubSeq(s, 1, n)) = n
         /\ \A j \in 1..n : SubSeq(s, 1, n)[j] = s[j]
         /\ SubSeq(s, n + 1, Len(s)) \in Seq(S)
         /\ Len(SubSeq(s, n + 1, Len(s))) = Len(s) - n
         /\ \A j \in 1..(Len(s) - n) : SubSeq(s, n + 1, Len(s))[j] = s[n + j]
  BY SubSeqProperties

LEMMA TakenOut ==
  ASSUME NEW S, NEW s \in Seq(S), NEW i \in DOMAIN s
  PROVE  /\ s[i] \in S
         /\ Without(s, i) \in Seq(S)
         /\ Len(s) = 1 => i = 1 /\ Without(s, i) = <<>>
<1>1. i \in 1..Len(s) /\ Len(s) \in Nat
  OBVIOUS
<1>2. SubSeq(s, 1, i - 1) \in Seq(S) /\ Len(SubSeq(s, 1, i - 1)) = i - 1
  BY <1>1, Splits
<1>3. SubSeq(s, i + 1, Len(s)) \in Seq(S) /\ Len(SubSeq(s, i + 1, Len(s))) = Len(s) - i
  BY <1>1, Splits
<1>4. Len(Without(s, i)) = Len(s) - 1 /\ Without(s, i) \in Seq(S)
  BY <1>1, <1>2, <1>3 DEF Without
<1> QED BY <1>1, <1>4

(* tcp_deliver_packets puts a header and the bytes of the packets on the   *)
(* stream.                                                                 *)
LEMMA StreamShape ==
  ASSUME NEW t \in Transfer
  PROVE  /\ StreamOf(t) \in Seq(StreamByte)
         /\ Len(StreamOf(t)) = HEADER_SIZE + TotalSize(t)
         /\ StreamOf(t)[1] = [kind |-> "header", of |-> t, n |-> 1]
         /\ \A j \in 1..TotalSize(t) :
              StreamOf(t)[HEADER_SIZE + j] = [kind |-> "data", of |-> t, n |-> j]
<1> DEFINE h == [n \in 1..HEADER_SIZE |-> [kind |-> "header", of |-> t, n |-> n]]
           b == [n \in 1..TotalSize(t) |-> [kind |-> "data", of |-> t, n |-> n]]
<1>1. HEADER_SIZE \in Nat \ {0} /\ TotalSize(t) \in Nat
  BY PacketSizeAssumption, Sizes
<1>2. h \in Seq(StreamByte) /\ Len(h) = HEADER_SIZE
  <2>1. \A n \in 1..HEADER_SIZE : h[n] \in StreamByte
    BY <1>1 DEF StreamByte
  <2> QED BY <2>1, <1>1
<1>3. b \in Seq(StreamByte) /\ Len(b) = TotalSize(t)
  <2>1. \A n \in 1..TotalSize(t) : b[n] \in StreamByte
    BY <1>1 DEF StreamByte
  <2> QED BY <2>1, <1>1
<1>4. StreamOf(t) = h \o b
  BY DEF StreamOf
<1>5. h[1] = [kind |-> "header", of |-> t, n |-> 1]
  BY <1>1
<1>6. \A j \in 1..TotalSize(t) : b[j] = [kind |-> "data", of |-> t, n |-> j]
  OBVIOUS
<1> HIDE DEF h, b
<1>7. /\ h \o b \in Seq(StreamByte)
      /\ Len(h \o b) = HEADER_SIZE + TotalSize(t)
      /\ (h \o b)[1] = h[1]
      /\ \A j \in 1..TotalSize(t) : (h \o b)[HEADER_SIZE + j] = b[j]
  <2>1. /\ h \o b \in Seq(StreamByte)
        /\ Len(h \o b) = Len(h) + Len(b)
        /\ \A i \in 1..(Len(h) + Len(b)) :
             (h \o b)[i] = IF i <= Len(h) THEN h[i] ELSE b[i - Len(h)]
    BY <1>2, <1>3, ConcatProperties
  <2>2. (h \o b)[1] = h[1]
    <3>1. 1 \in 1..(Len(h) + Len(b)) /\ 1 <= Len(h)
      BY <1>1, <1>2, <1>3
    <3> QED BY <3>1, <2>1
  <2>3. ASSUME NEW j \in 1..TotalSize(t)
        PROVE  (h \o b)[HEADER_SIZE + j] = b[j]
    <3> DEFINE k == HEADER_SIZE + j
    <3>1. k \in 1..(Len(h) + Len(b)) /\ ~(k <= Len(h)) /\ k - Len(h) = j
      BY <1>1, <1>2, <1>3
    <3> HIDE DEF k
    <3>2. (h \o b)[k] = IF k <= Len(h) THEN h[k] ELSE b[k - Len(h)]
      BY <3>1, <2>1
    <3>3. (h \o b)[k] = b[k - Len(h)]
      BY <3>1, <3>2
    <3>4. (h \o b)[k] = b[j]
      BY <3>1, <3>3
    <3> QED BY <3>4 DEF k
  <2> QED BY <1>2, <1>3, <2>1, <2>2, <2>3
<1> QED BY <1>4, <1>5, <1>6, <1>7

-----------------------------------------------------------------------------
(***************************************************************************)
(* Types.                                                                  *)
(***************************************************************************)

(* What the sender makes is typed. *)
LEMMA Sent ==
  ASSUME NEW t \in Transfer, NEW n \in 0..t.packets
  PROVE  /\ HeaderOf(t) \in Datagram
         /\ n > 0 => PacketOf(t, n) \in Datagram
<1>1. HeaderOf(t) \in Datagram
  BY PacketSizeAssumption DEF HeaderOf, Datagram
<1>2. ASSUME n > 0 PROVE PacketOf(t, n) \in Datagram
  BY <1>2, PacketSizeAssumption DEF PacketOf, Datagram, Transfer
<1> QED BY <1>1, <1>2

LEMMA FreshType == Fresh \in Info /\ Fresh.packets <= Fresh.initPackets
  BY DEF Fresh, Info

LEMMA CountedType ==
  ASSUME NEW i \in Info, NEW size \in Int
  PROVE  [i EXCEPT !.packets = @ - 1, !.totalRecv = @ + size] \in Info
<1> DEFINE h == i.header_received
           q == i.initPackets
           p == i.packets - 1
           z == i.total_size
           v == i.totalRecv + size
           m == i.mode
           j == [i EXCEPT !.packets = @ - 1, !.totalRecv = @ + size]
<1>1. h \in BOOLEAN
  BY DEF Info
<1>2. q \in Int /\ p \in Int /\ z \in Int /\ v \in Int /\ m \in {"file", "packet"}
  BY DEF Info
<1>3. j = [header_received |-> h, initPackets |-> q, packets |-> p,
           total_size |-> z, totalRecv |-> v, mode |-> m]
  <2>1. j = [[i EXCEPT !.packets = p] EXCEPT !.totalRecv = v]
    OBVIOUS
  <2>2. i = [header_received |-> h, initPackets |-> q, packets |-> i.packets,
             total_size |-> z, totalRecv |-> i.totalRecv, mode |-> m]
    BY Zenon DEF Info
  <2> DEFINE k == [header_received |-> h, initPackets |-> q, packets |-> i.packets,
                   total_size |-> z, totalRecv |-> i.totalRecv, mode |-> m]
  <2>3. j = [[k EXCEPT !.packets = p] EXCEPT !.totalRecv = v]
    BY <2>1, <2>2, Zenon
  <2> HIDE DEF h, q, p, z, v, m, j
  <2> QED BY <2>3
<1> HIDE DEF h, q, p, z, v, m, j
<1>4. j \in Info
  BY <1>1, <1>2, <1>3 DEF Info
<1> QED BY <1>4 DEF j

(* What grab_header_info makes of a header, or of anything else. *)
LEMMA ParsedType ==
  /\ \A t \in Transfer : ParsedHeader(t) =>
        /\ SocketInfo' \in Info /\ SocketInfo'.packets <= SocketInfo'.initPackets
        /\ crashed' = crashed
  /\ ReceiverType /\ ParsedOther =>
        /\ SocketInfo' \in Info /\ SocketInfo'.packets <= SocketInfo'.initPackets
        /\ crashed' \in BOOLEAN
<1>1. ASSUME NEW p \in Int, NEW s \in Int, NEW m \in {"file", "packet"}
      PROVE  Expecting(p, s, m) \in Info /\ Expecting(p, s, m).packets <= Expecting(p, s, m).initPackets
  BY <1>1 DEF Expecting, Info
<1>2. ASSUME NEW t \in Transfer, ParsedHeader(t)
      PROVE  /\ SocketInfo' \in Info /\ SocketInfo'.packets <= SocketInfo'.initPackets
             /\ crashed' = crashed
  <2>1. TotalSize(t) \in Int /\ t.packets \in Int /\ t.mode \in {"file", "packet"}
    BY Sizes DEF Transfer
  <2> QED BY <1>1, <1>2, <2>1 DEF ParsedHeader
<1>3. ASSUME ReceiverType, ParsedOther
      PROVE  /\ SocketInfo' \in Info /\ SocketInfo'.packets <= SocketInfo'.initPackets
             /\ crashed' \in BOOLEAN
  <2>1. CASE \E g \in Garbage :
               SocketInfo' = Expecting(g.packets, g.total_size, g.mode) /\ UNCHANGED crashed
    <3>1. PICK g \in Garbage :
            SocketInfo' = Expecting(g.packets, g.total_size, g.mode) /\ UNCHANGED crashed
      BY <2>1
    <3>2. g.packets \in Int /\ g.total_size \in Int /\ g.mode \in {"file", "packet"}
      BY GarbageAssumption
    <3> QED BY <1>1, <1>3, <3>1, <3>2 DEF ReceiverType
  <2>2. CASE crashed' = TRUE /\ UNCHANGED SocketInfo
    BY <1>3, <2>2 DEF ReceiverType
  <2> QED BY <1>3, <2>1, <2>2 DEF ParsedOther
<1> QED BY <1>2, <1>3

(* Counted and transfer_completion. *)
LEMMA StoreType ==
  ASSUME NEW pieces \in Seq(Datagram \cup StreamByte), NEW size \in Int, NEW completes
  PROVE  /\ ReceiverType => Counted(size) \in Info
         /\ ReceiverType /\ Store(pieces, size, completes) => ReceiverType'
<1> SUFFICES ASSUME ReceiverType
             PROVE  /\ Counted(size) \in Info
                    /\ Store(pieces, size, completes) => ReceiverType'
  OBVIOUS
<1>1. Counted(size) \in Info /\ Counted(size).packets <= Counted(size).initPackets
  <2>1. Counted(size) \in Info
    BY CountedType DEF ReceiverType, Counted
  <2>2. Counted(size).packets = SocketInfo.packets - 1
        /\ Counted(size).initPackets = SocketInfo.initPackets
    BY DEF ReceiverType, Counted, Info
  <2>3. SocketInfo.packets \in Int /\ SocketInfo.initPackets \in Int
        /\ SocketInfo.packets <= SocketInfo.initPackets
    BY DEF ReceiverType, Info
  <2> QED BY <2>1, <2>2, <2>3
<1>2. Fresh \in Info /\ Fresh.packets <= Fresh.initPackets
  BY FreshType
<1>3. ASSUME Store(pieces, size, completes) PROVE ReceiverType'
  <2>1. taken \o pieces \in Seq(Datagram \cup StreamByte)
    BY ConcatProperties DEF ReceiverType
  <2>2. SocketInfo' \in Info /\ SocketInfo'.packets <= SocketInfo'.initPackets
    <3>1. SocketInfo' \in {Fresh, Counted(size), SocketInfo}
      BY <1>3 DEF Store
    <3> QED BY <3>1, <1>1, <1>2 DEF ReceiverType
  <2>3. dialogs' \in Nat /\ crashed' \in BOOLEAN /\ taken' \in Seq(Datagram \cup StreamByte)
    <3>1. dialogs' \in {dialogs, dialogs + 1} /\ taken' \in {taken \o pieces, taken}
      BY <1>3 DEF Store
    <3>2. crashed' = crashed \/ crashed' = TRUE
      BY <1>3, Zenon DEF Store
    <3>0. dialogs \in Nat /\ taken \in Seq(Datagram \cup StreamByte)
      BY DEF ReceiverType
    <3>3. dialogs' \in Nat /\ taken' \in Seq(Datagram \cup StreamByte)
      <4>1. dialogs' \in Nat
        BY <3>0, <3>1
      <4>2. taken' \in Seq(Datagram \cup StreamByte)
        BY <3>0, <3>1, <2>1, Zenon
      <4> QED BY <4>1, <4>2
    <3>4. crashed' \in BOOLEAN
      BY <3>2, Zenon DEF ReceiverType
    <3> QED BY <3>3, <3>4
  <2> QED BY <2>2, <2>3 DEF ReceiverType
<1> QED BY <1>1, <1>3

LEMMA InitInv == Init => IInv
<1> SUFFICES ASSUME Init PROVE IInv
  OBVIOUS
<1> USE DEF Init, SenderInit, ReceiverInit
<1>1. SenderType
  <2>1. transfer \in Transfer /\ item \in -1..transfer.packets
    BY PacketSizeAssumption DEF NoTransfer, Transfer
  <2>2. awaiting \in BOOLEAN /\ reported \in BOOLEAN /\ ~awaiting
    BY Zenon
  <2> QED BY <2>1, <2>2 DEF SenderType
<1>2. ReceiverType
  <2>1. crashed \in BOOLEAN
    BY Zenon
  <2>2. SocketInfo = Fresh /\ dialogs = 0 /\ taken \in Seq(Datagram \cup StreamByte)
    OBVIOUS
  <2> QED BY <2>1, <2>2, FreshType DEF ReceiverType
<1>3. NetType
  <2>1. clean \in BOOLEAN
    BY Zenon
  <2>2. protocol \in {"TCP", "UDP"} /\ item = -1 /\ acks = 0 /\ down = <<>> /\ stream = <<>>
    BY NetworkAssumption
  <2> QED BY <2>1, <2>2 DEF NetType
<1>4. CleanInv
  BY DEF CleanInv
<1> QED BY <1>1, <1>2, <1>3, <1>4 DEF IInv, TypeInv

LEMMA TypeStep == TypeInv /\ [Next]_vars => TypeInv'
<1> SUFFICES ASSUME TypeInv, [Next]_vars PROVE TypeInv'
  OBVIOUS
<1> USE DEF TypeInv
<1>1. ASSUME NEW s \in Selections, SendFile(s) PROVE TypeInv'
  <2>0. Begin(s) /\ item = -1
    BY <1>1 DEF SendFile, udp_deliver_packets, tcp_deliver_packets, Begin
  <2>1. transfer' \in Transfer
    BY <2>0, SelectionsAssumption DEF Begin, SenderType, Transfer
  <2>2. SenderType'
    <3>1. transfer'.packets \in Nat
      BY <2>1 DEF Transfer
    <3>2. item' \in {-1, 0} /\ awaiting' = awaiting /\ reported' \in BOOLEAN
      BY <1>1, <2>0 DEF SendFile, udp_deliver_packets, tcp_deliver_packets
    <3>3. awaiting = FALSE
      BY <2>0 DEF SenderType
    <3> QED BY <2>1, <3>1, <3>2, <3>3 DEF SenderType
  <2>3. ReceiverType'
    BY <1>1 DEF SendFile, ReceiverType
  <2>4. NetType'
    <3> USE <1>1 DEF SendFile, NetType
    <3>1. clean' \in BOOLEAN
      BY DEF Ready
    <3>2. CASE protocol = "UDP" /\ UNCHANGED stream
      BY <3>1, <3>2
    <3>3. CASE protocol = "TCP" /\ tcp_deliver_packets(s) /\ stream' = stream \o StreamOf(transfer')
      <4>1. stream' \in Seq(StreamByte)
        BY <3>3, <2>1, StreamShape, ConcatProperties
      <4>2. item' = item
        BY <3>3 DEF tcp_deliver_packets
      <4> QED BY <3>1, <3>3, <4>1, <4>2
    <3> QED BY <3>2, <3>3
  <2> QED BY <2>2, <2>3, <2>4
<1>2. ASSUME SendDatagram PROVE TypeInv'
  <2>1. PICK ds \in {{}, {HeaderOf(transfer)}, {PacketOf(transfer, item)}} :
          /\ WSASendTo(ds)
          /\ \/ ds = {} /\ lost < MaxLoss /\ lost' = lost + 1 /\ UNCHANGED down
             \/ \E d \in ds : down' = Append(down, d) /\ UNCHANGED lost
    BY <1>2 DEF SendDatagram
  <2>2. item >= 0 /\ protocol = "UDP"
    BY <2>1 DEF WSASendTo, NetType
  <2>3. SenderType'
    <3>1. item' \in {item, -1} /\ UNCHANGED <<transfer, reported>>
      BY <2>1 DEF WSASendTo
    <3>2. \/ awaiting' = TRUE /\ item' = item
          \/ awaiting' = awaiting /\ ~awaiting
      BY <2>1, Zenon DEF WSASendTo
    <3>3. awaiting' \in BOOLEAN
      BY <3>2, Zenon DEF SenderType
    <3>4. awaiting' => item' >= 0
      BY <3>2, <2>2
    <3> QED BY <3>1, <3>3, <3>4 DEF SenderType, Transfer
  <2>4. ReceiverType'
    BY <1>2 DEF SendDatagram, receiverVars, ReceiverType
  <2>5. down' \in Seq(Datagram)
    <3>1. ASSUME NEW d \in ds PROVE d \in Datagram
      <4>1. item \in 0..transfer.packets /\ transfer \in Transfer
        BY <2>2 DEF SenderType
      <4>2. d = IF item = 0 THEN HeaderOf(transfer) ELSE PacketOf(transfer, item)
        BY <2>1, <3>1 DEF WSASendTo
      <4> QED BY <4>1, <4>2, Sent
    <3> QED BY <2>1, <3>1 DEF NetType
  <2>6. NetType'
    BY <1>2, <2>2, <2>5 DEF SendDatagram, NetType
  <2> QED BY <2>3, <2>4, <2>6
<1>3. ASSUME TakeAck PROVE TypeInv'
  <2>1. item \in 0..transfer.packets /\ transfer.packets \in Nat
    BY <1>3 DEF TakeAck, receive_acknowledge, SenderType, Transfer
  <2>2. SenderType'
    <3>1. awaiting' = FALSE /\ reported' \in BOOLEAN /\ transfer' = transfer
      BY <1>3, Zenon DEF TakeAck, receive_acknowledge, LastItem
    <3>2. item' = IF item = transfer.packets THEN -1 ELSE item + 1
      BY <1>3 DEF TakeAck, receive_acknowledge, LastItem
    <3>3. item' \in -1..transfer.packets
      BY <2>1, <3>2
    <3> QED BY <3>1, <3>3 DEF SenderType
  <2>3. ReceiverType'
    BY <1>3 DEF TakeAck, receiverVars, ReceiverType
  <2>4. NetType'
    BY <1>3, <2>1 DEF TakeAck, NetType
  <2> QED BY <2>2, <2>3, <2>4
<1>4. ASSUME NEW i \in DOMAIN down, read_udp(i) PROVE TypeInv'
  <2>1. PICK acked \in {0, 1} :
          /\ grab_header_udp(down[i], acked) \/ init_udp_receive(down[i], acked)
          /\ acks' = acks + acked
    BY <1>4 DEF read_udp
  <2>2. down[i] \in Datagram /\ down' \in Seq(Datagram)
    BY <1>4, TakenOut DEF read_udp, NetType
  <2>3. ReceiverType'
    <3>1. CASE grab_header_udp(down[i], acked)
      <4>1. \/ UNCHANGED receiverVars
            \/ /\ ParsedHeader(down[i].of) \/ ParsedOther
               /\ taken' = <<>> /\ UNCHANGED dialogs
        BY <3>1 DEF grab_header_udp
      <4>2. down[i].of \in Transfer
        BY <2>2 DEF Datagram
      <4>3. CASE UNCHANGED receiverVars
        BY <4>3 DEF receiverVars, ReceiverType
      <4>4. CASE (ParsedHeader(down[i].of) \/ ParsedOther) /\ taken' = <<>> /\ UNCHANGED dialogs
        <5>1. SocketInfo' \in Info /\ SocketInfo'.packets <= SocketInfo'.initPackets
              /\ crashed' \in BOOLEAN
          BY <4>4, <4>2, ParsedType DEF ReceiverType
        <5> QED BY <4>4, <5>1 DEF ReceiverType
      <4> QED BY <4>1, <4>3, <4>4
    <3>2. CASE init_udp_receive(down[i], acked)
      <4>1. <<down[i]>> \in Seq(Datagram \cup StreamByte) /\ down[i].size \in Int
        BY <2>2 DEF Datagram
      <4> QED BY <3>2, <4>1, StoreType DEF init_udp_receive
    <3> QED BY <2>1, <3>1, <3>2
  <2>4. SenderType'
    BY <1>4 DEF read_udp, senderVars, SenderType
  <2>5. protocol # "TCP"
    BY <1>4 DEF NetType
  <2>6. NetType'
    BY <1>4, <2>1, <2>2, <2>5 DEF read_udp, senderVars, NetType
  <2> QED BY <2>3, <2>4, <2>6
<1>5. ASSUME read_tcp PROVE TypeInv'
  <2>1. PICK n \in 1..Least(packet_size, Len(stream)) :
          /\ \/ n = Least(HEADER_SIZE, Len(stream)) /\ grab_header_tcp(SubSeq(stream, 1, n))
             \/ init_tcp_receive(SubSeq(stream, 1, n))
          /\ stream' = SubSeq(stream, n + 1, Len(stream))
    BY <1>5 DEF read_tcp
  <2>2. n \in 1..Len(stream) /\ stream \in Seq(StreamByte)
    BY <2>1, PacketSizeAssumption DEF Least, NetType
  <2> DEFINE bytes == SubSeq(stream, 1, n)
  <2>3. bytes \in Seq(StreamByte) /\ Len(bytes) = n /\ bytes[1] \in StreamByte
        /\ stream' \in Seq(StreamByte)
    BY <2>1, <2>2, Splits
  <2> HIDE DEF bytes
  <2>4. ReceiverType'
    <3>1. CASE grab_header_tcp(bytes)
      <4>1. \/ UNCHANGED <<SocketInfo, crashed, taken, dialogs>>
            \/ /\ ParsedHeader(bytes[1].of) /\ taken' = <<>> /\ UNCHANGED dialogs
            \/ /\ ParsedOther /\ taken' = <<>> /\ UNCHANGED dialogs
        BY <3>1 DEF grab_header_tcp
      <4>2. bytes[1].of \in Transfer
        BY <2>3 DEF StreamByte
      <4>3. CASE UNCHANGED <<SocketInfo, crashed, taken, dialogs>>
        BY <4>3 DEF ReceiverType
      <4>4. CASE (ParsedHeader(bytes[1].of) \/ ParsedOther) /\ taken' = <<>> /\ UNCHANGED dialogs
        <5>1. SocketInfo' \in Info /\ SocketInfo'.packets <= SocketInfo'.initPackets
              /\ crashed' \in BOOLEAN
          BY <4>4, <4>2, ParsedType DEF ReceiverType
        <5> QED BY <4>4, <5>1 DEF ReceiverType
      <4> QED BY <4>1, <4>3, <4>4
    <3>2. CASE init_tcp_receive(bytes)
      <4>1. bytes \in Seq(Datagram \cup StreamByte) /\ Len(bytes) \in Int
        BY <2>3
      <4> QED BY <3>2, <4>1, StoreType DEF init_tcp_receive
    <3> QED BY <2>1, <3>1, <3>2 DEF bytes
  <2>5. SenderType'
    BY <1>5 DEF read_tcp, senderVars, SenderType
  <2>6. NetType'
    <3>1. protocol # "UDP"
      BY <1>5 DEF read_tcp, NetType
    <3> QED BY <1>5, <2>3, <3>1 DEF read_tcp, senderVars, NetType
  <2> QED BY <2>4, <2>5, <2>6
<1>6. ASSUME CloseDialog PROVE TypeInv'
  <2>1. ReceiverType'
    BY <1>6 DEF CloseDialog, SaveClosed, ReceiverType, Fresh, Info
  <2>2. SenderType' /\ NetType'
    BY <1>6 DEF CloseDialog, senderVars, netVars, SenderType, NetType
  <2> QED BY <2>1, <2>2
<1>7. ASSUME Lose PROVE TypeInv'
  <2>1. down' \in Seq(Datagram)
    BY <1>7, TakenOut DEF Lose, NetType
  <2>2. acks' \in Nat
    BY <1>7 DEF Lose, NetType
  <2>3. protocol # "TCP"
    BY <1>7 DEF Lose, NetType
  <2>4. SenderType' /\ ReceiverType'
    BY <1>7 DEF Lose, senderVars, receiverVars, SenderType, ReceiverType
  <2>5. NetType'
    BY <1>7, <2>1, <2>2, <2>3 DEF Lose, senderVars, NetType
  <2> QED BY <2>4, <2>5
<1>8. ASSUME Double PROVE TypeInv'
  <2>1. down' \in Seq(Datagram)
    <3>1. CASE \E i \in DOMAIN down : down' = Append(down, down[i])
      <4>1. PICK i \in DOMAIN down : down' = Append(down, down[i])
        BY <3>1
      <4>2. down[i] \in Datagram /\ down \in Seq(Datagram)
        BY TakenOut DEF NetType
      <4> QED BY <4>1, <4>2
    <3>2. CASE down' = down
      BY <3>2 DEF NetType
    <3> QED BY <1>8, <3>1, <3>2 DEF Double
  <2>2. acks' \in Nat
    BY <1>8 DEF Double, NetType
  <2>3. protocol # "TCP"
    BY <1>8 DEF Double, NetType
  <2>4. SenderType' /\ ReceiverType'
    BY <1>8 DEF Double, senderVars, receiverVars, SenderType, ReceiverType
  <2>5. NetType'
    BY <1>8, <2>1, <2>2, <2>3 DEF Double, senderVars, NetType
  <2> QED BY <2>4, <2>5
<1>9. ASSUME EndSender PROVE TypeInv'
  <2>1. item >= 0 /\ acks' \in Nat
    BY <1>9 DEF EndSender, EndTask, NetType
  <2>2. SenderType'
    <3>1. awaiting' = FALSE /\ item' = -1 /\ UNCHANGED <<transfer, reported>>
      BY <1>9, Zenon DEF EndSender, EndTask
    <3>2. item' \in -1..transfer.packets
      BY <3>1 DEF SenderType, Transfer
    <3> QED BY <3>1, <3>2 DEF SenderType
  <2>3. ReceiverType'
    BY <1>9 DEF EndSender, receiverVars, ReceiverType
  <2>4. NetType'
    <3>1. clean' \in BOOLEAN
      BY <1>9, Zenon DEF EndSender
    <3>2. UNCHANGED <<down, stream, protocol>> /\ protocol # "TCP"
      BY <1>9, <2>1 DEF EndSender, NetType
    <3> QED BY <2>1, <3>1, <3>2 DEF NetType
  <2> QED BY <2>2, <2>3, <2>4
<1>10. ASSUME Reinit PROVE TypeInv'
  <2>1. ReceiverType'
    BY <1>10 DEF Reinit, ReceiverType, Fresh, Info
  <2>2. SenderType'
    BY <1>10 DEF Reinit, senderVars, SenderType
  <2>3. NetType'
    <3>1. clean' \in BOOLEAN
      BY <1>10, Zenon DEF Reinit
    <3>2. UNCHANGED <<stream, protocol, acks>> /\ protocol = "UDP" /\ down' \in {<<>>, down}
      BY <1>10, Zenon DEF Reinit
    <3>3. down' \in Seq(Datagram)
      <4>1. down \in Seq(Datagram) /\ <<>> \in Seq(Datagram)
        BY DEF NetType
      <4> QED BY <3>2, <4>1, Zenon
    <3>4. acks' \in Nat /\ stream' \in Seq(StreamByte) /\ stream' = <<>> /\ protocol' = "UDP"
      <4>1. acks \in Nat /\ stream \in Seq(StreamByte) /\ stream = <<>>
        BY <3>2 DEF NetType
      <4>2. acks' = acks /\ stream' = stream /\ protocol' = protocol
        BY <3>2
      <4> QED BY <4>1, <4>2, <3>2
    <3> QED BY <3>1, <3>3, <3>4 DEF NetType
  <2> QED BY <2>1, <2>2, <2>3
<1>11. CASE UNCHANGED vars
  BY <1>11 DEF vars, senderVars, receiverVars, netVars, SenderType, ReceiverType, NetType
<1> QED BY <1>1, <1>2, <1>3, <1>4, <1>5, <1>6, <1>7, <1>8, <1>9, <1>10, <1>11 DEF Next

-----------------------------------------------------------------------------
(***************************************************************************)
(* Clean transfers.                                                        *)
(***************************************************************************)

LEMMA Unchanged ==
  UNCHANGED <<transfer, SocketInfo, dialogs, taken, crashed, protocol>> =>
    /\ Holds => Holds'
    /\ TakenUdp => TakenUdp'
    /\ Have' = Have
    /\ UNCHANGED stream /\ TakenTcp => TakenTcp'
<1> SUFFICES ASSUME UNCHANGED <<transfer, SocketInfo, dialogs, taken, crashed, protocol>>
             PROVE  /\ Holds => Holds'
                    /\ TakenUdp => TakenUdp'
                    /\ Have' = Have
                    /\ UNCHANGED stream /\ TakenTcp => TakenTcp'
  OBVIOUS
<1>1. Holds => Holds'
  BY DEF Holds, Pieces, Received
<1>2. TakenUdp => TakenUdp'
  BY DEF TakenUdp
<1>3. Have' = Have
  BY DEF Have, Accepted
<1>4. UNCHANGED stream /\ TakenTcp => TakenTcp'
  BY DEF TakenTcp, Accepted, Byte
<1> QED BY <1>1, <1>2, <1>3, <1>4

LEMMA SendFileClean ==
  ASSUME TypeInv, TypeInv', NEW s \in Selections, SendFile(s)
  PROVE  CleanInv'
<1> SUFFICES ASSUME clean'
             PROVE  /\ Holds'
                    /\ protocol' = "UDP" => InStep' /\ TakenUdp'
                    /\ protocol' = "TCP" => TakenTcp'
  BY DEF CleanInv
<1>1. /\ Ready /\ taken' = <<>>
      /\ UNCHANGED <<SocketInfo, dialogs, crashed, down, acks, protocol>>
  BY DEF SendFile
<1>2. /\ ~SocketInfo.header_received /\ dialogs = 0 /\ ~crashed
      /\ down = <<>> /\ acks = 0 /\ stream = <<>>
  BY <1>1 DEF Ready
<1>3. transfer'.packets \in Nat /\ transfer' \in Transfer
  BY DEF TypeInv, SenderType, Transfer
<1>4. Holds'
  BY <1>1, <1>2 DEF Holds
<1>5. ~Accepted' /\ Have' = -1
  BY <1>1, <1>2 DEF Have, Accepted
<1>6. ASSUME protocol' = "UDP" PROVE InStep' /\ TakenUdp'
  <2>1. udp_deliver_packets(s)
    BY <1>1, <1>6 DEF SendFile
  <2>2. item' = 0 /\ reported' = FALSE /\ awaiting' = awaiting /\ item = -1
    BY <2>1 DEF udp_deliver_packets, Begin
  <2>3. ~awaiting
    BY <2>2 DEF TypeInv, SenderType
  <2>4. InStep'
    BY <1>1, <1>2, <1>5, <2>2, <2>3 DEF InStep
  <2>5. TakenUdp'
    BY <1>1, <1>2, <1>3 DEF TakenUdp
  <2> QED BY <2>4, <2>5
<1>7. ASSUME protocol' = "TCP" PROVE TakenTcp'
  <2>1. stream' = stream \o StreamOf(transfer')
    BY <1>1, <1>7 DEF SendFile
  <2>2. stream' = StreamOf(transfer')
    BY <2>1, <1>2, <1>3, StreamShape, ConcatEmptySeq
  <2> QED BY <1>1, <1>2, <1>5, <2>2 DEF TakenTcp
<1> QED BY <1>4, <1>6, <1>7

LEMMA SendDatagramClean ==
  ASSUME TypeInv, CleanInv, SendDatagram
  PROVE  CleanInv'
<1> SUFFICES ASSUME clean
             PROVE  Holds' /\ protocol' = "UDP" /\ InStep' /\ TakenUdp'
  BY DEF CleanInv, SendDatagram
<1>1. PICK ds : /\ WSASendTo(ds)
                /\ \/ ds = {} /\ UNCHANGED down
                   \/ \E d \in ds : down' = Append(down, d)
  BY DEF SendDatagram
<1>2. UNCHANGED <<transfer, SocketInfo, dialogs, taken, crashed, protocol, acks, reported>>
  BY <1>1 DEF SendDatagram, WSASendTo, receiverVars
<1>3. item >= 0 /\ ~awaiting /\ protocol = "UDP"
  BY <1>1 DEF WSASendTo, TypeInv, NetType
<1>4. Holds /\ InStep /\ TakenUdp
  BY <1>3 DEF CleanInv
<1>5. Have = item - 1 /\ down = <<>> /\ acks = 0 /\ ~reported
  BY <1>3, <1>4 DEF InStep
<1>6. Holds' /\ TakenUdp' /\ Have' = Have
  BY <1>2, <1>4, Unchanged
<1>7. \/ item' = item /\ awaiting' = TRUE /\ down' \in {<<>>, <<Item>>}
      \/ item' = -1 /\ down' = <<>>
  <2>1. CASE ds = {Item} /\ awaiting' = TRUE /\ UNCHANGED item
    <3>1. down' = Append(<<>>, Item)
      BY <1>1, <1>5, <2>1
    <3> QED BY <2>1, <3>1
  <2>2. CASE ds = {} /\ (IF item = 0 THEN awaiting' = TRUE /\ UNCHANGED item
                                     ELSE item' = -1 /\ UNCHANGED awaiting)
    BY <1>1, <1>5, <2>2
  <2> QED BY <1>1, <2>1, <2>2 DEF WSASendTo, Item
<1>8. InStep'
  <2>1. CASE item' = item /\ awaiting' = TRUE /\ down' \in {<<>>, <<Item>>}
    <3>1. Item' = Item
      BY <1>2, <2>1 DEF Item
    <3>2. Waiting'
      BY <1>2, <1>5, <1>6, <2>1, <3>1 DEF Waiting
    <3>3. item' \in Int /\ item' >= 0 /\ awaiting' /\ ~reported'
      BY <1>2, <1>3, <1>5, <2>1 DEF TypeInv, SenderType
    <3> QED BY <3>2, <3>3 DEF InStep
  <2>2. CASE item' = -1 /\ down' = <<>>
    BY <1>2, <1>5, <2>2 DEF InStep
  <2> QED BY <1>7, <2>1, <2>2
<1> QED BY <1>2, <1>3, <1>6, <1>8

LEMMA TakeAckClean ==
  ASSUME TypeInv, CleanInv, TakeAck
  PROVE  CleanInv'
<1> SUFFICES ASSUME clean
             PROVE  Holds' /\ protocol' = "UDP" /\ InStep' /\ TakenUdp'
  BY DEF CleanInv, TakeAck
<1>1. UNCHANGED <<transfer, SocketInfo, dialogs, taken, crashed, protocol, down>>
  BY DEF TakeAck, receive_acknowledge, receiverVars
<1>2. awaiting /\ item >= 0 /\ protocol = "UDP" /\ acks > 0
  BY DEF TakeAck, receive_acknowledge, TypeInv, SenderType, NetType
<1>3. Holds /\ InStep /\ TakenUdp
  BY <1>2 DEF CleanInv
<1>4. Have = item /\ acks = 1 /\ down = <<>>
  BY <1>2, <1>3 DEF InStep, Waiting
<1>5. Holds' /\ TakenUdp' /\ Have' = Have
  BY <1>1, <1>3, Unchanged
<1>6. InStep'
  <2>1. acks' = 0 /\ down' = <<>> /\ awaiting' = FALSE
    BY <1>1, <1>4 DEF TakeAck, receive_acknowledge
  <2>2. CASE item = transfer.packets
    <3>1. item' = -1
      BY <2>2 DEF TakeAck, receive_acknowledge, LastItem
    <3> QED BY <1>1, <1>4, <1>5, <2>1, <2>2, <3>1 DEF InStep
  <2>3. CASE item # transfer.packets
    <3>1. item' = item + 1 /\ reported' = FALSE
      BY <2>3, Zenon DEF TakeAck, receive_acknowledge, LastItem
    <3>2. item' >= 0 /\ Have' = item' - 1
      BY <1>2, <1>4, <1>5, <3>1 DEF TypeInv, SenderType
    <3> QED BY <2>1, <3>1, <3>2 DEF InStep
  <2> QED BY <2>2, <2>3
<1> QED BY <1>1, <1>2, <1>5, <1>6

LEMMA LoseClean ==
  ASSUME TypeInv, CleanInv, Lose
  PROVE  CleanInv'
<1>1. UNCHANGED <<transfer, item, awaiting, reported, SocketInfo, dialogs, taken, crashed,
                  protocol, stream, clean>>
  BY DEF Lose, senderVars, receiverVars
<1> SUFFICES ASSUME clean
             PROVE  Holds' /\ protocol' = "UDP" /\ InStep' /\ TakenUdp'
  BY <1>1 DEF CleanInv
<1>2. protocol = "UDP"
  BY DEF Lose, TypeInv, NetType
<1>3. Holds /\ InStep /\ TakenUdp
  BY <1>2 DEF CleanInv
<1>4. Holds' /\ TakenUdp' /\ Have' = Have /\ Item' = Item
  BY <1>1, <1>3, Unchanged DEF Item
<1>5. InStep'
  <2>1. item >= 0 /\ awaiting /\ Waiting
    <3>1. down # <<>> \/ acks # 0
      BY DEF Lose, TypeInv, NetType
    <3> QED BY <1>3, <3>1 DEF InStep, TypeInv, SenderType
  <2>0. item' \in Int /\ item' >= 0 /\ awaiting' /\ ~reported'
    BY <1>1, <1>3, <2>1 DEF TypeInv, SenderType, InStep
  <2>2. CASE \E i \in DOMAIN down : down' = Without(down, i) /\ UNCHANGED acks
    <3>1. PICK i \in DOMAIN down : down' = Without(down, i) /\ UNCHANGED acks
      BY <2>2
    <3>2. Have = item - 1 /\ acks = 0 /\ down = <<Item>>
      BY <2>1, <3>1 DEF Waiting
    <3>3. down' = <<>>
      <4>1. down \in Seq(Datagram) /\ Len(down) = 1
        BY <3>2 DEF TypeInv, NetType
      <4> QED BY <3>1, <4>1, TakenOut
    <3>4. Waiting'
      BY <1>1, <1>4, <3>1, <3>2, <3>3 DEF Waiting
    <3> QED BY <2>0, <3>4 DEF InStep
  <2>3. CASE acks > 0 /\ acks' = acks - 1 /\ UNCHANGED down
    <3>1. Have = item /\ acks = 1 /\ down = <<>>
      BY <2>1, <2>3 DEF Waiting
    <3>2. Waiting'
      BY <1>1, <1>4, <2>3, <3>1 DEF Waiting
    <3> QED BY <2>0, <3>2 DEF InStep
  <2> QED BY <2>2, <2>3 DEF Lose
<1> QED BY <1>1, <1>2, <1>4, <1>5

LEMMA CloseDialogClean ==
  ASSUME TypeInv, CleanInv, CloseDialog
  PROVE  CleanInv'
<1>1. /\ UNCHANGED <<transfer, item, awaiting, reported, taken, crashed, protocol, stream,
                     down, acks, clean>>
      /\ SocketInfo' = Fresh /\ dialogs' = dialogs - 1 /\ dialogs > 0
  BY DEF CloseDialog, SaveClosed, senderVars, netVars
<1> SUFFICES ASSUME clean
             PROVE  /\ Holds'
                    /\ protocol' = "UDP" => InStep' /\ TakenUdp'
                    /\ protocol' = "TCP" => TakenTcp'
  BY <1>1 DEF CleanInv
<1>2. Holds
  BY DEF CleanInv
<1>3. dialogs = 1 /\ SocketInfo.header_received /\ taken # <<>> /\ Received /\ ~crashed
  BY <1>1, <1>2 DEF Holds
<1>4. ~SocketInfo'.header_received
  BY <1>1 DEF Fresh
<1>5. Received'
  BY <1>1, <1>3 DEF Received, Pieces
<1>6. Holds'
  BY <1>1, <1>3, <1>4, <1>5 DEF Holds
<1>7. Accepted /\ Accepted' /\ Have' = Have
  BY <1>1, <1>3 DEF Accepted, Have
<1>8. ASSUME protocol = "UDP" PROVE InStep' /\ TakenUdp'
  <2>1. InStep /\ TakenUdp
    BY <1>8 DEF CleanInv
  <2>2. InStep'
    BY <1>1, <1>7, <2>1 DEF InStep, Waiting, Item
  <2>3. TakenUdp'
    BY <1>1, <1>4, <2>1 DEF TakenUdp
  <2> QED BY <2>2, <2>3
<1>9. ASSUME protocol = "TCP" PROVE TakenTcp'
  <2>1. TakenTcp
    BY <1>9 DEF CleanInv
  <2> QED BY <1>1, <1>4, <1>7, <2>1 DEF TakenTcp, Byte
<1> QED BY <1>1, <1>6, <1>8, <1>9

(* transfer_completion on data that is due: it fits the buffer, and the    *)
(* transfer ends just when all of it was received.                         *)
LEMMA StoreClean ==
  ASSUME TypeInv, Holds, SocketInfo.header_received, dialogs = 0,
         UNCHANGED <<transfer, protocol>>,
         NEW pieces \in Seq(Datagram \cup StreamByte), NEW size \in Nat, NEW completes,
         Len(pieces) > 0,
         SocketInfo.totalRecv + size <= packet_size * transfer.packets,
         completes <=> Len(taken) + Len(pieces) = Pieces,
         Len(taken) + Len(pieces) <= Pieces,
         Store(pieces, size, completes)
  PROVE  /\ Holds'
         /\ taken' = taken \o pieces /\ taken' # <<>>
         /\ Len(taken') = Len(taken) + Len(pieces)
         /\ \A i \in 1..Len(taken) : taken'[i] = taken[i]
         /\ \A j \in 1..Len(pieces) : taken'[Len(taken) + j] = pieces[j]
         /\ SocketInfo'.header_received =>
              /\ SocketInfo'.totalRecv = SocketInfo.totalRecv + size
              /\ SocketInfo'.packets = SocketInfo.packets - 1
<1> DEFINE S == Datagram \cup StreamByte
<1>1. taken \in Seq(S) /\ Len(taken) \in Nat /\ Len(pieces) \in Nat
  BY DEF TypeInv, ReceiverType
<1>2. ~Overruns(size)
  <2>1. SocketInfo.totalRecv \in Int
    BY DEF TypeInv, ReceiverType, Info
  <2>2. SocketInfo.initPackets = transfer.packets
    BY DEF Holds
  <2>3. packet_size * transfer.packets \in Int
    BY PacketSizeAssumption DEF TypeInv, SenderType, Transfer
  <2> QED BY <2>1, <2>2, <2>3 DEF Overruns
<1>3. /\ SocketInfo' = IF completes /\ SocketInfo.mode = "packet" THEN Fresh ELSE Counted(size)
      /\ dialogs' = IF completes /\ SocketInfo.mode = "file" THEN dialogs + 1 ELSE dialogs
      /\ taken' = taken \o pieces
      /\ UNCHANGED crashed
  BY <1>2 DEF Store
<1>4. /\ taken' \in Seq(S) /\ Len(taken') = Len(taken) + Len(pieces)
      /\ \A i \in 1..(Len(taken) + Len(pieces)) :
           taken'[i] = IF i <= Len(taken) THEN taken[i] ELSE pieces[i - Len(taken)]
  BY <1>1, <1>3, ConcatProperties
<1>5. \A i \in 1..Len(taken) : taken'[i] = taken[i]
  BY <1>1, <1>4
<1>6. ASSUME NEW j \in 1..Len(pieces) PROVE taken'[Len(taken) + j] = pieces[j]
  <2> DEFINE k == Len(taken) + j
  <2>1. k \in 1..(Len(taken) + Len(pieces)) /\ ~(k <= Len(taken)) /\ k - Len(taken) = j
    BY <1>1
  <2> HIDE DEF k
  <2>2. taken'[k] = pieces[k - Len(taken)]
    BY <1>4, <2>1
  <2>3. taken'[k] = pieces[j]
    BY <2>1, <2>2
  <2> QED BY <2>3 DEF k
<1>7. taken' # <<>>
  BY <1>1, <1>4
<1>8. Pieces' = Pieces /\ (Received' <=> completes)
  <2>1. Pieces' = Pieces
    BY DEF Pieces
  <2> QED BY <2>1, <1>4 DEF Received
<1>9. ASSUME SocketInfo' = Counted(size)
      PROVE  /\ SocketInfo'.header_received
             /\ SocketInfo'.initPackets = SocketInfo.initPackets
             /\ SocketInfo'.total_size = SocketInfo.total_size
             /\ SocketInfo'.mode = SocketInfo.mode
             /\ SocketInfo'.totalRecv = SocketInfo.totalRecv + size
             /\ SocketInfo'.packets = SocketInfo.packets - 1
  BY <1>9 DEF Counted, TypeInv, ReceiverType, Info
<1>10. ASSUME SocketInfo' = Fresh PROVE ~SocketInfo'.header_received
  BY <1>10 DEF Fresh
<1>11. SocketInfo.mode \in {"file", "packet"}
  BY DEF TypeInv, ReceiverType, Info
<1>12. Len(taken') <= Pieces' /\ Pieces \in Nat
  <2>1. Pieces \in Nat
    BY Sizes DEF Pieces, TypeInv, SenderType, Transfer
  <2> QED BY <2>1, <1>4, <1>8
<1>13. Holds'
  <2>1. ~crashed'
    BY <1>3 DEF Holds
  <2>2. CASE completes /\ SocketInfo.mode = "packet"
    <3>1. SocketInfo' = Fresh /\ dialogs' = 0
      BY <1>3, <2>2
    <3> QED BY <2>1, <2>2, <3>1, <1>8, <1>10 DEF Holds
  <2>3. CASE completes /\ SocketInfo.mode = "file"
    <3>1. SocketInfo' = Counted(size) /\ dialogs' = 1
      BY <1>3, <2>3
    <3> QED BY <2>1, <2>3, <3>1, <1>7, <1>8, <1>9 DEF Holds, TotalSize
  <2>4. CASE ~completes
    <3>1. SocketInfo' = Counted(size) /\ dialogs' = 0
      BY <1>3, <2>4
    <3>2. Len(taken') < Pieces'
      <4>1. Len(taken') # Pieces
        BY <2>4, <1>4, Zenon
      <4>2. Pieces' = Pieces /\ Len(taken') \in Nat /\ Pieces \in Nat /\ Len(taken') <= Pieces
        BY <1>1, <1>4, <1>8, <1>12
      <4> QED BY <4>1, <4>2
    <3> QED BY <2>1, <2>4, <3>1, <3>2, <1>8, <1>9 DEF Holds, TotalSize
  <2> QED BY <2>2, <2>3, <2>4, <1>11
<1>14. ASSUME SocketInfo'.header_received
       PROVE  /\ SocketInfo'.totalRecv = SocketInfo.totalRecv + size
              /\ SocketInfo'.packets = SocketInfo.packets - 1
  BY <1>3, <1>9, <1>10, <1>14
<1> QED BY <1>3, <1>4, <1>5, <1>6, <1>7, <1>13, <1>14

(* A header is accepted. *)
LEMMA ExpectingClean ==
  ASSUME TypeInv, Holds, ~SocketInfo.header_received,
         UNCHANGED <<transfer, protocol, dialogs>>, taken' = <<>>,
         ParsedHeader(transfer)
  PROVE  /\ Holds' /\ SocketInfo'.header_received
         /\ SocketInfo'.totalRecv = 0 /\ SocketInfo'.packets = transfer.packets
<1>1. dialogs' = 0 /\ ~crashed'
  BY DEF Holds, ParsedHeader
<1>2. /\ SocketInfo'.header_received /\ SocketInfo'.initPackets = transfer.packets
      /\ SocketInfo'.total_size = TotalSize(transfer) /\ SocketInfo'.mode = transfer.mode
      /\ SocketInfo'.totalRecv = 0 /\ SocketInfo'.packets = transfer.packets
  BY DEF ParsedHeader, Expecting
<1>3. 0 < Pieces' \/ transfer.packets = 0
  <2>1. Pieces' = IF protocol = "UDP" THEN transfer.packets ELSE TotalSize(transfer)
    BY DEF Pieces, TotalSize
  <2> QED BY <2>1, Sizes DEF TypeInv, SenderType, Transfer
<1>4. TotalSize(transfer') = TotalSize(transfer)
  BY DEF TotalSize
<1> QED BY <1>1, <1>2, <1>3, <1>4 DEF Holds

LEMMA ReadUdpClean ==
  ASSUME TypeInv, CleanInv, NEW i \in DOMAIN down, read_udp(i)
  PROVE  CleanInv'
<1> SUFFICES ASSUME clean
             PROVE  Holds' /\ protocol' = "UDP" /\ InStep' /\ TakenUdp'
  BY DEF CleanInv, read_udp
<1>1. UNCHANGED <<transfer, item, awaiting, reported, protocol>>
  BY DEF read_udp, senderVars
<1>2. down # <<>> /\ protocol = "UDP"
  BY DEF TypeInv, NetType
<1>3. Holds /\ InStep /\ TakenUdp
  BY <1>2 DEF CleanInv
<1>4. transfer \in Transfer /\ transfer.packets \in Nat /\ item \in -1..transfer.packets
  BY DEF TypeInv, SenderType, Transfer
<1>5. item >= 0 /\ awaiting /\ ~reported
      /\ Have = item - 1 /\ acks = 0 /\ down = <<Item>>
  BY <1>2, <1>3, <1>4 DEF InStep, Waiting
<1>6. down' = <<>> /\ down[i] = Item
  <2>1. down \in Seq(Datagram) /\ Len(down) = 1
    BY <1>5 DEF TypeInv, NetType
  <2>2. i = 1 /\ Without(down, i) = <<>>
    BY <2>1, TakenOut
  <2> QED BY <1>5, <2>2 DEF read_udp
<1>7. PICK acked \in {0, 1} :
        /\ grab_header_udp(Item, acked) \/ init_udp_receive(Item, acked)
        /\ acks' = acks + acked
  BY <1>6 DEF read_udp
<1>8. ASSUME Have' = item, acks' = 1 PROVE InStep'
  <2>1. Waiting'
    BY <1>1, <1>6, <1>8 DEF Waiting
  <2>2. item' \in Int /\ item' >= 0 /\ awaiting' /\ ~reported'
    BY <1>1, <1>4, <1>5
  <2> QED BY <2>1, <2>2 DEF InStep
<1>9. CASE item = 0
  <2>1. ~SocketInfo.header_received /\ taken = <<>>
    <3>1. Len(taken) \in Nat
      BY DEF TypeInv, ReceiverType
    <3> QED BY <1>5, <1>9, <3>1 DEF Have, Accepted
  <2>2. Item = HeaderOf(transfer) /\ Item.size = HEADER_SIZE /\ Item.kind = "header"
        /\ Item.of = transfer
    BY <1>9 DEF Item, HeaderOf
  <2>3. acked = 1 /\ ParsedHeader(transfer) /\ taken' = <<>> /\ UNCHANGED dialogs
    BY <1>7, <2>1, <2>2, PacketSizeAssumption DEF grab_header_udp, init_udp_receive
  <2>4. /\ Holds' /\ SocketInfo'.header_received
        /\ SocketInfo'.totalRecv = 0 /\ SocketInfo'.packets = transfer.packets
    BY <1>1, <1>3, <2>1, <2>3, ExpectingClean
  <2>5. Have' = 0
    BY <2>3, <2>4 DEF Have, Accepted
  <2>6. TakenUdp'
    <3>1. Len(taken') = 0 /\ SizeOfFirst(transfer, 0) = 0
      BY <2>3, <1>4, Sizes
    <3>2. SizeOfFirst(transfer', 0) = 0
      BY <3>1, <1>1 DEF SizeOfFirst, TotalSize
    <3> QED BY <1>1, <1>4, <2>4, <3>1, <3>2 DEF TakenUdp
  <2> QED BY <1>1, <1>2, <1>5, <1>7, <1>8, <1>9, <2>3, <2>4, <2>5, <2>6
<1>10. CASE item > 0
  <2>1. Len(taken) = item - 1 /\ Len(taken) \in Nat /\ Accepted
    BY <1>4, <1>5, <1>10 DEF Have, TypeInv, ReceiverType
  <2>2. Pieces = transfer.packets /\ ~Received
    BY <1>2, <1>4, <2>1 DEF Pieces, Received
  <2>3. SocketInfo.header_received /\ dialogs = 0
    BY <1>3, <2>1, <2>2 DEF Holds, Accepted
  <2> DEFINE d == PacketOf(transfer, item)
             n == item - 1
  <2>4. Item = d /\ n \in 0..(transfer.packets - 1) /\ n + 1 = item
    BY <1>4, <1>10 DEF Item
  <2>5. /\ d.size \in 1..packet_size
        /\ SizeOfFirst(transfer, n) \in Nat
        /\ SizeOfFirst(transfer, n) + d.size = SizeOfFirst(transfer, item)
        /\ SizeOfFirst(transfer, item) <= packet_size * transfer.packets
        /\ SizeOfFirst(transfer, item) = TotalSize(transfer) <=> item = transfer.packets
    BY <1>4, <2>4, Sizes
  <2>6. d \in Datagram
    BY <1>4, <1>10, Sent
  <2>7. acked = 1 /\ Store(<<d>>, d.size, CompletesUdp(Counted(d.size)))
    BY <1>7, <2>3, <2>4 DEF grab_header_udp, init_udp_receive
  <2> HIDE DEF d
  <2>8. SocketInfo.totalRecv = SizeOfFirst(transfer, n)
        /\ SocketInfo.packets = transfer.packets - n
    BY <1>3, <2>1, <2>3 DEF TakenUdp
  <2>9. CompletesUdp(Counted(d.size)) <=> item = transfer.packets
    <3>1. /\ Counted(d.size).totalRecv = SizeOfFirst(transfer, item)
          /\ Counted(d.size).packets = transfer.packets - item
      BY <1>4, <2>4, <2>5, <2>8 DEF Counted, TypeInv, ReceiverType, Info
    <3>2. Counted(d.size).total_size = TotalSize(transfer)
      BY <1>3, <2>3 DEF Counted, TypeInv, ReceiverType, Info, Holds
    <3> QED BY <1>4, <2>5, <3>1, <3>2 DEF CompletesUdp
  <2>10. <<d>> \in Seq(Datagram \cup StreamByte) /\ Len(<<d>>) = 1 /\ <<d>>[1] = d
    BY <2>6
  <2>11. /\ Holds'
         /\ taken' # <<>> /\ Len(taken') = item
         /\ \A k \in 1..n : taken'[k] = taken[k]
         /\ taken'[item] = d
         /\ SocketInfo'.header_received =>
              /\ SocketInfo'.totalRecv = SizeOfFirst(transfer, item)
              /\ SocketInfo'.packets = transfer.packets - item
    <3>1. d.size \in Nat /\ Len(<<d>>) > 0
          /\ SocketInfo.totalRecv + d.size <= packet_size * transfer.packets
      BY <2>5, <2>8, <2>10
    <3>2. Len(taken) + Len(<<d>>) = item /\ item <= Pieces
      BY <1>4, <2>1, <2>2, <2>10
    <3>3. CompletesUdp(Counted(d.size)) <=> Len(taken) + Len(<<d>>) = Pieces
      BY <2>2, <2>9, <3>2
    <3>4. /\ Holds'
          /\ taken' # <<>> /\ Len(taken') = Len(taken) + Len(<<d>>)
          /\ \A k \in 1..Len(taken) : taken'[k] = taken[k]
          /\ \A j \in 1..Len(<<d>>) : taken'[Len(taken) + j] = <<d>>[j]
          /\ SocketInfo'.header_received =>
               /\ SocketInfo'.totalRecv = SocketInfo.totalRecv + d.size
               /\ SocketInfo'.packets = SocketInfo.packets - 1
      BY <1>1, <1>3, <2>3, <2>7, <2>10, <3>1, <3>2, <3>3, StoreClean
    <3>5. taken'[item] = d
      <4>1. taken'[Len(taken) + 1] = <<d>>[1] /\ Len(taken) + 1 = item
        BY <1>4, <2>1, <2>10, <3>4
      <4> QED BY <4>1, <2>10
    <3>6. SocketInfo.packets - 1 = transfer.packets - item
      BY <1>4, <2>8
    <3> QED BY <3>2, <3>4, <3>5, <3>6, <2>1, <2>5, <2>8
  <2>12. Have' = item
    BY <2>11 DEF Have, Accepted
  <2>13. TakenUdp'
    <3>1. ASSUME NEW k \in 1..item PROVE taken'[k] = PacketOf(transfer', k)
      <4>1. CASE k = item
        BY <1>1, <2>11, <4>1 DEF d
      <4>2. CASE k # item
        <5>1. k \in 1..Len(taken)
          BY <1>4, <2>1, <4>2
        <5> QED BY <1>1, <1>3, <2>1, <2>11, <5>1 DEF TakenUdp
      <4> QED BY <4>1, <4>2
    <3>2. SizeOfFirst(transfer', item) = SizeOfFirst(transfer, item)
      BY <1>1 DEF SizeOfFirst, TotalSize
    <3> QED BY <1>1, <1>4, <2>11, <3>1, <3>2 DEF TakenUdp
  <2> QED BY <1>1, <1>2, <1>5, <1>7, <1>8, <2>7, <2>11, <2>12, <2>13
<1> QED BY <1>4, <1>5, <1>9, <1>10

LEMMA ReadTcpClean ==
  ASSUME TypeInv, CleanInv, read_tcp
  PROVE  CleanInv'
<1> SUFFICES ASSUME clean
             PROVE  Holds' /\ protocol' = "TCP" /\ TakenTcp'
  BY DEF CleanInv, read_tcp
<1>1. UNCHANGED <<transfer, protocol>> /\ stream # <<>>
  BY DEF read_tcp, senderVars
<1>2. protocol = "TCP"
  BY <1>1 DEF TypeInv, NetType
<1>3. Holds /\ TakenTcp
  BY <1>2 DEF CleanInv
<1>4. transfer \in Transfer /\ transfer.packets \in Nat /\ TotalSize(transfer) \in Nat
      /\ TotalSize(transfer) <= packet_size * transfer.packets
      /\ packet_size * transfer.packets \in Int
  BY Sizes, PacketSizeAssumption DEF TypeInv, SenderType, Transfer
<1>5. PICK n \in 1..Least(packet_size, Len(stream)) :
        /\ \/ n = Least(HEADER_SIZE, Len(stream)) /\ grab_header_tcp(SubSeq(stream, 1, n))
           \/ init_tcp_receive(SubSeq(stream, 1, n))
        /\ stream' = SubSeq(stream, n + 1, Len(stream))
  BY DEF read_tcp
<1>6. n \in 1..Len(stream) /\ stream \in Seq(StreamByte) /\ Len(stream) \in Nat
  BY <1>5, PacketSizeAssumption DEF Least, TypeInv, NetType
<1> DEFINE bytes == SubSeq(stream, 1, n)
<1>7. /\ bytes \in Seq(StreamByte) /\ Len(bytes) = n
      /\ \A j \in 1..n : bytes[j] = stream[j]
      /\ stream' \in Seq(StreamByte) /\ Len(stream') = Len(stream) - n
      /\ \A j \in 1..(Len(stream) - n) : stream'[j] = stream[n + j]
  BY <1>5, <1>6, Splits
<1>8. \/ n = Least(HEADER_SIZE, Len(stream)) /\ grab_header_tcp(bytes)
      \/ init_tcp_receive(bytes)
  BY <1>5
<1> HIDE DEF bytes
<1>9. Len(taken) \in Nat /\ taken \in Seq(Datagram \cup StreamByte)
  BY DEF TypeInv, ReceiverType
<1>10. CASE ~Accepted
  <2>1. ~SocketInfo.header_received /\ taken = <<>> /\ stream = StreamOf(transfer)
    BY <1>3, <1>10 DEF Accepted, TakenTcp
  <2>2. Len(stream) = HEADER_SIZE + TotalSize(transfer) /\ HEADER_SIZE \in Nat \ {0}
        /\ stream[1] = [kind |-> "header", of |-> transfer, n |-> 1]
    BY <1>4, <2>1, StreamShape, PacketSizeAssumption
  <2>3. n = HEADER_SIZE /\ grab_header_tcp(bytes)
    BY <1>4, <1>8, <2>1, <2>2 DEF Least, init_tcp_receive
  <2>4. bytes[1] = [kind |-> "header", of |-> transfer, n |-> 1]
    BY <1>6, <1>7, <2>2
  <2>5. ParsedHeader(transfer) /\ taken' = <<>> /\ UNCHANGED dialogs
    BY <2>3, <2>4 DEF grab_header_tcp
  <2>6. Holds' /\ SocketInfo'.header_received /\ SocketInfo'.totalRecv = 0
    BY <1>1, <1>3, <2>1, <2>5, ExpectingClean
  <2>7. ASSUME NEW j \in 1..TotalSize(transfer)
        PROVE  stream'[j] = [kind |-> "data", of |-> transfer, n |-> j]
    <3>1. stream'[j] = stream[n + j]
      BY <1>4, <1>7, <2>2, <2>3
    <3>2. StreamOf(transfer)[HEADER_SIZE + j] = [kind |-> "data", of |-> transfer, n |-> j]
      BY <1>4, StreamShape
    <3> QED BY <3>1, <3>2, <2>1, <2>3
  <2>8. Len(stream') = TotalSize(transfer)
    BY <1>4, <1>7, <2>2, <2>3
  <2>9. TakenTcp'
    <3>1. Accepted' /\ Len(taken') = 0 /\ TotalSize(transfer') = TotalSize(transfer)
      BY <1>1, <2>5, <2>6 DEF Accepted, TotalSize
    <3>2. Len(stream') = TotalSize(transfer') - Len(taken')
      BY <1>4, <2>8, <3>1
    <3>3. ASSUME NEW j \in 1..Len(stream')
          PROVE  stream'[j] = [kind |-> "data", of |-> transfer', n |-> Len(taken') + j]
      <4>1. j \in 1..TotalSize(transfer) /\ Len(taken') + j = j
        BY <2>8, <3>1
      <4> QED BY <1>1, <2>7, <4>1
    <3> QED BY <2>5, <2>6, <3>1, <3>2, <3>3 DEF TakenTcp, Byte
  <2> QED BY <1>1, <1>2, <2>6, <2>9
<1>11. CASE Accepted
  <2>1. Len(stream) = TotalSize(transfer) - Len(taken) /\ Pieces = TotalSize(transfer)
    BY <1>2, <1>3, <1>11 DEF TakenTcp, Pieces
  <2>2. ~Received /\ Len(taken) + n <= Pieces
    BY <1>4, <1>6, <1>9, <2>1 DEF Received
  <2>3. SocketInfo.header_received /\ dialogs = 0
    BY <1>3, <1>11, <2>2 DEF Holds, Accepted
  <2>4. Store(bytes, n, Counted(n).totalRecv = SocketInfo.total_size)
    BY <1>7, <1>8, <2>3 DEF grab_header_tcp, init_tcp_receive
  <2>5. SocketInfo.totalRecv = Len(taken) /\ SocketInfo.total_size = TotalSize(transfer)
    BY <1>3, <2>3 DEF TakenTcp, Holds
  <2>6. Counted(n).totalRecv = Len(taken) + n
    BY <2>5 DEF Counted, TypeInv, ReceiverType, Info
  <2>7. /\ Holds'
        /\ taken' # <<>> /\ Len(taken') = Len(taken) + n
        /\ \A i \in 1..Len(taken) : taken'[i] = taken[i]
        /\ \A j \in 1..n : taken'[Len(taken) + j] = bytes[j]
        /\ SocketInfo'.header_received => SocketInfo'.totalRecv = Len(taken) + n
    <3>1. bytes \in Seq(Datagram \cup StreamByte) /\ n \in Nat /\ Len(bytes) = n /\ n > 0
      BY <1>6, <1>7
    <3>2. SocketInfo.totalRecv + n <= packet_size * transfer.packets
      BY <1>4, <1>6, <1>9, <2>1, <2>5
    <3>3. (Counted(n).totalRecv = SocketInfo.total_size) <=> Len(taken) + Len(bytes) = Pieces
      BY <2>1, <2>5, <2>6, <3>1
    <3>4. /\ Holds'
          /\ taken' # <<>> /\ Len(taken') = Len(taken) + Len(bytes)
          /\ \A i \in 1..Len(taken) : taken'[i] = taken[i]
          /\ \A j \in 1..Len(bytes) : taken'[Len(taken) + j] = bytes[j]
          /\ SocketInfo'.header_received => SocketInfo'.totalRecv = SocketInfo.totalRecv + n
      BY <1>1, <1>3, <2>2, <2>3, <2>4, <3>1, <3>2, <3>3, StoreClean
    <3> QED BY <2>5, <3>1, <3>4
  <2>8. ASSUME NEW j \in 1..Len(stream)
        PROVE  stream[j] = [kind |-> "data", of |-> transfer, n |-> Len(taken) + j]
    BY <1>3, <1>11 DEF TakenTcp, Byte
  <2>9. ASSUME NEW i \in 1..(Len(taken) + n)
        PROVE  taken'[i] = [kind |-> "data", of |-> transfer', n |-> i]
    <3>1. CASE i \in 1..Len(taken)
      BY <1>1, <1>3, <2>7, <3>1 DEF TakenTcp, Byte
    <3>2. CASE i \notin 1..Len(taken)
      <4> DEFINE j == i - Len(taken)
      <4>1. j \in 1..n /\ Len(taken) + j = i /\ j \in 1..Len(stream)
        BY <1>6, <1>9, <3>2
      <4> HIDE DEF j
      <4>2. taken'[Len(taken) + j] = stream[j]
        BY <1>7, <2>7, <4>1
      <4>3. stream[j] = [kind |-> "data", of |-> transfer, n |-> Len(taken) + j]
        BY <2>8, <4>1
      <4> QED BY <1>1, <4>1, <4>2, <4>3
    <3> QED BY <3>1, <3>2
  <2>10. ASSUME NEW j \in 1..Len(stream')
         PROVE  stream'[j] = [kind |-> "data", of |-> transfer', n |-> Len(taken') + j]
    <3> DEFINE k == n + j
    <3>1. k \in 1..Len(stream) /\ Len(taken) + k = Len(taken') + j /\ stream'[j] = stream[k]
      BY <1>6, <1>7, <1>9, <2>7
    <3> HIDE DEF k
    <3> QED BY <1>1, <2>8, <3>1
  <2>11. TakenTcp'
    <3>1. Accepted' /\ TotalSize(transfer') = TotalSize(transfer)
      BY <1>1, <2>7 DEF Accepted, TotalSize
    <3>2. Len(stream') = TotalSize(transfer') - Len(taken')
      BY <1>4, <1>6, <1>7, <1>9, <2>1, <2>7, <3>1
    <3> QED BY <2>7, <2>9, <2>10, <3>1, <3>2 DEF TakenTcp, Byte
  <2> QED BY <1>1, <1>2, <2>7, <2>11
<1> QED BY <1>10, <1>11

LEMMA CleanStep == TypeInv /\ TypeInv' /\ CleanInv /\ [Next]_vars => CleanInv'
<1> SUFFICES ASSUME TypeInv, TypeInv', CleanInv, [Next]_vars PROVE CleanInv'
  OBVIOUS
<1>1. ASSUME NEW s \in Selections, SendFile(s) PROVE CleanInv'
  BY <1>1, SendFileClean
<1>2. ASSUME SendDatagram PROVE CleanInv'
  BY <1>2, SendDatagramClean
<1>3. ASSUME TakeAck PROVE CleanInv'
  BY <1>3, TakeAckClean
<1>4. ASSUME NEW i \in DOMAIN down, read_udp(i) PROVE CleanInv'
  BY <1>4, ReadUdpClean
<1>5. ASSUME read_tcp PROVE CleanInv'
  BY <1>5, ReadTcpClean
<1>6. ASSUME CloseDialog PROVE CleanInv'
  BY <1>6, CloseDialogClean
<1>7. ASSUME Lose PROVE CleanInv'
  BY <1>7, LoseClean
<1>8. ASSUME Double \/ EndSender \/ Reinit PROVE CleanInv'
  <2>1. ~clean'
    BY <1>8 DEF Double, EndSender, Reinit
  <2> QED BY <2>1 DEF CleanInv
<1>9. CASE UNCHANGED vars
  <2>1. /\ UNCHANGED <<transfer, SocketInfo, dialogs, taken, crashed, protocol>>
        /\ UNCHANGED <<item, awaiting, reported, down, acks, stream, clean>>
    BY <1>9 DEF vars, senderVars, receiverVars, netVars
  <2>2. InStep => InStep'
    BY <2>1 DEF InStep, Waiting, Item, Have, Accepted
  <2> QED BY <2>1, <2>2, Unchanged DEF CleanInv
<1> QED BY <1>1, <1>2, <1>3, <1>4, <1>5, <1>6, <1>7, <1>8, <1>9 DEF Next

LEMMA Invariant == Spec => []IInv
<1>1. IInv /\ [Next]_vars => IInv'
  BY TypeStep, CleanStep DEF IInv
<1> QED BY InitInv, <1>1, PTL DEF Spec

-----------------------------------------------------------------------------
(***************************************************************************)
(* Theorems.                                                               *)
(***************************************************************************)

(* The counters, modes and queues of both programs keep their types, what  *)
(* is under way to the receiver is never longer than a full packet, and    *)
(* the packets still expected never exceed those announced.                *)
THEOREM PacketTypes == Spec => []TypeOK
<1>1. IInv => TypeOK
  <2> SUFFICES ASSUME IInv PROVE TypeOK
    OBVIOUS
  <2>1. \A i \in DOMAIN down : down[i].size \in 1..packet_size
    <3>1. down \in Seq(Datagram)
      BY DEF IInv, TypeInv, NetType
    <3>2. ASSUME NEW i \in DOMAIN down PROVE down[i].size \in 1..packet_size
      <4>1. down[i] \in Datagram
        BY <3>1, TakenOut
      <4> QED BY <4>1 DEF Datagram
    <3> QED BY <3>2
  <2> QED BY <2>1 DEF IInv, TypeInv, SenderType, ReceiverType, NetType, TypeOK
<1> QED BY <1>1, Invariant, PTL

(* Whatever udp_deliver_packets and tcp_deliver_packets send and whatever  *)
(* is lost, the data socket_event takes for a clean transfer are its data, *)
(* from the first on, in order, and they fit the buffer.                   *)
THEOREM DataInOrder == Spec => []TakenInOrder
<1>1. IInv => TakenInOrder
  <2> SUFFICES ASSUME IInv, clean PROVE TakenInOrder
    BY DEF TakenInOrder
  <2>1. ~crashed
    BY DEF IInv, CleanInv, Holds
  <2>2. ASSUME NEW i \in DOMAIN taken
        PROVE  taken[i].kind = "data" /\ taken[i].of = transfer /\ taken[i].n = i
    <3>1. i \in 1..Len(taken)
      BY DEF IInv, TypeInv, ReceiverType
    <3>2. CASE protocol = "UDP"
      <4>1. taken[i] = PacketOf(transfer, i)
        BY <3>1, <3>2 DEF IInv, CleanInv, TakenUdp
      <4> QED BY <4>1 DEF PacketOf
    <3>3. CASE protocol = "TCP"
      <4>1. taken[i] = Byte(i)
        BY <3>1, <3>3 DEF IInv, CleanInv, TakenTcp
      <4> QED BY <4>1 DEF Byte
    <3> QED BY <3>2, <3>3 DEF IInv, TypeInv, NetType
  <2> QED BY <2>1, <2>2 DEF TakenInOrder
<1> QED BY <1>1, Invariant, PTL

(* udp_deliver_packets reports a clean transfer as completed only when     *)
(* socket_event took all of its packets, with any losses of datagrams and  *)
(* of acknowledgements, which carry no number.                             *)
THEOREM CompletionSound == Spec => []CompletedIsReceived
<1>1. IInv => CompletedIsReceived
  <2> SUFFICES ASSUME IInv, clean, protocol = "UDP", reported PROVE Received
    BY DEF CompletedIsReceived
  <2>1. InStep
    BY DEF IInv, CleanInv
  <2>2. item \in Int /\ transfer.packets \in Nat
    BY DEF IInv, TypeInv, SenderType, Transfer
  <2>3. Have = transfer.packets
    BY <2>1, <2>2 DEF InStep
  <2>4. Len(taken) = transfer.packets
    BY <2>2, <2>3 DEF Have
  <2> QED BY <2>4 DEF Received, Pieces
<1> QED BY <1>1, Invariant, PTL

(* The test of init_udp_receive on bytes or packets, and that of           *)
(* init_tcp_receive on bytes, end a clean transfer with its last piece and *)
(* no earlier, for every size of packet, last packet and read.             *)
THEOREM EndsInTime == Spec => []EndsWithLast
<1>1. IInv => EndsWithLast
  <2> SUFFICES ASSUME IInv, clean, transfer.packets > 0
               PROVE  /\ dialogs > 0 => Received
                      /\ dialogs = 0 /\ taken # <<>> => (SocketInfo.header_received <=> ~Received)
    BY DEF EndsWithLast
  <2>1. Holds /\ transfer.packets \in Nat
    BY DEF IInv, CleanInv, TypeInv, SenderType, Transfer
  <2>2. Len(taken) \in Nat /\ Pieces \in Nat
    BY Sizes DEF IInv, TypeInv, SenderType, ReceiverType, Transfer, Pieces
  <2>3. dialogs > 0 => Received
    BY <2>1 DEF Holds
  <2>4. ASSUME dialogs = 0, taken # <<>>
        PROVE  SocketInfo.header_received <=> ~Received
    <3>1. SocketInfo.header_received => Len(taken) < Pieces
      BY <2>1, <2>4 DEF Holds
    <3>2. ~SocketInfo.header_received => Received
      BY <2>1, <2>4 DEF Holds
    <3> QED BY <2>2, <3>1, <3>2 DEF Received
  <2> QED BY <2>3, <2>4
<1> QED BY <1>1, Invariant, PTL
=============================================================================
