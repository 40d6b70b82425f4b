--------------------------- MODULE PacketTransfer ---------------------------
(***************************************************************************)
(* A sender and a receiver of the packet sender, over UDP, where datagrams *)
(* and acknowledgements may be lost, doubled and reordered, or over one    *)
(* TCP connection.                                                         *)
(***************************************************************************)
EXTENDS PacketReceiver

CONSTANTS
  Protocols,      \* the settings tried, of {"TCP", "UDP"}
  MaxLoss, MaxDup,   \* bounds: datagrams and acknowledgements lost or not
                     \* sent, doubled
  MaxEnds         \* bound: times the sender's process is ended

ASSUME NetworkAssumption ==
  Protocols \subseteq {"TCP", "UDP"} /\ MaxLoss \in Nat /\ MaxDup \in Nat /\ MaxEnds \in Nat

VARIABLES
  protocol,
  down,           \* datagrams under way to the receiver
  acks,           \* number of ";ACK;" under way to the sender
  stream,         \* bytes of the TCP connection not read yet
  lost, doubled, ends,
  clean           \* history: nothing disturbed the current transfer, see below

netVars == <<down, acks, stream>>
faultVars == <<lost, doubled, ends>>
vars == <<senderVars, receiverVars, netVars, faultVars, protocol, clean>>

Init ==
  /\ SenderInit /\ ReceiverInit
  /\ protocol \in Protocols
  /\ down = <<>> /\ acks = 0 /\ stream = <<>>
  /\ lost = 0 /\ doubled = 0 /\ ends = 0 /\ clean = FALSE

(* The receiver waits for a header, and nothing is under way. *)
Ready == /\ ~SocketInfo.header_received /\ dialogs = 0 /\ ~crashed
         /\ down = <<>> /\ acks = 0 /\ stream = <<>>

SendFile(s) ==
  /\ \/ protocol = "UDP" /\ udp_deliver_packets(s) /\ UNCHANGED stream
     \/ protocol = "TCP" /\ tcp_deliver_packets(s) /\ stream' = stream \o StreamOf(transfer')
  /\ clean' = Ready
  /\ taken' = IF Ready THEN <<>> ELSE taken
  /\ UNCHANGED <<SocketInfo, dialogs, crashed, down, acks, faultVars, protocol>>

SendDatagram ==
  /\ \E ds \in {{}, {HeaderOf(transfer)}, {PacketOf(transfer, item)}} :
       /\ WSASendTo(ds)
       /\ \/ ds = {} /\ lost < MaxLoss /\ lost' = lost + 1 /\ UNCHANGED down
          \/ \E d \in ds : down' = Append(down, d) /\ UNCHANGED lost
  /\ UNCHANGED <<receiverVars, acks, stream, doubled, ends, protocol, clean>>

TakeAckAny ==                    \* slip: does not wait for it
  /\ receive_acknowledge
  /\ UNCHANGED <<receiverVars, down, acks, stream, faultVars, protocol, clean>>

TakeAck ==
  /\ acks > 0 /\ acks' = acks - 1
  /\ receive_acknowledge
  /\ UNCHANGED <<receiverVars, down, stream, faultVars, protocol, clean>>

Without(s, i) == SubSeq(s, 1, i - 1) \o SubSeq(s, i + 1, Len(s))

read_udp(i) ==
  /\ ~crashed
  /\ \E acked \in {0, 1} :
       /\ grab_header_udp(down[i], acked) \/ init_udp_receive(down[i], acked)
       /\ acks' = acks + acked
  /\ down' = Without(down, i)
  /\ UNCHANGED <<senderVars, stream, faultVars, protocol, clean>>

(* A read returns what is there, up to its buffer; a header is read whole. *)
Least(a, b) == IF a <= b THEN a ELSE b

read_tcp ==
  /\ ~crashed /\ stream # <<>>
  /\ \E n \in 1..Least(packet_size, Len(stream)) :
       /\ \/ n = Least(HEADER_SIZE, Len(stream)) /\ grab_header_tcp(SubSeq(stream, 1, n))
          \/ init_tcp_receive(SubSeq(stream, 1, n))
       /\ stream' = SubSeq(stream, n + 1, Len(stream))
  /\ UNCHANGED <<senderVars, down, acks, faultVars, protocol, clean>>

CloseDialog == SaveClosed /\ UNCHANGED <<senderVars, netVars, faultVars, protocol, clean>>

Lose ==
  /\ lost < MaxLoss /\ lost' = lost + 1
  /\ \/ \E i \in DOMAIN down : down' = Without(down, i) /\ UNCHANGED acks
     \/ acks > 0 /\ acks' = acks - 1 /\ UNCHANGED down
  /\ UNCHANGED <<senderVars, receiverVars, stream, doubled, ends, protocol, clean>>

Double ==
  /\ doubled < MaxDup /\ doubled' = doubled + 1
  /\ \/ \E i \in DOMAIN down : down' = Append(down, down[i]) /\ UNCHANGED acks
     \/ acks > 0 /\ acks' = acks + 1 /\ UNCHANGED down
  /\ clean' = FALSE
  /\ UNCHANGED <<senderVars, receiverVars, stream, lost, ends, protocol>>

EndSender ==
  /\ ends < MaxEnds /\ ends' = ends + 1
  /\ EndTask /\ clean' = FALSE
  /\ acks' \in 0..acks
  /\ UNCHANGED <<receiverVars, down, stream, lost, doubled, protocol>>

(* disconnect and init_server on the receiving side: between two dialogs,  *)
(* the fields are reset, and what the old socket held is gone.             *)
Reinit ==
  /\ protocol = "UDP" /\ ~crashed /\ dialogs = 0
  /\ SocketInfo' = Fresh /\ taken' = <<>>
  /\ down' \in {<<>>, down}
  /\ clean' = FALSE
  /\ UNCHANGED <<senderVars, dialogs, crashed, acks, stream, faultVars, protocol>>

Next ==
  \/ \E s \in Selections : SendFile(s)
  \/ SendDatagram \/ TakeAck
  \/ \E i \in DOMAIN down : read_udp(i)
  \/ read_tcp \/ CloseDialog
  \/ Lose \/ Double \/ EndSender \/ Reinit

Spec == Init /\ [][Next]_vars

(* The sender's loop runs on, and FD_READ is posted again as long as there *)
(* is something to read.  What the users do is free.                       *)
FairSpec ==
  /\ Spec
  /\ WF_vars(SendDatagram) /\ WF_vars(TakeAck) /\ WF_vars(read_tcp)
  /\ WF_vars(\E i \in DOMAIN down : read_udp(i))

-----------------------------------------------------------------------------
TypeOK ==
  /\ item \in -1..transfer.packets
  /\ awaiting => item >= 0
  /\ dialogs \in Nat /\ acks \in Nat
  /\ SocketInfo.packets <= SocketInfo.initPackets
  /\ \A i \in DOMAIN down : down[i].size \in 1..packet_size

(* "clean": the transfer was begun while the receiver waited for a header  *)
(* and nothing was under way, nothing was doubled since, and neither side  *)
(* was ended or initialised again.  Losses do not count.                   *)

(* What is taken for the data of a clean transfer is its data from the     *)
(* first packet on, in order, and nothing else: no header, no packet of    *)
(* another transfer, and it fits the buffer.  Nothing on the wire says     *)
(* what a datagram is, so this hangs on both sides being in step.          *)
TakenInOrder ==
  clean =>
    /\ ~crashed
    /\ \A i \in DOMAIN taken :
         taken[i].kind = "data" /\ taken[i].of = transfer /\ taken[i].n = i

(* The receiver has the whole of the current transfer, in pieces that are  *)
(* packets or bytes.                                                       *)
Pieces == IF protocol = "UDP" THEN transfer.packets ELSE TotalSize(transfer)
Received == Len(taken) = Pieces

(* "Data transmission completed" is shown for a clean transfer only when   *)
(* all of it was received, although acknowledgements carry no number and   *)
(* some datagram or acknowledgement may have been lost.                    *)
CompletedIsReceived == clean /\ protocol = "UDP" /\ reported => Received

(* "transmission ends, program waits for a new header": the two tests that *)
(* end a transfer, by bytes and by packets, come true with its last piece  *)
(* and not before, whatever the sizes of the last packet and of the reads. *)
(* A transfer of no packet never ends.                                     *)
EndsWithLast ==
  clean /\ transfer.packets > 0 =>
    /\ dialogs > 0 => Received
    /\ dialogs = 0 /\ taken # <<>> => (SocketInfo.header_received <=> ~Received)

(* Unless something is lost or disturbs it, every transfer arrives.        *)
TransferArrives ==
  \A k \in 1..MaxTransfers :
    transfer.id = k ~> (Received \/ ~clean \/ lost > 0 \/ transfer.id # k)

(* "UDP transfer is somewhat reliable, and will resend dropped packets":   *)
(* a sender that waits while nothing is under way sends its packet again.  *)
Dropped(k, p) == /\ transfer.id = k /\ item = p /\ awaiting
                 /\ down = <<>> /\ acks = 0
DroppedAreResent ==
  \A k \in 1..MaxTransfers : \A p \in {s.packets : s \in Selections} \cup {0} :
    Dropped(k, p) ~> (item # p \/ down # <<>>)
=============================================================================
