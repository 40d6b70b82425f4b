--------------------------- MODULE PacketReceiver ---------------------------
(***************************************************************************)
(* The receiving side of the packet sender                                 *)
(* (TCP_RUDP_Packet_Sender, ServerMode.cpp): socket_event, called for      *)
(* every FD_READ, reads one datagram, or some bytes of a stream, and takes *)
(* it for a header or for data as header_received says.                    *)
(*                                                                         *)
(* A file is saved inside that handler, by a modal dialog that runs the    *)
(* window's messages: the next FD_READ is handled while the dialog is      *)
(* open, and SocketInfo is replaced only when it is closed.                *)
(***************************************************************************)
EXTENDS PacketSender

CONSTANT
  Garbage         \* what the parser may make of a text that is no header

ASSUME GarbageAssumption ==
  Garbage \subseteq [packets : Int, total_size : Int, mode : {"file", "packet"}]

VARIABLES
  SocketInfo,     \* fields of the current transfer
  dialogs,        \* save dialogs that are open
  taken,          \* history: the datagrams or bytes taken for its data
  crashed         \* the process ended on undefined behaviour

receiverVars == <<SocketInfo, dialogs, taken, crashed>>

(* GlobalAlloc(GPTR): all zero. *)
Fresh == [header_received |-> FALSE, initPackets |-> 0, packets |-> 0,
          total_size |-> 0, totalRecv |-> 0, mode |-> "file"]

ReceiverInit ==
  SocketInfo = Fresh /\ dialogs = 0 /\ taken = <<>> /\ crashed = FALSE

(* grab_header_info, and grab_header once the header is read.              *)
Expecting(packets, total_size, mode) ==
  [header_received |-> TRUE, initPackets |-> packets, packets |-> packets,
   total_size |-> total_size, totalRecv |-> 0, mode |-> mode]

ParsedHeader(t) ==
  SocketInfo' = Expecting(t.packets, TotalSize(t), t.mode) /\ UNCHANGED crashed

(* The parser looks for commas until it finds them. *)
ParsedOther ==
  \/ \E g \in Garbage :
       SocketInfo' = Expecting(g.packets, g.total_size, g.mode) /\ UNCHANGED crashed
  \/ crashed' = TRUE /\ UNCHANGED SocketInfo

(* A datagram longer than the buffer is an error of WSARecvFrom: it is     *)
(* gone and not acknowledged.  Otherwise the acknowledgement goes first.   *)
grab_header_udpSilent(d, acked) ==   \* slip: the header is not acknowledged
  /\ ~SocketInfo.header_received /\ acked = 0
  /\ \/ d.size > HEADER_SIZE /\ UNCHANGED receiverVars
     \/ /\ d.size <= HEADER_SIZE
        /\ IF d.kind = "header" THEN ParsedHeader(d.of) ELSE ParsedOther
        /\ taken' = <<>> /\ UNCHANGED dialogs

grab_header_udp(d, acked) ==
  /\ ~SocketInfo.header_received
  /\ \/ d.size > HEADER_SIZE /\ acked = 0 /\ UNCHANGED receiverVars
     \/ /\ d.size <= HEADER_SIZE /\ acked = 1
        /\ IF d.kind = "header" THEN ParsedHeader(d.of) ELSE ParsedOther
        /\ taken' = <<>> /\ UNCHANGED dialogs

(* In a stream anything that does not begin with ';' is dropped, at most   *)
(* HEADER_SIZE bytes of it.  Data may begin with ';'.                      *)
grab_header_tcp(bytes) ==
  /\ ~SocketInfo.header_received
  /\ \/ /\ bytes[1].kind = "header" /\ bytes[1].n = 1
        /\ ParsedHeader(bytes[1].of) /\ taken' = <<>>
     \/ /\ bytes[1].kind = "data" /\ ParsedOther /\ taken' = <<>>
     \/ /\ bytes[1].kind = "data" \/ bytes[1].n # 1
        /\ UNCHANGED <<SocketInfo, crashed, taken>>
  /\ UNCHANGED dialogs

(* The buffer of a file has room for its packets; past it the copy goes on *)
(* or ends the process.                                                    *)
Overruns(size) ==
  /\ SocketInfo.mode = "file"
  /\ SocketInfo.totalRecv + size > packet_size * SocketInfo.initPackets

(* The counters after size more bytes. *)
Counted(size) ==
  [SocketInfo EXCEPT !.packets = @ - 1, !.totalRecv = @ + size]

(* transfer_completion: a file is saved in a dialog, which leaves SocketInfo*)
(* as it is; otherwise socket_event goes on to replace it.                 *)
Store(pieces, size, completes) ==
  \/ /\ SocketInfo' = IF completes /\ SocketInfo.mode = "packet" THEN Fresh
                      ELSE Counted(size)
     /\ dialogs' = IF completes /\ SocketInfo.mode = "file" THEN dialogs + 1 ELSE dialogs
     /\ taken' = taken \o pieces
     /\ UNCHANGED crashed
  \/ /\ Overruns(size)
     /\ crashed' = TRUE /\ UNCHANGED <<SocketInfo, dialogs, taken>>

CompletesUdpLate(i) == i.packets < 0            \* slip: one packet too many
CompletesUdp(i) == i.totalRecv = i.total_size \/ i.packets = 0

init_udp_receive(d, acked) ==
  /\ SocketInfo.header_received
  /\ acked = 1
  /\ Store(<<d>>, d.size, CompletesUdp(Counted(d.size)))

init_tcp_receive(bytes) ==
  /\ SocketInfo.header_received
  /\ Store(bytes, Len(bytes), Counted(Len(bytes)).totalRecv = SocketInfo.total_size)

(* save_file returns, and socket_event replaces SocketInfo. *)
SaveClosed ==
  /\ ~crashed /\ dialogs > 0
  /\ dialogs' = dialogs - 1
  /\ SocketInfo' = Fresh
  /\ UNCHANGED <<taken, crashed>>
=============================================================================
