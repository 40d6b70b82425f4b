---------------------------- MODULE PacketSender ----------------------------
(***************************************************************************)
(* The sending side of the packet sender                                   *)
(* (TCP_RUDP_Packet_Sender, ClientMode.cpp).  The program has one thread:  *)
(* while udp_deliver_packets waits for an acknowledgement its window does  *)
(* nothing else, and the user can only end the process.                    *)
(*                                                                         *)
(* What the network does with a datagram or with bytes is the caller's.    *)
(***************************************************************************)
EXTENDS Integers, Sequences

CONSTANTS
  HEADER_SIZE,    \* bytes of the header
  packet_size,    \* bytes of a full packet
  Selections,     \* transfers the user selects
  MaxTransfers    \* bound: transfers begun

(* The smallest packet size that can be set is 1024, a header has 50. *)
ASSUME PacketSizeAssumption ==
  HEADER_SIZE \in Nat \ {0} /\ packet_size \in Nat /\ packet_size > HEADER_SIZE
ASSUME SelectionsAssumption ==
  /\ Selections \subseteq [mode : {"file", "packet"}, packets : Nat, last : 1..packet_size]
  /\ MaxTransfers \in Nat

VARIABLES
  transfer,   \* the transfer begun last: [id, mode, packets, last]
  item,       \* what is being delivered: 0 the header, p packet p, -1 nothing
  awaiting,   \* in receive_acknowledge
  reported    \* "Data transmission completed" was shown for it

senderVars == <<transfer, item, awaiting, reported>>

(* "last" is the number of bytes of the last packet; a cancelled file      *)
(* dialog and an empty file are transfers of no packet.                    *)
NoTransfer == [id |-> 0, mode |-> "packet", packets |-> 0, last |-> 1]

TotalSize(t) ==
  IF t.packets = 0 THEN 0 ELSE (t.packets - 1) * packet_size + t.last

(* A datagram: the header, or packet n of transfer t. *)
HeaderOf(t) == [kind |-> "header", of |-> t, n |-> 0, size |-> HEADER_SIZE]
PacketOf(t, n) == [kind |-> "data", of |-> t, n |-> n,
                   size |-> IF n = t.packets THEN t.last ELSE packet_size]

(* The same as bytes of a stream, n numbering those of each part. *)
StreamOf(t) ==
  [n \in 1..HEADER_SIZE |-> [kind |-> "header", of |-> t, n |-> n]]
  \o [n \in 1..TotalSize(t) |-> [kind |-> "data", of |-> t, n |-> n]]

SenderInit ==
  /\ transfer = NoTransfer
  /\ item = -1 /\ awaiting = FALSE /\ reported = FALSE

(* init_transfer, up to the call of one of the two deliver functions.      *)
Begin(s) ==
  /\ item = -1 /\ transfer.id < MaxTransfers
  /\ transfer' = [id |-> transfer.id + 1, mode |-> s.mode,
                  packets |-> s.packets, last |-> s.last]

(* tcp_deliver_packets: send() to a stream does not wait for the receiver. *)
tcp_deliver_packets(s) ==
  /\ Begin(s) /\ reported' = TRUE
  /\ UNCHANGED <<item, awaiting>>

udp_deliver_packets(s) ==
  /\ Begin(s) /\ item' = 0 /\ reported' = FALSE
  /\ UNCHANGED awaiting

(* One turn of either loop of udp_deliver_packets begins with WSASendTo;   *)
(* if it fails for a packet the function returns, if for the header it     *)
(* waits for the acknowledgement all the same.                             *)
WSASendTo(datagrams) ==
  /\ item >= 0 /\ ~awaiting
  /\ \/ /\ datagrams = {IF item = 0 THEN HeaderOf(transfer) ELSE PacketOf(transfer, item)}
        /\ awaiting' = TRUE /\ UNCHANGED item
     \/ /\ datagrams = {}
        /\ IF item = 0 THEN awaiting' = TRUE /\ UNCHANGED item
                       ELSE item' = -1 /\ UNCHANGED awaiting
  /\ UNCHANGED <<transfer, reported>>

(* The loops are left when the text is ";ACK;", and nothing else is ever   *)
(* sent to this socket: the turn that would send again is never taken.     *)
LastItemEarly == item >= transfer.packets - 1   \* slip: one packet short
LastItemLate == item > transfer.packets         \* slip: one packet more
LastItem == item = transfer.packets

receive_acknowledge ==
  /\ awaiting /\ awaiting' = FALSE
  /\ item' = IF LastItem THEN -1 ELSE item + 1
  /\ reported' = LastItem
  /\ UNCHANGED transfer

(* The process is ended during a transfer, and started again.              *)
EndTask ==
  /\ item >= 0
  /\ item' = -1 /\ awaiting' = FALSE
  /\ UNCHANGED <<transfer, reported>>
=============================================================================
