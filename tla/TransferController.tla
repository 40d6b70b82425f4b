------------------------- MODULE TransferController -------------------------
(***************************************************************************)
(* One sliding-window transfer of the UDP client                           *)
(* (7005_NVirt/Client/src/TransferController.cpp).  Packets are numbered   *)
(* from 1 (sequence_number), acknowledgements from 0 (ack_value): the      *)
(* acknowledgement of packet s carries s - 1.  The code's sizes in bytes   *)
(* are all multiples of P_SIZE and are counted in packets here:            *)
(* num_packets stands for transfer_size / P_SIZE.                          *)
(***************************************************************************)
EXTENDS Integers, Sequences

(* The constructor.  "id" numbers the transfers of a host; it is not in    *)
(* the code, where nothing tells the packets of two transfers apart.       *)
NewTransfer(id, ipdest, num_packets, window_size) ==
  [id |-> id, ipdest |-> ipdest, num_packets |-> num_packets,
   window_size |-> window_size,
   current_ack |-> -1, current_seq |-> 1, current_window |-> 1]

InWindow(t) == /\ t.current_seq <= t.window_size * t.current_window
               /\ t.current_seq <= t.num_packets

(* The return value of readNextPacket: 1 a packet of the buffer, 2 an EOT, *)
(* 0 nothing to send; and the transfer it leaves behind.                   *)
readNextPacket(t) == IF InWindow(t)                         THEN 1
                     ELSE IF t.current_seq >= t.num_packets THEN 2
                     ELSE 0

AfterRead(t) == IF InWindow(t) THEN [t EXCEPT !.current_seq = @ + 1] ELSE t

AcceptsAny(t, ack_value) == ack_value > t.current_ack   \* slip: cumulative
AcceptsLast(t, ack_value) == ack_value = t.current_ack  \* slip: off by one
Accepts(t, ack_value) == ack_value = t.current_ack + 1

(* verifyAck when it accepts; when it does not it changes nothing.         *)
SlideLate(t) == t.current_window * t.window_size = t.current_ack + 1   \* slip
Slides(t) == t.current_window * t.window_size = t.current_ack + 2

verifyAck(t) ==
  [t EXCEPT !.current_ack = @ + 1,
            !.current_window = IF Slides(t) THEN @ + 1 ELSE @]

(* The rewind of check_packet and of the timeout: back to the last packet  *)
(* acknowledged (not to the first that is not).                            *)
RewindToStart(t) == [t EXCEPT !.current_seq = -1]       \* slip
Rewind(t) == [t EXCEPT !.current_seq = t.current_ack + 1]
=============================================================================
