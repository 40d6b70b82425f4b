------------------------------ MODULE Emulator ------------------------------
(***************************************************************************)
(* The network emulator NVirt (7005_NVirt/NVirt): Controller::execute runs *)
(* one select loop over STDIN and one UDP socket; packets that arrive are  *)
(* stored in the CircularBuffer and sent on one at a time, subject to the  *)
(* NoiseController's loss rate.                                            *)
(*                                                                         *)
(* One iteration runs check_command, transmit_data and recieve_data, in    *)
(* this order, each if select reported its descriptor.  Any subset of the  *)
(* descriptors may be reported, so any sequence of the three handlers is   *)
(* one the loop can run: the handlers are the actions.  The delay of       *)
(* usleep() only shifts them in time and has no variable.                  *)
(***************************************************************************)
EXTENDS Integers, Sequences

CONSTANTS
  P_SIZE,         \* bytes of a packet
  BUFLEN,         \* bytes of the ring
  Packet,         \* packets the clients send, each at most once
  Resolvable,     \* those whose dest_ip gethostbyname() finds
  SendMayFail,    \* whether sendto() can fail
  LossSettings,   \* arguments of /setloss that are tried
  SocketRoom,     \* bound: packets the kernel queues on the socket
  NoByte          \* what the memset of the constructor stores

ASSUME SizeAssumption == P_SIZE \in Nat \ {0} /\ BUFLEN \in Nat /\ BUFLEN > P_SIZE
ASSUME LossAssumption == SendMayFail \in BOOLEAN /\ LossSettings \subseteq Int

VARIABLES
  beg_index, end_index, size, data, handed, moved,   \* c_buffer
  data_loss,      \* n_control->data_loss
  running,        \* FALSE after /quit
  inq,            \* datagrams waiting on ctrl_socket
  sent,           \* the datagrams sendto() was called with, in order
  arrived         \* the packets that reached ctrl_socket so far

ringVars == <<beg_index, end_index, size, data, handed, moved>>
vars == <<beg_index, end_index, size, data, handed, moved,
          data_loss, running, inq, sent, arrived>>

(* A packet is a string of P_SIZE bytes, each tagged with its origin so    *)
(* that a string put together from two packets is seen to be one.          *)
Bytes(p) == [k \in 1..P_SIZE |-> <<p, k>>]

c_buffer == INSTANCE CircularBuffer WITH
              Capacity <- BUFLEN,
              Byte <- (Packet \X (1..P_SIZE)) \cup {NoByte},
              Zero <- NoByte,
              MaxBytes <- P_SIZE

Init ==
  /\ c_buffer!Init
  /\ data_loss = 0 /\ running = TRUE
  /\ inq = <<>> /\ sent = <<>> /\ arrived = {}

(* UDP: a datagram that finds the socket's queue full is gone.             *)
Arrive(p) ==
  /\ p \notin arrived
  /\ arrived' = arrived \cup {p}
  /\ inq' = IF Len(inq) < SocketRoom THEN Append(inq, p) ELSE inq
  /\ UNCHANGED <<ringVars, data_loss, running, sent>>

(* The code asks for strictly more room than a packet.                     *)
HasRoomForAny == size < BUFLEN   \* slip: some room instead of a packet's
HasRoom == BUFLEN - size > P_SIZE

recieve_data ==
  /\ running /\ inq # <<>> /\ HasRoom
  /\ c_buffer!Write(Bytes(Head(inq)))
  /\ inq' = Tail(inq)
  /\ UNCHANGED <<data_loss, running, sent, arrived>>

HoldsMoreThanPacket == size > P_SIZE   \* slip: "more than" for "at least"
HoldsPacket == size >= P_SIZE

(* rand() % 99 against the loss rate: TRUE keeps the packet.               *)
packet_drop_check(val) == val > data_loss

(* The packet is out of the ring before any of the checks that may end the *)
(* call: the loss draw, the name lookup of its destination, sendto().      *)
transmit_data ==
  /\ running /\ HoldsPacket
  /\ c_buffer!Read(P_SIZE)
  /\ \E val \in 0..98, sendto \in {TRUE, ~SendMayFail} :
       sent' = IF /\ packet_drop_check(val)
                  /\ Head(handed')[1] \in Resolvable
                  /\ sendto
                 THEN Append(sent, handed')
                 ELSE sent
  /\ UNCHANGED <<data_loss, running, inq, arrived>>

set_plossAny(ploss) ==           \* slip: the range is not checked
  /\ running
  /\ data_loss' = ploss
  /\ UNCHANGED <<ringVars, running, inq, sent, arrived>>

set_ploss(ploss) ==
  /\ running
  /\ data_loss' = IF 0 <= ploss /\ ploss <= 100 THEN ploss ELSE data_loss
  /\ UNCHANGED <<ringVars, running, inq, sent, arrived>>

(* /quit; also a command without its argument, whose substr() throws.      *)
quit ==
  /\ running
  /\ running' = FALSE
  /\ UNCHANGED <<ringVars, data_loss, inq, sent, arrived>>

check_command == quit \/ \E ploss \in LossSettings : set_ploss(ploss)

Next == recieve_data \/ transmit_data \/ check_command
        \/ \E p \in Packet : Arrive(p)

Spec == Init /\ [][Next]_vars

(* The loop polls forever and select reports readiness by level, so a      *)
(* handler whose condition persists is run; commands and arrivals are free.*)
FairSpec == Spec /\ WF_vars(recieve_data) /\ WF_vars(transmit_data)

-----------------------------------------------------------------------------
TypeOK ==
  /\ c_buffer!TypeOK
  /\ data_loss \in 0..100 /\ running \in BOOLEAN
  /\ inq \in Seq(Packet) /\ arrived \subseteq Packet
  /\ sent \in Seq([1..P_SIZE -> Packet \X (1..P_SIZE)])

(* The ring only ever holds whole packets, whatever the order of the calls *)
(* and wherever a packet is split at the end of the array: the check for   *)
(* room in recieve_data and the check in transmit_data count in bytes and  *)
(* must leave no remainder behind.                                         *)
WholePackets == \E n \in 0..BUFLEN : size = n * P_SIZE

(* The stored bytes cut into packets. *)
Stored ==
  [i \in 1..(size \div P_SIZE) |->
     [k \in 1..P_SIZE |-> c_buffer!Contents[(i - 1) * P_SIZE + k]]]

(* Whatever the noise settings, the emulator is a lossy FIFO channel: each *)
(* datagram it sends is, byte for byte, one that arrived, and they leave   *)
(* in the order they arrived in.                                           *)
Channel == INSTANCE PacketChannel WITH
             Frame <- {Bytes(p) : p \in Packet},
             transit <- Stored \o [i \in 1..Len(inq) |-> Bytes(inq[i])]
ImplementsChannel == Channel!Spec

(* No packet is left lying: once nothing more arrives, the ring and the    *)
(* socket run empty, unless the emulator is told to quit.                  *)
Drains == <>[](~running \/ (inq = <<>> /\ size = 0))
=============================================================================
