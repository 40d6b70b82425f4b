----------------------------- MODULE NVirtClient -----------------------------
(***************************************************************************)
(* The hosts that run the UDP client (7005_NVirt/Client): the Controller's *)
(* select loop with its handlers, the queue of transfers of the            *)
(* CommandController.  Every host sends and receives.                      *)
(*                                                                         *)
(* As in the emulator, an iteration of the loop runs the handlers of the   *)
(* descriptors select() reported and then the timeout check; select() may  *)
(* report any of them, so every sequence of handlers is one the loop can   *)
(* run and the handlers are the actions.                                   *)
(*                                                                         *)
(* The network is the caller's: "packets" is what a handler hands to       *)
(* sendto(), at most one packet, and the caller says what becomes of it.   *)
(***************************************************************************)
EXTENDS TransferController, FiniteSets

CONSTANTS
  Host,
  Sizes,          \* values of /setNumPackets
  Windows,        \* values of /setWindow
  MaxSends,       \* bound: /send commands of each host
  SendMayFail,    \* whether gethostbyname(server_ip) or sendto() can fail
  UndefinedOutcomes   \* of an access outside an object: "crash", "continue"

ASSUME SizesAssumption == Sizes \subseteq Nat /\ Windows \subseteq Nat
ASSUME OutcomesAssumption == /\ SendMayFail \in BOOLEAN /\ MaxSends \in [Host -> Nat]
                             /\ UndefinedOutcomes \subseteq {"crash", "continue"}

VARIABLES
  transfers,      \* cmd_control->transfers of each host
  timer_enabled,
  running,        \* FALSE after /quit or a crash
  opened,         \* history: the number of transfers a host was told to send
  delivered,      \* history: <<source, id, packet>> taken from a socket
  finished        \* history: <<source, id, size>> with "Transfer completed."

clientVars == <<transfers, timer_enabled, running, opened, delivered, finished>>

Data(h, t) == [ptype |-> "DATA", src |-> h, dest |-> t.ipdest, id |-> t.id,
               n |-> t.current_seq]
Eot(h, t)  == [ptype |-> "EOT", src |-> h, dest |-> t.ipdest, id |-> t.id,
               n |-> t.num_packets]
Ack(p)     == [ptype |-> "ACK", src |-> p.dest, dest |-> p.src, id |-> p.id,
               n |-> p.n - 1]

(* timer_enabled is not set by any constructor.                            *)
ClientInit ==
  /\ transfers = [h \in Host |-> <<>>]
  /\ timer_enabled \in [Host -> BOOLEAN]
  /\ running = [h \in Host |-> TRUE]
  /\ opened = [h \in Host |-> 0]
  /\ delivered = {} /\ finished = {}

(* /send, with the values /setNumPackets and /setWindow left behind.       *)
send(h, dest, num_packets, window_size) ==
  /\ running[h] /\ opened[h] < MaxSends[h]
  /\ opened' = [opened EXCEPT ![h] = @ + 1]
  /\ transfers' = [transfers EXCEPT ![h] =
                     Append(@, NewTransfer(opened[h] + 1, dest,
                                           num_packets, window_size))]
  /\ UNCHANGED <<timer_enabled, running, delivered, finished>>

(* /quit; also a command without its argument, whose substr() throws.      *)
quit(h) ==
  /\ running[h]
  /\ running' = [running EXCEPT ![h] = FALSE]
  /\ UNCHANGED <<transfers, timer_enabled, opened, delivered, finished>>

(* write_udp_socket for a packet of transfer t: 1 withholds an EOT that    *)
(* comes before the last acknowledgement, negative is a failed send.       *)
WithholdsNone(t) == FALSE                      \* slip: the check is missing
Withholds(t) == t.current_ack + 1 # t.num_packets

write_udp_socket(t, ptype) ==
  IF ptype = "EOT" /\ Withholds(t) THEN {1}
  ELSE IF SendMayFail THEN {0, -1} ELSE {0}

(* An access outside its object - the bytes before a buffer, front() of an *)
(* empty list - ends the process or goes on with what it finds there.      *)
Crash(h) ==
  /\ "crash" \in UndefinedOutcomes
  /\ running' = [running EXCEPT ![h] = FALSE]
  /\ UNCHANGED <<transfers, timer_enabled, opened, finished>>

(* The type of the packet readNextPacket put together.  With current_seq 0 *)
(* it copied the P_SIZE bytes before the buffer: the type field is         *)
(* whatever they hold.                                                     *)
Wild(t) == InWindow(t) /\ t.current_seq = 0
NextType(t) == IF Wild(t) THEN {ptype \in {"DATA", "ACK", "EOT", "OTHER"} :
                                  "continue" \in UndefinedOutcomes}
               ELSE IF InWindow(t) THEN {"DATA"}
               ELSE {"EOT"}

(* What transmit_data does with the packet once write_udp_socket has       *)
(* returned.                                                               *)
Sent(h, t, ptype, status) ==
  LET ends == status = -1 \/ (ptype = "EOT" /\ status = 0)
  IN  /\ transfers' = [transfers EXCEPT ![h] =
           IF ends THEN Tail(@) ELSE [@ EXCEPT ![1] = AfterRead(t)]]
      /\ timer_enabled' = [timer_enabled EXCEPT ![h] =
           @ \/ (ptype = "DATA" /\ status = 0)]
      /\ finished' = finished \cup
           {f \in {<<h, t.id, t.num_packets>>} : ptype = "EOT" /\ status = 0}

(* A wild packet leaves the host but has no destination the emulator can   *)
(* resolve, so nothing is emitted for it.                                  *)
OnWire(h, t, ptype, status) ==
  IF status # 0 \/ Wild(t) THEN {}
  ELSE {IF ptype = "EOT" THEN Eot(h, t) ELSE Data(h, t)}

transmit_data(h, packets) ==
  LET t == Head(transfers[h])
  IN  /\ running[h] /\ transfers[h] # <<>>
      /\ readNextPacket(t) # 0
      /\ \/ /\ \E ptype \in NextType(t) :
               \E status \in write_udp_socket(t, ptype) :
                 Sent(h, t, ptype, status) /\ packets = OnWire(h, t, ptype, status)
            /\ UNCHANGED <<running, opened>>
         \/ Wild(t) /\ Crash(h) /\ packets = {}
      /\ UNCHANGED delivered

(* What transmit_data may hand to sendto().                                *)
Offers(h) ==
  IF transfers[h] = <<>> THEN {{}}
  ELSE {{}, {Data(h, Head(transfers[h]))}, {Eot(h, Head(transfers[h]))}}

(* check_packet, ptype ACK.  An accepted one stops the timer, whatever is  *)
(* still under way; any other rewinds.                                     *)
TimerKept(enabled, accepted) == enabled        \* slip: the ACK leaves it on
TimerAfterAck(enabled, accepted) == enabled /\ ~accepted

AckIn(h, p) ==
  LET t == Head(transfers[h])
      accepted == Accepts(t, p.n)
  IN  /\ p.ptype = "ACK"
      /\ \/ /\ transfers[h] # <<>>
            /\ transfers' = [transfers EXCEPT ![h] =
                 [@ EXCEPT ![1] = IF accepted THEN verifyAck(t) ELSE Rewind(t)]]
            /\ timer_enabled' = [timer_enabled EXCEPT ![h] =
                                   TimerAfterAck(@, accepted)]
            /\ UNCHANGED <<running, opened, finished>>
         \/ transfers[h] = <<>> /\ Crash(h)
         \/ /\ transfers[h] = <<>> /\ "continue" \in UndefinedOutcomes
            /\ \E b \in {FALSE, timer_enabled[h]} :
                 timer_enabled' = [timer_enabled EXCEPT ![h] = b]
            /\ UNCHANGED <<transfers, running, opened, finished>>
      /\ UNCHANGED delivered

(* check_packet, ptype EOT: it stops the timer of the receiving host.      *)
EotIn(h, p) ==
  /\ p.ptype = "EOT"
  /\ timer_enabled' = [timer_enabled EXCEPT ![h] = FALSE]
  /\ UNCHANGED <<transfers, running, opened, delivered, finished>>

(* check_packet, any other packet: send_ack, whose write_udp_socket looks  *)
(* at the front of this host's own list.                                   *)
DataIn(h, p, packets) ==
  /\ p.ptype = "DATA"
  /\ delivered' = delivered \cup {<<p.src, p.id, p.n>>}
  /\ \/ /\ transfers[h] # <<>> \/ "continue" \in UndefinedOutcomes
        /\ packets = {Ack(p)} \/ (SendMayFail /\ packets = {})
        /\ UNCHANGED <<transfers, timer_enabled, running, opened, finished>>
     \/ transfers[h] = <<>> /\ Crash(h) /\ packets = {}

recieve_data(h, p, packets) ==
  /\ running[h] /\ p.dest = h
  /\ \/ (AckIn(h, p) \/ EotIn(h, p)) /\ packets = {}
     \/ DataIn(h, p, packets)

(* clock() - timer == TIMEOUT, found true by the check that ends a round.  *)
timeout(h) ==
  /\ running[h] /\ timer_enabled[h]
  /\ \/ /\ transfers[h] # <<>>
        /\ transfers' = [transfers EXCEPT ![h] =
                            [@ EXCEPT ![1] = Rewind(Head(transfers[h]))]]
        /\ timer_enabled' = [timer_enabled EXCEPT ![h] = FALSE]
        /\ UNCHANGED <<running, opened, finished>>
     \/ transfers[h] = <<>> /\ Crash(h)
     \/ /\ transfers[h] = <<>> /\ "continue" \in UndefinedOutcomes
        /\ timer_enabled' = [timer_enabled EXCEPT ![h] = FALSE]
        /\ UNCHANGED <<transfers, running, opened, finished>>
  /\ UNCHANGED delivered
=============================================================================
