---------------------------- MODULE NVirtNetwork ----------------------------
(***************************************************************************)
(* Hosts of the UDP client over the worst network UDP allows: whatever was *)
(* sent may arrive, at any later time, any number of times, or never.  The *)
(* emulator and the links on both sides of it are one instance of this.    *)
(***************************************************************************)
EXTENDS NVirtClient

VARIABLES
  net,        \* every packet ever sent
  first_size  \* history: size of each host's first transfer, 0 before it

vars == <<transfers, timer_enabled, running, opened, delivered, finished,
          net, first_size>>

Emit(packets) == net' = net \cup packets

Init == ClientInit /\ net = {} /\ first_size = [h \in Host |-> 0]

Send(h) ==
  \E dest \in Host \ {h}, n \in Sizes, w \in Windows :
    /\ send(h, dest, n, w)
    /\ first_size' = IF opened[h] = 0 THEN [first_size EXCEPT ![h] = n]
                                      ELSE first_size
    /\ UNCHANGED net

Quit(h) == quit(h) /\ UNCHANGED <<net, first_size>>

Transmit(h) ==
  /\ \E packets \in Offers(h) : transmit_data(h, packets) /\ Emit(packets)
  /\ UNCHANGED first_size

Recieve(h) ==
  /\ \E p \in net : \E packets \in {{}, {Ack(p)}} :
       recieve_data(h, p, packets) /\ Emit(packets)
  /\ UNCHANGED first_size

Timeout(h) == timeout(h) /\ UNCHANGED <<net, first_size>>

Next == \E h \in Host :
          Send(h) \/ Quit(h) \/ Transmit(h) \/ Recieve(h) \/ Timeout(h)

Spec == Init /\ [][Next]_vars

-----------------------------------------------------------------------------
Transfer ==
  [id : Nat \ {0}, ipdest : Host, num_packets : Sizes, window_size : Windows,
   current_ack : Int, current_seq : Nat, current_window : Int]

Packet == [ptype : {"DATA", "EOT", "ACK"}, src : Host, dest : Host,
           id : Nat \ {0}, n : Int]

TypeOK ==
  /\ transfers \in [Host -> Seq(Transfer)]
  /\ timer_enabled \in [Host -> BOOLEAN]
  /\ running \in [Host -> BOOLEAN]
  /\ opened \in [Host -> Nat]
  /\ delivered \subseteq Host \X (Nat \ {0}) \X Int
  /\ finished \subseteq Host \X (Nat \ {0}) \X Nat
  /\ net \subseteq Packet
  /\ first_size \in [Host -> Nat]

Queued(h) == {transfers[h][i] : i \in 1..Len(transfers[h])}

(* The counters of every transfer agree, whatever arrives in whatever      *)
(* order: current_window is the window that holds the next packet to be    *)
(* acknowledged, and current_seq never runs past that window.  The three   *)
(* are set in different places by three different handlers, and the guard  *)
(* of readNextPacket relies on all of them.                                *)
CountersOK(t) ==
  /\ t.current_ack >= -1 /\ t.current_seq >= 0 /\ t.current_window >= 1
  /\ t.window_size > 0 =>
       /\ t.current_seq <= t.window_size * t.current_window + 1
       /\ t.window_size * (t.current_window - 1) <= t.current_ack + 1
       /\ t.current_ack + 1 < t.window_size * t.current_window

CountersAgree == \A h \in Host : \A t \in Queued(h) : CountersOK(t)

(* A packet of a host's first transfer that the sender takes for           *)
(* acknowledged has reached its receiver, although packets are lost,       *)
(* repeated and reordered and the sender rewinds at any time; and it never *)
(* counts more acknowledgements than packets, which would make the         *)
(* comparison that releases the EOT fail for ever.                         *)
AckSound(h, t) ==
  /\ \A s \in 1..(t.current_ack + 1) : <<h, 1, s>> \in delivered
  /\ t.current_ack + 1 <= t.num_packets
  /\ t.current_seq <= t.num_packets + 1

FirstAcksSound ==
  \A h \in Host : \A t \in Queued(h) : t.id = 1 => AckSound(h, t)

(* When the receiver of a first transfer is told "Transfer completed." by  *)
(* an EOT, it has every packet of it, even if the EOT overtook them on its *)
(* way.                                                                    *)
FirstEotSound ==
  \A p \in net : p.ptype = "EOT" /\ p.id = 1 =>
    \A s \in 1..p.n : <<p.src, 1, s>> \in delivered

(* "Transfer completed." is printed on the sender's side only for          *)
(* transfers the receiver has in full.  Not so once a host opens a second  *)
(* transfer: an acknowledgement carries no mark of its transfer.           *)
CompletedIsDelivered ==
  \A f \in finished : \A s \in 1..f[3] : <<f[1], f[2], s>> \in delivered

(* Each host's first transfer is a ReliableTransfer. *)
HasFirst(h) == \E t \in Queued(h) : t.id = 1

FirstPhase(h) ==
  IF opened[h] = 0 THEN "idle"
  ELSE IF HasFirst(h) THEN "open"
  ELSE IF <<h, 1, first_size[h]>> \in finished THEN "completed"
  ELSE "abandoned"

FirstGot(h) == {d[3] : d \in {e \in delivered : e[1] = h /\ e[2] = 1}}

Reliable == INSTANCE ReliableTransfer WITH
              size <- first_size,
              got <- [h \in Host |-> FirstGot(h)],
              phase <- [h \in Host |-> FirstPhase(h)]

FirstIsReliable == Reliable!Spec
=============================================================================
