------------------------------ MODULE NVirtFifo ------------------------------
(***************************************************************************)
(* Hosts of the UDP client on one segment with the emulator: every packet  *)
(* passes through the emulator's queue, in order, and from there into the  *)
(* socket of its destination.  The emulator may lose MaxLoss packets.  The *)
(* network is prompt: TIMEOUT is longer than any round trip, so a timeout  *)
(* only comes when nothing of the transfer is under way.                   *)
(***************************************************************************)
EXTENDS NVirtClient, Functions

CONSTANTS
  MaxLoss,    \* bound: packets the emulator loses
  Room        \* bound: packets under way when a host transmits

ASSUME BoundsAssumption == MaxLoss \in Nat /\ Room \in Nat

VARIABLES
  air,        \* packets on their way to the emulator or in it, in order
  inbox,      \* the socket's queue of each host
  lost,       \* number of packets lost
  net,        \* history: every packet ever sent
  first_size  \* history: size of each host's first transfer, 0 before it

vars == <<transfers, timer_enabled, running, opened, delivered, finished,
          air, inbox, lost, net, first_size>>

Emit(packets) ==
  /\ air' = IF packets = {} THEN air ELSE Append(air, CHOOSE p \in packets : TRUE)
  /\ net' = net \cup packets

(* A fresh heap: timer_enabled happens to be zero. *)
Init ==
  /\ ClientInit
  /\ timer_enabled = [h \in Host |-> FALSE]
  /\ air = <<>> /\ inbox = [h \in Host |-> <<>>] /\ lost = 0
  /\ net = {} /\ first_size = [h \in Host |-> 0]

Send(h) ==
  /\ \E dest \in Host \ {h}, n \in Sizes, w \in Windows :
       /\ send(h, dest, n, w)
       /\ first_size' = IF opened[h] = 0 THEN [first_size EXCEPT ![h] = n]
                                         ELSE first_size
  /\ UNCHANGED <<air, inbox, lost, net>>

Transmit(h) ==
  /\ Len(air) + SumFunction([g \in Host |-> Len(inbox[g])]) < Room
  /\ \E packets \in Offers(h) : transmit_data(h, packets) /\ Emit(packets)
  /\ UNCHANGED <<inbox, lost, first_size>>

Recieve(h) ==
  /\ inbox[h] # <<>>
  /\ \E packets \in {{}, {Ack(Head(inbox[h]))}} :
       recieve_data(h, Head(inbox[h]), packets) /\ Emit(packets)
  /\ inbox' = [inbox EXCEPT ![h] = Tail(@)]
  /\ UNCHANGED <<lost, first_size>>

(* The emulator sends on or loses the oldest packet it holds.              *)
ForwardTorn ==                  \* slip: the packet is put together from two
  /\ Len(air) > 1
  /\ inbox' = [inbox EXCEPT ![Head(air).dest] =
                 Append(@, [Head(air) EXCEPT !.n = air[2].n + 1])]
  /\ air' = Tail(air)
  /\ UNCHANGED <<clientVars, lost, net, first_size>>

Forward ==
  /\ air # <<>>
  /\ inbox' = [inbox EXCEPT ![Head(air).dest] = Append(@, Head(air))]
  /\ air' = Tail(air)
  /\ UNCHANGED <<clientVars, lost, net, first_size>>

Lose ==
  /\ air # <<>> /\ lost < MaxLoss
  /\ air' = Tail(air) /\ lost' = lost + 1
  /\ UNCHANGED <<clientVars, inbox, net, first_size>>

(* Packets on their way to hosts, in the air or in a socket. *)
InFlight == {air[i] : i \in 1..Len(air)}
            \cup UNION {{inbox[h][i] : i \in 1..Len(inbox[h])} : h \in Host}

Quiet(h) == \A p \in InFlight : IF p.ptype = "ACK" THEN p.dest # h ELSE p.src # h

Timeout(h) == /\ Quiet(h) /\ timeout(h)
              /\ UNCHANGED <<air, inbox, lost, net, first_size>>

Next == \/ Forward \/ Lose
        \/ \E h \in Host : Send(h) \/ Transmit(h) \/ Recieve(h) \/ Timeout(h)

Spec == Init /\ [][Next]_vars

(* Both programs poll with select() and never sleep on one descriptor, so  *)
(* a handler whose condition persists is run.  /send is the user's choice. *)
FairSpec ==
  /\ Spec /\ WF_vars(Forward)
  /\ \A h \in Host : WF_vars(Transmit(h)) /\ WF_vars(Recieve(h))

-----------------------------------------------------------------------------
Queued(h) == {transfers[h][i] : i \in 1..Len(transfers[h])}

(* This network is one of those NVirtNetwork allows.                       *)
Network == INSTANCE NVirtNetwork
ImplementsNetwork == Network!Spec

(* /send <ip> "begins a transfer, will be added to queue if transfer       *)
(* currently in progress": as long as nothing is lost, every transfer of   *)
(* the queue gets its turn and ends, however the two directions interleave.*)
EveryTransferEnds ==
  \A h \in Host : transfers[h] # <<>> ~> (transfers[h] = <<>> \/ lost > 0)

(* As long as nothing is lost, "Transfer completed." is printed only for   *)
(* transfers delivered in full, the queued ones included: no               *)
(* acknowledgement of one transfer is left over to serve the next.         *)
LosslessIsDelivered ==
  lost = 0 =>
    \A f \in finished : \A s \in 1..f[3] : <<f[1], f[2], s>> \in delivered

(* As long as nothing is lost, a host's list of transfers is TransferQueue:*)
(* /send queues a transfer behind those in progress, the packets of the one*)
(* at the front, and of no other, arrive in order, and it is popped as     *)
(* completed when all have - in both directions of a segment at once.      *)
Waiting(q) == [i \in 1..Len(q) |-> q[i].num_packets]
Ideal == INSTANCE TransferQueue
           WITH begun <- opened, arrived <- delivered, completed <- finished,
                waiting <- [h \in Host |-> Waiting(transfers[h])]

LosslessIsQueue ==
  /\ Ideal!Init
  /\ [][lost' = 0 => [Ideal!Next]_(Ideal!vars)]_vars

(* As long as nothing is lost no packet is sent twice: neither the rewind  *)
(* of check_packet nor that of the timeout ever moves current_seq back.    *)
LosslessSendsOnce ==
  [][lost' = 0 =>
       \A h \in Host : \A t \in Queued(h), u \in Queued(h)' :
         t.id = u.id => u.current_seq >= t.current_seq]_vars

(* As long as nothing is lost the timer never runs while the list is       *)
(* empty: the timeout would take the front of an empty list.               *)
LosslessIdleTimer ==
  lost = 0 => \A h \in Host : transfers[h] = <<>> => ~timer_enabled[h]

(* "Transfer completed." is printed only for transfers delivered in full.  *)
CompletedIsDelivered ==
  \A f \in finished : \A s \in 1..f[3] : <<f[1], f[2], s>> \in delivered

(* "Transfer timed out, reseting to last acked.": a transfer that has sent *)
(* its window and still waits for acknowledgements, none of them on its    *)
(* way, has its timer running, so that the loss is repaired.               *)
Waits(h) == /\ transfers[h] # <<>> /\ Quiet(h)
            /\ LET t == Head(transfers[h])
               IN  /\ ~InWindow(t) /\ Withholds(t)
                   /\ t.num_packets > 0 /\ t.window_size > 0

LossTimesOut == \A h \in Host : Waits(h) => timer_enabled[h]
=============================================================================
