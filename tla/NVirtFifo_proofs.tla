------------------------- MODULE NVirtFifo_proofs -------------------------
(***************************************************************************)
(* The segment with the emulator is one of the networks of NVirtNetwork,   *)
(* for all bounds on losses and on packets under way: what is proved there *)
(* of the first transfers holds on it.  Then: what the segment promises of *)
(* all transfers while nothing is lost, by the inductive LosslessInv, and  *)
(* that it implements TransferQueue as long.                               *)
(***************************************************************************)
EXTENDS NVirtFifo, TLAPS

(* Whatever is under way has been sent. *)
IInv == air \in Seq(net) /\ inbox \in [Host -> Seq(net)]

LEMMA MoreSent ==
  ASSUME NEW M, NEW N, M \subseteq N
  PROVE  Seq(M) \subseteq Seq(N)
  OBVIOUS

LEMMA TailOf ==
  ASSUME NEW S, NEW s \in Seq(S), s # <<>>
  PROVE  Tail(s) \in Seq(S) /\ Head(s) \in S
  OBVIOUS

LEMMA Transported ==
  ASSUME IInv, NEW h \in Host, Transmit(h) \/ Recieve(h) \/ Send(h) \/ Timeout(h)
  PROVE  Network!Next
  <1>1. CASE Send(h)
    BY <1>1 DEF Send, send, Network!Send, Network!send, Network!Next,
                NewTransfer, Network!NewTransfer
  <1>2. CASE Timeout(h)
    BY <1>2 DEF Timeout, timeout, Crash, Rewind, Network!Timeout,
                Network!timeout, Network!Crash, Network!Rewind, Network!Next
  <1>3. CASE Transmit(h)
    <2> DEFINE t == Head(transfers[h])
    <2>1. PICK P \in Offers(h) : transmit_data(h, P) /\ Emit(P)
      BY <1>3 DEF Transmit
    <2>2. P \in Network!Offers(h) /\ Network!Emit(P)
      BY <2>1 DEF Emit, Offers, Data, Eot, Network!Emit, Network!Offers,
         Network!Data, Network!Eot
    <2> SUFFICES Network!transmit_data(h, P)
      BY <1>3, <2>2 DEF Transmit, Network!Transmit, Network!Next
    <2>3. CASE Wild(t) /\ Crash(h) /\ P = {} /\ UNCHANGED delivered
      BY <2>1, <2>3 DEF transmit_data, Crash, readNextPacket, InWindow,
         Wild, Network!transmit_data, Network!Crash,
         Network!readNextPacket, Network!InWindow, Network!Wild
    <2>4. CASE ~(Wild(t) /\ Crash(h) /\ P = {} /\ UNCHANGED delivered)
      <3>1. PICK ptype \in NextType(t) :
              \E status \in write_udp_socket(t, ptype) :
                Sent(h, t, ptype, status) /\ P = OnWire(h, t, ptype, status)
        BY <2>1, <2>4 DEF transmit_data
      <3>2. PICK status \in write_udp_socket(t, ptype) :
              Sent(h, t, ptype, status) /\ P = OnWire(h, t, ptype, status)
        BY <3>1
      <3>3. /\ ptype \in Network!NextType(t)
            /\ status \in Network!write_udp_socket(t, ptype)
        BY <3>2 DEF NextType, Wild, InWindow, write_udp_socket, Withholds,
           Network!NextType, Network!Wild, Network!InWindow,
           Network!write_udp_socket, Network!Withholds
      <3>4. Network!Sent(h, t, ptype, status)
        BY <3>2 DEF Sent, AfterRead, InWindow, Network!Sent,
           Network!AfterRead, Network!InWindow
      <3>5. OnWire(h, t, ptype, status) = Network!OnWire(h, t, ptype, status)
        BY DEF OnWire, Wild, InWindow, Eot, Data, Network!OnWire,
           Network!Wild, Network!InWindow, Network!Eot, Network!Data
      <3>6. P = Network!OnWire(h, t, ptype, status)
        BY <3>2, <3>5
      <3>7. /\ running[h] /\ transfers[h] # <<>>
            /\ Network!readNextPacket(t) # 0
            /\ UNCHANGED <<running, opened, delivered>>
        BY <2>1, <2>4 DEF transmit_data, readNextPacket, InWindow,
           Network!readNextPacket, Network!InWindow
      <3> HIDE DEF t
      <3>8. QED
        BY <3>3, <3>4, <3>6, <3>7 DEF Network!transmit_data, t
    <2>5. QED BY <2>3, <2>4
  <1>4. CASE Recieve(h)
    <2> DEFINE p == Head(inbox[h])
    <2>1. p \in net
      BY <1>4, TailOf DEF IInv, Recieve
    <2>2. PICK P \in {{}, {Ack(p)}} :
            recieve_data(h, p, P) /\ Emit(P) /\ UNCHANGED first_size
      BY <1>4 DEF Recieve
    <2> HIDE DEF p
    <2>3. /\ P \in {{}, {Network!Ack(p)}} /\ Network!Emit(P)
          /\ Network!recieve_data(h, p, P)
      BY <2>2 DEF recieve_data, AckIn, EotIn, DataIn, Crash, Emit, Accepts,
         TimerAfterAck, verifyAck, Slides, Rewind, Ack,
         Network!recieve_data, Network!AckIn, Network!EotIn, Network!DataIn,
         Network!Crash, Network!Emit, Network!Accepts, Network!TimerAfterAck,
         Network!verifyAck, Network!Slides, Network!Rewind, Network!Ack
    <2>4. QED BY <2>1, <2>2, <2>3 DEF Network!Recieve, Network!Next
  <1>5. QED BY <1>1, <1>2, <1>3, <1>4

LEMMA EmitInv ==
  ASSUME IInv, NEW P, Emit(P), NEW T \in [Host -> Seq(net)], inbox' = T
  PROVE  IInv'
  <1>1. net \subseteq net' /\ P \subseteq net' BY DEF Emit
  <1>2. Seq(net) \subseteq Seq(net') BY <1>1, MoreSent
  <1>3. inbox' \in [Host -> Seq(net')] BY <1>2
  <1>4. air' \in Seq(net')
    <2>1. CASE P = {} BY <1>2, <2>1 DEF Emit, IInv
    <2>2. CASE P # {}
      <3>1. PICK x : x = CHOOSE p \in P : TRUE OBVIOUS
      <3>2. x \in net' BY <1>1, <2>2, <3>1
      <3>3. air' = Append(air, x) /\ air \in Seq(net')
        BY <1>2, <2>2, <3>1 DEF Emit, IInv
      <3>4. QED BY <3>2, <3>3
    <2>3. QED BY <2>1, <2>2
  <1>5. QED BY <1>3, <1>4 DEF IInv

LEMMA Underway == Spec => []IInv
  <1>1. Init => IInv BY DEF Init, IInv
  <1>2. IInv /\ [Next]_vars => IInv'
    <2>1. SUFFICES ASSUME IInv, [Next]_vars PROVE IInv' OBVIOUS
    <2>2. CASE Forward
      <3>1. Head(air) \in net /\ Tail(air) \in Seq(net)
        BY <2>1, <2>2, TailOf DEF IInv, Forward
      <3>2. \A g \in Host : Append(inbox[g], Head(air)) \in Seq(net)
        BY <2>1, <3>1 DEF IInv
      <3>3. QED BY <2>1, <2>2, <3>1, <3>2 DEF IInv, Forward
    <2>3. CASE Lose
      BY <2>1, <2>3, TailOf DEF IInv, Lose
    <2>4. ASSUME NEW h \in Host, Send(h) \/ Timeout(h) PROVE IInv'
      BY <2>1, <2>4 DEF IInv, Send, Timeout
    <2>5. ASSUME NEW h \in Host, Recieve(h) PROVE IInv'
      <3>1. inbox[h] \in Seq(net) /\ inbox[h] # <<>>
        BY <2>1, <2>5 DEF IInv, Recieve
      <3>2. Tail(inbox[h]) \in Seq(net) BY <3>1, TailOf
      <3>3. [inbox EXCEPT ![h] = Tail(@)] \in [Host -> Seq(net)]
        BY <2>1, <3>2 DEF IInv
      <3>4. \E P : Emit(P)
        BY <2>5 DEF Recieve
      <3>5. QED BY <2>1, <2>5, <3>3, <3>4, EmitInv DEF Recieve
    <2>6. ASSUME NEW h \in Host, Transmit(h) PROVE IInv'
      <3>1. \E P : Emit(P) BY <2>6 DEF Transmit
      <3>2. UNCHANGED inbox BY <2>6 DEF Transmit
      <3>3. QED BY <2>1, <3>1, <3>2, EmitInv DEF IInv
    <2>7. CASE UNCHANGED vars BY <2>1, <2>7 DEF IInv, vars
    <2>8. QED BY <2>1, <2>2, <2>3, <2>4, <2>5, <2>6, <2>7 DEF Next
  <1>3. QED BY <1>1, <1>2, PTL DEF Spec

(* Every behaviour of the hosts on the emulator's segment is one of the    *)
(* hosts over a network that loses, repeats and reorders.                  *)
THEOREM SegmentIsNetwork == Spec => ImplementsNetwork
  <1>1. Init => Network!Init
    BY DEF Init, ClientInit, Network!Init, Network!ClientInit
  <1>2. IInv /\ [Next]_vars => [Network!Next]_(Network!vars)
    <2>1. ASSUME Forward \/ Lose \/ UNCHANGED vars PROVE UNCHANGED Network!vars
      BY <2>1 DEF Forward, Lose, vars, clientVars, Network!vars
    <2>2. QED BY <2>1, Transported DEF Next
  <1>3. QED
    BY <1>1, <1>2, Underway, PTL DEF Spec, ImplementsNetwork, Network!Spec

-----------------------------------------------------------------------------
(* NVirtNetwork with what is proved of it: the same network as Network.    *)
Proved == INSTANCE NVirtNetwork_proofs

LEMMA SameNetwork ==
  /\ Network!Init => Proved!Init
  /\ [Network!Next]_(Network!vars) => [Proved!Next]_(Proved!vars)
  <1>1. Network!Init => Proved!Init
    BY DEF Network!Init, Proved!Init, Network!ClientInit, Proved!ClientInit
  <1>2. UNCHANGED Network!vars => UNCHANGED Proved!vars
    BY DEF Network!vars, Proved!vars
  <1>3. ASSUME NEW h \in Host PROVE Network!Send(h) => Proved!Send(h)
    BY DEF Network!Send, Proved!Send, Network!send, Proved!send,
           Network!NewTransfer, Proved!NewTransfer
  <1>4. ASSUME NEW h \in Host PROVE Network!Quit(h) => Proved!Quit(h)
    BY DEF Network!Quit, Proved!Quit, Network!quit, Proved!quit
  <1>5. ASSUME NEW h \in Host PROVE Network!Timeout(h) => Proved!Timeout(h)
    BY DEF Network!Timeout, Proved!Timeout, Network!timeout, Proved!timeout,
           Network!Crash, Proved!Crash, Network!Rewind, Proved!Rewind
  <1>6. ASSUME NEW h \in Host PROVE Network!Recieve(h) => Proved!Recieve(h)
    BY Zenon DEF Network!Recieve, Proved!Recieve, Network!recieve_data, Proved!recieve_data,
           Network!Ack, Proved!Ack, Network!Emit, Proved!Emit, Network!AckIn, Proved!AckIn,
           Network!EotIn, Proved!EotIn, Network!DataIn, Proved!DataIn,
           Network!Crash, Proved!Crash, Network!Rewind, Proved!Rewind,
           Network!Accepts, Proved!Accepts, Network!verifyAck, Proved!verifyAck,
           Network!Slides, Proved!Slides, Network!TimerAfterAck, Proved!TimerAfterAck
  <1>7. ASSUME NEW h \in Host PROVE Network!Transmit(h) => Proved!Transmit(h)
    BY Zenon DEF Network!Transmit, Proved!Transmit, Network!transmit_data, Proved!transmit_data,
           Network!Offers, Proved!Offers, Network!Data, Proved!Data, Network!Eot, Proved!Eot,
           Network!Emit, Proved!Emit, Network!Crash, Proved!Crash,
           Network!readNextPacket, Proved!readNextPacket, Network!InWindow, Proved!InWindow,
           Network!NextType, Proved!NextType, Network!Wild, Proved!Wild,
           Network!write_udp_socket, Proved!write_udp_socket, Network!Withholds, Proved!Withholds,
           Network!Sent, Proved!Sent, Network!AfterRead, Proved!AfterRead,
           Network!OnWire, Proved!OnWire
  <1>8. Network!Next => Proved!Next
    BY <1>3, <1>4, <1>5, <1>6, <1>7 DEF Network!Next, Proved!Next
  <1> QED BY <1>1, <1>2, <1>8

LEMMA SamePromise ==
  /\ Proved!Reliable!Init => Network!Reliable!Init
  /\ [Proved!Reliable!Next]_(Proved!Reliable!vars)
       => [Network!Reliable!Next]_(Network!Reliable!vars)
  /\ Proved!FirstAcksSound => Network!FirstAcksSound
  /\ Proved!CountersAgree => Network!CountersAgree
  <1> USE DEF Proved!FirstGot, Network!FirstGot, Proved!FirstPhase, Network!FirstPhase,
              Proved!HasFirst, Network!HasFirst, Proved!Queued, Network!Queued
  <1>1. Proved!Reliable!Init => Network!Reliable!Init
    BY DEF Proved!Reliable!Init, Network!Reliable!Init
  <1>2. UNCHANGED Proved!Reliable!vars => UNCHANGED Network!Reliable!vars
    BY DEF Proved!Reliable!vars, Network!Reliable!vars
  <1>3. Proved!Reliable!Next => Network!Reliable!Next
    BY DEF Proved!Reliable!Next, Network!Reliable!Next,
           Proved!Reliable!Open, Network!Reliable!Open,
           Proved!Reliable!Deliver, Network!Reliable!Deliver,
           Proved!Reliable!Complete, Network!Reliable!Complete,
           Proved!Reliable!Abandon, Network!Reliable!Abandon
  <1>4. Proved!FirstAcksSound => Network!FirstAcksSound
    BY DEF Proved!FirstAcksSound, Network!FirstAcksSound, Proved!AckSound, Network!AckSound
  <1>5. Proved!CountersAgree => Network!CountersAgree
    BY DEF Proved!CountersAgree, Network!CountersAgree, Proved!CountersOK, Network!CountersOK
  <1> QED BY <1>1, <1>2, <1>3, <1>4, <1>5

(* On the segment with the emulator the first transfer of every host is a  *)
(* ReliableTransfer, whatever the emulator loses and whenever it does, and *)
(* also when sends fail and hosts crash (Controller.cpp of the client).    *)
THEOREM SegmentReliable == Spec => Network!FirstIsReliable
  <1>1. SizesAssumption /\ OutcomesAssumption
    BY SizesAssumption, OutcomesAssumption
  <1>2. Proved!Spec => Proved!FirstIsReliable
    BY <1>1, Proved!FirstTransferReliable, PTL DEF SizesAssumption, OutcomesAssumption
  <1> QED BY <1>2, SegmentIsNetwork, SameNetwork, SamePromise, PTL
      DEF ImplementsNetwork, Network!Spec, Proved!Spec, Proved!FirstIsReliable,
          Proved!Reliable!Spec, Network!FirstIsReliable, Network!Reliable!Spec

(* There the counters of every transfer agree, and every acknowledgement a *)
(* host's first transfer has counted is for a packet its receiver took in. *)
THEOREM SegmentSound == Spec => [](Network!CountersAgree /\ Network!FirstAcksSound)
  <1>1. SizesAssumption /\ OutcomesAssumption
    BY SizesAssumption, OutcomesAssumption
  <1>2. Proved!Spec => [](Proved!FirstAcksSound /\ Proved!FirstEotSound)
    BY <1>1, Proved!FirstTransferSound, PTL DEF SizesAssumption, OutcomesAssumption
  <1>3. Proved!Spec => []Proved!CountersAgree
    BY <1>1, Proved!Counters, PTL DEF SizesAssumption, OutcomesAssumption
  <1> QED BY <1>2, <1>3, SegmentIsNetwork, SameNetwork, SamePromise, PTL
      DEF ImplementsNetwork, Network!Spec, Proved!Spec

-----------------------------------------------------------------------------
(* From here on: nothing is lost and no host fails.  Undisturbed describes *)
(* such a segment: what is under way between a sender and its destination, *)
(* data and acknowledgements, is exactly what the front transfer waits for.*)
Transfer ==
  [id : Nat \ {0}, ipdest : Host, num_packets : Nat, window_size : Nat,
   current_ack : Int, current_seq : Int, current_window : Int]

Packet == [ptype : {"DATA", "EOT", "ACK"}, src : Host, dest : Host,
           id : Nat \ {0}, n : Int]

(* The host whose transfer a packet belongs to, and its place there: data  *)
(* and its acknowledgement have the same.                                  *)
Flow(p) == IF p.ptype = "ACK" THEN p.dest ELSE p.src
Rank(p) == IF p.ptype = "ACK" THEN p.n ELSE p.n - 1

Less(p, r) ==
  p.ptype = r.ptype /\ p.ptype # "EOT" /\ Flow(p) = Flow(r) => Rank(p) < Rank(r)

Sorted(q) == \A i, j \in 1..Len(q) : i < j => Less(q[i], q[j])

(* a is the air, b the sockets' queues: each transfer's data are in order  *)
(* from the destination's socket to the end of the air, and so are its     *)
(* acknowledgements.                                                       *)
Flying(a, b) == Range(a) \cup UNION {Range(b[h]) : h \in Host}
Addressed(b) == \A h \in Host : \A p \in Range(b[h]) : p.dest = h
InOrder(a, b) ==
  /\ Sorted(a) /\ \A h \in Host : Sorted(b[h])
  /\ \A h \in Host : \A p \in Range(b[h]), r \in Range(a) : Less(p, r)

(* F is what is under way, q the queues of transfers, D what was delivered.*)
AcksFirst(F) ==
  \A p, r \in F :
    p.ptype = "ACK" /\ r.ptype = "DATA" /\ p.dest = r.src => Rank(p) < Rank(r)

OfFront(F, q) ==
  \A p \in F : p.ptype # "EOT" =>
    /\ q[Flow(p)] # <<>>
    /\ p.id = q[Flow(p)][1].id
    /\ p.ptype = "DATA" => p.dest = q[Flow(p)][1].ipdest
    /\ q[Flow(p)][1].current_ack < Rank(p)
    /\ Rank(p) <= q[Flow(p)][1].current_seq - 2

Covered(F, q) ==
  \A h \in Host : q[h] # <<>> =>
    \A k \in Int :
      q[h][1].current_ack < k /\ k <= q[h][1].current_seq - 2 =>
        \E p \in F : p.ptype # "EOT" /\ Flow(p) = h /\ Rank(p) = k

AcksEarned(F, D) ==
  \A p \in F : p.ptype = "ACK" => <<p.dest, p.id, p.n + 1>> \in D

Flight(F, q, D) ==
  AcksFirst(F) /\ OfFront(F, q) /\ Covered(F, q) /\ AcksEarned(F, D)

(* The transfers q of host h, the last ones of o it opened: the front one  *)
(* has sent more than was acknowledged, and that was delivered; the others *)
(* wait.                                                                   *)
FrontOK(h, t, D) ==
  /\ -1 <= t.current_ack /\ t.current_ack <= t.current_seq - 2
  /\ t.current_seq <= t.num_packets + 1
  /\ \A k \in Int : 1 <= k /\ k <= t.current_ack + 1 => <<h, t.id, k>> \in D

Numbered(q, o) == \A i \in 1..Len(q) : q[i].id = o - Len(q) + i

Queue(h, q, o, D) ==
  /\ Numbered(q, o)
  /\ \A i \in 2..Len(q) : q[i].current_ack = -1 /\ q[i].current_seq = 1
  /\ q # <<>> => FrontOK(h, q[1], D)

(* No transfer that stays in the queue takes current_seq back.             *)
Onward(q, r) ==
  \A i \in 1..Len(q), j \in 1..Len(r) :
    q[i].id = r[j].id => r[j].current_seq >= q[i].current_seq

(* The timer only runs while the front transfer waits for something.       *)
Timed(q, on) ==
  \A h \in Host : on[h] =>
    q[h] # <<>> /\ q[h][1].current_ack + 1 <= q[h][1].current_seq - 2

Typed ==
  /\ transfers \in [Host -> Seq(Transfer)]
  /\ timer_enabled \in [Host -> BOOLEAN] /\ opened \in [Host -> Nat]
  /\ air \in Seq(Packet) /\ inbox \in [Host -> Seq(Packet)]

AllDelivered ==
  \A f \in finished : \A s \in 1..f[3] : <<f[1], f[2], s>> \in delivered

Undisturbed ==
  /\ Typed /\ AllDelivered
  /\ InOrder(air, inbox) /\ Addressed(inbox)
  /\ Flight(Flying(air, inbox), transfers, delivered)
  /\ \A h \in Host : Queue(h, transfers[h], opened[h], delivered)
  /\ Timed(transfers, timer_enabled)

LosslessInv == lost \in Nat /\ (lost = 0 => Undisturbed)

-----------------------------------------------------------------------------
(* Queues of packets: one goes at the front, one comes at the end.         *)
Popped(s, p, r) == s # <<>> /\ p = Head(s) /\ r = Tail(s)
Pushed(s, x, r) == r = Append(s, x)

LEMMA InRange ==
  ASSUME NEW s \in Seq(Packet)
  PROVE  /\ Range(s) \subseteq Packet
         /\ \A y \in Range(s) : \E i \in 1..Len(s) : y = s[i]
         /\ \A i \in 1..Len(s) : s[i] \in Range(s)
  BY DEF Range

LEMMA PopElements ==
  ASSUME NEW s \in Seq(Packet), NEW p, NEW r, Popped(s, p, r)
  PROVE  /\ p \in Packet /\ r \in Seq(Packet) /\ p = s[1]
         /\ Len(s) = Len(r) + 1 /\ Len(r) \in Nat
         /\ \A i \in 1..Len(r) : r[i] = s[i + 1]
  BY DEF Popped

LEMMA PopRange ==
  ASSUME NEW s \in Seq(Packet), NEW p, NEW r, Popped(s, p, r)
  PROVE  p \in Packet /\ r \in Seq(Packet) /\ Range(s) = Range(r) \cup {p}
  <1>1. /\ p \in Packet /\ r \in Seq(Packet) /\ p = s[1]
        /\ Len(s) = Len(r) + 1 /\ Len(r) \in Nat
        /\ \A i \in 1..Len(r) : r[i] = s[i + 1]
    BY PopElements
  <1>2. ASSUME NEW y \in Range(s) PROVE y \in Range(r) \cup {p}
    <2>1. PICK i \in 1..Len(s) : y = s[i]
      BY InRange, Zenon
    <2>2. CASE i > 1
      <3>1. PICK j : j = i - 1
        OBVIOUS
      <3>2. j \in 1..Len(r) /\ s[i] = r[j]
        BY <1>1, <2>2, <3>1
      <3>3. y \in Range(r)
        BY <1>1, <2>1, <3>2, InRange, Zenon
      <3> QED BY <3>3
    <2>3. CASE i = 1
      BY <1>1, <2>1, <2>3
    <2> QED BY <2>1, <2>2, <2>3
  <1>3. ASSUME NEW y \in Range(r) PROVE y \in Range(s)
    <2>1. PICK i \in 1..Len(r) : y = r[i]
      BY <1>1, InRange, Zenon
    <2>2. i + 1 \in 1..Len(s) /\ y = s[i + 1]
      BY <1>1, <2>1
    <2> QED BY <2>2, InRange, Zenon
  <1>4. p \in Range(s)
    <2>1. 1 \in 1..Len(s) /\ p = s[1]
      BY <1>1
    <2> QED BY <2>1, InRange, Zenon
  <1> QED BY <1>1, <1>2, <1>3, <1>4

LEMMA PopSorted ==
  ASSUME NEW s \in Seq(Packet), NEW p, NEW r, Popped(s, p, r), Sorted(s)
  PROVE  Sorted(r) /\ \A y \in Range(r) : Less(p, y)
  <1>1. /\ r \in Seq(Packet) /\ p = s[1]
        /\ Len(s) = Len(r) + 1 /\ Len(r) \in Nat
        /\ \A i \in 1..Len(r) : r[i] = s[i + 1]
    BY PopElements
  <1>2. ASSUME NEW i \in 1..Len(r), NEW j \in 1..Len(r), i < j PROVE Less(r[i], r[j])
    <2>1. i + 1 \in 1..Len(s) /\ j + 1 \in 1..Len(s) /\ i + 1 < j + 1
      BY <1>1, <1>2
    <2>2. Less(s[i + 1], s[j + 1])
      BY <2>1, Zenon DEF Sorted
    <2> QED BY <1>1, <2>2, Zenon
  <1>3. ASSUME NEW y \in Range(r) PROVE Less(p, y)
    <2>1. PICK i \in 1..Len(r) : y = r[i]
      BY <1>1, InRange, Zenon
    <2>2. 1 \in 1..Len(s) /\ i + 1 \in 1..Len(s) /\ 1 < i + 1 /\ y = s[i + 1]
      BY <1>1, <2>1
    <2> QED BY <1>1, <2>2, Zenon DEF Sorted
  <1> QED BY <1>2, <1>3, Zenon DEF Sorted

LEMMA PushElements ==
  ASSUME NEW s \in Seq(Packet), NEW x \in Packet, NEW r, Pushed(s, x, r)
  PROVE  /\ r \in Seq(Packet) /\ Len(s) \in Nat
         /\ Len(r) = Len(s) + 1 /\ r[Len(s) + 1] = x
         /\ \A i \in 1..Len(s) : r[i] = s[i]
  BY DEF Pushed

LEMMA PushRange ==
  ASSUME NEW s \in Seq(Packet), NEW x \in Packet, NEW r, Pushed(s, x, r)
  PROVE  r \in Seq(Packet) /\ Range(r) = Range(s) \cup {x}
  <1>1. /\ r \in Seq(Packet) /\ Len(s) \in Nat
        /\ Len(r) = Len(s) + 1 /\ r[Len(s) + 1] = x
        /\ \A i \in 1..Len(s) : r[i] = s[i]
    BY PushElements
  <1>2. ASSUME NEW y \in Range(r) PROVE y \in Range(s) \cup {x}
    <2>1. PICK i \in 1..Len(r) : y = r[i]
      BY <1>1, InRange, Zenon
    <2>2. i \in 1..Len(s) \/ i = Len(s) + 1
      BY <1>1
    <2>3. CASE i \in 1..Len(s)
      BY <1>1, <2>1, <2>3, InRange, Zenon
    <2> QED BY <1>1, <2>1, <2>2, <2>3
  <1>3. ASSUME NEW y \in Range(s) PROVE y \in Range(r)
    <2>1. PICK i \in 1..Len(s) : y = s[i]
      BY InRange, Zenon
    <2>2. i \in 1..Len(r) /\ y = r[i]
      BY <1>1, <2>1
    <2> QED BY <1>1, <2>2, InRange, Zenon
  <1>4. x \in Range(r)
    <2>1. Len(s) + 1 \in 1..Len(r) /\ x = r[Len(s) + 1]
      BY <1>1
    <2> QED BY <1>1, <2>1, InRange, Zenon
  <1> QED BY <1>1, <1>2, <1>3, <1>4

LEMMA PushSorted ==
  ASSUME NEW s \in Seq(Packet), NEW x \in Packet, NEW r, Pushed(s, x, r),
         Sorted(s), \A y \in Range(s) : Less(y, x)
  PROVE  Sorted(r)
  <1>1. /\ Len(s) \in Nat /\ Len(r) = Len(s) + 1 /\ r[Len(s) + 1] = x
        /\ \A i \in 1..Len(s) : r[i] = s[i]
    BY PushElements
  <1>2. \A i \in 1..Len(s) : Less(s[i], x)
    BY InRange, Zenon
  <1>3. ASSUME NEW i \in 1..Len(r), NEW j \in 1..Len(r), i < j PROVE Less(r[i], r[j])
    <2>1. i \in 1..Len(s) /\ (j \in 1..Len(s) \/ j = Len(s) + 1)
      BY <1>1, <1>3
    <2>2. CASE j \in 1..Len(s)
      <3>1. Less(s[i], s[j])
        BY <1>3, <2>1, <2>2, Zenon DEF Sorted
      <3> QED BY <1>1, <2>1, <2>2, <3>1, Zenon
    <2>3. CASE j = Len(s) + 1
      BY <1>1, <1>2, <2>1, <2>3, Zenon
    <2> QED BY <2>1, <2>2, <2>3
  <1> QED BY <1>3, Zenon DEF Sorted

-----------------------------------------------------------------------------
(* The packets under way move: out of a socket, into the air, from the air *)
(* into a socket.                                                          *)
Leaves(b, h, p, c) ==
  Popped(b[h], p, c[h]) /\ \A g \in Host : g # h => c[g] = b[g]

Moves(a, b, h, p, d, c) ==
  /\ Popped(a, p, d) /\ p.dest = h
  /\ Pushed(b[h], p, c[h]) /\ \A g \in Host : g # h => c[g] = b[g]

LEMMA Pop ==
  ASSUME NEW a \in Seq(Packet), NEW b \in [Host -> Seq(Packet)],
         NEW c \in [Host -> Seq(Packet)], NEW h \in Host, NEW p,
         Leaves(b, h, p, c), InOrder(a, b), Addressed(b)
  PROVE  /\ p \in Packet /\ p.dest = h /\ p \in Flying(a, b)
         /\ InOrder(a, c) /\ Addressed(c)
         /\ Flying(a, c) \subseteq Flying(a, b)
         /\ \A q \in Flying(a, b) : q # p => q \in Flying(a, c)
         /\ \A q \in Flying(a, c) :
              (q.dest = h \/ q \in Range(a)) => Less(p, q)
  <1>1. /\ b[h] \in Seq(Packet) /\ Sorted(b[h]) /\ Popped(b[h], p, c[h])
        /\ \A g \in Host : g # h => c[g] = b[g]
    BY Zenon DEF InOrder, Leaves
  <1>2. p \in Packet /\ Range(b[h]) = Range(c[h]) \cup {p}
    BY <1>1, PopRange, Zenon
  <1>3. Sorted(c[h]) /\ \A y \in Range(c[h]) : Less(p, y)
    BY <1>1, PopSorted, Zenon
  <1>4. \A g \in Host : Range(c[g]) \subseteq Range(b[g])
    BY <1>1, <1>2
  <1>5. p \in Range(b[h])
    BY <1>2
  <1>6. p.dest = h /\ Addressed(c)
    BY <1>4, <1>5 DEF Addressed
  <1>7. InOrder(a, c)
    BY <1>1, <1>3, <1>4 DEF InOrder
  <1>8. p \in Flying(a, b) /\ Flying(a, c) \subseteq Flying(a, b)
    BY <1>4, <1>5 DEF Flying
  <1>9. ASSUME NEW q \in Flying(a, b), q # p PROVE q \in Flying(a, c)
    <2>1. CASE q \in Range(a)
      BY <2>1 DEF Flying
    <2>2. CASE q \notin Range(a)
      <3>1. PICK g \in Host : q \in Range(b[g])
        BY <2>2 DEF Flying
      <3>2. q \in Range(c[g])
        BY <1>1, <1>2, <1>9, <3>1
      <3> QED BY <3>2 DEF Flying
    <2> QED BY <2>1, <2>2
  <1>10. \A q \in Range(a) : Less(p, q)
    BY <1>5 DEF InOrder
  <1>11. ASSUME NEW q \in Flying(a, c), q.dest = h PROVE Less(p, q)
    <2>1. CASE q \in Range(a)
      BY <1>10, <2>1
    <2>2. CASE q \notin Range(a)
      <3>1. PICK g \in Host : q \in Range(c[g])
        BY <2>2 DEF Flying
      <3>2. g = h
        BY <1>6, <1>11, <3>1 DEF Addressed
      <3> QED BY <1>3, <3>1, <3>2
    <2> QED BY <2>1, <2>2
  <1> QED BY <1>2, <1>6, <1>7, <1>8, <1>9, <1>10, <1>11

Last(x, F) == \A y \in F : Less(y, x)
Extended(a, b, x, d) ==
  d \in Seq(Packet) /\ InOrder(d, b) /\ Flying(d, b) = Flying(a, b) \cup {x}

LEMMA Push ==
  ASSUME NEW a \in Seq(Packet), NEW b \in [Host -> Seq(Packet)],
         NEW x \in Packet, NEW d, Pushed(a, x, d),
         InOrder(a, b), Last(x, Flying(a, b))
  PROVE  Extended(a, b, x, d)
  <1>1. d \in Seq(Packet) /\ Range(d) = Range(a) \cup {x}
    BY PushRange, Zenon
  <1>2. Sorted(d)
    <2>1. Sorted(a) /\ \A y \in Range(a) : Less(y, x)
      BY DEF InOrder, Flying, Last
    <2> QED BY <2>1, PushSorted, Zenon
  <1>3. \A h \in Host : \A p \in Range(b[h]) : Less(p, x)
    BY DEF Flying, Last
  <1>4. InOrder(d, b)
    BY <1>1, <1>2, <1>3 DEF InOrder
  <1>5. Flying(d, b) = Flying(a, b) \cup {x}
    BY <1>1 DEF Flying
  <1> QED BY <1>1, <1>4, <1>5 DEF Extended

Moved(a, b, d, c) ==
  InOrder(d, c) /\ Addressed(c) /\ Flying(d, c) = Flying(a, b)

LEMMA Move ==
  ASSUME NEW a \in Seq(Packet), NEW b \in [Host -> Seq(Packet)],
         NEW c \in [Host -> Seq(Packet)], NEW d \in Seq(Packet),
         NEW h \in Host, NEW p \in Packet,
         Moves(a, b, h, p, d, c),
         InOrder(a, b), Addressed(b)
  PROVE  Moved(a, b, d, c)
  <1>1. /\ Popped(a, p, d) /\ p.dest = h /\ Pushed(b[h], p, c[h])
        /\ \A g \in Host : g # h => c[g] = b[g]
    BY Zenon DEF Moves
  <1>2. p \in Packet /\ d \in Seq(Packet) /\ Range(a) = Range(d) \cup {p}
    BY <1>1, PopRange, Zenon
  <1>3. Sorted(d) /\ \A y \in Range(d) : Less(p, y)
    <2>1. Sorted(a)
      BY DEF InOrder
    <2> QED BY <1>1, <2>1, PopSorted, Zenon
  <1>4. /\ b[h] \in Seq(Packet) /\ Sorted(b[h])
        /\ \A y \in Range(b[h]) : Less(y, p)
    BY <1>2 DEF InOrder
  <1>5. Range(c[h]) = Range(b[h]) \cup {p} /\ Sorted(c[h])
    BY <1>1, <1>2, <1>4, PushRange, PushSorted, Zenon
  <1>6. Addressed(c)
    BY <1>1, <1>5 DEF Addressed
  <1>7. InOrder(d, c)
    BY <1>1, <1>2, <1>3, <1>5 DEF InOrder
  <1>8. Flying(d, c) = Flying(a, b)
    <2>1. ASSUME NEW y PROVE (\E g \in Host : y \in Range(c[g])) <=>
                             (\E g \in Host : y \in Range(b[g])) \/ y = p
      BY <1>1, <1>5
    <2>2. ASSUME NEW y
          PROVE  /\ y \in Flying(d, c) <=> y \in Range(d) \/ \E g \in Host : y \in Range(c[g])
                 /\ y \in Flying(a, b) <=> y \in Range(a) \/ \E g \in Host : y \in Range(b[g])
      BY DEF Flying
    <2>3. ASSUME NEW y PROVE y \in Flying(d, c) <=> y \in Flying(a, b)
      BY <1>2, <2>1, <2>2
    <2> QED BY <2>3
  <1> QED BY <1>6, <1>7, <1>8 DEF Moved

-----------------------------------------------------------------------------
(* What each handler does to what is under way.  The front transfer of h   *)
(* sends the packet p: current_seq moves on.                               *)
Sends(q, r, h, p) ==
  /\ q[h] # <<>> /\ r[h] # <<>> /\ \A g \in Host : g # h => r[g] = q[g]
  /\ r[h][1].id = q[h][1].id /\ r[h][1].ipdest = q[h][1].ipdest
  /\ r[h][1].current_ack = q[h][1].current_ack
  /\ q[h][1].current_seq \in Int /\ q[h][1].current_ack \in Int
  /\ r[h][1].current_seq = q[h][1].current_seq + 1
  /\ q[h][1].current_ack <= q[h][1].current_seq - 2
  /\ p.ptype = "DATA" /\ p.src = h /\ p.dest = q[h][1].ipdest
  /\ p.id = q[h][1].id /\ p.n = q[h][1].current_seq

LEMMA FlightSent ==
  ASSUME NEW F \in SUBSET Packet, NEW D, NEW q, NEW r, NEW h \in Host,
         NEW p \in Packet, Flight(F, q, D), Sends(q, r, h, p)
  PROVE  Flight(F \cup {p}, r, D) /\ \A x \in F : Less(x, p)
  <1> USE DEF Sends
  <1>1. Flow(p) = h /\ Rank(p) = q[h][1].current_seq - 1
    BY DEF Flow, Rank
  <1>2. \A x \in F : /\ Rank(x) \in Int /\ Flow(x) \in Host
                     /\ x.ptype # "EOT" /\ Flow(x) = h => Rank(x) < Rank(p)
    <2> TAKE x \in F
    <2>1. Rank(x) \in Int /\ Flow(x) \in Host
      BY DEF Rank, Flow, Packet
    <2>2. x.ptype # "EOT" /\ Flow(x) = h => Rank(x) <= q[h][1].current_seq - 2
      BY DEF Flight, OfFront
    <2> QED BY <1>1, <2>1, <2>2
  <1>3. AcksFirst(F \cup {p})
    <2>1. \A x \in F : x.ptype = "ACK" /\ x.dest = h => Rank(x) < Rank(p)
      BY <1>2 DEF Flow
    <2> QED BY <2>1 DEF AcksFirst, Flight
  <1>4. OfFront(F \cup {p}, r)
    <2>1. ASSUME NEW x \in F, x.ptype # "EOT"
          PROVE  /\ r[Flow(x)] # <<>> /\ x.id = r[Flow(x)][1].id
                 /\ x.ptype = "DATA" => x.dest = r[Flow(x)][1].ipdest
                 /\ r[Flow(x)][1].current_ack < Rank(x)
                 /\ Rank(x) <= r[Flow(x)][1].current_seq - 2
      <3>1. /\ q[Flow(x)] # <<>> /\ x.id = q[Flow(x)][1].id
            /\ x.ptype = "DATA" => x.dest = q[Flow(x)][1].ipdest
            /\ q[Flow(x)][1].current_ack < Rank(x)
            /\ Rank(x) <= q[Flow(x)][1].current_seq - 2
        BY <2>1 DEF Flight, OfFront
      <3>2. CASE Flow(x) = h
        BY <1>2, <3>1, <3>2
      <3>3. CASE Flow(x) # h
        BY <1>2, <3>1, <3>3
      <3> QED BY <3>2, <3>3
    <2>2. /\ r[Flow(p)] # <<>> /\ p.id = r[Flow(p)][1].id
          /\ p.ptype = "DATA" => p.dest = r[Flow(p)][1].ipdest
          /\ r[Flow(p)][1].current_ack < Rank(p)
          /\ Rank(p) <= r[Flow(p)][1].current_seq - 2
      BY <1>1
    <2> QED BY <2>1, <2>2 DEF OfFront
  <1>5. Covered(F \cup {p}, r)
    <2>1. ASSUME NEW g \in Host, r[g] # <<>>, NEW k \in Int,
                 r[g][1].current_ack < k, k <= r[g][1].current_seq - 2
          PROVE  \E x \in F \cup {p} : x.ptype # "EOT" /\ Flow(x) = g /\ Rank(x) = k
      <3>1. CASE g # h
        BY <2>1, <3>1 DEF Flight, Covered
      <3>2. CASE g = h /\ k = Rank(p)
        BY <1>1, <3>2
      <3>3. CASE g = h /\ k # Rank(p)
        <4>1. /\ r[g][1].current_ack = q[g][1].current_ack
              /\ r[g][1].current_seq - 2 = Rank(p)
              /\ Rank(p) = q[g][1].current_seq - 1 /\ q[g][1].current_seq \in Int
          BY <1>1, <3>3
        <4>2. q[g][1].current_ack < k /\ k <= Rank(p)
          BY <2>1, <4>1
        <4>3. k <= q[g][1].current_seq - 2
          BY <3>3, <4>1, <4>2
        <4> QED BY <3>3, <4>2, <4>3 DEF Flight, Covered
      <3> QED BY <3>1, <3>2, <3>3
    <2> QED BY <2>1 DEF Covered
  <1>6. AcksEarned(F \cup {p}, D)
    BY DEF AcksEarned, Flight
  <1>7. \A x \in F : Less(x, p)
    BY <1>1, <1>2 DEF Less
  <1> QED BY <1>3, <1>4, <1>5, <1>6, <1>7 DEF Flight

(* The front transfer of h, all of it acknowledged, gives way to the next. *)
Ends(q, r, h) ==
  /\ q[h] # <<>> /\ \A g \in Host : g # h => r[g] = q[g]
  /\ r[h] # <<>> => r[h][1].current_ack = -1 /\ r[h][1].current_seq = 1
  /\ q[h][1].current_seq \in Int /\ q[h][1].current_ack \in Int
  /\ q[h][1].current_seq - 2 <= q[h][1].current_ack

LEMMA FlightEnded ==
  ASSUME NEW F \in SUBSET Packet, NEW D, NEW q, NEW r, NEW h \in Host,
         Flight(F, q, D), Ends(q, r, h), NEW e \in Packet, e.ptype = "EOT"
  PROVE  Flight(F \cup {e}, r, D) /\ \A x \in F : Less(x, e)
  <1> USE DEF Ends
  <1>1. \A x \in F : Rank(x) \in Int /\ Flow(x) \in Host
    BY DEF Rank, Flow, Packet
  <1>2. \A x \in F : x.ptype # "EOT" => Flow(x) # h
    BY <1>1 DEF Flight, OfFront
  <1>3. AcksFirst(F \cup {e}) /\ AcksEarned(F \cup {e}, D)
    BY DEF Flight, AcksFirst, AcksEarned
  <1>4. OfFront(F \cup {e}, r)
    BY <1>1, <1>2 DEF Flight, OfFront
  <1>5. Covered(F \cup {e}, r)
    <2>1. ASSUME NEW g \in Host, r[g] # <<>>, NEW k \in Int,
                 r[g][1].current_ack < k, k <= r[g][1].current_seq - 2
          PROVE  \E x \in F \cup {e} : x.ptype # "EOT" /\ Flow(x) = g /\ Rank(x) = k
      <3>1. g # h
        BY <2>1
      <3> QED BY <2>1, <3>1 DEF Flight, Covered
    <2> QED BY <2>1 DEF Covered
  <1> QED BY <1>3, <1>4, <1>5 DEF Flight, Less

(* p is taken from its destination's socket and leaves G: what of it goes  *)
(* to the same host is after p.                                            *)
Taken(F, p, G) ==
  /\ p \in F /\ G \subseteq F /\ \A x \in F : x # p => x \in G
  /\ \A x \in G : x.dest = p.dest => Less(p, x)

(* p is the next acknowledgement of h's front transfer, and was earned.    *)
Awaited(q, h, p, G, D) ==
  /\ q[h] # <<>> /\ p.id = q[h][1].id
  /\ p.n = q[h][1].current_ack + 1 /\ p.n <= q[h][1].current_seq - 2
  /\ <<h, q[h][1].id, p.n + 1>> \in D
  /\ \A x \in G : x.ptype # "EOT" /\ Flow(x) = h => p.n < Rank(x)

LEMMA AckIsNext ==
  ASSUME NEW F \in SUBSET Packet, NEW G, NEW D, NEW q, NEW h \in Host,
         Flight(F, q, D), NEW p, Taken(F, p, G), p.ptype = "ACK", p.dest = h,
         q[h] # <<>> => q[h][1].current_seq \in Int /\ q[h][1].current_ack \in Int
  PROVE  Awaited(q, h, p, G, D)
  <1> USE DEF Taken
  <1>1. Rank(p) = p.n /\ Flow(p) = h /\ p.n \in Int
    BY DEF Rank, Flow, Packet
  <1>2. \A x \in F : Rank(x) \in Int /\ Flow(x) \in Host
    BY DEF Rank, Flow, Packet
  <1>3. /\ q[h] # <<>> /\ p.id = q[h][1].id
        /\ q[h][1].current_ack < p.n /\ p.n <= q[h][1].current_seq - 2
    BY <1>1 DEF Flight, OfFront
  <1>4. ASSUME NEW x \in G, x.ptype # "EOT", Flow(x) = h PROVE p.n < Rank(x)
    <2>1. CASE x.ptype = "ACK"
      BY <1>1, <1>4, <2>1 DEF Less, Flow
    <2>2. CASE x.ptype = "DATA"
      <3>1. x \in F /\ x.src = h
        BY <1>4, <2>2 DEF Flow
      <3> QED BY <1>1, <2>2, <3>1 DEF Flight, AcksFirst
    <2> QED BY <1>4, <2>1, <2>2 DEF Packet
  <1>5. p.n = q[h][1].current_ack + 1
    <2>1. PICK m \in Int, l \in Int : m = q[h][1].current_ack /\ l = q[h][1].current_seq
      BY <1>3
    <2>2. m < p.n /\ p.n <= l - 2
      BY <1>3, <2>1
    <2>3. PICK k \in Int : k = m + 1
      OBVIOUS
    <2>4. m < k /\ k <= l - 2
      BY <1>1, <2>2, <2>3
    <2>5. PICK x \in F : x.ptype # "EOT" /\ Flow(x) = h /\ Rank(x) = k
      BY <1>3, <2>1, <2>4 DEF Flight, Covered
    <2>6. CASE x # p
      <3>1. p.n < k
        BY <1>4, <2>5, <2>6
      <3> QED BY <1>1, <2>2, <2>3, <3>1
    <2> QED BY <1>1, <2>1, <2>3, <2>5, <2>6
  <1>6. <<h, q[h][1].id, p.n + 1>> \in D
    BY <1>3 DEF Flight, AcksEarned
  <1> QED BY <1>3, <1>4, <1>5, <1>6 DEF Awaited

(* The front transfer of h counts one more acknowledgement.                *)
Accepted(q, r, h) ==
  /\ q[h] # <<>> /\ r[h] # <<>> /\ \A g \in Host : g # h => r[g] = q[g]
  /\ r[h][1].id = q[h][1].id /\ r[h][1].ipdest = q[h][1].ipdest
  /\ q[h][1].current_seq \in Int /\ q[h][1].current_ack \in Int
  /\ r[h][1].current_ack = q[h][1].current_ack + 1
  /\ r[h][1].current_seq = q[h][1].current_seq

LEMMA FlightAcked ==
  ASSUME NEW F \in SUBSET Packet, NEW G, NEW D, NEW q, NEW r,
         NEW h \in Host, Flight(F, q, D), NEW p, Taken(F, p, G), Accepted(q, r, h),
         p.ptype = "ACK", p.dest = h,
         p.n = q[h][1].current_ack + 1,
         \A x \in G : x.ptype # "EOT" /\ Flow(x) = h => p.n < Rank(x)
  PROVE  Flight(G, r, D)
  <1> USE DEF Taken, Accepted
  <1>0. Rank(p) = p.n /\ Flow(p) = h
    BY DEF Rank, Flow
  <1>1. \A x \in F : Rank(x) \in Int /\ Flow(x) \in Host
    BY DEF Rank, Flow, Packet
  <1>2. AcksFirst(G) /\ AcksEarned(G, D)
    BY DEF Flight, AcksFirst, AcksEarned
  <1>3. OfFront(G, r)
    <2>1. ASSUME NEW x \in G, x.ptype # "EOT"
          PROVE  /\ r[Flow(x)] # <<>> /\ x.id = r[Flow(x)][1].id
                 /\ x.ptype = "DATA" => x.dest = r[Flow(x)][1].ipdest
                 /\ r[Flow(x)][1].current_ack < Rank(x)
                 /\ Rank(x) <= r[Flow(x)][1].current_seq - 2
      <3>1. /\ q[Flow(x)] # <<>> /\ x.id = q[Flow(x)][1].id
            /\ x.ptype = "DATA" => x.dest = q[Flow(x)][1].ipdest
            /\ q[Flow(x)][1].current_ack < Rank(x)
            /\ Rank(x) <= q[Flow(x)][1].current_seq - 2
        BY <2>1 DEF Flight, OfFront
      <3>2. CASE Flow(x) = h
        BY <2>1, <3>1, <3>2
      <3>3. CASE Flow(x) # h
        BY <1>1, <3>1, <3>3
      <3> QED BY <3>2, <3>3
    <2> QED BY <2>1 DEF OfFront
  <1>4. Covered(G, r)
    <2>1. ASSUME NEW g \in Host, r[g] # <<>>, NEW k \in Int,
                 r[g][1].current_ack < k, k <= r[g][1].current_seq - 2
          PROVE  \E x \in G : x.ptype # "EOT" /\ Flow(x) = g /\ Rank(x) = k
      <3>1. q[g] # <<>> /\ q[g][1].current_ack < k /\ k <= q[g][1].current_seq - 2
        <4>1. CASE g = h
          BY <2>1, <4>1
        <4>2. CASE g # h
          BY <2>1, <4>2
        <4> QED BY <4>1, <4>2
      <3>2. PICK x \in F : x.ptype # "EOT" /\ Flow(x) = g /\ Rank(x) = k
        BY <3>1 DEF Flight, Covered
      <3>3. x # p
        BY <1>0, <2>1, <3>2
      <3> QED BY <3>2, <3>3
    <2> QED BY <2>1 DEF Covered
  <1> QED BY <1>2, <1>3, <1>4 DEF Flight

LEMMA FlightEnd ==
  ASSUME NEW F \in SUBSET Packet, NEW G, NEW D, NEW q,
         Flight(F, q, D), NEW p, Taken(F, p, G), p.ptype = "EOT"
  PROVE  Flight(G, q, D)
  <1> USE DEF Taken
  <1>1. AcksFirst(G) /\ AcksEarned(G, D) /\ OfFront(G, q)
    BY DEF Flight, AcksFirst, AcksEarned, OfFront
  <1>2. Covered(G, q)
    <2>1. \A x \in F : x.ptype # "EOT" => x \in G
      OBVIOUS
    <2> QED BY <2>1, Zenon DEF Flight, Covered
  <1> QED BY <1>1, <1>2 DEF Flight

LEMMA FlightTaken ==
  ASSUME NEW F \in SUBSET Packet, NEW G, NEW D, NEW q,
         Flight(F, q, D), NEW p, Taken(F, p, G), p.ptype = "DATA",
         NEW y \in Packet, y.ptype = "ACK", y.dest = p.src, y.id = p.id, y.n = p.n - 1
  PROVE  /\ Flight(G \cup {y}, q, D \cup {<<p.src, p.id, p.n>>})
         /\ \A x \in G : Less(x, y)
  <1> USE DEF Taken
  <1> DEFINE E == D \cup {<<p.src, p.id, p.n>>}
  <1>1. \A x \in F : Rank(x) \in Int /\ Flow(x) \in Host
    BY DEF Rank, Flow, Packet
  <1>2. Rank(y) = Rank(p) /\ Flow(y) = Flow(p) /\ Flow(p) = p.src
    BY DEF Rank, Flow
  <1>3. \A x \in G : x.ptype = "ACK" /\ x.dest = p.src => Rank(x) < Rank(y)
    BY <1>2 DEF Flight, AcksFirst
  <1>4. ASSUME NEW x \in G, x.ptype = "DATA", x.src = p.src PROVE Rank(y) < Rank(x)
    <2>1. Flow(x) = Flow(p)
      BY <1>2, <1>4 DEF Flow
    <2>2. x.dest = p.dest
      BY <1>4, <2>1 DEF Flight, OfFront
    <2> QED BY <1>2, <1>4, <2>1, <2>2 DEF Less
  <1>5. AcksFirst(G \cup {y})
    BY <1>4 DEF Flight, AcksFirst
  <1>6. OfFront(G \cup {y}, q)
    <2>1. OfFront(G, q)
      BY DEF Flight, OfFront
    <2>2. /\ q[Flow(y)] # <<>> /\ y.id = q[Flow(y)][1].id
          /\ q[Flow(y)][1].current_ack < Rank(y)
          /\ Rank(y) <= q[Flow(y)][1].current_seq - 2
      BY <1>2 DEF Flight, OfFront
    <2> QED BY <2>1, <2>2 DEF OfFront
  <1>7. Covered(G \cup {y}, q)
    <2>1. ASSUME NEW g \in Host, q[g] # <<>>, NEW k \in Int,
                 q[g][1].current_ack < k, k <= q[g][1].current_seq - 2
          PROVE  \E x \in G \cup {y} : x.ptype # "EOT" /\ Flow(x) = g /\ Rank(x) = k
      <3>1. PICK x \in F : x.ptype # "EOT" /\ Flow(x) = g /\ Rank(x) = k
        BY <2>1 DEF Flight, Covered
      <3>2. CASE x = p
        BY <1>2, <3>1, <3>2
      <3>3. CASE x # p
        BY <3>1, <3>3
      <3> QED BY <3>2, <3>3
    <2> QED BY <2>1 DEF Covered
  <1>8. AcksEarned(G \cup {y}, E)
    <2>1. y.n + 1 = p.n
      BY DEF Packet
    <2> QED BY <2>1 DEF Flight, AcksEarned
  <1>9. \A x \in G : Less(x, y)
    BY <1>2, <1>3 DEF Less, Flow
  <1> QED BY <1>5, <1>6, <1>7, <1>8, <1>9 DEF Flight

(* A transfer joins the queue of h, at the front only if that was empty.   *)
Opens(q, r, h) ==
  /\ r[h] # <<>> /\ \A g \in Host : g # h => r[g] = q[g]
  /\ q[h] # <<>> => r[h][1] = q[h][1]
  /\ q[h] = <<>> => r[h][1].current_ack = -1 /\ r[h][1].current_seq = 1

LEMMA FlightOpened ==
  ASSUME NEW F \in SUBSET Packet, NEW D, NEW q, NEW r, NEW h \in Host,
         Flight(F, q, D), Opens(q, r, h)
  PROVE  Flight(F, r, D)
  <1> USE DEF Opens
  <1>1. \A x \in F : Flow(x) \in Host
    BY DEF Flow, Packet
  <1>2. OfFront(F, r)
    BY <1>1 DEF Flight, OfFront
  <1>3. Covered(F, r)
    <2>1. ASSUME NEW g \in Host, r[g] # <<>>, NEW k \in Int,
                 r[g][1].current_ack < k, k <= r[g][1].current_seq - 2
          PROVE  \E x \in F : x.ptype # "EOT" /\ Flow(x) = g /\ Rank(x) = k
      <3>1. q[g] # <<>> /\ q[g][1] = r[g][1]
        BY <2>1
      <3> QED BY <2>1, <3>1 DEF Flight, Covered
    <2> QED BY <2>1 DEF Covered
  <1> QED BY <1>2, <1>3 DEF Flight

-----------------------------------------------------------------------------
(* What each handler does to the queue q of its host: another front u, a   *)
(* front that sent nothing yet, a front that went on.                      *)
Replaced(q, u, r) == r = [q EXCEPT ![1] = u]

LEMMA Fields ==
  ASSUME NEW q \in Seq(Transfer)
  PROVE  \A i \in 1..Len(q) :
           /\ q[i] \in Transfer /\ q[i].id \in Nat
           /\ q[i].num_packets \in Nat /\ q[i].current_seq \in Int
  <1>1. \A i \in 1..Len(q) : q[i] \in Transfer
    OBVIOUS
  <1>2. \A t \in Transfer : t.id \in Nat /\ t.num_packets \in Nat /\ t.current_seq \in Int
    BY DEF Transfer
  <1> QED BY <1>1, <1>2

LEMMA Numbers ==
  ASSUME NEW q \in Seq(Transfer), NEW o \in Nat, Numbered(q, o)
  PROVE  /\ \A i \in 1..Len(q) : q[i].id <= o
         /\ \A i, j \in 1..Len(q) : q[i].id = q[j].id => i = j
  BY DEF Numbered

Unsent(t) == t.current_ack = -1 /\ t.current_seq = 1
Newest(u, o) == u.id = o + 1 /\ Unsent(u)
Joined(h, q, r, o, u, D) ==
  /\ r \in Seq(Transfer) /\ r # <<>> /\ Queue(h, r, o + 1, D) /\ Onward(q, r)
  /\ q # <<>> => r[1] = q[1]
  /\ q = <<>> => r[1] = u

LEMMA QueueOpened ==
  ASSUME NEW h, NEW q \in Seq(Transfer), NEW o \in Nat, NEW D, Queue(h, q, o, D),
         NEW u \in Transfer, Newest(u, o), NEW r, Pushed(q, u, r)
  PROVE  Joined(h, q, r, o, u, D)
  <1> USE DEF Newest, Unsent
  <1>1. /\ r \in Seq(Transfer) /\ Len(q) \in Nat /\ Len(r) = Len(q) + 1
        /\ r[Len(q) + 1] = u /\ \A i \in 1..Len(q) : r[i] = q[i]
    BY DEF Pushed
  <1>2. (q = <<>>) <=> (Len(q) = 0)
    OBVIOUS
  <1>3. r # <<>> /\ (q # <<>> => r[1] = q[1]) /\ (q = <<>> => r[1] = u)
    BY <1>1, <1>2
  <1>4. \A i \in 1..Len(q) : q[i].id <= o /\ q[i].id \in Nat
    BY Fields, Numbers DEF Queue
  <1>5. \A i \in 1..Len(r) : i \in 1..Len(q) \/ (i = Len(q) + 1 /\ r[i] = u)
    BY <1>1
  <1>6. \A i \in 1..Len(q) : q[i].id = o - Len(q) + i
    BY DEF Queue, Numbered
  <1>7. Numbered(r, o + 1)
    <2>1. PICK l \in Nat : l = Len(q) /\ Len(r) = l + 1
      BY <1>1
    <2>2. ASSUME NEW i \in 1..l PROVE r[i].id = (o + 1) - (l + 1) + i
      <3>1. r[i] = q[i] /\ q[i].id = o - l + i
        BY <1>1, <1>6, <2>1
      <3> QED BY <3>1
    <2>3. r[l + 1].id = (o + 1) - (l + 1) + (l + 1)
      <3>1. r[l + 1].id = o + 1
        BY <1>1, <2>1
      <3> QED BY <3>1
    <2>4. \A i \in 1..(l + 1) : i \in 1..l \/ i = l + 1
      OBVIOUS
    <2> QED BY <2>1, <2>2, <2>3, <2>4 DEF Numbered
  <1>8. \A i \in 2..Len(r) : r[i].current_ack = -1 /\ r[i].current_seq = 1
    <2>1. \A i \in 2..Len(r) : i \in 2..Len(q) \/ r[i] = u
      BY <1>1
    <2>2. \A i \in 2..Len(q) : r[i] = q[i]
      BY <1>1
    <2> QED BY <2>1, <2>2 DEF Queue
  <1>9. FrontOK(h, r[1], D)
    <2>1. CASE q # <<>>
      BY <1>3, <2>1 DEF Queue
    <2>2. CASE q = <<>>
      BY <1>3, <2>2 DEF FrontOK, Transfer
    <2> QED BY <2>1, <2>2
  <1>10. Onward(q, r)
    <2>1. ASSUME NEW i \in 1..Len(q), NEW j \in 1..Len(r), q[i].id = r[j].id
          PROVE  r[j].current_seq >= q[i].current_seq
      <3>1. j \in 1..Len(q) /\ r[j] = q[j]
        BY <1>1, <1>4, <1>5, <2>1
      <3>2. i = j
        BY <1>6, <2>1, <3>1
      <3>3. q[i].current_seq \in Int
        BY Fields
      <3> QED BY <3>1, <3>2, <3>3
    <2> QED BY <2>1 DEF Onward
  <1>11. Queue(h, r, o + 1, D)
    BY <1>7, <1>8, <1>9 DEF Queue
  <1> QED BY <1>1, <1>3, <1>10, <1>11 DEF Joined

LEMMA QueueEnded ==
  ASSUME NEW h, NEW q \in Seq(Transfer), NEW o \in Nat, NEW D, Queue(h, q, o, D),
         NEW p, NEW r, Popped(q, p, r)
  PROVE  /\ r \in Seq(Transfer) /\ Queue(h, r, o, D) /\ Onward(q, r)
         /\ r # <<>> => Unsent(r[1])
  <1>1. /\ r \in Seq(Transfer) /\ Len(r) \in Nat /\ Len(q) = Len(r) + 1
        /\ \A i \in 1..Len(r) : r[i] = q[i + 1]
    BY DEF Popped
  <1>2. (r = <<>>) <=> (Len(r) = 0)
    BY <1>1
  <1>3. \A i \in 1..Len(r) : i + 1 \in 2..Len(q) /\ i + 1 \in 1..Len(q)
    BY <1>1
  <1>4. \A i \in 1..Len(r) : r[i].current_ack = -1 /\ r[i].current_seq = 1
    BY <1>1, <1>3 DEF Queue
  <1>5. r # <<>> => r[1].current_ack = -1 /\ r[1].current_seq = 1 /\ r[1].num_packets \in Nat
    BY <1>1, <1>2, <1>4, Fields
  <1>6. \A i \in 1..Len(q) : q[i].id = o - Len(q) + i
    BY DEF Queue, Numbered
  <1>7. Numbered(r, o)
    <2>1. ASSUME NEW i \in 1..Len(r) PROVE r[i].id = o - Len(r) + i
      BY <1>1, <1>3, <1>6
    <2> QED BY <2>1 DEF Numbered
  <1>8. r # <<>> => FrontOK(h, r[1], D)
    BY <1>5 DEF FrontOK
  <1>9. ASSUME NEW i \in 1..Len(q), NEW j \in 1..Len(r), q[i].id = r[j].id
        PROVE  r[j].current_seq >= q[i].current_seq
    <2>1. i = j + 1
      BY <1>1, <1>3, <1>6, <1>9
    <2> QED BY <1>1, <1>4, <2>1
  <1> QED BY <1>1, <1>4, <1>5, <1>7, <1>8, <1>9 DEF Queue, Onward, Unsent

Carries(t, u) == u.id = t.id /\ u.current_seq >= t.current_seq

LEMMA QueueChanged ==
  ASSUME NEW h, NEW q \in Seq(Transfer), NEW o \in Nat, NEW D, Queue(h, q, o, D),
         q # <<>>, NEW u \in Transfer, Carries(q[1], u), FrontOK(h, u, D),
         NEW r, Replaced(q, u, r)
  PROVE  /\ r \in Seq(Transfer) /\ r # <<>> /\ r[1] = u
         /\ Queue(h, r, o, D) /\ Onward(q, r)
  <1> USE DEF Carries
  <1>1. /\ r \in Seq(Transfer) /\ Len(r) = Len(q) /\ Len(q) \in Nat /\ Len(q) > 0
        /\ r[1] = u /\ \A i \in 1..Len(q) : i # 1 => r[i] = q[i]
    BY DEF Replaced
  <1>2. \A i \in 1..Len(q) : r[i].id = q[i].id
    BY <1>1
  <1>3. \A i \in 1..Len(q) : q[i].id \in Nat /\ q[i].current_seq \in Int
    BY Fields
  <1>4. \A i \in 1..Len(q) : r[i].current_seq >= q[i].current_seq
    BY <1>1, <1>3
  <1>5. \A i, j \in 1..Len(q) : q[i].id = q[j].id => i = j
    BY Numbers DEF Queue
  <1>6. Onward(q, r)
    <2>1. ASSUME NEW i \in 1..Len(q), NEW j \in 1..Len(q), q[i].id = r[j].id
          PROVE  r[j].current_seq >= q[i].current_seq
      BY <1>2, <1>4, <1>5, <2>1
    <2> QED BY <1>1, <2>1 DEF Onward
  <1>7. \A i \in 2..Len(q) : i \in 1..Len(q) /\ i # 1
    OBVIOUS
  <1>8. Queue(h, r, o, D)
    <2>1. Numbered(r, o)
      BY <1>1, <1>2 DEF Queue, Numbered
    <2>2. \A i \in 2..Len(r) : r[i].current_ack = -1 /\ r[i].current_seq = 1
      BY <1>1, <1>7 DEF Queue
    <2> QED BY <1>1, <2>1, <2>2 DEF Queue
  <1> QED BY <1>1, <1>6, <1>8

LEMMA QueueSame ==
  ASSUME NEW h, NEW q \in Seq(Transfer), NEW o \in Nat, NEW D, Queue(h, q, o, D),
         NEW E, D \subseteq E
  PROVE  Queue(h, q, o, E) /\ Onward(q, q)
  <1>1. Queue(h, q, o, E)
    BY DEF Queue, FrontOK
  <1>2. \A i \in 1..Len(q) : q[i].id \in Nat /\ q[i].current_seq \in Int
    BY Fields
  <1>3. \A i, j \in 1..Len(q) : q[i].id = q[j].id => i = j
    BY Numbers DEF Queue
  <1> QED BY <1>1, <1>2, <1>3 DEF Onward

-----------------------------------------------------------------------------
(* The handlers, when no send fails and no host crashes.                   *)
NoFailure == SendMayFail = FALSE /\ "crash" \notin UndefinedOutcomes

(* A step from an undisturbed segment to one, with no packet sent again.   *)
Goes == Undisturbed' /\ \A h \in Host : Onward(transfers[h], transfers'[h])

LEMMA Emitted ==
  ASSUME NEW x, Emit({x})
  PROVE  air' = Append(air, x)
  <1>1. (CHOOSE p \in {x} : TRUE) = x
    OBVIOUS
  <1> QED BY <1>1 DEF Emit

LEMMA TransmitCases ==
  ASSUME NoFailure, Typed, NEW h \in Host, Transmit(h),
         NEW t, t = Head(transfers[h]), ~Wild(t)
  PROVE  /\ transfers[h] # <<>> /\ UNCHANGED <<inbox, lost, opened, delivered>>
         /\ \/ /\ InWindow(t)
               /\ transfers' = [transfers EXCEPT ![h] = [@ EXCEPT ![1] = AfterRead(t)]]
               /\ timer_enabled' = [timer_enabled EXCEPT ![h] = TRUE]
               /\ finished' = finished /\ air' = Append(air, Data(h, t))
            \/ UNCHANGED <<transfers, timer_enabled, finished, air>>
            \/ /\ ~Withholds(t)
               /\ transfers' = [transfers EXCEPT ![h] = Tail(@)]
               /\ timer_enabled' = timer_enabled
               /\ finished' = finished \cup {<<h, t.id, t.num_packets>>}
               /\ air' = Append(air, Eot(h, t))
  <1>1. PICK P \in Offers(h) : transmit_data(h, P) /\ Emit(P)
    BY DEF Transmit
  <1>2. /\ transfers[h] # <<>> /\ UNCHANGED <<inbox, lost, opened, delivered>>
        /\ \E ptype \in NextType(t) : \E status \in write_udp_socket(t, ptype) :
             Sent(h, t, ptype, status) /\ P = OnWire(h, t, ptype, status)
    BY <1>1 DEF Transmit, transmit_data
  <1>3. PICK ptype \in NextType(t) : \E status \in write_udp_socket(t, ptype) :
             Sent(h, t, ptype, status) /\ P = OnWire(h, t, ptype, status)
    BY <1>2
  <1>4. PICK status \in write_udp_socket(t, ptype) :
             Sent(h, t, ptype, status) /\ P = OnWire(h, t, ptype, status)
    BY <1>3
  <1>5. transfers[h] \in Seq(Transfer) /\ transfers[h][1] = t
    BY <1>2 DEF Typed
  <1>6. CASE InWindow(t)
    <2>1. ptype = "DATA" /\ status = 0
      BY <1>4, <1>6 DEF NextType, write_udp_socket, NoFailure
    <2>2. P = {Data(h, t)}
      BY <1>4, <2>1 DEF OnWire
    <2>3. /\ transfers' = [transfers EXCEPT ![h] = [@ EXCEPT ![1] = AfterRead(t)]]
          /\ timer_enabled' = [timer_enabled EXCEPT ![h] = TRUE]
          /\ finished' = finished
      <3>1. ~(status = -1 \/ (ptype = "EOT" /\ status = 0)) /\ ptype # "EOT"
        BY <2>1
      <3>2. transfers' = [transfers EXCEPT ![h] = [@ EXCEPT ![1] = AfterRead(t)]]
        BY <1>4, <3>1, Zenon DEF Sent
      <3>3. timer_enabled' = [timer_enabled EXCEPT ![h] = TRUE]
        BY <1>4, <2>1 DEF Sent
      <3>4. finished' = finished
        BY <1>4, <3>1 DEF Sent
      <3> QED BY <3>2, <3>3, <3>4
    <2>4. air' = Append(air, Data(h, t))
      BY <1>1, <2>2, Emitted
    <2> QED BY <1>2, <1>6, <2>3, <2>4
  <1>7. CASE ~InWindow(t) /\ Withholds(t)
    <2>1. ptype = "EOT" /\ status = 1
      BY <1>4, <1>7 DEF NextType, write_udp_socket, Wild
    <2>2. P = {}
      BY <1>4, <2>1 DEF OnWire
    <2>3. AfterRead(t) = t
      BY <1>7 DEF AfterRead
    <2>4. /\ transfers' = [transfers EXCEPT ![h] = [@ EXCEPT ![1] = t]]
          /\ timer_enabled' = [timer_enabled EXCEPT ![h] = @ \/ FALSE]
          /\ finished' = finished
      <3>1. ~(status = -1 \/ (ptype = "EOT" /\ status = 0)) /\ status # 0
        BY <2>1
      <3>2. transfers' = [transfers EXCEPT ![h] = [@ EXCEPT ![1] = t]]
        BY <1>4, <2>3, <3>1, Zenon DEF Sent
      <3>3. timer_enabled' = [timer_enabled EXCEPT ![h] = @ \/ FALSE]
        BY <1>4, <2>1 DEF Sent
      <3>4. finished' = finished
        BY <1>4, <3>1 DEF Sent
      <3> QED BY <3>2, <3>3, <3>4
    <2>5. [transfers[h] EXCEPT ![1] = t] = transfers[h]
      BY <1>2, <1>5
    <2>6. transfers' = transfers /\ timer_enabled' = timer_enabled
      BY <2>4, <2>5 DEF Typed
    <2> QED BY <1>1, <1>2, <2>2, <2>4, <2>6 DEF Emit
  <1>8. CASE ~InWindow(t) /\ ~Withholds(t)
    <2>1. ptype = "EOT" /\ status = 0
      BY <1>4, <1>8 DEF NextType, write_udp_socket, Wild, NoFailure
    <2>2. P = {Eot(h, t)}
      BY <1>4, <2>1 DEF OnWire
    <2>3. /\ transfers' = [transfers EXCEPT ![h] = Tail(@)]
          /\ timer_enabled' = [timer_enabled EXCEPT ![h] = @ \/ FALSE]
          /\ finished' = finished \cup {<<h, t.id, t.num_packets>>}
      BY <1>4, <2>1 DEF Sent
    <2>4. timer_enabled' = timer_enabled
      BY <2>3 DEF Typed
    <2>5. air' = Append(air, Eot(h, t))
      BY <1>1, <2>2, Emitted
    <2> QED BY <1>2, <1>8, <2>3, <2>4, <2>5
  <1> QED BY <1>6, <1>7, <1>8

LEMMA RecieveCases ==
  ASSUME NoFailure, Typed, NEW h \in Host, Recieve(h),
         NEW p, p = Head(inbox[h]),
         p.ptype = "ACK" => transfers[h] # <<>>
  PROVE  /\ inbox[h] # <<>> /\ inbox' = [inbox EXCEPT ![h] = Tail(@)]
         /\ UNCHANGED <<lost, opened, finished>>
         /\ \/ /\ p.ptype = "ACK"
               /\ transfers' = [transfers EXCEPT ![h] =
                    [@ EXCEPT ![1] = IF Accepts(Head(transfers[h]), p.n)
                                       THEN verifyAck(Head(transfers[h]))
                                       ELSE Rewind(Head(transfers[h]))]]
               /\ timer_enabled' = [timer_enabled EXCEPT ![h] =
                    TimerAfterAck(@, Accepts(Head(transfers[h]), p.n))]
               /\ UNCHANGED <<delivered, air>>
            \/ /\ p.ptype = "EOT"
               /\ timer_enabled' = [timer_enabled EXCEPT ![h] = FALSE]
               /\ UNCHANGED <<transfers, delivered, air>>
            \/ /\ p.ptype = "DATA"
               /\ delivered' = delivered \cup {<<p.src, p.id, p.n>>}
               /\ air' = Append(air, Ack(p))
               /\ UNCHANGED <<transfers, timer_enabled>>
  <1>1. /\ inbox[h] # <<>> /\ inbox' = [inbox EXCEPT ![h] = Tail(@)] /\ UNCHANGED lost
    BY DEF Recieve
  <1>2. PICK P \in {{}, {Ack(p)}} : recieve_data(h, p, P) /\ Emit(P)
    BY DEF Recieve
  <1>3. CASE AckIn(h, p) /\ P = {}
    BY <1>1, <1>2, <1>3 DEF AckIn, Emit
  <1>4. CASE EotIn(h, p) /\ P = {}
    BY <1>1, <1>2, <1>4 DEF EotIn, Emit
  <1>5. CASE DataIn(h, p, P)
    <2>1. /\ P = {Ack(p)} /\ p.ptype = "DATA"
          /\ delivered' = delivered \cup {<<p.src, p.id, p.n>>}
          /\ UNCHANGED <<transfers, timer_enabled, opened, finished>>
      BY <1>5 DEF DataIn, Crash, NoFailure
    <2> QED BY <1>1, <1>2, <2>1, Emitted
  <1> QED BY <1>2, <1>3, <1>4, <1>5 DEF recieve_data

-----------------------------------------------------------------------------
(* Every step goes on undisturbed.                                         *)
LEMMA FlyingType ==
  ASSUME NEW a \in Seq(Packet), NEW b \in [Host -> Seq(Packet)]
  PROVE  Flying(a, b) \in SUBSET Packet
  <1>1. Range(a) \subseteq Packet /\ \A h \in Host : Range(b[h]) \subseteq Packet
    BY InRange
  <1> QED BY <1>1 DEF Flying

LEMMA Front ==
  ASSUME Undisturbed, NEW h \in Host, transfers[h] # <<>>, NEW t, t = transfers[h][1]
  PROVE  /\ t \in Transfer /\ t = Head(transfers[h]) /\ FrontOK(h, t, delivered)
         /\ t.current_ack \in Int /\ t.current_seq \in Int /\ t.num_packets \in Nat
         /\ t.current_ack >= -1 /\ t.current_ack <= t.current_seq - 2
         /\ t.current_seq <= t.num_packets + 1
         /\ ~Wild(t)
  <1>1. t \in Transfer /\ t = Head(transfers[h])
    BY DEF Undisturbed, Typed
  <1>2. FrontOK(h, t, delivered)
    BY DEF Undisturbed, Queue
  <1>3. t.current_ack \in Int /\ t.current_seq \in Int /\ t.num_packets \in Nat
    BY <1>1 DEF Transfer
  <1>4. /\ t.current_ack >= -1 /\ t.current_ack <= t.current_seq - 2
        /\ t.current_seq <= t.num_packets + 1
    BY <1>2, <1>3 DEF FrontOK
  <1>5. ~Wild(t)
    BY <1>3, <1>4 DEF Wild
  <1> QED BY <1>1, <1>2, <1>3, <1>4, <1>5

LEMMA EveryQueue ==
  ASSUME Undisturbed, NEW h \in Host,
         \A g \in Host : g # h => transfers'[g] = transfers[g] /\ opened'[g] = opened[g],
         delivered \subseteq delivered',
         Queue(h, transfers'[h], opened'[h], delivered'),
         Onward(transfers[h], transfers'[h])
  PROVE  \A g \in Host : /\ Queue(g, transfers'[g], opened'[g], delivered')
                         /\ Onward(transfers[g], transfers'[g])
  <1>1. ASSUME NEW g \in Host, g # h
        PROVE  /\ Queue(g, transfers'[g], opened'[g], delivered')
               /\ Onward(transfers[g], transfers'[g])
    <2>1. /\ transfers[g] \in Seq(Transfer) /\ opened[g] \in Nat
          /\ Queue(g, transfers[g], opened[g], delivered)
      BY DEF Undisturbed, Typed
    <2>2. /\ Queue(g, transfers[g], opened[g], delivered')
          /\ Onward(transfers[g], transfers[g])
      BY <2>1, QueueSame, Zenon
    <2> QED BY <1>1, <2>2
  <1> QED BY <1>1

LEMMA SameQueues ==
  ASSUME Undisturbed, UNCHANGED <<transfers, opened>>, delivered \subseteq delivered'
  PROVE  \A g \in Host : /\ Queue(g, transfers'[g], opened'[g], delivered')
                         /\ Onward(transfers[g], transfers'[g])
  <1> TAKE g \in Host
  <1>1. /\ transfers[g] \in Seq(Transfer) /\ opened[g] \in Nat
        /\ Queue(g, transfers[g], opened[g], delivered)
    BY DEF Undisturbed, Typed
  <1>2. /\ Queue(g, transfers[g], opened[g], delivered')
        /\ Onward(transfers[g], transfers[g])
    BY <1>1, QueueSame, Zenon
  <1> QED BY <1>2

LEMMA ForwardGoes ==
  ASSUME Undisturbed, Forward
  PROVE  Goes
  <1>1. PICK p, d, h, a, b, c :
          /\ p = Head(air) /\ d = Tail(air) /\ h = p.dest
          /\ a = air /\ b = inbox /\ c = inbox'
    OBVIOUS
  <1>2. a \in Seq(Packet) /\ b \in [Host -> Seq(Packet)] /\ a # <<>> /\ air' = d
    BY <1>1 DEF Undisturbed, Typed, Forward
  <1>3. Popped(a, p, d)
    BY <1>1, <1>2 DEF Popped
  <1>4. p \in Packet /\ d \in Seq(Packet)
    BY <1>2, <1>3, PopRange, Zenon
  <1>5. h \in Host
    BY <1>1, <1>4 DEF Packet
  <1>6. inbox' = [inbox EXCEPT ![h] = Append(inbox[h], p)]
    BY <1>1 DEF Forward
  <1>7. /\ c \in [Host -> Seq(Packet)] /\ Pushed(b[h], p, c[h])
        /\ \A g \in Host : g # h => c[g] = b[g]
    BY <1>1, <1>2, <1>4, <1>5, <1>6 DEF Pushed
  <1>8. InOrder(a, b) /\ Addressed(b) /\ Flight(Flying(a, b), transfers, delivered)
    BY <1>1 DEF Undisturbed
  <1>9. InOrder(d, c) /\ Addressed(c) /\ Flying(d, c) = Flying(a, b)
    <2>1. Moves(a, b, h, p, d, c)
      BY <1>1, <1>3, <1>7 DEF Moves
    <2>2. /\ a \in Seq(Packet) /\ b \in [Host -> Seq(Packet)]
          /\ c \in [Host -> Seq(Packet)] /\ h \in Host
          /\ p \in Packet /\ d \in Seq(Packet)
          /\ InOrder(a, b) /\ Addressed(b)
      BY <1>2, <1>4, <1>5, <1>7, <1>8
    <2>3. Moved(a, b, d, c)
      BY <2>1, <2>2, Move, Zenon
    <2> QED BY <2>3 DEF Moved
  <1>10. UNCHANGED <<transfers, timer_enabled, opened, delivered, finished>>
    BY DEF Forward, clientVars
  <1>11. \A g \in Host : /\ Queue(g, transfers'[g], opened'[g], delivered')
                         /\ Onward(transfers[g], transfers'[g])
    BY <1>10, SameQueues
  <1>12. Flight(Flying(d, c), transfers', delivered')
    BY <1>8, <1>9, <1>10
  <1>13. Typed' /\ AllDelivered' /\ Timed(transfers', timer_enabled')
    BY <1>1, <1>2, <1>4, <1>7, <1>10 DEF Undisturbed, Typed, AllDelivered
  <1>14. InOrder(air', inbox') /\ Addressed(inbox')
         /\ Flight(Flying(air', inbox'), transfers', delivered')
    BY <1>1, <1>2, <1>9, <1>12
  <1> QED BY <1>11, <1>13, <1>14, Zenon DEF Goes, Undisturbed

LEMMA SendGoes ==
  ASSUME Undisturbed, NEW h \in Host, Send(h)
  PROVE  Goes
  <1>1. PICK dest \in Host \ {h}, n \in Sizes, w \in Windows : send(h, dest, n, w)
    BY DEF Send
  <1>2. PICK u : u = NewTransfer(opened[h] + 1, dest, n, w)
    OBVIOUS
  <1>3. UNCHANGED <<timer_enabled, delivered, finished, air, inbox>>
    BY <1>1 DEF Send, send
  <1>4. Typed
    BY DEF Undisturbed
  <1>5. opened[h] \in Nat /\ transfers[h] \in Seq(Transfer)
    BY <1>4 DEF Typed
  <1>6. /\ u \in Transfer /\ u.id = opened[h] + 1
        /\ u.current_ack = -1 /\ u.current_seq = 1
    BY <1>1, <1>2, <1>5, SizesAssumption DEF NewTransfer, Transfer
  <1>7. PICK q, r, o : /\ q = transfers[h] /\ r = transfers'[h] /\ o = opened[h]
    OBVIOUS
  <1>8. transfers' = [transfers EXCEPT ![h] = Append(transfers[h], u)]
        /\ opened' = [opened EXCEPT ![h] = opened[h] + 1]
    BY <1>1, <1>2 DEF send
  <1>9. /\ r = Append(q, u) /\ opened'[h] = o + 1
        /\ \A g \in Host : g # h => transfers'[g] = transfers[g] /\ opened'[g] = opened[g]
    BY <1>4, <1>7, <1>8 DEF Typed
  <1>10. /\ r \in Seq(Transfer) /\ r # <<>> /\ Queue(h, r, o + 1, delivered) /\ Onward(q, r)
         /\ q # <<>> => r[1] = q[1]
         /\ q = <<>> => r[1] = u
    <2>1. /\ q \in Seq(Transfer) /\ o \in Nat /\ Queue(h, q, o, delivered)
          /\ u \in Transfer /\ Newest(u, o) /\ Pushed(q, u, r)
      BY <1>5, <1>6, <1>7, <1>9 DEF Undisturbed, Pushed, Newest, Unsent
    <2>2. Joined(h, q, r, o, u, delivered)
      BY <2>1, QueueOpened, Zenon
    <2> QED BY <2>2 DEF Joined
  <1>11. \A g \in Host : /\ Queue(g, transfers'[g], opened'[g], delivered')
                         /\ Onward(transfers[g], transfers'[g])
    <2>1. Queue(h, transfers'[h], opened'[h], delivered') /\ Onward(transfers[h], transfers'[h])
      BY <1>3, <1>7, <1>9, <1>10
    <2> QED BY <1>3, <1>9, <2>1, EveryQueue, Zenon
  <1>12. Flight(Flying(air', inbox'), transfers', delivered')
    <2>1. Flying(air, inbox) \in SUBSET Packet
      BY <1>4, FlyingType DEF Typed
    <2>2. Flight(Flying(air, inbox), transfers, delivered)
      BY DEF Undisturbed
    <2>3. Opens(transfers, transfers', h)
      BY <1>6, <1>7, <1>9, <1>10 DEF Opens
    <2>4. Flight(Flying(air, inbox), transfers', delivered)
      BY <2>1, <2>2, <2>3, FlightOpened, Zenon
    <2> QED BY <1>3, <2>4
  <1>13. Typed'
    <2>1. transfers' \in [Host -> Seq(Transfer)]
      BY <1>4, <1>7, <1>8, <1>9, <1>10 DEF Typed
    <2>2. opened' \in [Host -> Nat]
      BY <1>4, <1>5, <1>8 DEF Typed
    <2> QED BY <1>3, <1>4, <2>1, <2>2 DEF Typed
  <1>14. Timed(transfers', timer_enabled')
    <2>1. ASSUME NEW g \in Host, timer_enabled'[g]
          PROVE  /\ transfers'[g] # <<>>
                 /\ transfers'[g][1].current_ack + 1 <= transfers'[g][1].current_seq - 2
      <3>1. /\ transfers[g] # <<>>
            /\ transfers[g][1].current_ack + 1 <= transfers[g][1].current_seq - 2
        BY <1>3, <2>1 DEF Undisturbed, Timed
      <3>2. transfers'[g] # <<>> /\ transfers'[g][1] = transfers[g][1]
        BY <1>7, <1>9, <1>10, <3>1
      <3> QED BY <3>1, <3>2
    <2> QED BY <2>1 DEF Timed
  <1>15. AllDelivered' /\ InOrder(air', inbox') /\ Addressed(inbox')
    BY <1>3 DEF Undisturbed, AllDelivered
  <1> QED BY <1>11, <1>12, <1>13, <1>14, <1>15, Zenon DEF Goes, Undisturbed

(* x is the packet transmit_data sends of t, and u what becomes of t.      *)
SentBy(h, t, x, u) ==
  /\ x \in Packet /\ x.ptype = "DATA" /\ x.src = h /\ x.dest = t.ipdest
  /\ x.id = t.id /\ x.n = t.current_seq
  /\ u \in Transfer /\ u.id = t.id /\ u.ipdest = t.ipdest
  /\ u.num_packets = t.num_packets /\ u.current_ack = t.current_ack
  /\ u.current_seq = t.current_seq + 1 /\ t.current_seq <= t.num_packets

LEMMA DataFields ==
  ASSUME NEW h \in Host, NEW t \in Transfer, InWindow(t),
         NEW x, x = Data(h, t), NEW u, u = AfterRead(t)
  PROVE  SentBy(h, t, x, u)
  BY DEF SentBy, Data, AfterRead, InWindow, Transfer, Packet

LEMMA EotFields ==
  ASSUME NEW h \in Host, NEW t \in Transfer, NEW x, x = Eot(h, t)
  PROVE  x \in Packet /\ x.ptype = "EOT"
  BY DEF Eot, Transfer, Packet

LEMMA AckFields ==
  ASSUME NEW p \in Packet, NEW x, x = Ack(p)
  PROVE  /\ x \in Packet /\ x.ptype = "ACK" /\ x.dest = p.src
         /\ x.id = p.id /\ x.n = p.n - 1
  BY DEF Ack, Packet

(* u is what verifyAck makes of t.                                         *)
AckedBy(t, u) ==
  /\ u \in Transfer /\ u.id = t.id /\ u.ipdest = t.ipdest
  /\ u.num_packets = t.num_packets /\ u.current_ack = t.current_ack + 1
  /\ u.current_seq = t.current_seq

LEMMA TakenFields ==
  ASSUME NEW t \in Transfer, NEW u, u = verifyAck(t)
  PROVE  AckedBy(t, u)
  <1>1. PICK w : w = IF Slides(t) THEN t.current_window + 1 ELSE t.current_window
    OBVIOUS
  <1>2. w \in Int
    BY <1>1 DEF Transfer
  <1>3. u = [t EXCEPT !.current_ack = t.current_ack + 1, !.current_window = w]
    BY <1>1 DEF verifyAck
  <1>4. u.id = t.id /\ u.ipdest = t.ipdest /\ u.num_packets = t.num_packets
        /\ u.current_ack = t.current_ack + 1 /\ u.current_seq = t.current_seq
    BY <1>3 DEF Transfer
  <1>5. u \in Transfer
    <2>1. PICK m \in Int : m = t.current_ack + 1
      BY DEF Transfer
    <2>2. u = [id |-> t.id, ipdest |-> t.ipdest, num_packets |-> t.num_packets,
               window_size |-> t.window_size, current_ack |-> m,
               current_seq |-> t.current_seq, current_window |-> w]
      BY <1>3, <2>1 DEF Transfer
    <2> QED BY <1>2, <2>2 DEF Transfer
  <1> QED BY <1>4, <1>5 DEF AckedBy

LEMMA TransmitGoes ==
  ASSUME NoFailure, Undisturbed, NEW h \in Host, Transmit(h)
  PROVE  Goes
  <1>1. transfers[h] # <<>>
    BY DEF Transmit, transmit_data
  <1>2. PICK t, q, r, a, b, d, F :
          /\ t = transfers[h][1] /\ q = transfers[h] /\ r = transfers'[h]
          /\ a = air /\ b = inbox /\ d = air' /\ F = Flying(a, b)
    OBVIOUS
  <1>3. /\ t \in Transfer /\ t = Head(transfers[h]) /\ FrontOK(h, t, delivered)
        /\ t.current_ack \in Int /\ t.current_seq \in Int /\ t.num_packets \in Nat
        /\ t.current_ack >= -1 /\ t.current_ack <= t.current_seq - 2
        /\ t.current_seq <= t.num_packets + 1 /\ ~Wild(t)
    BY <1>1, <1>2, Front
  <1>4. Typed
    BY DEF Undisturbed
  <1>5. /\ a \in Seq(Packet) /\ b \in [Host -> Seq(Packet)] /\ F \in SUBSET Packet
        /\ InOrder(a, b) /\ Addressed(b) /\ Flight(F, transfers, delivered)
    <2>1. air \in Seq(Packet) /\ inbox \in [Host -> Seq(Packet)]
      BY <1>4 DEF Typed
    <2>2. Flying(air, inbox) \in SUBSET Packet
      BY <2>1, FlyingType, Zenon
    <2> QED BY <1>2, <2>1, <2>2 DEF Undisturbed
  <1>6. /\ q \in Seq(Transfer) /\ q # <<>> /\ q[1] = t /\ opened[h] \in Nat
        /\ Queue(h, q, opened[h], delivered)
    BY <1>1, <1>2, <1>4 DEF Typed, Undisturbed
  <1>7. UNCHANGED <<inbox, opened, delivered>>
    BY <1>3, <1>4, TransmitCases
  <1>8. CASE /\ InWindow(t)
             /\ transfers' = [transfers EXCEPT ![h] = [@ EXCEPT ![1] = AfterRead(t)]]
             /\ timer_enabled' = [timer_enabled EXCEPT ![h] = TRUE]
             /\ finished' = finished /\ air' = Append(air, Data(h, t))
    <2>1. PICK x, u : x = Data(h, t) /\ u = AfterRead(t)
      OBVIOUS
    <2>2. /\ x \in Packet /\ x.ptype = "DATA" /\ x.src = h /\ x.dest = t.ipdest
          /\ x.id = t.id /\ x.n = t.current_seq
          /\ u \in Transfer /\ u.id = t.id /\ u.ipdest = t.ipdest
          /\ u.num_packets = t.num_packets /\ u.current_ack = t.current_ack
          /\ u.current_seq = t.current_seq + 1 /\ t.current_seq <= t.num_packets
      <3>1. SentBy(h, t, x, u)
        BY <1>3, <1>8, <2>1, DataFields, Zenon
      <3> QED BY <3>1 DEF SentBy
    <2>3. /\ Pushed(a, x, d) /\ Replaced(q, u, r)
          /\ \A g \in Host : g # h => transfers'[g] = transfers[g]
      BY <1>2, <1>4, <1>8, <2>1 DEF Pushed, Replaced, Typed
    <2>4. FrontOK(h, u, delivered)
      BY <1>3, <2>2 DEF FrontOK
    <2>5. /\ r \in Seq(Transfer) /\ r # <<>> /\ r[1] = u
          /\ Queue(h, r, opened[h], delivered) /\ Onward(q, r)
      <3>1. Carries(q[1], u)
        BY <1>3, <1>6, <2>2 DEF Carries
      <3>2. u \in Transfer
        BY <2>2
      <3> QED BY <1>6, <2>3, <2>4, <3>1, <3>2, QueueChanged
    <2>6. Flight(F \cup {x}, transfers', delivered) /\ \A y \in F : Less(y, x)
      <3>1. /\ transfers[h] # <<>> /\ transfers'[h] # <<>>
            /\ transfers[h][1] = t /\ transfers'[h][1] = u
        BY <1>2, <1>6, <2>5
      <3>2. Sends(transfers, transfers', h, x)
        BY <1>3, <2>2, <2>3, <3>1 DEF Sends
      <3> QED BY <1>5, <2>2, <3>2, FlightSent, Zenon
    <2>7. d \in Seq(Packet) /\ InOrder(d, b) /\ Flying(d, b) = F \cup {x}
      <3>1. Last(x, Flying(a, b))
        BY <1>2, <2>6 DEF Last
      <3>2. Extended(a, b, x, d)
        BY <1>5, <2>2, <2>3, <3>1, Push, Zenon
      <3> QED BY <1>2, <3>2 DEF Extended
    <2>8. \A g \in Host : /\ Queue(g, transfers'[g], opened'[g], delivered')
                          /\ Onward(transfers[g], transfers'[g])
      BY <1>2, <1>7, <2>3, <2>5, EveryQueue
    <2>9. Flight(Flying(air', inbox'), transfers', delivered')
          /\ InOrder(air', inbox') /\ Addressed(inbox')
      BY <1>2, <1>5, <1>7, <2>6, <2>7
    <2>10. Typed'
      <3>1. transfers' \in [Host -> Seq(Transfer)]
        BY <1>2, <1>4, <1>8, <2>5 DEF Typed
      <3>2. timer_enabled' \in [Host -> BOOLEAN]
        BY <1>4, <1>8 DEF Typed
      <3> QED BY <1>2, <1>4, <1>7, <2>7, <3>1, <3>2 DEF Typed
    <2>11. Timed(transfers', timer_enabled')
      <3>1. ASSUME NEW g \in Host, timer_enabled'[g]
            PROVE  /\ transfers'[g] # <<>>
                   /\ transfers'[g][1].current_ack + 1 <= transfers'[g][1].current_seq - 2
        <4>1. CASE g = h
          <5>1. transfers'[g] # <<>> /\ transfers'[g][1] = u
            BY <1>2, <2>5, <4>1
          <5>2. u.current_ack + 1 <= u.current_seq - 2
            BY <1>3, <2>2
          <5> QED BY <5>1, <5>2
        <4>2. CASE g # h
          <5>1. timer_enabled[g] /\ transfers'[g] = transfers[g]
            BY <1>4, <1>8, <2>3, <3>1, <4>2 DEF Typed
          <5> QED BY <5>1 DEF Undisturbed, Timed
        <4> QED BY <4>1, <4>2
      <3> QED BY <3>1 DEF Timed
    <2>12. AllDelivered'
      BY <1>7, <1>8 DEF Undisturbed, AllDelivered
    <2> QED BY <2>8, <2>9, <2>10, <2>11, <2>12, Zenon DEF Goes, Undisturbed
  <1>9. CASE UNCHANGED <<transfers, timer_enabled, finished, air>>
    <2>1. \A g \in Host : /\ Queue(g, transfers'[g], opened'[g], delivered')
                          /\ Onward(transfers[g], transfers'[g])
      BY <1>7, <1>9, SameQueues
    <2>2. Typed' /\ AllDelivered'
      BY <1>7, <1>9 DEF Undisturbed, Typed, AllDelivered
    <2>3. /\ InOrder(air', inbox') /\ Addressed(inbox')
          /\ Flight(Flying(air', inbox'), transfers', delivered')
          /\ Timed(transfers', timer_enabled')
      BY <1>7, <1>9 DEF Undisturbed
    <2> QED BY <2>1, <2>2, <2>3, Zenon DEF Goes, Undisturbed
  <1>10. CASE /\ ~Withholds(t)
              /\ transfers' = [transfers EXCEPT ![h] = Tail(@)]
              /\ timer_enabled' = timer_enabled
              /\ finished' = finished \cup {<<h, t.id, t.num_packets>>}
              /\ air' = Append(air, Eot(h, t))
    <2>1. PICK x : x = Eot(h, t)
      OBVIOUS
    <2>2. x \in Packet /\ x.ptype = "EOT"
      BY <1>3, <2>1, EotFields
    <2>3. /\ Pushed(a, x, d) /\ Popped(q, t, r)
          /\ \A g \in Host : g # h => transfers'[g] = transfers[g]
      BY <1>2, <1>3, <1>4, <1>6, <1>10, <2>1 DEF Pushed, Popped, Typed
    <2>4. /\ r \in Seq(Transfer) /\ Queue(h, r, opened[h], delivered) /\ Onward(q, r)
          /\ r # <<>> => r[1].current_ack = -1 /\ r[1].current_seq = 1
      <3>1. /\ r \in Seq(Transfer) /\ Queue(h, r, opened[h], delivered) /\ Onward(q, r)
            /\ r # <<>> => Unsent(r[1])
        BY <1>6, <2>3, QueueEnded, Zenon
      <3> QED BY <3>1 DEF Unsent
    <2>5. t.current_ack + 1 = t.num_packets /\ t.current_seq - 2 <= t.current_ack
      <3>1. t.current_ack + 1 = t.num_packets
        BY <1>10 DEF Withholds
      <3> QED BY <1>3, <3>1
    <2>6. Flight(F \cup {x}, transfers', delivered) /\ \A y \in F : Less(y, x)
      <3>1. /\ transfers[h] # <<>> /\ transfers[h][1] = t
            /\ transfers'[h] # <<>> =>
                 transfers'[h][1].current_ack = -1 /\ transfers'[h][1].current_seq = 1
        BY <1>2, <1>6, <2>4
      <3>2. Ends(transfers, transfers', h)
        BY <1>3, <2>3, <2>5, <3>1 DEF Ends
      <3> QED BY <1>5, <2>2, <3>2, FlightEnded, Zenon
    <2>7. d \in Seq(Packet) /\ InOrder(d, b) /\ Flying(d, b) = F \cup {x}
      <3>1. Last(x, Flying(a, b))
        BY <1>2, <2>6 DEF Last
      <3>2. Extended(a, b, x, d)
        BY <1>5, <2>2, <2>3, <3>1, Push, Zenon
      <3> QED BY <1>2, <3>2 DEF Extended
    <2>8. \A g \in Host : /\ Queue(g, transfers'[g], opened'[g], delivered')
                          /\ Onward(transfers[g], transfers'[g])
      BY <1>2, <1>7, <2>3, <2>4, EveryQueue
    <2>9. Flight(Flying(air', inbox'), transfers', delivered')
          /\ InOrder(air', inbox') /\ Addressed(inbox')
      BY <1>2, <1>5, <1>7, <2>6, <2>7
    <2>10. Typed'
      <3>1. transfers' \in [Host -> Seq(Transfer)]
        BY <1>2, <1>4, <1>10, <2>4 DEF Typed
      <3> QED BY <1>2, <1>4, <1>7, <1>10, <2>7, <3>1 DEF Typed
    <2>11. Timed(transfers', timer_enabled')
      <3>1. ASSUME NEW g \in Host, timer_enabled'[g]
            PROVE  /\ transfers'[g] # <<>>
                   /\ transfers'[g][1].current_ack + 1 <= transfers'[g][1].current_seq - 2
        <4>1. /\ transfers[g] # <<>>
              /\ transfers[g][1].current_ack + 1 <= transfers[g][1].current_seq - 2
          BY <1>10, <3>1 DEF Undisturbed, Timed
        <4>2. g # h
          BY <1>2, <1>3, <2>5, <4>1
        <4> QED BY <2>3, <4>1, <4>2
      <3> QED BY <3>1 DEF Timed
    <2>12. AllDelivered'
      <3>1. \A s \in 1..t.num_packets : <<h, t.id, s>> \in delivered
        BY <1>3, <2>5 DEF FrontOK
      <3>2. ASSUME NEW f \in finished' PROVE \A s \in 1..f[3] : <<f[1], f[2], s>> \in delivered
        <4>1. CASE f \in finished
          BY <4>1 DEF Undisturbed, AllDelivered
        <4>2. CASE f = <<h, t.id, t.num_packets>>
          BY <3>1, <4>2
        <4> QED BY <1>10, <4>1, <4>2
      <3> QED BY <1>7, <3>2 DEF AllDelivered
    <2> QED BY <2>8, <2>9, <2>10, <2>11, <2>12, Zenon DEF Goes, Undisturbed
  <1> QED
    BY <1>3, <1>4, <1>8, <1>9, <1>10, TransmitCases

LEMMA RecieveGoes ==
  ASSUME NoFailure, Undisturbed, NEW h \in Host, Recieve(h)
  PROVE  Goes
  <1>1. Typed /\ inbox[h] # <<>> /\ inbox' = [inbox EXCEPT ![h] = Tail(@)]
    BY DEF Undisturbed, Recieve
  <1>2. PICK p, a, b, c, F, G :
          /\ p = Head(inbox[h]) /\ a = air /\ b = inbox /\ c = inbox'
          /\ F = Flying(a, b) /\ G = Flying(a, c)
    OBVIOUS
  <1>3. /\ a \in Seq(Packet) /\ b \in [Host -> Seq(Packet)]
        /\ InOrder(a, b) /\ Addressed(b) /\ Flight(F, transfers, delivered)
    BY <1>1, <1>2 DEF Typed, Undisturbed
  <1>4. c \in [Host -> Seq(Packet)] /\ Leaves(b, h, p, c)
    <2>1. Tail(inbox[h]) \in Seq(Packet)
      BY <1>1 DEF Typed
    <2> QED BY <1>1, <1>2, <2>1 DEF Leaves, Popped, Typed
  <1>5. F \in SUBSET Packet
    BY <1>2, <1>3, FlyingType
  <1>6. /\ p \in Packet /\ p.dest = h /\ p \in Flying(a, b)
        /\ InOrder(a, c) /\ Addressed(c)
        /\ Flying(a, c) \subseteq Flying(a, b)
        /\ \A q \in Flying(a, b) : q # p => q \in Flying(a, c)
        /\ \A q \in Flying(a, c) :
             (q.dest = h \/ q \in Range(a)) => Less(p, q)
    BY <1>3, <1>4, Pop, Zenon
  <1>7. Taken(F, p, G)
    BY <1>2, <1>6 DEF Taken
  <1>8. p.ptype = "ACK" => transfers[h] # <<>>
    BY <1>2, <1>3, <1>6 DEF Flight, OfFront, Flow
  <1>9. UNCHANGED <<lost, opened, finished>>
    BY <1>1, <1>2, <1>8, RecieveCases
  <1>10. CASE /\ p.ptype = "ACK"
              /\ transfers' = [transfers EXCEPT ![h] =
                   [@ EXCEPT ![1] = IF Accepts(Head(transfers[h]), p.n)
                                      THEN verifyAck(Head(transfers[h]))
                                      ELSE Rewind(Head(transfers[h]))]]
              /\ timer_enabled' = [timer_enabled EXCEPT ![h] =
                   TimerAfterAck(@, Accepts(Head(transfers[h]), p.n))]
              /\ UNCHANGED <<delivered, air>>
    <2>1. PICK t, u, q, r : /\ t = transfers[h][1] /\ u = verifyAck(t)
                            /\ q = transfers[h] /\ r = transfers'[h]
      OBVIOUS
    <2>2. /\ t \in Transfer /\ t = Head(transfers[h]) /\ FrontOK(h, t, delivered)
          /\ t.current_ack \in Int /\ t.current_seq \in Int /\ t.num_packets \in Nat
          /\ t.current_ack >= -1 /\ t.current_seq <= t.num_packets + 1
      BY <1>8, <1>10, <2>1, Front
    <2>3. /\ p.id = t.id /\ p.n = t.current_ack + 1 /\ p.n <= t.current_seq - 2
          /\ <<h, t.id, p.n + 1>> \in delivered
          /\ \A x \in G : x.ptype # "EOT" /\ Flow(x) = h => p.n < Rank(x)
      <3>1. transfers[h] # <<>> =>
              transfers[h][1].current_seq \in Int /\ transfers[h][1].current_ack \in Int
        BY <2>1, <2>2
      <3>2. Awaited(transfers, h, p, G, delivered)
        BY <1>3, <1>5, <1>6, <1>7, <1>10, <3>1, AckIsNext, Zenon
      <3> QED BY <2>1, <3>2 DEF Awaited
    <2>4. Accepts(t, p.n)
      BY <2>3 DEF Accepts
    <2>5. AckedBy(t, u)
      BY <2>1, <2>2, TakenFields
    <2>6. /\ transfers' = [transfers EXCEPT ![h] = [@ EXCEPT ![1] = u]]
          /\ timer_enabled' = [timer_enabled EXCEPT ![h] = FALSE]
      BY <1>10, <2>1, <2>2, <2>4 DEF TimerAfterAck
    <2>7. Replaced(q, u, r) /\ \A g \in Host : g # h => transfers'[g] = transfers[g]
      BY <1>1, <2>1, <2>6 DEF Replaced, Typed
    <2>8. FrontOK(h, u, delivered)
      BY <2>2, <2>3, <2>5 DEF FrontOK, AckedBy
    <2>9. /\ q \in Seq(Transfer) /\ q # <<>> /\ q[1] = t /\ opened[h] \in Nat
          /\ Queue(h, q, opened[h], delivered)
      BY <1>1, <1>8, <1>10, <2>1 DEF Typed, Undisturbed
    <2>10. /\ r \in Seq(Transfer) /\ r # <<>> /\ r[1] = u
           /\ Queue(h, r, opened[h], delivered) /\ Onward(q, r)
      <3>1. Carries(q[1], u) /\ u \in Transfer
        BY <2>2, <2>5, <2>9 DEF Carries, AckedBy
      <3> QED BY <2>7, <2>8, <2>9, <3>1, QueueChanged
    <2>11. Flight(G, transfers', delivered)
      <3>1. Accepted(transfers, transfers', h)
        BY <2>1, <2>2, <2>5, <2>7, <2>9, <2>10 DEF Accepted, AckedBy
      <3>2. p.n = transfers[h][1].current_ack + 1
        BY <2>1, <2>3
      <3> QED BY <1>3, <1>5, <1>6, <1>7, <1>10, <2>3, <3>1, <3>2, FlightAcked
    <2>12. \A g \in Host : /\ Queue(g, transfers'[g], opened'[g], delivered')
                           /\ Onward(transfers[g], transfers'[g])
      BY <1>9, <1>10, <2>1, <2>7, <2>10, EveryQueue
    <2>13. Flight(Flying(air', inbox'), transfers', delivered')
           /\ InOrder(air', inbox') /\ Addressed(inbox')
      BY <1>2, <1>6, <1>10, <2>11
    <2>14. Typed'
      <3>1. transfers' \in [Host -> Seq(Transfer)]
        BY <1>1, <2>1, <2>6, <2>10 DEF Typed
      <3>2. timer_enabled' \in [Host -> BOOLEAN]
        BY <1>1, <2>6 DEF Typed
      <3> QED BY <1>1, <1>2, <1>4, <1>9, <1>10, <3>1, <3>2 DEF Typed
    <2>15. Timed(transfers', timer_enabled')
      <3>1. ASSUME NEW g \in Host, timer_enabled'[g]
            PROVE  /\ transfers'[g] # <<>>
                   /\ transfers'[g][1].current_ack + 1 <= transfers'[g][1].current_seq - 2
        <4>1. g # h /\ timer_enabled[g]
          BY <1>1, <2>6, <3>1 DEF Typed
        <4> QED BY <2>7, <4>1 DEF Undisturbed, Timed
      <3> QED BY <3>1 DEF Timed
    <2>16. AllDelivered'
      BY <1>9, <1>10 DEF Undisturbed, AllDelivered
    <2> QED BY <2>12, <2>13, <2>14, <2>15, <2>16, Zenon DEF Goes, Undisturbed
  <1>11. CASE /\ p.ptype = "EOT"
              /\ timer_enabled' = [timer_enabled EXCEPT ![h] = FALSE]
              /\ UNCHANGED <<transfers, delivered, air>>
    <2>1. Flight(G, transfers, delivered)
      BY <1>3, <1>5, <1>7, <1>11, FlightEnd, Zenon
    <2>2. \A g \in Host : /\ Queue(g, transfers'[g], opened'[g], delivered')
                          /\ Onward(transfers[g], transfers'[g])
      BY <1>9, <1>11, SameQueues
    <2>3. Flight(Flying(air', inbox'), transfers', delivered')
          /\ InOrder(air', inbox') /\ Addressed(inbox')
      BY <1>2, <1>6, <1>11, <2>1
    <2>4. Typed' /\ AllDelivered'
      <3>1. timer_enabled' \in [Host -> BOOLEAN]
        BY <1>1, <1>11 DEF Typed
      <3> QED BY <1>1, <1>2, <1>4, <1>9, <1>11, <3>1 DEF Typed, Undisturbed, AllDelivered
    <2>5. Timed(transfers', timer_enabled')
      <3>1. \A g \in Host : timer_enabled'[g] => timer_enabled[g]
        BY <1>1, <1>11 DEF Typed
      <3> QED BY <1>11, <3>1 DEF Undisturbed, Timed
    <2> QED BY <2>2, <2>3, <2>4, <2>5, Zenon DEF Goes, Undisturbed
  <1>12. CASE /\ p.ptype = "DATA"
              /\ delivered' = delivered \cup {<<p.src, p.id, p.n>>}
              /\ air' = Append(air, Ack(p))
              /\ UNCHANGED <<transfers, timer_enabled>>
    <2>1. PICK x, d : x = Ack(p) /\ d = air'
      OBVIOUS
    <2>2. x \in Packet /\ x.ptype = "ACK" /\ x.dest = p.src /\ x.id = p.id /\ x.n = p.n - 1
      BY <1>6, <2>1, AckFields
    <2>3. Pushed(a, x, d)
      BY <1>2, <1>12, <2>1 DEF Pushed
    <2>4. /\ Flight(G \cup {x}, transfers, delivered \cup {<<p.src, p.id, p.n>>})
          /\ \A y \in G : Less(y, x)
      BY <1>3, <1>5, <1>7, <1>12, <2>2, FlightTaken
    <2>5. d \in Seq(Packet) /\ InOrder(d, c) /\ Flying(d, c) = G \cup {x}
      <3>1. Last(x, Flying(a, c))
        BY <1>2, <2>4 DEF Last
      <3>2. Extended(a, c, x, d)
        BY <1>3, <1>4, <1>6, <2>2, <2>3, <3>1, Push, Zenon
      <3> QED BY <1>2, <3>2 DEF Extended
    <2>6. \A g \in Host : /\ Queue(g, transfers'[g], opened'[g], delivered')
                          /\ Onward(transfers[g], transfers'[g])
      BY <1>9, <1>12, SameQueues
    <2>7. Flight(Flying(air', inbox'), transfers', delivered')
          /\ InOrder(air', inbox') /\ Addressed(inbox')
      BY <1>2, <1>6, <1>12, <2>1, <2>4, <2>5
    <2>8. Typed' /\ Timed(transfers', timer_enabled')
      BY <1>1, <1>2, <1>4, <1>9, <1>12, <2>1, <2>5 DEF Typed, Undisturbed
    <2>9. AllDelivered'
      BY <1>9, <1>12 DEF Undisturbed, AllDelivered
    <2> QED BY <2>6, <2>7, <2>8, <2>9, Zenon DEF Goes, Undisturbed
  <1> QED
    BY <1>1, <1>2, <1>8, <1>10, <1>11, <1>12, RecieveCases

(* A running timer waits for a packet that is under way: it cannot run out.*)
LEMMA NoTimeout ==
  ASSUME Undisturbed, NEW h \in Host
  PROVE  ~Timeout(h)
  <1>1. SUFFICES ASSUME Timeout(h) PROVE FALSE
    OBVIOUS
  <1>2. timer_enabled[h] /\ Quiet(h)
    BY <1>1 DEF Timeout, timeout
  <1>3. /\ transfers[h] # <<>>
        /\ transfers[h][1].current_ack + 1 <= transfers[h][1].current_seq - 2
    BY <1>2 DEF Undisturbed, Timed
  <1>4. PICK t : t = transfers[h][1]
    OBVIOUS
  <1>5. t.current_ack \in Int /\ t.current_seq \in Int
    BY <1>3, <1>4, Front
  <1>6. PICK k \in Int : k = t.current_ack + 1
    BY <1>5
  <1>7. t.current_ack < k /\ k <= t.current_seq - 2
    BY <1>3, <1>4, <1>5, <1>6
  <1>8. PICK p \in Flying(air, inbox) : p.ptype # "EOT" /\ Flow(p) = h
    BY <1>3, <1>4, <1>7 DEF Undisturbed, Flight, Covered
  <1>9. p \in InFlight
    <2>1. air \in Seq(Packet) /\ \A g \in Host : inbox[g] \in Seq(Packet)
      BY DEF Undisturbed, Typed
    <2>2. CASE p \in Range(air)
      <3>1. \E i \in 1..Len(air) : p = air[i]
        BY <2>1, <2>2, InRange
      <3> QED BY <3>1 DEF InFlight
    <2>3. CASE p \notin Range(air)
      <3>1. PICK g \in Host : p \in Range(inbox[g])
        BY <2>3 DEF Flying
      <3>2. \E i \in 1..Len(inbox[g]) : p = inbox[g][i]
        BY <2>1, <3>1, InRange
      <3> QED BY <3>2 DEF InFlight
    <2> QED BY <2>2, <2>3
  <1> QED BY <1>2, <1>8, <1>9 DEF Quiet, Flow

LEMMA EveryStepGoes ==
  ASSUME NoFailure, LosslessInv, [Next]_vars, lost' = 0
  PROVE  Goes
  <1>1. CASE UNCHANGED vars
    <2>1. lost = 0
      BY <1>1 DEF vars
    <2>2. Undisturbed
      BY <2>1 DEF LosslessInv
    <2>3. UNCHANGED <<transfers, timer_enabled, opened, delivered, finished, air, inbox>>
      BY <1>1 DEF vars
    <2>4. \A g \in Host : /\ Queue(g, transfers'[g], opened'[g], delivered')
                          /\ Onward(transfers[g], transfers'[g])
      BY <2>2, <2>3, SameQueues
    <2>5. Typed' /\ AllDelivered'
      BY <2>2, <2>3 DEF Undisturbed, Typed, AllDelivered
    <2>6. /\ InOrder(air', inbox') /\ Addressed(inbox')
          /\ Flight(Flying(air', inbox'), transfers', delivered')
          /\ Timed(transfers', timer_enabled')
      BY <2>2, <2>3 DEF Undisturbed
    <2> QED BY <2>4, <2>5, <2>6, Zenon DEF Goes, Undisturbed
  <1>2. ASSUME Forward PROVE Goes
    BY <1>2, ForwardGoes DEF LosslessInv, Forward
  <1>3. ASSUME Lose PROVE FALSE
    BY <1>3 DEF Lose, LosslessInv
  <1>4. ASSUME NEW h \in Host, Send(h) \/ Transmit(h) \/ Recieve(h) \/ Timeout(h)
        PROVE  Goes
    <2>1. lost = 0
      BY <1>4 DEF Send, Transmit, Recieve, Timeout
    <2>2. Undisturbed
      BY <2>1 DEF LosslessInv
    <2> QED BY <1>4, <2>2, SendGoes, TransmitGoes, RecieveGoes, NoTimeout
  <1> QED BY <1>1, <1>2, <1>3, <1>4 DEF Next

LEMMA LosslessKept ==
  ASSUME NoFailure
  PROVE  Spec => []LosslessInv
  <1>1. Init => LosslessInv
    <2>1. SUFFICES ASSUME Init PROVE LosslessInv
      OBVIOUS
    <2>2. /\ Typed /\ AllDelivered /\ Timed(transfers, timer_enabled)
      BY <2>1 DEF Init, ClientInit, Typed, AllDelivered, Timed
    <2>3. \A h \in Host : Queue(h, transfers[h], opened[h], delivered)
      BY <2>1 DEF Init, ClientInit, Queue, Numbered
    <2>4. Flying(air, inbox) = {}
      BY <2>1 DEF Init, Flying, Range
    <2>5. Flight(Flying(air, inbox), transfers, delivered)
      BY <2>1, <2>4 DEF Init, ClientInit, Flight, AcksFirst, OfFront, Covered, AcksEarned
    <2>6. InOrder(air, inbox) /\ Addressed(inbox)
      BY <2>1 DEF Init, InOrder, Addressed, Sorted, Range
    <2> QED BY <2>1, <2>2, <2>3, <2>5, <2>6 DEF Init, LosslessInv, Undisturbed
  <1>2. LosslessInv /\ [Next]_vars => LosslessInv'
    <2>1. SUFFICES ASSUME LosslessInv, [Next]_vars PROVE LosslessInv'
      OBVIOUS
    <2>2. lost' \in Nat
      <3>1. lost \in Nat /\ (lost' = lost \/ lost' = lost + 1)
        BY <2>1 DEF LosslessInv, Next, vars, Forward, Lose, Send, Transmit, Recieve, Timeout
      <3> QED BY <3>1
    <2>3. lost' = 0 => Undisturbed'
      BY <2>1, EveryStepGoes DEF Goes
    <2> QED BY <2>2, <2>3 DEF LosslessInv
  <1> QED BY <1>1, <1>2, PTL DEF Spec

-----------------------------------------------------------------------------
(* p is data of the front transfer of its sender h, and the data before it *)
(* were delivered: what is under way between the two is in order.          *)
Follows(q, h, p, D) ==
  /\ q[h] # <<>> /\ p.id = q[h][1].id
  /\ 1 <= p.n /\ p.n <= q[h][1].num_packets
  /\ \A j \in Int : 1 <= j /\ j <= p.n - 1 => <<h, p.id, j>> \in D

LEMMA DataIsNext ==
  ASSUME NEW F \in SUBSET Packet, NEW G, NEW D, NEW q, NEW h \in Host,
         Flight(F, q, D), NEW p, Taken(F, p, G), p.ptype = "DATA", p.src = h,
         q[h] # <<>> => q[h][1] \in Transfer /\ FrontOK(h, q[h][1], D)
  PROVE  Follows(q, h, p, D)
  <1> USE DEF Taken
  <1>1. Rank(p) = p.n - 1 /\ Flow(p) = h /\ p.n \in Int
    BY DEF Rank, Flow, Packet
  <1>2. /\ q[h] # <<>> /\ p.id = q[h][1].id /\ p.dest = q[h][1].ipdest
        /\ q[h][1].current_ack < p.n - 1 /\ p.n - 1 <= q[h][1].current_seq - 2
    BY <1>1 DEF Flight, OfFront
  <1>3. PICK m \in Int, l \in Int, n \in Nat :
          m = q[h][1].current_ack /\ l = q[h][1].current_seq /\ n = q[h][1].num_packets
    BY <1>2 DEF Transfer
  <1>4. -1 <= m /\ l <= n + 1 /\ m < p.n - 1 /\ p.n - 1 <= l - 2
    BY <1>2, <1>3 DEF FrontOK
  <1>5. 1 <= p.n /\ p.n <= n
    BY <1>1, <1>4
  <1>6. ASSUME NEW j \in Int, 1 <= j, j <= p.n - 1 PROVE <<h, p.id, j>> \in D
    <2>1. CASE j <= m + 1
      BY <1>2, <1>3, <1>6, <2>1 DEF FrontOK
    <2>2. CASE ~(j <= m + 1)
      <3>1. PICK k \in Int : k = j - 1 /\ m < k /\ k <= l - 2 /\ k < p.n - 1
        BY <1>1, <1>4, <1>6, <2>2
      <3>2. PICK x \in F : x.ptype # "EOT" /\ Flow(x) = h /\ Rank(x) = k
        BY <1>2, <1>3, <3>1 DEF Flight, Covered
      <3>3. CASE x.ptype = "ACK"
        <4>1. x.dest = h /\ x.n = k /\ x.id = p.id
          BY <1>2, <3>2, <3>3 DEF Flow, Rank, Flight, OfFront
        <4>2. x.n + 1 = j
          BY <3>1, <4>1
        <4> QED BY <3>3, <4>1, <4>2 DEF Flight, AcksEarned
      <3>4. CASE x.ptype = "DATA"
        <4>1. x.dest = p.dest
          BY <1>2, <3>2, <3>4 DEF Flight, OfFront
        <4>2. x # p
          BY <1>1, <3>1, <3>2
        <4>3. Rank(p) < Rank(x)
          BY <1>1, <3>2, <3>4, <4>1, <4>2 DEF Less
        <4> QED BY <1>1, <3>1, <3>2, <4>3
      <3> QED BY <3>2, <3>3, <3>4 DEF Packet
    <2> QED BY <2>1, <2>2
  <1> QED BY <1>2, <1>3, <1>5, <1>6 DEF Follows

(* The queue as TransferQueue sees it, through what the handlers do to it. *)
LEMMA WaitingOf ==
  ASSUME NEW q \in Seq(Transfer)
  PROVE  /\ Waiting(q) \in Seq(Nat) /\ Len(Waiting(q)) = Len(q)
         /\ (Waiting(q) = <<>>) <=> (q = <<>>)
         /\ q # <<>> => Head(Waiting(q)) = q[1].num_packets
  <1>1. \A i \in 1..Len(q) : q[i].num_packets \in Nat
    BY Fields
  <1>2. Waiting(q) \in Seq(Nat) /\ Len(Waiting(q)) = Len(q)
    BY <1>1 DEF Waiting
  <1>3. (Waiting(q) = <<>>) <=> (q = <<>>)
    BY <1>2
  <1>4. q # <<>> => Waiting(q)[1] = q[1].num_packets
    BY DEF Waiting
  <1> QED BY <1>2, <1>3, <1>4

Alike(v, w) == Len(v) = Len(w) /\ \A i \in 1..Len(v) : v[i] = w[i]

LEMMA SameSequence ==
  ASSUME NEW v \in Seq(Nat), NEW w \in Seq(Nat), Alike(v, w)
  PROVE  v = w
  <1>1. v = [i \in 1..Len(v) |-> v[i]] /\ w = [i \in 1..Len(w) |-> w[i]]
    OBVIOUS
  <1>2. [i \in 1..Len(v) |-> v[i]] = [i \in 1..Len(w) |-> w[i]]
    BY DEF Alike
  <1> QED BY <1>1, <1>2

LEMMA WaitingPushed ==
  ASSUME NEW q \in Seq(Transfer), NEW u \in Transfer, NEW r, Pushed(q, u, r)
  PROVE  Waiting(r) = Append(Waiting(q), u.num_packets)
  <1>1. /\ r \in Seq(Transfer) /\ Len(q) \in Nat /\ Len(r) = Len(q) + 1
        /\ r[Len(q) + 1] = u /\ \A i \in 1..Len(q) : r[i] = q[i]
    BY DEF Pushed
  <1>2. PICK v, w : v = Waiting(r) /\ w = Append(Waiting(q), u.num_packets)
    OBVIOUS
  <1>3. u.num_packets \in Nat
    BY DEF Transfer
  <1>4. /\ v \in Seq(Nat) /\ Len(v) = Len(q) + 1
        /\ w \in Seq(Nat) /\ Len(w) = Len(q) + 1
    BY <1>1, <1>2, <1>3, WaitingOf
  <1>5. \A i \in 1..Len(q) : v[i] = w[i]
    BY <1>1, <1>2, WaitingOf DEF Waiting
  <1>6. v[Len(q) + 1] = w[Len(q) + 1]
    BY <1>1, <1>2, WaitingOf DEF Waiting
  <1>7. Alike(v, w)
    BY <1>1, <1>4, <1>5, <1>6 DEF Alike
  <1>8. v = w
    BY <1>4, <1>7, SameSequence
  <1> QED BY <1>2, <1>8

LEMMA WaitingPopped ==
  ASSUME NEW q \in Seq(Transfer), NEW p, NEW r, Popped(q, p, r)
  PROVE  Waiting(r) = Tail(Waiting(q))
  <1>1. /\ r \in Seq(Transfer) /\ Len(r) \in Nat /\ Len(q) = Len(r) + 1
        /\ \A i \in 1..Len(r) : r[i] = q[i + 1]
    BY DEF Popped
  <1>2. PICK v, w : v = Waiting(r) /\ w = Waiting(q)
    OBVIOUS
  <1>3. v \in Seq(Nat) /\ Len(v) = Len(r) /\ w \in Seq(Nat) /\ Len(w) = Len(r) + 1
    BY <1>1, <1>2, WaitingOf
  <1>4. /\ Tail(w) \in Seq(Nat) /\ Len(Tail(w)) = Len(r)
        /\ \A i \in 1..Len(r) : Tail(w)[i] = w[i + 1]
    BY <1>3
  <1>5. \A i \in 1..Len(r) : v[i] = w[i + 1]
    BY <1>1, <1>2 DEF Waiting
  <1>6. Alike(v, Tail(w))
    BY <1>3, <1>4, <1>5 DEF Alike
  <1>7. v = Tail(w)
    BY <1>3, <1>4, <1>6, SameSequence
  <1> QED BY <1>2, <1>7

LEMMA WaitingReplaced ==
  ASSUME NEW q \in Seq(Transfer), q # <<>>, NEW u \in Transfer,
         u.num_packets = q[1].num_packets, NEW r, Replaced(q, u, r)
  PROVE  Waiting(r) = Waiting(q)
  <1>1. /\ Len(r) = Len(q) /\ r[1] = u /\ \A i \in 1..Len(q) : i # 1 => r[i] = q[i]
    BY DEF Replaced
  <1>2. \A i \in 1..Len(q) : r[i].num_packets = q[i].num_packets
    BY <1>1
  <1> QED BY <1>1, <1>2 DEF Waiting

LEMMA TurnOfFront ==
  ASSUME Undisturbed, NEW h \in Host, transfers[h] # <<>>
  PROVE  /\ Ideal!Turn(h) = transfers[h][1].id
         /\ Waiting(transfers[h]) # <<>>
         /\ Head(Waiting(transfers[h])) = transfers[h][1].num_packets
  <1>1. PICK q, o : q = transfers[h] /\ o = opened[h]
    OBVIOUS
  <1>2. q \in Seq(Transfer) /\ o \in Nat /\ Numbered(q, o)
    BY <1>1 DEF Undisturbed, Typed, Queue
  <1>3. q[1].id = o - Len(q) + 1
    BY <1>1, <1>2 DEF Numbered
  <1>4. /\ Len(Waiting(q)) = Len(q) /\ Waiting(q) # <<>>
        /\ Head(Waiting(q)) = q[1].num_packets
    BY <1>1, <1>2, WaitingOf
  <1> QED BY <1>1, <1>3, <1>4 DEF Ideal!Turn

LEMMA Updated ==
  ASSUME NEW q, NEW r, NEW h \in Host, \A g \in Host : g # h => r[g] = q[g],
         NEW v, v = Waiting(r[h])
  PROVE  [g \in Host |-> Waiting(r[g])] = [[g \in Host |-> Waiting(q[g])] EXCEPT ![h] = v]
  <1>1. \A g \in Host : Waiting(r[g]) = IF g = h THEN v ELSE Waiting(q[g])
    OBVIOUS
  <1> QED BY <1>1

(* What each handler does to the queue of TransferQueue.                   *)
LEMMA SendBegins ==
  ASSUME Undisturbed, NEW h \in Host, Send(h)
  PROVE  Ideal!Begin(h)
  <1>1. PICK dest \in Host \ {h}, n \in Sizes, w \in Windows : send(h, dest, n, w)
    BY DEF Send
  <1>2. PICK u, q, r : /\ u = NewTransfer(opened[h] + 1, dest, n, w)
                       /\ q = transfers[h] /\ r = transfers'[h]
    OBVIOUS
  <1>3. transfers \in [Host -> Seq(Transfer)] /\ opened[h] \in Nat
    BY DEF Undisturbed, Typed
  <1>4. u \in Transfer /\ u.num_packets = n
    BY <1>1, <1>2, <1>3, SizesAssumption DEF NewTransfer, Transfer
  <1>5. /\ q \in Seq(Transfer) /\ Pushed(q, u, r)
        /\ \A g \in Host : g # h => transfers'[g] = transfers[g]
    BY <1>1, <1>2, <1>3 DEF send, Pushed
  <1>6. Waiting(r) = Append(Waiting(q), n)
    BY <1>4, <1>5, WaitingPushed
  <1>7. [g \in Host |-> Waiting(transfers'[g])] =
          [[g \in Host |-> Waiting(transfers[g])] EXCEPT ![h] = Append(Waiting(q), n)]
    BY <1>2, <1>5, <1>6, Updated
  <1>8. opened' = [opened EXCEPT ![h] = @ + 1] /\ UNCHANGED <<delivered, finished>>
    BY <1>1 DEF send
  <1> QED BY <1>1, <1>2, <1>7, <1>8 DEF Ideal!Begin

LEMMA TransmitCompletes ==
  ASSUME NoFailure, Undisturbed, NEW h \in Host, Transmit(h)
  PROVE  Ideal!Complete(h) \/ UNCHANGED Ideal!vars
  <1>1. transfers[h] # <<>>
    BY DEF Transmit, transmit_data
  <1>2. PICK t, q, r : t = transfers[h][1] /\ q = transfers[h] /\ r = transfers'[h]
    OBVIOUS
  <1>3. /\ t \in Transfer /\ t = Head(transfers[h]) /\ FrontOK(h, t, delivered)
        /\ t.current_ack \in Int /\ t.num_packets \in Nat /\ ~Wild(t)
    BY <1>1, <1>2, Front
  <1>4. Typed /\ transfers \in [Host -> Seq(Transfer)] /\ q \in Seq(Transfer)
    BY <1>2 DEF Undisturbed, Typed
  <1>5. UNCHANGED <<opened, delivered>>
    BY <1>3, <1>4, TransmitCases
  <1>6. ASSUME InWindow(t), finished' = finished,
               transfers' = [transfers EXCEPT ![h] = [@ EXCEPT ![1] = AfterRead(t)]]
        PROVE  UNCHANGED Ideal!vars
    <2>1. PICK u : u = AfterRead(t)
      OBVIOUS
    <2>2. u \in Transfer /\ u.num_packets = t.num_packets
      BY <1>3, <1>6, <2>1, DataFields DEF SentBy
    <2>3. Replaced(q, u, r) /\ \A g \in Host : g # h => transfers'[g] = transfers[g]
      BY <1>2, <1>4, <1>6, <2>1 DEF Replaced
    <2>4. Waiting(r) = Waiting(q)
      BY <1>1, <1>2, <1>4, <2>2, <2>3, WaitingReplaced
    <2>5. \A g \in Host : Waiting(transfers'[g]) = Waiting(transfers[g])
      BY <1>2, <2>3, <2>4
    <2> QED BY <1>5, <1>6, <2>5 DEF Ideal!vars
  <1>7. ASSUME ~Withholds(t), transfers' = [transfers EXCEPT ![h] = Tail(@)],
               finished' = finished \cup {<<h, t.id, t.num_packets>>}
        PROVE  Ideal!Complete(h)
    <2>1. Popped(q, t, r) /\ \A g \in Host : g # h => transfers'[g] = transfers[g]
      BY <1>1, <1>2, <1>3, <1>4, <1>7 DEF Popped
    <2>2. Waiting(r) = Tail(Waiting(q))
      BY <1>4, <2>1, WaitingPopped
    <2>3. [g \in Host |-> Waiting(transfers'[g])] =
            [[g \in Host |-> Waiting(transfers[g])] EXCEPT ![h] = Tail(Waiting(q))]
      BY <1>2, <2>1, <2>2, Updated
    <2>4. /\ Ideal!Turn(h) = t.id /\ Waiting(q) # <<>>
          /\ Head(Waiting(q)) = t.num_packets
      BY <1>1, <1>2, TurnOfFront
    <2>5. \A k \in 1..t.num_packets : <<h, t.id, k>> \in delivered
      <3>1. t.current_ack + 1 = t.num_packets
        BY <1>7 DEF Withholds
      <3> QED BY <1>3, <3>1 DEF FrontOK
    <2> QED BY <1>2, <1>5, <1>7, <2>3, <2>4, <2>5 DEF Ideal!Complete
  <1>8. ASSUME UNCHANGED <<transfers, finished>> PROVE UNCHANGED Ideal!vars
    BY <1>5, <1>8 DEF Ideal!vars
  <1> QED BY <1>3, <1>4, <1>6, <1>7, <1>8, TransmitCases

LEMMA RecieveArrives ==
  ASSUME NoFailure, Undisturbed, NEW h \in Host, Recieve(h)
  PROVE  (\E g \in Host : Ideal!Arrive(g)) \/ UNCHANGED Ideal!vars
  <1>1. /\ Typed /\ inbox[h] # <<>> /\ inbox' = [inbox EXCEPT ![h] = Tail(@)]
        /\ transfers \in [Host -> Seq(Transfer)]
    BY DEF Undisturbed, Recieve, Typed
  <1>2. PICK p, a, b, c, F, G :
          /\ p = Head(inbox[h]) /\ a = air /\ b = inbox /\ c = inbox'
          /\ F = Flying(a, b) /\ G = Flying(a, c)
    OBVIOUS
  <1>3. /\ a \in Seq(Packet) /\ b \in [Host -> Seq(Packet)]
        /\ InOrder(a, b) /\ Addressed(b) /\ Flight(F, transfers, delivered)
    BY <1>1, <1>2 DEF Typed, Undisturbed
  <1>4. c \in [Host -> Seq(Packet)] /\ Leaves(b, h, p, c)
    <2>1. Tail(inbox[h]) \in Seq(Packet)
      BY <1>1 DEF Typed
    <2> QED BY <1>1, <1>2, <2>1 DEF Leaves, Popped, Typed
  <1>5. F \in SUBSET Packet
    BY <1>2, <1>3, FlyingType
  <1>6. p \in Packet /\ Taken(F, p, G)
    <2>1. /\ p \in Packet /\ p.dest = h /\ p \in Flying(a, b)
          /\ InOrder(a, c) /\ Addressed(c)
          /\ Flying(a, c) \subseteq Flying(a, b)
          /\ \A q \in Flying(a, b) : q # p => q \in Flying(a, c)
          /\ \A q \in Flying(a, c) :
               (q.dest = h \/ q \in Range(a)) => Less(p, q)
      BY <1>3, <1>4, Pop, Zenon
    <2> QED BY <1>2, <2>1 DEF Taken
  <1>7. p.ptype = "ACK" => transfers[h] # <<>>
    <2>1. p.ptype = "ACK" => Flow(p) = p.dest
      BY DEF Flow
    <2>2. p.dest = h
      BY <1>1, <1>2, <1>3 DEF Addressed, Typed, Range
    <2> QED BY <1>3, <1>6, <2>1, <2>2 DEF Flight, OfFront, Taken
  <1>8. UNCHANGED <<opened, finished>>
    BY <1>1, <1>2, <1>7, RecieveCases
  <1>9. ASSUME p.ptype = "ACK", UNCHANGED delivered,
               transfers' = [transfers EXCEPT ![h] =
                 [@ EXCEPT ![1] = IF Accepts(Head(transfers[h]), p.n)
                                    THEN verifyAck(Head(transfers[h]))
                                    ELSE Rewind(Head(transfers[h]))]]
        PROVE  UNCHANGED Ideal!vars
    <2>1. PICK t, u, q, r : /\ t = Head(transfers[h]) /\ q = transfers[h] /\ r = transfers'[h]
                            /\ u = IF Accepts(t, p.n) THEN verifyAck(t) ELSE Rewind(t)
      OBVIOUS
    <2>2. t \in Transfer /\ q \in Seq(Transfer) /\ q # <<>> /\ q[1] = t
      BY <1>1, <1>7, <1>9, <2>1
    <2>3. u \in Transfer /\ u.num_packets = t.num_packets
      <3>1. CASE Accepts(t, p.n)
        BY <2>1, <2>2, <3>1, TakenFields DEF AckedBy
      <3>2. CASE ~Accepts(t, p.n)
        <4>1. u = [t EXCEPT !.current_seq = t.current_ack + 1]
          BY <2>1, <3>2 DEF Rewind
        <4>2. t.current_ack + 1 \in Int
          BY <2>2 DEF Transfer
        <4> QED BY <2>2, <4>1, <4>2 DEF Transfer
      <3> QED BY <3>1, <3>2
    <2>4. Replaced(q, u, r) /\ \A g \in Host : g # h => transfers'[g] = transfers[g]
      BY <1>1, <1>9, <2>1 DEF Replaced
    <2>5. Waiting(r) = Waiting(q)
      BY <2>2, <2>3, <2>4, WaitingReplaced
    <2>6. \A g \in Host : Waiting(transfers'[g]) = Waiting(transfers[g])
      BY <2>1, <2>4, <2>5
    <2> QED BY <1>8, <1>9, <2>6 DEF Ideal!vars
  <1>10. ASSUME p.ptype = "DATA", UNCHANGED transfers,
                delivered' = delivered \cup {<<p.src, p.id, p.n>>}
         PROVE  \E g \in Host : Ideal!Arrive(g)
    <2>1. PICK g \in Host : g = p.src
      BY <1>6 DEF Packet
    <2>2. transfers[g] # <<>> =>
            transfers[g][1] \in Transfer /\ FrontOK(g, transfers[g][1], delivered)
      BY Front
    <2>3. Follows(transfers, g, p, delivered)
      BY <1>3, <1>5, <1>6, <1>10, <2>1, <2>2, DataIsNext, Zenon
    <2>4. /\ transfers[g] # <<>> /\ p.id = transfers[g][1].id /\ p.n \in Int
          /\ 1 <= p.n /\ p.n <= transfers[g][1].num_packets
          /\ \A j \in Int : 1 <= j /\ j <= p.n - 1 => <<g, p.id, j>> \in delivered
      BY <1>6, <2>3 DEF Follows, Packet
    <2>5. /\ Ideal!Turn(g) = p.id /\ Waiting(transfers[g]) # <<>>
          /\ Head(Waiting(transfers[g])) = transfers[g][1].num_packets
      BY <2>4, TurnOfFront
    <2>6. transfers[g][1].num_packets \in Nat
      BY <2>2, <2>4 DEF Transfer
    <2>7. p.n \in 1..Head(Waiting(transfers[g]))
      BY <2>4, <2>5, <2>6
    <2>8. \A j \in 1..(p.n - 1) : <<g, Ideal!Turn(g), j>> \in delivered
      BY <2>4, <2>5
    <2>9. delivered' = delivered \cup {<<g, Ideal!Turn(g), p.n>>}
      BY <1>10, <2>1, <2>5
    <2> QED BY <1>8, <1>10, <2>5, <2>7, <2>8, <2>9 DEF Ideal!Arrive
  <1>11. ASSUME UNCHANGED <<transfers, delivered>> PROVE UNCHANGED Ideal!vars
    BY <1>8, <1>11 DEF Ideal!vars
  <1> QED
    BY <1>1, <1>2, <1>7, <1>9, <1>10, <1>11, RecieveCases

LEMMA EveryStepIdeal ==
  ASSUME NoFailure, LosslessInv, [Next]_vars, lost' = 0
  PROVE  [Ideal!Next]_(Ideal!vars)
  <1>1. CASE Forward \/ UNCHANGED vars
    <2>1. UNCHANGED <<transfers, opened, delivered, finished>>
      BY <1>1 DEF Forward, vars, clientVars
    <2> QED BY <2>1 DEF Ideal!vars
  <1>2. CASE Lose
    BY <1>2 DEF Lose, LosslessInv
  <1>3. ASSUME NEW h \in Host, Send(h) \/ Transmit(h) \/ Recieve(h) \/ Timeout(h)
        PROVE  [Ideal!Next]_(Ideal!vars)
    <2>1. lost = 0
      BY <1>3 DEF Send, Transmit, Recieve, Timeout
    <2>2. Undisturbed
      BY <2>1 DEF LosslessInv
    <2>3. CASE Send(h)
      BY <2>2, <2>3, SendBegins DEF Ideal!Next
    <2>4. CASE Transmit(h)
      BY <2>2, <2>4, TransmitCompletes DEF Ideal!Next
    <2>5. CASE Recieve(h)
      BY <2>2, <2>5, RecieveArrives DEF Ideal!Next
    <2> QED BY <1>3, <2>2, <2>3, <2>4, <2>5, NoTimeout
  <1> QED BY <1>1, <1>2, <1>3 DEF Next

(* As long as nothing is lost, and no host fails, "Transfer completed." is *)
(* printed only for transfers delivered in full (Controller.cpp,           *)
(* transmit_data): no acknowledgement of one transfer serves the next.     *)
THEOREM LosslessDelivery ==
  ASSUME NoFailure
  PROVE  Spec => []LosslessIsDelivered
  <1>1. LosslessInv => LosslessIsDelivered
    BY DEF LosslessInv, Undisturbed, AllDelivered, LosslessIsDelivered
  <1> QED BY <1>1, LosslessKept, PTL

(* As long as nothing is lost, and no host fails, the timer never runs     *)
(* while the list of transfers is empty, so that the timeout never takes   *)
(* the front of an empty list (Controller.cpp, the check of the timer).    *)
THEOREM LosslessTimer ==
  ASSUME NoFailure
  PROVE  Spec => []LosslessIdleTimer
  <1>1. LosslessInv => LosslessIdleTimer
    BY DEF LosslessInv, Undisturbed, Typed, Timed, LosslessIdleTimer
  <1> QED BY <1>1, LosslessKept, PTL

(* As long as nothing is lost, and no host fails, no packet is sent twice: *)
(* neither the rewind of check_packet nor the timeout's moves current_seq. *)
THEOREM LosslessOnce ==
  ASSUME NoFailure
  PROVE  Spec => LosslessSendsOnce
  <1>1. LosslessInv /\ LosslessInv' /\ [Next]_vars =>
          (lost' = 0 =>
             \A h \in Host : \A t \in Queued(h), u \in Queued(h)' :
               t.id = u.id => u.current_seq >= t.current_seq)
    <2>1. SUFFICES ASSUME LosslessInv, LosslessInv', [Next]_vars, lost' = 0,
                          NEW h \in Host, NEW t \in Queued(h), NEW u \in Queued(h)',
                          t.id = u.id
                   PROVE  u.current_seq >= t.current_seq
      OBVIOUS
    <2>2. Onward(transfers[h], transfers'[h])
      BY <2>1, EveryStepGoes DEF Goes
    <2>3. PICK i \in 1..Len(transfers[h]) : t = transfers[h][i]
      BY DEF Queued
    <2>4. PICK j \in 1..Len(transfers'[h]) : u = transfers'[h][j]
      BY DEF Queued
    <2> QED BY <2>1, <2>2, <2>3, <2>4 DEF Onward
  <1> QED BY <1>1, LosslessKept, PTL DEF Spec, LosslessSendsOnce

(* As long as nothing is lost, and no host fails, the list of transfers of *)
(* every host is TransferQueue (Controller.cpp, transmit_data and          *)
(* check_packet): each transfer in its turn, its packets in order and none *)
(* of another between them, and popped only when all of them have arrived. *)
THEOREM LosslessQueue ==
  ASSUME NoFailure
  PROVE  Spec => LosslessIsQueue
  <1>1. Init => Ideal!Init
    <2>1. Waiting(<<>>) = <<>>
      BY DEF Waiting
    <2> QED BY <2>1 DEF Init, ClientInit, Ideal!Init
  <1>2. LosslessInv /\ [Next]_vars => (lost' = 0 => [Ideal!Next]_(Ideal!vars))
    BY EveryStepIdeal
  <1> QED BY <1>1, <1>2, LosslessKept, PTL DEF Spec, LosslessIsQueue
=============================================================================
