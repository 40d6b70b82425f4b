------------------------- MODULE NVirtNetwork_proofs -------------------------
(***************************************************************************)
(* For any set of hosts, transfer sizes, window sizes and number of sends, *)
(* over a network that loses, repeats and reorders packets at will: the    *)
(* counters of every transfer agree, and the first transfer of each host   *)
(* is reliable.                                                            *)
(***************************************************************************)
EXTENDS NVirtNetwork, TLAPS

(* The host's first transfer was opened and has left the queue. *)
Gone(h) == /\ opened[h] >= 1
           /\ \A i \in 1..Len(transfers[h]) : transfers[h][i].id # 1

(* What holds of the i-th transfer t of host h's queue. *)
SlotOK(h, i, t) ==
  /\ t.id <= opened[h]
  /\ CountersOK(t)
  /\ t.id = 1 => i = 1 /\ t.num_packets = first_size[h] /\ AckSound(h, t)

QueuesOK == \A h \in Host : \A i \in 1..Len(transfers[h]) :
              SlotOK(h, i, transfers[h][i])

(* A packet of a later transfer shows that the first one is gone; a packet *)
(* of the first is one of its packets, and an acknowledgement, of          *)
(* whichever transfer, shows that its packet arrived.                      *)
PacketOK(p) ==
  /\ p.ptype # "ACK" => p.id <= opened[p.src]
  /\ p.ptype # "ACK" /\ p.id # 1 => Gone(p.src)
  /\ p.ptype = "DATA" /\ p.id = 1 => p.n \in 1..first_size[p.src]
  /\ p.ptype = "EOT" /\ p.id = 1 =>
       \A s \in 1..p.n : <<p.src, 1, s>> \in delivered
  /\ p.ptype = "ACK" => <<p.dest, p.id, p.n + 1>> \in delivered

DeliveredOK(d) ==
  /\ d[2] <= opened[d[1]]
  /\ d[2] # 1 => Gone(d[1])
  /\ d[2] = 1 => d[3] \in 1..first_size[d[1]]

FinishedOK(f) ==
  /\ f[2] <= opened[f[1]]
  /\ f[2] = 1 => /\ Gone(f[1])
                 /\ f[3] = first_size[f[1]]
                 /\ \A s \in 1..f[3] : <<f[1], 1, s>> \in delivered

SizesOK == \A h \in Host : opened[h] = 0 => first_size[h] = 0

IInv == /\ TypeOK /\ QueuesOK /\ SizesOK
        /\ \A p \in net : PacketOK(p)
        /\ \A d \in delivered : DeliveredOK(d)
        /\ \A f \in finished : FinishedOK(f)

USE SizesAssumption, OutcomesAssumption

-----------------------------------------------------------------------------
(* Sequences: replacing the first element, dropping it, adding one.        *)
LEMMA ReplaceFirst ==
  ASSUME NEW S, NEW s \in Seq(S), s # <<>>, NEW x \in S
  PROVE  /\ [s EXCEPT ![1] = x] \in Seq(S)
         /\ Len([s EXCEPT ![1] = x]) = Len(s) /\ 1 \in 1..Len(s)
         /\ \A i \in 1..Len(s) :
              [s EXCEPT ![1] = x][i] = IF i = 1 THEN x ELSE s[i]
  OBVIOUS

LEMMA DropFirst ==
  ASSUME NEW S, NEW s \in Seq(S), s # <<>>
  PROVE  /\ Tail(s) \in Seq(S) /\ Len(Tail(s)) = Len(s) - 1
         /\ Len(s) \in Nat
         /\ \A i \in 1..Len(Tail(s)) : /\ Tail(s)[i] = s[i + 1]
                                       /\ i + 1 \in 1..Len(s)
  OBVIOUS

LEMMA AddLast ==
  ASSUME NEW S, NEW s \in Seq(S), NEW x \in S
  PROVE  /\ Append(s, x) \in Seq(S) /\ Len(Append(s, x)) = Len(s) + 1
         /\ Len(s) \in Nat
         /\ \A i \in 1..(Len(s) + 1) :
              Append(s, x)[i] = IF i = Len(s) + 1 THEN x ELSE s[i]
  OBVIOUS

-----------------------------------------------------------------------------
(* The operators of TransferController keep the counters in agreement.     *)
LEMMA Fields ==
  ASSUME NEW t \in Transfer
  PROVE  /\ t.id \in Nat \ {0} /\ t.ipdest \in Host /\ t.num_packets \in Nat
         /\ t.window_size \in Nat /\ t.current_ack \in Int
         /\ t.current_seq \in Nat /\ t.current_window \in Int
  BY DEF Transfer

(* Products are kept out of the steps that compare counters. *)
LEMMA WindowStep ==
  ASSUME NEW w \in Nat, NEW c \in Int
  PROVE  /\ w * c \in Int /\ w * (c - 1) \in Int /\ w * (c + 1) \in Int
         /\ c * w = w * c /\ w * (c + 1) = w * c + w
         /\ w * (c - 1) = w * c - w /\ w * ((c + 1) - 1) = w * c
  OBVIOUS

LEMMA NewCounters ==
  ASSUME NEW id \in Nat \ {0}, NEW d \in Host, NEW n \in Sizes,
         NEW w \in Windows
  PROVE  /\ NewTransfer(id, d, n, w) \in Transfer
         /\ CountersOK(NewTransfer(id, d, n, w))
  BY DEF NewTransfer, Transfer, CountersOK

LEMMA ReadCounters ==
  ASSUME NEW t \in Transfer, CountersOK(t)
  PROVE  /\ AfterRead(t) \in Transfer /\ CountersOK(AfterRead(t))
         /\ AfterRead(t).id = t.id
         /\ AfterRead(t).num_packets = t.num_packets
         /\ AfterRead(t).current_ack = t.current_ack
         /\ AfterRead(t).current_seq <= t.current_seq
            \/ AfterRead(t).current_seq <= t.num_packets + 1
  <1> DEFINE W == t.window_size * t.current_window
             V == t.window_size * (t.current_window - 1)
  <1>1. W \in Int /\ V \in Int BY Fields, WindowStep
  <1>2. CASE InWindow(t)
    <2>1. AfterRead(t) = [t EXCEPT !.current_seq = t.current_seq + 1]
      BY <1>2 DEF AfterRead
    <2>2. t.current_seq <= W /\ t.current_seq <= t.num_packets
      BY <1>2 DEF InWindow
    <2>3. /\ AfterRead(t) \in Transfer
          /\ AfterRead(t).id = t.id
          /\ AfterRead(t).num_packets = t.num_packets
          /\ AfterRead(t).window_size = t.window_size
          /\ AfterRead(t).current_ack = t.current_ack
          /\ AfterRead(t).current_window = t.current_window
          /\ AfterRead(t).current_seq = t.current_seq + 1
      BY <2>1 DEF Transfer
    <2>4. CountersOK(AfterRead(t))
      <3> HIDE DEF W, V
      <3>1. /\ t.current_ack >= -1 /\ t.current_seq >= 0
            /\ t.current_window >= 1
            /\ t.window_size > 0 => /\ t.current_seq <= W + 1
                                    /\ V <= t.current_ack + 1
                                    /\ t.current_ack + 1 < W
        BY DEF CountersOK, W, V
      <3>2. t.current_seq + 1 <= W + 1 /\ t.current_seq + 1 >= 0
        BY <1>1, <2>2, <3>1, Fields
      <3>3. QED BY <2>3, <3>1, <3>2 DEF CountersOK, W, V
    <2>5. QED BY <2>2, <2>3, <2>4, Fields
  <1>3. CASE ~InWindow(t)
    BY <1>3, Fields DEF AfterRead
  <1>4. QED BY <1>2, <1>3

LEMMA AckCounters ==
  ASSUME NEW t \in Transfer, CountersOK(t)
  PROVE  /\ verifyAck(t) \in Transfer /\ CountersOK(verifyAck(t))
         /\ verifyAck(t).id = t.id
         /\ verifyAck(t).num_packets = t.num_packets
         /\ verifyAck(t).current_ack = t.current_ack + 1
         /\ verifyAck(t).current_seq = t.current_seq
  <1> DEFINE w == t.window_size
             c == t.current_window
             a == t.current_ack
             d == IF Slides(t) THEN c + 1 ELSE c
             W == w * c
  <1>1. w \in Nat /\ c \in Int /\ a \in Int /\ t.current_seq \in Int
    BY Fields
  <1>2. /\ verifyAck(t) \in Transfer
        /\ verifyAck(t).id = t.id
        /\ verifyAck(t).num_packets = t.num_packets
        /\ verifyAck(t).window_size = w
        /\ verifyAck(t).current_ack = a + 1
        /\ verifyAck(t).current_seq = t.current_seq
        /\ verifyAck(t).current_window = d
    <2>1. verifyAck(t) = [t EXCEPT !.current_ack = a + 1, !.current_window = d]
      BY DEF verifyAck
    <2>2. d \in Int /\ a + 1 \in Int BY <1>1
    <2> HIDE DEF d
    <2>3. QED BY <1>1, <2>1, <2>2 DEF Transfer
  <1>3. /\ W \in Int /\ w * (c - 1) = W - w /\ w * (c + 1) = W + w
        /\ w * ((c + 1) - 1) = W /\ (W = a + 2 <=> Slides(t))
    BY <1>1, WindowStep DEF Slides
  <1>4. /\ a >= -1 /\ t.current_seq >= 0 /\ c >= 1
        /\ w > 0 => /\ t.current_seq <= W + 1
                    /\ w * (c - 1) <= a + 1
                    /\ a + 1 < W
    BY DEF CountersOK
  <1>5. /\ a + 1 >= -1 /\ d >= 1
        /\ w > 0 => /\ t.current_seq <= w * d + 1
                    /\ w * (d - 1) <= (a + 1) + 1
                    /\ (a + 1) + 1 < w * d
    <2>1. CASE Slides(t)
      <3>1. d = c + 1 BY <2>1
      <3> HIDE DEF W, w, c, a, d
      <3>2. QED BY <1>1, <1>3, <1>4, <2>1, <3>1
    <2>2. CASE ~Slides(t)
      <3>1. d = c BY <2>2
      <3>2. w * d = W BY <3>1
      <3> HIDE DEF W, w, c, a, d
      <3>3. QED BY <1>1, <1>3, <1>4, <2>2, <3>1, <3>2
    <2>3. QED BY <2>1, <2>2
  <1>6. CountersOK(verifyAck(t)) BY <1>2, <1>4, <1>5 DEF CountersOK
  <1>7. QED BY <1>2, <1>6

LEMMA RewindCounters ==
  ASSUME NEW t \in Transfer, CountersOK(t)
  PROVE  /\ Rewind(t) \in Transfer /\ CountersOK(Rewind(t))
         /\ Rewind(t).id = t.id
         /\ Rewind(t).num_packets = t.num_packets
         /\ Rewind(t).current_ack = t.current_ack
         /\ Rewind(t).current_seq = t.current_ack + 1
  <1> DEFINE W == t.window_size * t.current_window
             V == t.window_size * (t.current_window - 1)
  <1>1. W \in Int /\ V \in Int BY Fields, WindowStep
  <1>2. /\ Rewind(t) \in Transfer
        /\ Rewind(t).id = t.id
        /\ Rewind(t).num_packets = t.num_packets
        /\ Rewind(t).window_size = t.window_size
        /\ Rewind(t).current_ack = t.current_ack
        /\ Rewind(t).current_window = t.current_window
        /\ Rewind(t).current_seq = t.current_ack + 1
    <2>1. t.current_ack + 1 \in Nat BY Fields DEF CountersOK
    <2>2. QED BY <2>1 DEF Rewind, Transfer
  <1> HIDE DEF W, V
  <1>3. /\ t.current_ack >= -1 /\ t.current_window >= 1
        /\ t.window_size > 0 => V <= t.current_ack + 1 /\ t.current_ack + 1 < W
    BY DEF CountersOK, W, V
  <1>4. /\ t.current_ack + 1 >= 0
        /\ t.window_size > 0 => t.current_ack + 1 <= W + 1
    BY <1>1, <1>3, Fields
  <1>5. CountersOK(Rewind(t)) BY <1>2, <1>3, <1>4 DEF CountersOK, W, V
  <1>6. QED BY <1>2, <1>5

-----------------------------------------------------------------------------
(* What the histories established stays established.                       *)
Histories ==
  /\ delivered \subseteq delivered'
  /\ \A h \in Host : /\ opened[h] <= opened'[h]
                     /\ opened[h] >= 1 => first_size'[h] = first_size[h]

GoneStays == \A h \in Host : Gone(h) => Gone(h)'

LEMMA Persist ==
  ASSUME IInv, TypeOK', Histories, GoneStays
  PROVE  /\ \A p \in net : PacketOK(p)'
         /\ \A d \in delivered : DeliveredOK(d)'
         /\ \A f \in finished : FinishedOK(f)'
  <1>1. opened \in [Host -> Nat] /\ opened' \in [Host -> Nat]
    BY DEF IInv, TypeOK
  <1>2. ASSUME NEW p \in net PROVE PacketOK(p)'
    <2>1. PacketOK(p) /\ p \in Packet BY DEF IInv, TypeOK
    <2>2. p.src \in Host /\ p.dest \in Host /\ p.id \in Nat \ {0}
      BY <2>1 DEF Packet
    <2>3. p.id <= opened[p.src] =>
            /\ p.id <= opened'[p.src]
            /\ first_size'[p.src] = first_size[p.src]
      BY <1>1, <2>2 DEF Histories
    <2>4. Gone(p.src) => Gone(p.src)'
      BY <2>2 DEF GoneStays
    <2>5. QED BY <2>1, <2>3, <2>4 DEF PacketOK, Histories
  <1>3. ASSUME NEW d \in delivered PROVE DeliveredOK(d)'
    <2>1. DeliveredOK(d) /\ d \in Host \X (Nat \ {0}) \X Int
      BY DEF IInv, TypeOK
    <2>2. d[1] \in Host /\ d[2] \in Nat \ {0} BY <2>1
    <2>3. d[2] <= opened[d[1]] =>
            /\ d[2] <= opened'[d[1]]
            /\ first_size'[d[1]] = first_size[d[1]]
      BY <1>1, <2>2 DEF Histories
    <2>4. QED BY <2>1, <2>2, <2>3 DEF DeliveredOK, GoneStays
  <1>4. ASSUME NEW f \in finished PROVE FinishedOK(f)'
    <2>1. FinishedOK(f) /\ f \in Host \X (Nat \ {0}) \X Nat
      BY DEF IInv, TypeOK
    <2>2. f[1] \in Host /\ f[2] \in Nat \ {0} BY <2>1
    <2>3. f[2] <= opened[f[1]] =>
            /\ f[2] <= opened'[f[1]]
            /\ first_size'[f[1]] = first_size[f[1]]
      BY <1>1, <2>2 DEF Histories
    <2>4. QED BY <2>1, <2>2, <2>3 DEF FinishedOK, GoneStays, Histories
  <1>5. QED BY <1>2, <1>3, <1>4

LEMMA SlotPersists ==
  ASSUME TypeOK, TypeOK', Histories, NEW h \in Host, NEW i \in Nat,
         NEW t \in Transfer, SlotOK(h, i, t)
  PROVE  SlotOK(h, i, t)'
  <1>1. /\ t.id \in Nat \ {0} /\ t.id <= opened[h]
        /\ opened[h] \in Nat /\ opened'[h] \in Nat
    BY Fields DEF TypeOK, SlotOK
  <1>2. t.id <= opened'[h] /\ first_size'[h] = first_size[h]
    BY <1>1 DEF Histories
  <1>3. AckSound(h, t) => AckSound(h, t)'
    BY DEF AckSound, Histories
  <1>4. CountersOK(t)' = CountersOK(t) BY DEF CountersOK
  <1>5. QED BY <1>2, <1>3, <1>4 DEF SlotOK

(* The four ways a step changes a queue: not at all, or that of one host   *)
(* by replacing its first transfer, dropping it, or adding one.            *)
LEMMA OldSlots ==
  ASSUME IInv, TypeOK', Histories, NEW g \in Host,
         NEW i \in 1..Len(transfers[g])
  PROVE  \E u \in Transfer : /\ u = transfers[g][i]
                             /\ SlotOK(g, i, u) /\ SlotOK(g, i, u)'
  <1>1. SlotOK(g, i, transfers[g][i]) /\ transfers[g][i] \in Transfer
    BY DEF IInv, QueuesOK, TypeOK
  <1>2. PICK u \in Transfer : u = transfers[g][i] BY <1>1
  <1>3. SlotOK(g, i, u) BY <1>1, <1>2 DEF SlotOK, AckSound
  <1>4. TypeOK /\ i \in Nat BY DEF IInv
  <1>5. SlotOK(g, i, u)' BY <1>3, <1>4, SlotPersists
  <1>6. QED BY <1>2, <1>3, <1>5

LEMMA OneQueue ==
  ASSUME IInv, TypeOK', Histories, NEW h \in Host,
         \A g \in Host \ {h} : transfers'[g] = transfers[g],
         \A i \in 1..Len(transfers'[h]) :
           \E u \in Transfer : u = transfers'[h][i] /\ SlotOK(h, i, u)'
  PROVE  QueuesOK'
  <1>1. SUFFICES ASSUME NEW g \in Host, NEW i \in 1..Len(transfers'[g])
                 PROVE  SlotOK(g, i, transfers[g][i])'
    BY DEF QueuesOK
  <1>2. \E u \in Transfer : u = transfers'[g][i] /\ SlotOK(g, i, u)'
    <2>1. CASE g = h BY <2>1
    <2>2. CASE g # h
      <3>1. transfers'[g] = transfers[g] BY <2>2
      <3>2. i \in 1..Len(transfers[g]) BY <3>1
      <3>3. QED BY <3>1, <3>2, OldSlots
    <2>3. QED BY <2>1, <2>2
  <1>3. QED BY <1>2 DEF SlotOK, AckSound

LEMMA SameQueues ==
  ASSUME IInv, TypeOK', Histories, UNCHANGED transfers
  PROVE  QueuesOK' /\ GoneStays
  <1>1. GoneStays BY DEF GoneStays, Gone, Histories, IInv, TypeOK
  <1>2. ASSUME NEW g \in Host PROVE QueuesOK'
    <2>1. \A i \in 1..Len(transfers'[g]) :
            \E u \in Transfer : u = transfers'[g][i] /\ SlotOK(g, i, u)'
      BY OldSlots
    <2>2. QED BY <2>1, OneQueue
  <1>3. CASE Host = {} BY <1>1, <1>3 DEF QueuesOK
  <1>4. QED BY <1>1, <1>2, <1>3

(* u is an update of t, the front of host h's queue. *)
Updates(h, t, u) ==
  /\ u \in Transfer /\ u.id = t.id /\ u.num_packets = t.num_packets
  /\ CountersOK(u)
  /\ u.id = 1 => AckSound(h, u)'

LEMMA FrontReplaced ==
  ASSUME IInv, TypeOK', Histories, NEW h \in Host, transfers[h] # <<>>, NEW u,
         Updates(h, Head(transfers[h]), u),
         transfers' = [transfers EXCEPT ![h] = [@ EXCEPT ![1] = u]]
  PROVE  QueuesOK' /\ GoneStays
  <1> DEFINE s == transfers[h]
  <1>1. /\ s \in Seq(Transfer) /\ s # <<>> /\ u \in Transfer
        /\ transfers' = [transfers EXCEPT ![h] = [s EXCEPT ![1] = u]]
        /\ transfers \in [Host -> Seq(Transfer)]
    BY DEF IInv, TypeOK, Updates
  <1>2. /\ transfers'[h] = [s EXCEPT ![1] = u]
        /\ \A g \in Host \ {h} : transfers'[g] = transfers[g]
    BY <1>1
  <1> HIDE DEF s
  <1>3. /\ Len(transfers'[h]) = Len(s) /\ 1 \in 1..Len(s)
        /\ \A i \in 1..Len(s) : transfers'[h][i] = IF i = 1 THEN u ELSE s[i]
    BY <1>1, <1>2, ReplaceFirst
  <1>4. Head(s) = s[1] BY <1>1
  <1>5. \A i \in 1..Len(transfers'[h]) :
          \E v \in Transfer : v = transfers'[h][i] /\ SlotOK(h, i, v)'
    <2>1. SUFFICES ASSUME NEW i \in 1..Len(s)
                   PROVE  \E v \in Transfer : /\ v = transfers'[h][i]
                                              /\ SlotOK(h, i, v)'
      BY <1>3
    <2>2. PICK v \in Transfer : /\ v = s[i]
                                /\ SlotOK(h, i, v) /\ SlotOK(h, i, v)'
      BY OldSlots DEF s
    <2>3. CASE i = 1
      <3>1. transfers'[h][i] = u BY <1>3, <2>3
      <3>2. SlotOK(h, i, u)'
        BY <1>4, <2>2, <2>3 DEF SlotOK, Updates, CountersOK, s
      <3>3. QED BY <1>1, <3>1, <3>2
    <2>4. CASE i # 1 BY <1>3, <2>2, <2>4
    <2>5. QED BY <2>3, <2>4
  <1>6. GoneStays
    <2>1. ASSUME NEW g \in Host, Gone(g) PROVE Gone(g)'
      <3>1. opened'[g] >= 1
        BY <2>1 DEF Gone, Histories, IInv, TypeOK
      <3>2. CASE g # h BY <1>2, <2>1, <3>1, <3>2 DEF Gone
      <3>3. CASE g = h
        <4>1. u.id # 1
          BY <1>3, <1>4, <2>1, <3>3 DEF Gone, Updates, s
        <4>2. \A i \in 1..Len(transfers'[h]) : transfers'[h][i].id # 1
          BY <1>3, <2>1, <3>3, <4>1 DEF Gone, s
        <4>3. QED BY <3>1, <3>3, <4>2 DEF Gone
      <3>4. QED BY <3>2, <3>3
    <2>2. QED BY <2>1 DEF GoneStays
  <1>7. QED BY <1>2, <1>5, <1>6, OneQueue

LEMMA FrontDropped ==
  ASSUME IInv, TypeOK', Histories, NEW h \in Host, transfers[h] # <<>>,
         transfers' = [transfers EXCEPT ![h] = Tail(@)]
  PROVE  /\ QueuesOK' /\ GoneStays
         /\ Head(transfers[h]).id = 1 => Gone(h)'
  <1> DEFINE s == transfers[h]
  <1>1. /\ s \in Seq(Transfer) /\ s # <<>>
        /\ transfers' = [transfers EXCEPT ![h] = Tail(s)]
        /\ transfers \in [Host -> Seq(Transfer)]
    BY DEF IInv, TypeOK
  <1>2. /\ transfers'[h] = Tail(s)
        /\ \A g \in Host \ {h} : transfers'[g] = transfers[g]
    BY <1>1
  <1> HIDE DEF s
  <1>3. /\ Len(transfers'[h]) = Len(s) - 1 /\ Len(s) \in Nat
        /\ \A i \in 1..Len(transfers'[h]) : /\ transfers'[h][i] = s[i + 1]
                                            /\ i + 1 \in 1..Len(s)
    <2>1. /\ Len(Tail(s)) = Len(s) - 1 /\ Len(s) \in Nat
          /\ \A i \in 1..Len(Tail(s)) : /\ Tail(s)[i] = s[i + 1]
                                        /\ i + 1 \in 1..Len(s)
      BY <1>1, DropFirst
    <2>2. QED BY <1>2, <2>1
  <1>4. ASSUME NEW i \in 1..Len(transfers'[h])
        PROVE  \E v \in Transfer : /\ v = transfers'[h][i] /\ v.id # 1
                                   /\ SlotOK(h, i, v)'
    <2>1. i + 1 \in 1..Len(s) /\ transfers'[h][i] = s[i + 1]
      BY <1>3
    <2> i \in Nat \ {0} /\ i + 1 # 1
      <3>1. Len(transfers'[h]) \in Int BY <1>3
      <3>2. QED BY <3>1
    <2>2. PICK v \in Transfer :
            v = s[i + 1] /\ SlotOK(h, i + 1, v) /\ SlotOK(h, i + 1, v)'
      BY <2>1, OldSlots DEF s
    <2>3. v.id # 1 BY <2>1, <2>2 DEF SlotOK
    <2>4. SlotOK(h, i, v)' BY <2>2, <2>3 DEF SlotOK
    <2>5. QED BY <2>1, <2>2, <2>3, <2>4
  <1>5. QueuesOK' BY <1>2, <1>4, OneQueue
  <1>6. \A i \in 1..Len(transfers'[h]) : transfers'[h][i].id # 1
    BY <1>4
  <1>7. opened'[h] >= opened[h] /\ opened[h] \in Nat /\ opened'[h] \in Nat
    BY DEF Histories, IInv, TypeOK
  <1>8. GoneStays
    <2>1. ASSUME NEW g \in Host, Gone(g) PROVE Gone(g)'
      <3>1. opened'[g] >= 1
        BY <2>1 DEF Gone, Histories, IInv, TypeOK
      <3>2. CASE g # h BY <1>2, <2>1, <3>1, <3>2 DEF Gone
      <3>3. CASE g = h BY <1>6, <3>1, <3>3 DEF Gone
      <3>4. QED BY <3>2, <3>3
    <2>2. QED BY <2>1 DEF GoneStays
  <1>9. ASSUME Head(s).id = 1 PROVE Gone(h)'
    <2>1. 1 \in 1..Len(s) /\ Head(s) = s[1] BY <1>1
    <2>2. PICK v \in Transfer : v = s[1] /\ SlotOK(h, 1, v)
      BY <2>1, OldSlots DEF s
    <2>3. opened[h] >= 1 BY <1>9, <2>1, <2>2 DEF SlotOK
    <2>4. QED BY <1>6, <1>7, <2>3 DEF Gone
  <1>10. QED BY <1>5, <1>8, <1>9 DEF s

LEMMA LastAdded ==
  ASSUME IInv, TypeOK', Histories, NEW h \in Host, NEW u \in Transfer,
         u.id = opened[h] + 1, u.id = opened'[h], CountersOK(u),
         u.id = 1 => u.num_packets = first_size'[h] /\ AckSound(h, u)',
         transfers' = [transfers EXCEPT ![h] = Append(@, u)]
  PROVE  QueuesOK' /\ GoneStays
  <1> DEFINE s == transfers[h]
  <1>1. /\ s \in Seq(Transfer)
        /\ transfers' = [transfers EXCEPT ![h] = Append(s, u)]
        /\ transfers \in [Host -> Seq(Transfer)]
        /\ opened[h] \in Nat /\ opened'[h] \in Nat
    BY DEF IInv, TypeOK
  <1>2. /\ transfers'[h] = Append(s, u)
        /\ \A g \in Host \ {h} : transfers'[g] = transfers[g]
    BY <1>1
  <1> HIDE DEF s
  <1>3. /\ Len(transfers'[h]) = Len(s) + 1 /\ Len(s) \in Nat
        /\ \A i \in 1..(Len(s) + 1) :
             transfers'[h][i] = IF i = Len(s) + 1 THEN u ELSE s[i]
    <2>1. /\ Len(Append(s, u)) = Len(s) + 1 /\ Len(s) \in Nat
          /\ \A i \in 1..(Len(s) + 1) :
               Append(s, u)[i] = IF i = Len(s) + 1 THEN u ELSE s[i]
      BY <1>1, AddLast
    <2>2. QED BY <1>2, <2>1
  <1>4. u.id = 1 => Len(s) = 0
    <2>1. SUFFICES ASSUME u.id = 1, Len(s) >= 1 PROVE FALSE BY <1>3
    <2>2. 1 \in 1..Len(s) BY <1>3, <2>1
    <2>3. PICK v \in Transfer : v = s[1] /\ SlotOK(h, 1, v)
      BY <2>2, OldSlots DEF s
    <2>4. v.id <= 0 /\ v.id \in Nat \ {0}
      BY <1>1, <2>1, <2>3, Fields DEF SlotOK
    <2>5. QED BY <2>4
  <1>5. \A i \in 1..Len(transfers'[h]) :
          \E v \in Transfer : v = transfers'[h][i] /\ SlotOK(h, i, v)'
    <2>1. SUFFICES ASSUME NEW i \in 1..(Len(s) + 1)
                   PROVE  \E v \in Transfer : /\ v = transfers'[h][i]
                                              /\ SlotOK(h, i, v)'
      BY <1>3
    <2>2. CASE i = Len(s) + 1
      <3>1. transfers'[h][i] = u BY <1>3, <2>2
      <3>2. u.id = 1 => i = 1 BY <1>4, <2>2
      <3>3. u.id <= opened'[h] BY <1>1, Fields
      <3>4. SlotOK(h, i, u)' BY <3>2, <3>3 DEF SlotOK, CountersOK
      <3>5. QED BY <3>1, <3>4
    <2>3. CASE i # Len(s) + 1
      <3>1. i \in 1..Len(s) BY <1>3, <2>3
      <3>2. transfers'[h][i] = s[i] BY <1>3, <2>3
      <3>3. PICK v \in Transfer : v = s[i] /\ SlotOK(h, i, v)'
        BY <3>1, OldSlots DEF s
      <3>4. QED BY <3>2, <3>3
    <2>4. QED BY <2>2, <2>3
  <1>6. GoneStays
    <2>1. ASSUME NEW g \in Host, Gone(g) PROVE Gone(g)'
      <3>1. opened'[g] >= 1
        BY <2>1 DEF Gone, Histories, IInv, TypeOK
      <3>2. CASE g # h BY <1>2, <2>1, <3>1, <3>2 DEF Gone
      <3>3. CASE g = h
        <4>1. u.id # 1 BY <1>1, <2>1, <3>3 DEF Gone
        <4>2. \A i \in 1..Len(s) : s[i].id # 1
          BY <2>1, <3>3 DEF Gone, s
        <4>3. \A i \in 1..Len(transfers'[h]) : transfers'[h][i].id # 1
          <5>1. SUFFICES ASSUME NEW i \in 1..(Len(s) + 1)
                         PROVE  transfers'[h][i].id # 1
            BY <1>3
          <5>2. CASE i = Len(s) + 1 BY <1>3, <4>1, <5>2
          <5>3. CASE i # Len(s) + 1
            <6>1. i \in 1..Len(s) BY <1>3, <5>3
            <6>2. QED BY <1>3, <4>2, <5>3, <6>1
          <5>4. QED BY <5>2, <5>3
        <4>4. QED BY <3>1, <3>3, <4>3 DEF Gone
      <3>4. QED BY <3>2, <3>3
    <2>2. QED BY <2>1 DEF GoneStays
  <1>7. QED BY <1>2, <1>5, <1>6, OneQueue

-----------------------------------------------------------------------------
(* The invariant is put together from what is new. *)
LEMMA Assemble ==
  ASSUME IInv, TypeOK', Histories, GoneStays, QueuesOK', SizesOK',
         \A p \in net' \ net : PacketOK(p)',
         \A d \in delivered' \ delivered : DeliveredOK(d)',
         \A f \in finished' \ finished : FinishedOK(f)'
  PROVE  IInv'
  <1>1. /\ \A p \in net : PacketOK(p)'
        /\ \A d \in delivered : DeliveredOK(d)'
        /\ \A f \in finished : FinishedOK(f)'
    BY Persist
  <1>2. (\A p \in net : PacketOK(p))' BY <1>1 DEF PacketOK, Gone
  <1>3. (\A d \in delivered : DeliveredOK(d))' BY <1>1 DEF DeliveredOK, Gone
  <1>4. (\A f \in finished : FinishedOK(f))' BY <1>1 DEF FinishedOK, Gone
  <1>5. QED BY <1>2, <1>3, <1>4 DEF IInv

LEMMA Front ==
  ASSUME IInv, NEW h \in Host, transfers[h] # <<>>
  PROVE  \E t \in Transfer : t = Head(transfers[h]) /\ SlotOK(h, 1, t)
  <1>1. transfers[h] \in Seq(Transfer) BY DEF IInv, TypeOK
  <1>2. /\ 1 \in 1..Len(transfers[h]) /\ Head(transfers[h]) = transfers[h][1]
        /\ Head(transfers[h]) \in Transfer
    BY <1>1
  <1>3. SlotOK(h, 1, transfers[h][1]) BY <1>2 DEF IInv, QueuesOK
  <1>4. PICK t \in Transfer : t = transfers[h][1] BY <1>2
  <1>5. SlotOK(h, 1, t) BY <1>3, <1>4 DEF SlotOK, AckSound
  <1>6. QED BY <1>2, <1>4, <1>5

(* A step that changes no queue and no history. *)
LEMMA NothingNew ==
  ASSUME IInv, TypeOK', GoneStays, QueuesOK',
         UNCHANGED <<opened, delivered, finished, net, first_size>>
  PROVE  IInv'
  <1>1. Histories /\ SizesOK'
    BY DEF Histories, IInv, TypeOK, SizesOK
  <1>2. QED BY <1>1, Assemble

LEMMA QuitStep ==
  ASSUME IInv, NEW h \in Host, Quit(h)
  PROVE  IInv'
  <1>1. TypeOK' BY DEF IInv, TypeOK, Quit, quit, Packet
  <1>2. Histories BY DEF Histories, IInv, TypeOK, Quit, quit
  <1>3. QueuesOK' /\ GoneStays BY <1>1, <1>2, SameQueues DEF Quit, quit
  <1>4. QED BY <1>1, <1>3, NothingNew DEF Quit, quit

LEMMA TimeoutStep ==
  ASSUME IInv, NEW h \in Host, Timeout(h)
  PROVE  IInv'
  <1>1. UNCHANGED <<opened, delivered, finished, net, first_size>>
    BY DEF Timeout, timeout, Crash
  <1>2. Histories BY <1>1 DEF Histories, IInv, TypeOK
  <1>3. CASE transfers[h] # <<>>
    <2>1. PICK t \in Transfer : t = Head(transfers[h]) /\ SlotOK(h, 1, t)
      BY <1>3, Front
    <2>2. /\ transfers' = [transfers EXCEPT ![h] = [@ EXCEPT ![1] = Rewind(t)]]
          /\ timer_enabled' = [timer_enabled EXCEPT ![h] = FALSE]
          /\ UNCHANGED running
      BY <1>3, <2>1 DEF Timeout, timeout
    <2>3. /\ Rewind(t) \in Transfer /\ CountersOK(Rewind(t))
          /\ Rewind(t).id = t.id
          /\ Rewind(t).num_packets = t.num_packets
          /\ Rewind(t).current_ack = t.current_ack
          /\ Rewind(t).current_seq = t.current_ack + 1
      BY <2>1, RewindCounters DEF SlotOK
    <2>4. TypeOK'
      <3>1. [transfers[h] EXCEPT ![1] = Rewind(t)] \in Seq(Transfer)
        BY <1>3, <2>3, ReplaceFirst DEF IInv, TypeOK
      <3>2. QED BY <1>1, <2>2, <3>1 DEF IInv, TypeOK
    <2>5. Updates(h, t, Rewind(t))
      BY <1>1, <2>1, <2>3, Fields DEF Updates, SlotOK, AckSound
    <2>6. QueuesOK' /\ GoneStays
      BY <1>2, <1>3, <2>1, <2>2, <2>4, <2>5, FrontReplaced
    <2>7. QED BY <1>1, <2>4, <2>6, NothingNew
  <1>4. CASE transfers[h] = <<>>
    <2>1. TypeOK' /\ UNCHANGED transfers
      BY <1>4 DEF IInv, TypeOK, Timeout, timeout, Crash
    <2>2. QueuesOK' /\ GoneStays BY <1>2, <2>1, SameQueues
    <2>3. QED BY <1>1, <2>1, <2>2, NothingNew
  <1>5. QED BY <1>3, <1>4

LEMMA SendStep ==
  ASSUME IInv, NEW h \in Host, Send(h)
  PROVE  IInv'
  <1>1. PICK dest \in Host \ {h}, n \in Sizes, w \in Windows :
          /\ send(h, dest, n, w)
          /\ first_size' = IF opened[h] = 0 THEN [first_size EXCEPT ![h] = n]
                                            ELSE first_size
          /\ UNCHANGED net
    BY DEF Send
  <1> DEFINE id == opened[h] + 1
  <1>2. id \in Nat \ {0} /\ opened \in [Host -> Nat]
    BY DEF IInv, TypeOK
  <1>3. PICK u \in Transfer : u = NewTransfer(id, dest, n, w) /\ CountersOK(u)
    <2> HIDE DEF id
    <2>1. QED BY <1>2, NewCounters
  <1>4. /\ u.id = id /\ u.num_packets = n /\ u.current_ack = -1
        /\ u.current_seq = 1
    BY <1>3 DEF NewTransfer
  <1>5. /\ transfers' = [transfers EXCEPT ![h] = Append(@, u)]
        /\ opened' = [opened EXCEPT ![h] = id]
        /\ UNCHANGED <<timer_enabled, running, delivered, finished, net>>
    BY <1>1, <1>3 DEF send
  <1>6. n \in Nat /\ first_size \in [Host -> Nat]
    BY DEF IInv, TypeOK
  <1>7. first_size' \in [Host -> Nat]
        /\ \A g \in Host : first_size'[g] =
             IF g = h /\ opened[h] = 0 THEN n ELSE first_size[g]
    BY <1>1, <1>6
  <1>8. TypeOK'
    <2>1. Append(transfers[h], u) \in Seq(Transfer)
      BY AddLast DEF IInv, TypeOK
    <2>2. QED BY <1>2, <1>5, <1>7, <2>1 DEF IInv, TypeOK
  <1>9. Histories BY <1>2, <1>5, <1>7 DEF Histories
  <1>10. u.id = 1 => u.num_packets = first_size'[h] /\ AckSound(h, u)'
    BY <1>2, <1>4, <1>6, <1>7 DEF AckSound
  <1>11. QueuesOK' /\ GoneStays
    <2>1. u.id = opened[h] + 1 /\ u.id = opened'[h] BY <1>2, <1>4, <1>5
    <2>2. QED BY <1>3, <1>5, <1>8, <1>9, <1>10, <2>1, LastAdded
  <1>12. SizesOK'
    BY <1>2, <1>5, <1>7 DEF SizesOK, IInv
  <1>13. QED BY <1>5, <1>8, <1>9, <1>11, <1>12, Assemble

(* Recieve, by the type of the packet. *)
LEMMA EotStep ==
  ASSUME IInv, NEW h \in Host, NEW p \in net, EotIn(h, p), Emit({}),
         UNCHANGED first_size
  PROVE  IInv'
  <1>1. /\ timer_enabled' = [timer_enabled EXCEPT ![h] = FALSE]
        /\ net' = net
        /\ UNCHANGED <<transfers, running, opened, delivered, finished>>
    BY DEF EotIn, Emit
  <1>2. TypeOK' BY <1>1 DEF IInv, TypeOK
  <1>3. Histories BY <1>1 DEF Histories, IInv, TypeOK
  <1>4. QED BY <1>1, <1>2, <1>3, SameQueues, NothingNew

LEMMA DataStep ==
  ASSUME IInv, NEW h \in Host, NEW p \in net, p.dest = h,
         NEW packets, DataIn(h, p, packets), Emit(packets),
         UNCHANGED first_size
  PROVE  IInv'
  <1> DEFINE d == <<p.src, p.id, p.n>>
  <1>1. /\ p.ptype = "DATA" /\ delivered' = delivered \cup {d}
        /\ net' \in {net, net \cup {Ack(p)}}
        /\ running' \in {running, [running EXCEPT ![h] = FALSE]}
        /\ UNCHANGED <<transfers, timer_enabled, opened, finished>>
    BY DEF DataIn, Emit, Crash
  <1>2. p \in Packet /\ PacketOK(p) BY DEF IInv, TypeOK
  <1>3. /\ p.src \in Host /\ p.dest \in Host /\ p.id \in Nat \ {0}
        /\ p.n \in Int /\ Ack(p) \in Packet
    BY <1>2 DEF Packet, Ack
  <1>4. TypeOK'
    <2>1. d \in Host \X (Nat \ {0}) \X Int BY <1>3
    <2> HIDE DEF d
    <2>2. delivered' \subseteq Host \X (Nat \ {0}) \X Int
      BY <1>1, <2>1 DEF IInv, TypeOK
    <2>3. net' \subseteq Packet BY <1>1, <1>3 DEF IInv, TypeOK
    <2>4. running' \in [Host -> BOOLEAN] BY <1>1 DEF IInv, TypeOK
    <2>5. QED BY <1>1, <2>2, <2>3, <2>4 DEF IInv, TypeOK
  <1>5. Histories BY <1>1 DEF Histories, IInv, TypeOK
  <1>6. QueuesOK' /\ GoneStays BY <1>1, <1>4, <1>5, SameQueues
  <1>7. DeliveredOK(d)'
    <2>1. DeliveredOK(d) BY <1>1, <1>2 DEF PacketOK, DeliveredOK
    <2>2. QED BY <1>1, <1>3, <1>6, <2>1 DEF DeliveredOK, GoneStays
  <1>8. PacketOK(Ack(p))'
    <2>1. /\ Ack(p).ptype = "ACK" /\ Ack(p).dest = p.src
          /\ Ack(p).id = p.id /\ Ack(p).n + 1 = p.n
      BY <1>3 DEF Ack
    <2>2. QED BY <1>1, <2>1 DEF PacketOK
  <1>9. SizesOK' BY <1>1 DEF SizesOK, IInv
  <1>10. \A q \in net' \ net : PacketOK(q)'
    BY <1>1, <1>8 DEF PacketOK, Gone
  <1>11. \A e \in delivered' \ delivered : DeliveredOK(e)'
    BY <1>1, <1>7 DEF DeliveredOK, Gone
  <1>12. QED
    BY <1>1, <1>4, <1>5, <1>6, <1>9, <1>10, <1>11, Assemble

(* An acknowledgement the first transfer accepts belongs to it: had a      *)
(* later one been sent, the first would be gone.                           *)
LEMMA AckStep ==
  ASSUME IInv, NEW h \in Host, NEW p \in net, p.dest = h,
         AckIn(h, p), Emit({}), UNCHANGED first_size
  PROVE  IInv'
  <1>1. UNCHANGED <<opened, delivered, finished, net, first_size>>
    BY DEF AckIn, Crash, Emit
  <1>2. Histories BY <1>1 DEF Histories, IInv, TypeOK
  <1>3. CASE transfers[h] # <<>>
    <2>1. PICK t \in Transfer : t = Head(transfers[h]) /\ SlotOK(h, 1, t)
      BY <1>3, Front
    <2> DEFINE u == IF Accepts(t, p.n) THEN verifyAck(t) ELSE Rewind(t)
    <2>2. /\ transfers' = [transfers EXCEPT ![h] = [@ EXCEPT ![1] = u]]
          /\ UNCHANGED running
      BY <1>3, <2>1 DEF AckIn
    <2> timer_enabled' \in [Host -> BOOLEAN]
      <3> DEFINE b == timer_enabled[h] /\ ~Accepts(t, p.n)
      <3>1. b \in BOOLEAN BY DEF IInv, TypeOK, Accepts
      <3>2. timer_enabled' = [timer_enabled EXCEPT ![h] = b]
        BY <1>3, <2>1 DEF AckIn, TimerAfterAck
      <3> HIDE DEF b
      <3>3. QED BY <3>1, <3>2 DEF IInv, TypeOK
    <2>3. Updates(h, t, u)
      <3>1. CASE Accepts(t, p.n)
        <4>1. /\ u \in Transfer /\ CountersOK(u) /\ u.id = t.id
              /\ u.num_packets = t.num_packets
              /\ u.current_ack = t.current_ack + 1
              /\ u.current_seq = t.current_seq
          BY <2>1, <3>1, AckCounters DEF SlotOK
        <4>2. ASSUME u.id = 1 PROVE AckSound(h, u)
          <5>1. /\ p.ptype = "ACK" /\ PacketOK(p) /\ p \in Packet
                /\ p.n = t.current_ack + 1
            BY <3>1 DEF AckIn, IInv, TypeOK, Accepts
          <5> DEFINE d == <<h, p.id, p.n + 1>>
          <5>2. d \in delivered BY <5>1 DEF PacketOK
          <5>3. DeliveredOK(d) BY <5>2 DEF IInv
          <5>4. ~Gone(h)
            <6>1. t.id = 1 BY <4>1, <4>2
            <6>2. transfers[h] \in Seq(Transfer) BY DEF IInv, TypeOK
            <6>3. 1 \in 1..Len(transfers[h]) /\ transfers[h][1] = t
              BY <1>3, <2>1, <6>2
            <6>4. QED BY <6>1, <6>3 DEF Gone
          <5>5. /\ p.id = 1 /\ p.n + 1 \in 1..first_size[h]
            BY <5>3, <5>4 DEF DeliveredOK
          <5>6. /\ t.num_packets = first_size[h] /\ AckSound(h, t)
            BY <2>1, <4>1, <4>2 DEF SlotOK
          <5>7. /\ t.current_ack \in Int /\ t.num_packets \in Nat
                /\ p.n \in Int
            BY <5>1, Fields DEF Packet
          <5>8. \A s \in 1..(u.current_ack + 1) : <<h, 1, s>> \in delivered
            BY <4>1, <5>1, <5>2, <5>5, <5>6, <5>7 DEF AckSound
          <5>9. u.current_ack + 1 <= u.num_packets
            BY <4>1, <5>1, <5>5, <5>6, <5>7
          <5>10. QED BY <4>1, <5>6, <5>8, <5>9 DEF AckSound
        <4>3. QED BY <1>1, <4>1, <4>2 DEF Updates, AckSound
      <3>2. CASE ~Accepts(t, p.n)
        <4>1. /\ u \in Transfer /\ CountersOK(u) /\ u.id = t.id
              /\ u.num_packets = t.num_packets
              /\ u.current_ack = t.current_ack
              /\ u.current_seq = t.current_ack + 1
          BY <2>1, <3>2, RewindCounters DEF SlotOK
        <4>2. QED
          BY <1>1, <2>1, <4>1, Fields DEF Updates, SlotOK, AckSound
      <3>3. QED BY <3>1, <3>2
    <2> HIDE DEF u
    <2>4. TypeOK'
      <3>1. [transfers[h] EXCEPT ![1] = u] \in Seq(Transfer)
        BY <1>3, <2>3, ReplaceFirst DEF IInv, TypeOK, Updates
      <3>2. QED BY <1>1, <2>2, <3>1 DEF IInv, TypeOK
    <2>5. QueuesOK' /\ GoneStays
      BY <1>2, <1>3, <2>1, <2>2, <2>3, <2>4, FrontReplaced
    <2>6. QED BY <1>1, <2>4, <2>5, NothingNew
  <1>4. CASE transfers[h] = <<>>
    <2>1. TypeOK' /\ UNCHANGED transfers
      BY <1>1, <1>4 DEF IInv, TypeOK, AckIn, Crash
    <2>2. QueuesOK' /\ GoneStays BY <1>2, <2>1, SameQueues
    <2>3. QED BY <1>1, <2>1, <2>2, NothingNew
  <1>5. QED BY <1>3, <1>4

LEMMA RecieveStep ==
  ASSUME IInv, NEW h \in Host, Recieve(h)
  PROVE  IInv'
  BY AckStep, EotStep, DataStep DEF Recieve, recieve_data

(* transmit_data ends the process or, for its front transfer t, drops it   *)
(* or reads its next packet; it completes a transfer whose EOT it sends.   *)
Transmitted(h, t, ptype, status) ==
  /\ ptype \in NextType(t) /\ status \in write_udp_socket(t, ptype)
  /\ Sent(h, t, ptype, status)
  /\ net' = net \cup OnWire(h, t, ptype, status)

LEMMA TransmitEffect ==
  ASSUME NEW h \in Host, Transmit(h), NEW t, t = Head(transfers[h])
  PROVE  \/ /\ \E ptype, status : Transmitted(h, t, ptype, status)
            /\ UNCHANGED <<running, opened, delivered, first_size>>
         \/ /\ running' = [running EXCEPT ![h] = FALSE]
            /\ UNCHANGED <<transfers, timer_enabled, opened, delivered,
                           finished, net, first_size>>
  <1>1. PICK packets : transmit_data(h, packets) /\ Emit(packets)
    BY DEF Transmit
  <1>2. CASE Crash(h) /\ packets = {} /\ UNCHANGED delivered
    BY <1>1, <1>2 DEF Crash, Emit, Transmit
  <1>3. CASE ~(Crash(h) /\ packets = {} /\ UNCHANGED delivered)
    <2>1. \E ptype \in NextType(t) : \E status \in write_udp_socket(t, ptype) :
            Transmitted(h, t, ptype, status)
      BY <1>1, <1>3 DEF transmit_data, Emit, Transmitted
    <2>2. UNCHANGED <<running, opened, delivered, first_size>>
      BY <1>1, <1>3 DEF Transmit, transmit_data
    <2>3. QED BY <2>1, <2>2
  <1>4. QED BY <1>2, <1>3

LEMMA TransmittedStep ==
  ASSUME IInv, NEW h \in Host, transfers[h] # <<>>,
         \E ptype, status : Transmitted(h, Head(transfers[h]), ptype, status),
         UNCHANGED <<running, opened, delivered, first_size>>
  PROVE  IInv'
  <1>1. /\ transfers[h] # <<>>
        /\ UNCHANGED <<running, opened, delivered, first_size>>
    OBVIOUS
  <1>2. Histories BY <1>1 DEF Histories, IInv, TypeOK
  <1>3. PICK t \in Transfer : t = Head(transfers[h]) /\ SlotOK(h, 1, t)
    BY <1>1, Front
  <1> DEFINE f == <<h, t.id, t.num_packets>>
             u == AfterRead(t)
  <1>4. PICK ptype, status : Transmitted(h, t, ptype, status)
    BY <1>3
  <1>5. /\ t.id \in Nat \ {0} /\ t.ipdest \in Host /\ t.num_packets \in Nat
        /\ t.current_ack \in Int /\ t.current_seq \in Int
    BY Fields
  <1>6. /\ u \in Transfer /\ CountersOK(u) /\ u.id = t.id
        /\ u.num_packets = t.num_packets /\ u.current_ack = t.current_ack
        /\ u.current_seq <= t.current_seq \/ u.current_seq <= t.num_packets + 1
    BY <1>3, ReadCounters DEF SlotOK
  <1>7. Updates(h, t, u)
    <2>1. u.current_seq \in Int BY <1>6, Fields
    <2>2. u.id = 1 => AckSound(h, u)
      BY <1>3, <1>5, <1>6, <2>1 DEF SlotOK, AckSound
    <2>3. QED BY <1>1, <1>6, <2>2 DEF Updates, AckSound
  <1>8. ASSUME ptype = "EOT", status = 0
        PROVE  t.current_ack + 1 = t.num_packets
    BY <1>4, <1>8 DEF write_udp_socket, Withholds, Transmitted, Sent, OnWire
  <1>9. TypeOK'
    <2>1. transfers' \in [Host -> Seq(Transfer)]
      <3>1. /\ [transfers[h] EXCEPT ![1] = u] \in Seq(Transfer)
            /\ Tail(transfers[h]) \in Seq(Transfer)
        BY <1>1, <1>6, ReplaceFirst, DropFirst DEF IInv, TypeOK
      <3>2. \E s \in {Tail(transfers[h]), [transfers[h] EXCEPT ![1] = u]} :
              transfers' = [transfers EXCEPT ![h] = s]
        BY <1>4 DEF Transmitted, Sent, OnWire
      <3> HIDE DEF u
      <3>3. QED BY <3>1, <3>2 DEF IInv, TypeOK
    <2>2. timer_enabled' \in [Host -> BOOLEAN]
      <3> DEFINE b == ptype = "DATA" /\ status = 0
      <3>1. timer_enabled' = [timer_enabled EXCEPT ![h] = @ \/ b]
        BY <1>4 DEF Transmitted, Sent, OnWire
      <3>2. b \in BOOLEAN OBVIOUS
      <3> HIDE DEF b
      <3>3. QED BY <3>1, <3>2 DEF IInv, TypeOK
    <2>3. finished' \subseteq Host \X (Nat \ {0}) \X Nat
      <3>1. f \in Host \X (Nat \ {0}) \X Nat BY <1>5
      <3>2. finished' \in {finished, finished \cup {f}}
        BY <1>4 DEF Transmitted, Sent, OnWire
      <3> HIDE DEF f
      <3>3. QED BY <3>1, <3>2 DEF IInv, TypeOK
    <2>4. net' \subseteq Packet
      <3>1. Eot(h, t) \in Packet /\ Data(h, t) \in Packet
        BY <1>5 DEF Eot, Data, Packet
      <3>2. QED BY <1>4, <3>1 DEF IInv, TypeOK, Transmitted, Sent, OnWire
    <2>5. QED BY <1>1, <2>1, <2>2, <2>3, <2>4 DEF IInv, TypeOK
  <1>10. /\ QueuesOK' /\ GoneStays
         /\ ptype = "EOT" /\ status = 0 /\ t.id = 1 => Gone(h)'
    <2>1. CASE status = -1 \/ (ptype = "EOT" /\ status = 0)
      <3>1. transfers' = [transfers EXCEPT ![h] = Tail(@)]
        BY <1>4, <2>1 DEF Transmitted, Sent, OnWire
      <3>2. QED BY <1>1, <1>2, <1>3, <1>9, <3>1, FrontDropped
    <2>2. CASE ~(status = -1 \/ (ptype = "EOT" /\ status = 0))
      <3>1. transfers' = [transfers EXCEPT ![h] = [@ EXCEPT ![1] = u]]
        BY <1>4, <2>2 DEF Transmitted, Sent, OnWire
      <3>2. QED BY <1>1, <1>2, <1>3, <1>7, <1>9, <2>2, <3>1, FrontReplaced
    <2>3. QED BY <2>1, <2>2
  <1>11. /\ t.id <= opened'[h] /\ opened'[h] = opened[h]
         /\ t.id = 1 => /\ t.num_packets = first_size'[h] /\ AckSound(h, t)'
                        /\ t.num_packets = first_size[h] /\ AckSound(h, t)
    BY <1>1, <1>3 DEF SlotOK, AckSound
  <1>12. t.id # 1 => Gone(h)'
    <2>1. transfers[h] \in Seq(Transfer) BY DEF IInv, TypeOK
    <2>2. transfers[h][1] = t BY <1>1, <1>3, <2>1
    <2>3. \A i \in 1..Len(transfers[h]) : transfers[h][i].id = 1 => i = 1
      BY DEF IInv, QueuesOK, SlotOK
    <2>4. opened[h] >= 1 BY <1>3, <1>5 DEF SlotOK, IInv, TypeOK
    <2>5. t.id # 1 => Gone(h) BY <2>2, <2>3, <2>4 DEF Gone
    <2>6. QED BY <1>10, <2>5 DEF GoneStays
  <1>13. \A p \in net' \ net : PacketOK(p)'
    <2>1. SUFFICES ASSUME NEW p, status = 0, ~Wild(t),
                          p = IF ptype = "EOT" THEN Eot(h, t) ELSE Data(h, t)
                   PROVE  PacketOK(p)'
      BY <1>4 DEF PacketOK, Gone, Transmitted, Sent, OnWire
    <2>2. CASE ptype = "EOT"
      <3>1. /\ p.ptype = "EOT" /\ p.src = h /\ p.id = t.id
            /\ p.n = t.num_packets
        BY <2>1, <2>2 DEF Eot
      <3>2. t.id = 1 => \A s \in 1..t.num_packets : <<h, 1, s>> \in delivered'
        BY <1>8, <1>11, <2>1, <2>2 DEF AckSound
      <3>3. QED BY <1>11, <1>12, <3>1, <3>2 DEF PacketOK
    <2>3. CASE ptype # "EOT"
      <3>1. /\ p.ptype = "DATA" /\ p.src = h /\ p.id = t.id
            /\ p.n = t.current_seq
        BY <2>1, <2>3 DEF Data
      <3>2. InWindow(t) /\ t.current_seq # 0
        BY <1>4, <2>1, <2>3 DEF NextType, Wild, Transmitted, Sent, OnWire
      <3>3. t.current_seq \in 1..t.num_packets
        BY <1>3, <1>5, <3>2 DEF InWindow, SlotOK, CountersOK
      <3>4. QED BY <1>11, <1>12, <3>1, <3>3 DEF PacketOK
    <2>4. QED BY <2>2, <2>3
  <1>14. \A g \in finished' \ finished : FinishedOK(g)'
    <2>1. SUFFICES ASSUME ptype = "EOT", status = 0 PROVE FinishedOK(f)'
      BY <1>4 DEF FinishedOK, Gone, Transmitted, Sent, OnWire
    <2>2. t.id = 1 => \A s \in 1..t.num_packets : <<h, 1, s>> \in delivered'
      BY <1>8, <1>11, <2>1 DEF AckSound
    <2>3. QED BY <1>10, <1>11, <2>1, <2>2 DEF FinishedOK
  <1>15. SizesOK' BY <1>1 DEF SizesOK, IInv
  <1>16. QED BY <1>1, <1>2, <1>9, <1>10, <1>13, <1>14, <1>15, Assemble

LEMMA TransmitStep ==
  ASSUME IInv, NEW h \in Host, Transmit(h)
  PROVE  IInv'
  <1>1. transfers[h] # <<>> BY DEF Transmit, transmit_data
  <1>2. PICK t : t = Head(transfers[h]) OBVIOUS
  <1>3. CASE /\ \E ptype, status : Transmitted(h, t, ptype, status)
             /\ UNCHANGED <<running, opened, delivered, first_size>>
    BY <1>1, <1>2, <1>3, TransmittedStep
  <1>4. CASE /\ running' = [running EXCEPT ![h] = FALSE]
             /\ UNCHANGED <<transfers, timer_enabled, opened, delivered,
                            finished, net, first_size>>
    <2>1. TypeOK' BY <1>4 DEF IInv, TypeOK
    <2>2. Histories BY <1>4 DEF Histories, IInv, TypeOK
    <2>3. QED BY <1>4, <2>1, <2>2, SameQueues, NothingNew
  <1>5. QED BY <1>2, <1>3, <1>4, TransmitEffect

-----------------------------------------------------------------------------
LEMMA Initially == Init => IInv
  BY DEF Init, ClientInit, IInv, TypeOK, QueuesOK, SizesOK

LEMMA Inductive == IInv /\ [Next]_vars => IInv'
  <1>1. ASSUME IInv, Next PROVE IInv'
    <2>1. PICK h \in Host :
            Send(h) \/ Quit(h) \/ Transmit(h) \/ Recieve(h) \/ Timeout(h)
      BY <1>1 DEF Next
    <2>2. CASE Send(h) BY <1>1, <2>2, SendStep
    <2>3. CASE Quit(h) BY <1>1, <2>3, QuitStep
    <2>4. CASE Transmit(h) BY <1>1, <2>4, TransmitStep
    <2>5. CASE Recieve(h) BY <1>1, <2>5, RecieveStep
    <2>6. CASE Timeout(h) BY <1>1, <2>6, TimeoutStep
    <2>7. QED BY <2>1, <2>2, <2>3, <2>4, <2>5, <2>6
  <1>2. ASSUME IInv, UNCHANGED vars PROVE IInv'
    BY <1>2 DEF vars, IInv, TypeOK, QueuesOK, SlotOK, AckSound, Gone, SizesOK,
                PacketOK, DeliveredOK, FinishedOK
  <1>3. QED BY <1>1, <1>2

LEMMA Invariance == Spec => []IInv
  BY Initially, Inductive, PTL DEF Spec

LEMMA Implied == IInv => CountersAgree /\ FirstAcksSound /\ FirstEotSound
  <1>1. ASSUME IInv, NEW h \in Host, NEW t \in Queued(h)
        PROVE  CountersOK(t) /\ (t.id = 1 => AckSound(h, t))
    <2>1. PICK i \in 1..Len(transfers[h]) : t = transfers[h][i]
      BY DEF Queued
    <2>2. QED BY <1>1, <2>1 DEF IInv, QueuesOK, SlotOK
  <1>2. ASSUME IInv PROVE FirstEotSound
    BY <1>2 DEF IInv, PacketOK, FirstEotSound
  <1>3. QED BY <1>1, <1>2 DEF CountersAgree, FirstAcksSound

(* The windows, queues and packets under way keep their types: a packet    *)
(* names a transfer its sender opened and a number below its size.         *)
THEOREM NetworkTypes == Spec => []TypeOK
  <1>1. IInv => TypeOK BY DEF IInv
  <1> QED BY <1>1, Invariance, PTL

(* The counters of every transfer agree, for all windows and sizes: the    *)
(* window slides past every acknowledgement and the read position never    *)
(* leaves it.                                                              *)
THEOREM Counters == Spec => []CountersAgree
  BY Implied, Invariance, PTL

(* Every acknowledgement a host's first transfer has counted is for a      *)
(* packet its receiver took in, and an EOT of it is sent only after all.   *)
THEOREM FirstTransferSound == Spec => [](FirstAcksSound /\ FirstEotSound)
  BY Implied, Invariance, PTL
-----------------------------------------------------------------------------
(* The client over any network implements ReliableTransfer for the first   *)
(* transfer of every host.  The invariant gives what a step needs to know  *)
(* of the histories; what is left is how a step changes the abstract phase. *)
(* The first transfer of every host has moved as little as its histories. *)
Same(g) == /\ opened'[g] = opened[g] /\ first_size'[g] = first_size[g]
           /\ HasFirst(g)' <=> HasFirst(g)
           /\ <<g, 1, first_size[g]>> \in finished'
                <=> <<g, 1, first_size[g]>> \in finished

LEMMA SamePhase ==
  ASSUME NEW g \in Host, Same(g)
  PROVE  FirstPhase(g)' = FirstPhase(g)
  BY DEF Same, FirstPhase

LEMMA SameGot ==
  ASSUME NEW g \in Host,
         \A e \in delivered' : e[1] = g /\ e[2] = 1 => e \in delivered,
         delivered \subseteq delivered'
  PROVE  FirstGot(g)' = FirstGot(g)
  BY DEF FirstGot

LEMMA MoreGot ==
  ASSUME NEW g \in Host, NEW x, x[1] = g, x[2] = 1,
         delivered' = delivered \cup {x}
  PROVE  FirstGot(g)' = FirstGot(g) \cup {x[3]}
  <1>1. {e \in delivered' : e[1] = g /\ e[2] = 1}
          = {e \in delivered : e[1] = g /\ e[2] = 1} \cup {x}
    OBVIOUS
  <1>2. \A F : {d[3] : d \in F \cup {x}} = {d[3] : d \in F} \cup {x[3]}
    OBVIOUS
  <1>3. QED BY <1>1, <1>2 DEF FirstGot

LEMMA Stutters ==
  ASSUME first_size' = first_size, delivered' = delivered,
         \A g \in Host : Same(g)
  PROVE  UNCHANGED Reliable!vars
  <1>1. \A g \in Host : FirstPhase(g)' = FirstPhase(g) BY SamePhase
  <1>2. \A g \in Host : FirstGot(g)' = FirstGot(g) BY DEF FirstGot
  <1>3. QED BY <1>1, <1>2 DEF Reliable!vars

(* How the queue changes decide whether the first transfer is in it. *)
LEMMA QueuedFirst ==
  ASSUME NEW g \in Host
  PROVE  /\ HasFirst(g) <=> \E i \in 1..Len(transfers[g]) :
                              transfers[g][i].id = 1
         /\ HasFirst(g)' <=> \E i \in 1..Len(transfers'[g]) :
                               transfers'[g][i].id = 1
  BY DEF HasFirst, Queued

LEMMA OtherQueues ==
  ASSUME NEW g \in Host, transfers'[g] = transfers[g]
  PROVE  HasFirst(g)' <=> HasFirst(g)
  BY QueuedFirst

LEMMA FirstReplaced ==
  ASSUME TypeOK, NEW h \in Host, transfers[h] # <<>>, NEW u \in Transfer,
         u.id = Head(transfers[h]).id,
         transfers' = [transfers EXCEPT ![h] = [@ EXCEPT ![1] = u]]
  PROVE  \A g \in Host : HasFirst(g)' <=> HasFirst(g)
  <1> DEFINE s == transfers[h]
  <1>1. /\ s \in Seq(Transfer) /\ s # <<>>
        /\ transfers'[h] = [s EXCEPT ![1] = u] /\ u.id = Head(s).id
        /\ \A g \in Host \ {h} : transfers'[g] = transfers[g]
    BY DEF TypeOK
  <1> HIDE DEF s
  <1>2. /\ Len(transfers'[h]) = Len(s) /\ 1 \in 1..Len(s)
        /\ \A i \in 1..Len(s) : transfers'[h][i] = IF i = 1 THEN u ELSE s[i]
    BY <1>1, ReplaceFirst
  <1>3. Head(s) = s[1] BY <1>1
  <1>4. \A i \in 1..Len(s) : transfers'[h][i].id = s[i].id
    BY <1>1, <1>2, <1>3
  <1>5. HasFirst(h)' <=> HasFirst(h) BY <1>2, <1>4, QueuedFirst DEF s
  <1>6. QED BY <1>1, <1>5, OtherQueues

LEMMA FirstDropped ==
  ASSUME TypeOK, NEW h \in Host, transfers[h] # <<>>,
         \A i \in 1..Len(transfers[h]) : transfers[h][i].id = 1 => i = 1,
         transfers' = [transfers EXCEPT ![h] = Tail(@)]
  PROVE  /\ \A g \in Host \ {h} : HasFirst(g)' <=> HasFirst(g)
         /\ ~HasFirst(h)'
         /\ HasFirst(h) <=> Head(transfers[h]).id = 1
  <1> DEFINE s == transfers[h]
  <1>1. /\ s \in Seq(Transfer) /\ s # <<>> /\ transfers'[h] = Tail(s)
        /\ \A g \in Host \ {h} : transfers'[g] = transfers[g]
        /\ \A i \in 1..Len(s) : s[i].id = 1 => i = 1
    BY DEF TypeOK
  <1> HIDE DEF s
  <1>2. /\ Len(s) \in Nat /\ Len(transfers'[h]) = Len(s) - 1
        /\ \A i \in 1..Len(transfers'[h]) : /\ transfers'[h][i] = s[i + 1]
                                            /\ i + 1 \in 1..Len(s)
    <2>1. /\ Len(s) \in Nat /\ Len(Tail(s)) = Len(s) - 1
          /\ \A i \in 1..Len(Tail(s)) : /\ Tail(s)[i] = s[i + 1]
                                        /\ i + 1 \in 1..Len(s)
      BY <1>1, DropFirst
    <2>2. QED BY <1>1, <2>1
  <1>3. ~HasFirst(h)'
    <2>1. ASSUME NEW i \in 1..Len(transfers'[h])
          PROVE  transfers'[h][i].id # 1
      <3>1. i + 1 \in 1..Len(s) /\ transfers'[h][i] = s[i + 1] BY <1>2
      <3>2. i + 1 # 1 BY <1>2
      <3>3. QED BY <1>1, <3>1, <3>2
    <2>2. QED BY <2>1, QueuedFirst
  <1>4. Head(s) = s[1] /\ 1 \in 1..Len(s) BY <1>1
  <1>5. HasFirst(h) <=> Head(s).id = 1
    BY <1>1, <1>4, QueuedFirst DEF s
  <1>6. QED BY <1>1, <1>3, <1>5, OtherQueues DEF s

LEMMA FirstAdded ==
  ASSUME TypeOK, NEW h \in Host, NEW u \in Transfer,
         transfers' = [transfers EXCEPT ![h] = Append(@, u)]
  PROVE  /\ \A g \in Host \ {h} : HasFirst(g)' <=> HasFirst(g)
         /\ HasFirst(h)' <=> HasFirst(h) \/ u.id = 1
  <1> DEFINE s == transfers[h]
  <1>1. /\ s \in Seq(Transfer) /\ transfers'[h] = Append(s, u)
        /\ \A g \in Host \ {h} : transfers'[g] = transfers[g]
    BY DEF TypeOK
  <1> HIDE DEF s
  <1>2. /\ Len(transfers'[h]) = Len(s) + 1 /\ Len(s) \in Nat
        /\ \A i \in 1..(Len(s) + 1) :
             transfers'[h][i] = IF i = Len(s) + 1 THEN u ELSE s[i]
    <2>1. /\ Len(Append(s, u)) = Len(s) + 1 /\ Len(s) \in Nat
          /\ \A i \in 1..(Len(s) + 1) :
               Append(s, u)[i] = IF i = Len(s) + 1 THEN u ELSE s[i]
      BY <1>1, AddLast
    <2>2. QED BY <1>1, <2>1
  <1>3. HasFirst(h)' => HasFirst(h) \/ u.id = 1
    <2>1. ASSUME NEW i \in 1..(Len(s) + 1), transfers'[h][i].id = 1, u.id # 1
          PROVE  i \in 1..Len(s) /\ s[i].id = 1
      BY <1>2, <2>1
    <2>2. QED BY <1>2, <2>1, QueuedFirst DEF s
  <1>4. HasFirst(h) => HasFirst(h)'
    <2>1. ASSUME NEW i \in 1..Len(s), s[i].id = 1
          PROVE  i \in 1..(Len(s) + 1) /\ transfers'[h][i].id = 1
      BY <1>2, <2>1
    <2>2. QED BY <1>2, <2>1, QueuedFirst DEF s
  <1>5. u.id = 1 => HasFirst(h)'
    <2>1. Len(s) + 1 \in 1..(Len(s) + 1) /\ transfers'[h][Len(s) + 1] = u
      BY <1>2
    <2>2. QED BY <1>2, <2>1, QueuedFirst
  <1>6. QED BY <1>1, <1>3, <1>4, <1>5, OtherQueues

-----------------------------------------------------------------------------
(* A step either leaves the abstract transfer of every host alone or is    *)
(* one of its actions.                                                     *)
Maps == [Reliable!Next]_(Reliable!vars)

LEMMA StuttersMaps ==
  ASSUME first_size' = first_size, delivered' = delivered,
         \A g \in Host : Same(g)
  PROVE  Maps
  BY Stutters DEF Maps

LEMMA FirstInQueue ==
  ASSUME IInv, NEW h \in Host, HasFirst(h)
  PROVE  /\ opened[h] >= 1 /\ FirstPhase(h) = "open"
         /\ \A n : <<h, 1, n>> \notin finished
  <1>1. PICK i \in 1..Len(transfers[h]) : transfers[h][i].id = 1
    BY QueuedFirst
  <1>2. opened[h] >= 1
    BY <1>1 DEF IInv, QueuesOK, SlotOK
  <1>3. ~Gone(h) BY <1>1 DEF Gone
  <1>4. ASSUME NEW n, <<h, 1, n>> \in finished PROVE FALSE
    <2>1. FinishedOK(<<h, 1, n>>) BY <1>4 DEF IInv
    <2>2. QED BY <1>3, <2>1 DEF FinishedOK
  <1>5. opened[h] # 0 BY <1>2
  <1>6. QED BY <1>2, <1>4, <1>5 DEF FirstPhase

(* A step of the queues and timers only. *)
LEMMA QueueMaps ==
  ASSUME UNCHANGED <<opened, delivered, finished, first_size>>,
         \A g \in Host : HasFirst(g)' <=> HasFirst(g)
  PROVE  Maps
  BY StuttersMaps DEF Same

LEMMA TimeoutMaps ==
  ASSUME IInv, NEW h \in Host, Timeout(h)
  PROVE  Maps
  <1>1. UNCHANGED <<opened, delivered, finished, first_size>>
    BY DEF Timeout, timeout, Crash
  <1>2. \A g \in Host : HasFirst(g)' <=> HasFirst(g)
    <2>1. CASE transfers[h] # <<>>
      <3>1. PICK t \in Transfer : t = Head(transfers[h]) /\ SlotOK(h, 1, t)
        BY <2>1, Front
      <3>2. transfers' = [transfers EXCEPT ![h] = [@ EXCEPT ![1] = Rewind(t)]]
        BY <2>1, <3>1 DEF Timeout, timeout
      <3>3. Rewind(t) \in Transfer /\ Rewind(t).id = t.id
        BY <3>1, RewindCounters DEF SlotOK
      <3>4. QED BY <2>1, <3>1, <3>2, <3>3, FirstReplaced DEF IInv
    <2>2. CASE transfers[h] = <<>>
      <3>1. UNCHANGED transfers BY <2>2 DEF Timeout, timeout, Crash
      <3>2. QED BY <3>1, OtherQueues
    <2>3. QED BY <2>1, <2>2
  <1>3. QED BY <1>1, <1>2, QueueMaps

LEMMA AckMaps ==
  ASSUME IInv, NEW h \in Host, NEW p, AckIn(h, p), UNCHANGED first_size
  PROVE  Maps
  <1>1. UNCHANGED <<opened, delivered, finished, first_size>>
    BY DEF AckIn, Crash
  <1>2. \A g \in Host : HasFirst(g)' <=> HasFirst(g)
    <2>1. CASE transfers[h] # <<>>
      <3>1. PICK t \in Transfer : t = Head(transfers[h]) /\ SlotOK(h, 1, t)
        BY <2>1, Front
      <3>2. \E u \in {Rewind(t), verifyAck(t)} :
              transfers' = [transfers EXCEPT ![h] = [@ EXCEPT ![1] = u]]
        BY <2>1, <3>1 DEF AckIn
      <3>3. /\ Rewind(t) \in Transfer /\ Rewind(t).id = t.id
            /\ verifyAck(t) \in Transfer /\ verifyAck(t).id = t.id
        BY <3>1, RewindCounters, AckCounters DEF SlotOK
      <3>4. PICK u \in Transfer :
              /\ u.id = t.id
              /\ transfers' = [transfers EXCEPT ![h] = [@ EXCEPT ![1] = u]]
        BY <3>2, <3>3
      <3>5. QED BY <2>1, <3>1, <3>4, FirstReplaced DEF IInv
    <2>2. CASE transfers[h] = <<>>
      <3>1. UNCHANGED transfers BY <2>2 DEF AckIn, Crash
      <3>2. QED BY <3>1, OtherQueues
    <2>3. QED BY <2>1, <2>2
  <1>3. QED BY <1>1, <1>2, QueueMaps

(* A packet of a first transfer is delivered; one of a later transfer is   *)
(* none of the abstraction's business.                                     *)
LEMMA DataMaps ==
  ASSUME IInv, NEW h \in Host, NEW p \in net, NEW packets,
         DataIn(h, p, packets), UNCHANGED first_size
  PROVE  Maps
  <1> DEFINE d == <<p.src, p.id, p.n>>
             q == p.src
  <1>1. /\ p.ptype = "DATA" /\ delivered' = delivered \cup {d}
        /\ UNCHANGED <<transfers, opened, finished, first_size>>
    BY DEF DataIn, Crash
  <1>2. p \in Packet /\ PacketOK(p) /\ q \in Host /\ p.id \in Nat \ {0}
    BY DEF IInv, TypeOK, Packet
  <1>3. \A g \in Host : Same(g)
    BY <1>1, OtherQueues DEF Same
  <1>4. CASE p.id = 1
    <2>1. p.n \in 1..first_size[q] /\ opened[q] # 0
      <3>1. 1 <= opened[q] /\ p.n \in 1..first_size[q]
        BY <1>1, <1>2, <1>4 DEF PacketOK
      <3>2. QED BY <3>1
    <2>2. \A g \in Host : FirstPhase(g)' = FirstPhase(g)
      BY <1>3, SamePhase
    <2>3. FirstPhase(q) # "idle" BY <2>1 DEF FirstPhase
    <2>4. FirstGot(q)' = FirstGot(q) \cup {p.n}
      <3>1. d[1] = q /\ d[2] = 1 /\ d[3] = p.n BY <1>4
      <3>2. delivered' = delivered \cup {d} /\ q \in Host BY <1>1, <1>2
      <3> HIDE DEF d, q
      <3>3. FirstGot(q)' = FirstGot(q) \cup {d[3]} BY <3>1, <3>2, MoreGot
      <3>4. QED BY <3>1, <3>3
    <2>5. \A g \in Host \ {q} : FirstGot(g)' = FirstGot(g)
      <3>1. ASSUME NEW g \in Host \ {q} PROVE FirstGot(g)' = FirstGot(g)
        <4>1. d[1] # g BY <3>1
        <4>2. QED BY <1>1, <4>1, SameGot
      <3>2. QED BY <3>1
    <2>6. Reliable!Deliver(q)
      BY <1>1, <1>2, <2>1, <2>2, <2>3, <2>4, <2>5 DEF Reliable!Deliver
    <2>7. QED BY <1>2, <2>6 DEF Maps, Reliable!Next
  <1>5. CASE p.id # 1
    <2>1. \A g \in Host : FirstGot(g)' = FirstGot(g)
      <3>1. d[2] # 1 BY <1>5
      <3>2. QED BY <1>1, <3>1, SameGot
    <2>2. \A g \in Host : FirstPhase(g)' = FirstPhase(g)
      BY <1>3, SamePhase
    <2>3. UNCHANGED Reliable!vars BY <1>1, <2>1, <2>2 DEF Reliable!vars
    <2>4. QED BY <2>3 DEF Maps
  <1>6. QED BY <1>4, <1>5

LEMMA SendMaps ==
  ASSUME IInv, NEW h \in Host, Send(h)
  PROVE  Maps
  <1>1. PICK dest \in Host \ {h}, n \in Sizes, w \in Windows :
          /\ send(h, dest, n, w)
          /\ first_size' = IF opened[h] = 0 THEN [first_size EXCEPT ![h] = n]
                                            ELSE first_size
    BY DEF Send
  <1>2. opened \in [Host -> Nat] /\ first_size \in [Host -> Nat]
    BY DEF IInv, TypeOK
  <1> DEFINE id == opened[h] + 1
  <1>3. PICK u \in Transfer : u = NewTransfer(id, dest, n, w)
    <2>1. id \in Nat \ {0} BY <1>2
    <2> HIDE DEF id
    <2>2. QED BY <2>1, NewCounters
  <1>4. /\ u.id = id
        /\ transfers' = [transfers EXCEPT ![h] = Append(@, u)]
        /\ opened' = [opened EXCEPT ![h] = id]
        /\ UNCHANGED <<delivered, finished>>
    BY <1>1, <1>3 DEF send, NewTransfer
  <1>5. /\ \A g \in Host \ {h} : HasFirst(g)' <=> HasFirst(g)
        /\ HasFirst(h)' <=> HasFirst(h) \/ u.id = 1
    BY <1>4, FirstAdded DEF IInv
  <1>6. \A g \in Host \ {h} : Same(g)
    BY <1>1, <1>2, <1>4, <1>5 DEF Same
  <1>7. CASE opened[h] = 0
    <2>1. /\ FirstPhase(h) = "idle" /\ FirstPhase(h)' = "open"
          /\ first_size' = [first_size EXCEPT ![h] = n]
      BY <1>1, <1>2, <1>4, <1>5, <1>7 DEF FirstPhase
    <2>2. \A g \in Host \ {h} : FirstPhase(g)' = FirstPhase(g)
      BY <1>6, SamePhase
    <2>3. \A g \in Host : FirstGot(g)' = FirstGot(g)
      BY <1>4 DEF FirstGot
    <2>4. Reliable!Open(h) BY <2>1, <2>2, <2>3 DEF Reliable!Open
    <2>5. QED BY <2>4 DEF Maps, Reliable!Next
  <1>8. CASE opened[h] # 0
    <2>1. u.id # 1 BY <1>2, <1>4, <1>8
    <2>2. first_size' = first_size BY <1>1, <1>8
    <2>3. HasFirst(h)' <=> HasFirst(h) BY <1>5, <2>1
    <2>4. FirstPhase(h)' = FirstPhase(h)
      <3>1. opened'[h] # 0 BY <1>2, <1>4
      <3>2. QED BY <1>4, <1>8, <2>2, <2>3, <3>1 DEF FirstPhase
    <2>5. \A g \in Host : FirstPhase(g)' = FirstPhase(g)
      BY <1>6, <2>4, SamePhase
    <2>6. \A g \in Host : FirstGot(g)' = FirstGot(g)
      BY <1>4 DEF FirstGot
    <2>7. UNCHANGED Reliable!vars BY <2>2, <2>5, <2>6 DEF Reliable!vars
    <2>8. QED BY <2>7 DEF Maps
  <1>9. QED BY <1>7, <1>8

(* The EOT of a first transfer completes it, a failed send abandons it.    *)
LEMMA TransmittedMaps ==
  ASSUME IInv, NEW h \in Host, transfers[h] # <<>>,
         \E ptype, status : Transmitted(h, Head(transfers[h]), ptype, status),
         UNCHANGED <<running, opened, delivered, first_size>>
  PROVE  Maps
  <1>1. /\ transfers[h] # <<>> /\ transfers[h] \in Seq(Transfer)
        /\ UNCHANGED <<opened, delivered, first_size>>
    BY DEF IInv, TypeOK
  <1>2. PICK t \in Transfer : t = Head(transfers[h]) /\ SlotOK(h, 1, t)
    BY <1>1, Front
  <1> DEFINE f == <<h, t.id, t.num_packets>>
             u == AfterRead(t)
  <1>3. PICK ptype, status : Transmitted(h, t, ptype, status)
    BY <1>2
  <1>4. u \in Transfer /\ u.id = t.id
    BY <1>2, ReadCounters DEF SlotOK
  <1>5. \A g \in Host : FirstGot(g)' = FirstGot(g)
    BY <1>1 DEF FirstGot
  <1>6. CASE ~(status = -1 \/ (ptype = "EOT" /\ status = 0))
    <2>1. /\ transfers' = [transfers EXCEPT ![h] = [@ EXCEPT ![1] = u]]
          /\ finished' = finished
      BY <1>3, <1>6 DEF Transmitted, Sent
    <2>2. \A g \in Host : HasFirst(g)' <=> HasFirst(g)
      BY <1>1, <1>2, <1>4, <2>1, FirstReplaced DEF IInv
    <2>3. QED BY <1>1, <2>1, <2>2, QueueMaps
  <1>7. CASE status = -1 \/ (ptype = "EOT" /\ status = 0)
    <2>1. /\ transfers' = [transfers EXCEPT ![h] = Tail(@)]
          /\ finished' = IF ptype = "EOT" /\ status = 0
                         THEN finished \cup {f} ELSE finished
      BY <1>3, <1>7 DEF Transmitted, Sent
    <2>2. \A i \in 1..Len(transfers[h]) : transfers[h][i].id = 1 => i = 1
      BY DEF IInv, QueuesOK, SlotOK
    <2>3. /\ \A g \in Host \ {h} : HasFirst(g)' <=> HasFirst(g)
          /\ ~HasFirst(h)' /\ (HasFirst(h) <=> t.id = 1)
      BY <1>1, <1>2, <2>1, <2>2, FirstDropped DEF IInv
    <2>4. \A g \in Host \ {h} : FirstPhase(g)' = FirstPhase(g)
      <3>1. ASSUME NEW g \in Host \ {h} PROVE Same(g)
        <4>1. f # <<g, 1, first_size[g]>> BY <3>1
        <4> HIDE DEF f
        <4>2. QED BY <1>1, <2>1, <2>3, <4>1 DEF Same
      <3>2. QED BY <3>1, SamePhase
    <2>5. CASE t.id # 1
      <3>1. f # <<h, 1, first_size[h]>> BY <2>5
      <3> HIDE DEF f
      <3>2. Same(h) BY <1>1, <2>1, <2>3, <2>5, <3>1 DEF Same
      <3>3. \A g \in Host : FirstPhase(g)' = FirstPhase(g)
        BY <2>4, <3>2, SamePhase
      <3>4. UNCHANGED Reliable!vars BY <1>1, <1>5, <3>3 DEF Reliable!vars
      <3>5. QED BY <3>4 DEF Maps
    <2>6. CASE t.id = 1
      <3>1. /\ FirstPhase(h) = "open" /\ opened[h] >= 1
            /\ <<h, 1, first_size[h]>> \notin finished
        BY <2>3, <2>6, FirstInQueue
      <3>2. opened'[h] # 0 BY <1>1, <3>1
      <3>3. t.num_packets = first_size[h] /\ AckSound(h, t)
        BY <1>2, <2>6 DEF SlotOK
      <3>4. CASE ptype = "EOT" /\ status = 0
        <4>1. f = <<h, 1, first_size[h]>> BY <2>6, <3>3
        <4>2. FirstPhase(h)' = "completed"
          BY <1>1, <2>1, <2>3, <3>2, <3>4, <4>1 DEF FirstPhase
        <4>3. t.current_ack + 1 = t.num_packets
          BY <1>3, <3>4 DEF Transmitted, Sent, write_udp_socket, Withholds
        <4>4. \A s \in 1..first_size[h] : <<h, 1, s>> \in delivered
          BY <3>3, <4>3 DEF AckSound
        <4>5. 1..first_size[h] \subseteq FirstGot(h)
          <5>1. ASSUME NEW s \in 1..first_size[h] PROVE s \in FirstGot(h)
            <6>1. PICK d \in delivered : d = <<h, 1, s>> BY <4>4
            <6>2. d[1] = h /\ d[2] = 1 /\ d[3] = s BY <6>1
            <6>3. QED BY <6>2 DEF FirstGot
          <5>2. QED BY <5>1
        <4>6. FirstGot(h) \subseteq 1..first_size[h]
          BY DEF FirstGot, IInv, DeliveredOK
        <4>7. Reliable!Complete(h)
          BY <1>1, <1>5, <2>4, <3>1, <4>2, <4>5, <4>6 DEF Reliable!Complete
        <4>8. QED BY <4>7 DEF Maps, Reliable!Next
      <3>5. CASE ~(ptype = "EOT" /\ status = 0)
        <4>1. finished' = finished BY <2>1, <3>5
        <4>2. FirstPhase(h)' = "abandoned"
          BY <1>1, <2>3, <3>1, <3>2, <4>1 DEF FirstPhase
        <4>3. Reliable!Abandon(h)
          BY <1>1, <1>5, <2>4, <3>1, <4>2 DEF Reliable!Abandon
        <4>4. QED BY <4>3 DEF Maps, Reliable!Next
      <3>6. QED BY <3>4, <3>5
    <2>7. QED BY <2>5, <2>6
  <1>8. QED BY <1>6, <1>7

LEMMA TransmitMaps ==
  ASSUME IInv, NEW h \in Host, Transmit(h)
  PROVE  Maps
  <1>1. transfers[h] # <<>> BY DEF Transmit, transmit_data
  <1>2. PICK t : t = Head(transfers[h]) OBVIOUS
  <1>3. CASE /\ \E ptype, status : Transmitted(h, t, ptype, status)
             /\ UNCHANGED <<running, opened, delivered, first_size>>
    BY <1>1, <1>2, <1>3, TransmittedMaps
  <1>4. CASE UNCHANGED <<transfers, opened, delivered, finished, first_size>>
    BY <1>4, OtherQueues, QueueMaps
  <1>5. QED BY <1>2, <1>3, <1>4, TransmitEffect

-----------------------------------------------------------------------------
LEMMA InitMaps == Init => Reliable!Init
  <1>1. SUFFICES ASSUME Init PROVE Reliable!Init OBVIOUS
  <1>2. \A h \in Host : FirstPhase(h) = "idle" /\ FirstGot(h) = {}
    BY <1>1 DEF Init, ClientInit, FirstPhase, FirstGot
  <1>3. QED BY <1>1, <1>2 DEF Init, Reliable!Init

LEMMA StepMaps == IInv /\ [Next]_vars => Maps
  <1>1. ASSUME IInv, Next PROVE Maps
    <2>1. PICK h \in Host :
            Send(h) \/ Quit(h) \/ Transmit(h) \/ Recieve(h) \/ Timeout(h)
      BY <1>1 DEF Next
    <2>2. CASE Send(h) BY <1>1, <2>2, SendMaps
    <2>3. CASE Quit(h)
      <3>1. UNCHANGED <<transfers, opened, delivered, finished, first_size>>
        BY <2>3 DEF Quit, quit
      <3>2. QED BY <3>1, OtherQueues, QueueMaps
    <2>4. CASE Transmit(h) BY <1>1, <2>4, TransmitMaps
    <2>5. CASE Recieve(h)
      <3>1. PICK p \in net : \E packets : /\ recieve_data(h, p, packets)
                                         /\ UNCHANGED first_size
        BY <2>5 DEF Recieve
      <3>2. CASE AckIn(h, p) BY <1>1, <3>1, <3>2, AckMaps
      <3>3. CASE EotIn(h, p)
        <4>1. UNCHANGED <<transfers, opened, delivered, finished, first_size>>
          BY <3>1, <3>3 DEF EotIn
        <4>2. QED BY <4>1, OtherQueues, QueueMaps
      <3>4. ASSUME NEW packets, DataIn(h, p, packets) PROVE Maps
        BY <1>1, <3>1, <3>4, DataMaps
      <3>5. QED BY <3>1, <3>2, <3>3, <3>4 DEF recieve_data
    <2>6. CASE Timeout(h) BY <1>1, <2>6, TimeoutMaps
    <2>7. QED BY <2>1, <2>2, <2>3, <2>4, <2>5, <2>6
  <1>2. ASSUME UNCHANGED vars PROVE Maps
    <2>1. UNCHANGED <<transfers, opened, delivered, finished, first_size>>
      BY <1>2 DEF vars
    <2>2. QED BY <2>1, OtherQueues, QueueMaps
  <1>3. QED BY <1>1, <1>2

(* The first transfer of every host is reliable over any network: its      *)
(* packets arrive or it is not called completed.                           *)
THEOREM FirstTransferReliable == Spec => FirstIsReliable
  <1>1. Maps => [Reliable!Next]_(Reliable!vars) BY DEF Maps
  <1>2. QED
    BY <1>1, Invariance, InitMaps, StepMaps, PTL
    DEF Spec, FirstIsReliable, Reliable!Spec
=============================================================================
