----------------------------- MODULE Chat_proofs -----------------------------
(***************************************************************************)
(* The chat, for any number of users, channels and connections, as long as *)
(* a channel's row of the tables holds every connection that may join it.  *)
(***************************************************************************)
EXTENDS Chat, SequenceTheorems, FiniteSetTheorems, TLAPS

RowsFit == MaxConns <= MAX_CLIENTS

Row == 0..(MAX_CLIENTS - 1)

(* The packets.                                                            *)
Message == [kind : {"msg"}, from : Nat, n : Nat]
Answer == [kind : {"accepted", "rejected"}]
Spoken == [kind : {"msg"}, n : Nat]
Quit == [kind |-> "quit"]
JoinOf(w) == [kind |-> "join", channel |-> w.room, name |-> w.owner]
UpPacket == Spoken \cup {Quit} \cup [kind : {"join"}, channel : Name, name : User]

(* What is on its way to the server: messages numbered up to the last one  *)
(* said, then quits.                                                       *)
UpShape(s, m, said) ==
  /\ m \in 0..Len(s) /\ m <= said
  /\ \A j \in 1..Len(s) : s[j] = IF j <= m THEN [kind |-> "msg", n |-> said - m + j] ELSE Quit

(* What is on its way to the client: messages, behind at most one answer.  *)
DownShape(s) ==
  /\ s \in Seq(Message \cup Answer)
  /\ \A j \in 2..Len(s) : s[j] \in Message

Connection ==
  [owner : User, room : Name, up : Seq(UpPacket), down : Seq(Message \cup Answer), client : {"open", "gone", "reset"},
   server : {"open", "closed"}, said : Nat, heard : Seq(Message)]

(* Items of a channel's pipe: those that bring a connection, and these.    *)
Items == [item : {"add"}, conn : Nat, name : User] \cup [item : {"close", "users"}]
Adds(q) == {j \in 1..Len(q) : q[j].item = "add"}
ConnsOf(q) == {q[j].conn : j \in Adds(q)}
Increasing(q) == \A i, j \in Adds(q) : i < j => q[i].conn < q[j].conn

(* Connections accepted, and where one is: waiting to be read by the       *)
(* router, in a channel's pipe, or in the table.                           *)
Accepted == Len(wire) - Len(backlog)
Queued(c) == c > Accepted \/ c = router
Piped(k) == ConnsOf(channel_pipes[k])
Around(k) == Piped(k) \cup Members(k)

WireInv == wire \in Seq(Connection) /\ Len(wire) <= MaxConns

RouterInv ==
  /\ server \in {"up", "exited", "killed"}
  /\ open_channels \in Nat
  /\ \A j \in 1..Len(input_pipe) : input_pipe[j].cmd # "exit" => input_pipe[j].name \in Name
  /\ input_pipe \in Seq(Commands)
  /\ open_channels + Creates <= MAX_CHANNELS
  /\ channel_name_list \in [Channel -> Name \cup {NoName}]
  /\ alive \subseteq 0..(open_channels - 1)
  /\ type \in [Channel -> {"other", "quit", "msg"}]
  /\ channel_pipes \in [Channel -> Seq(Items)]

(* Connections are accepted in the order they were opened.                 *)
AcceptInv ==
  /\ backlog \in Seq(Nat) /\ Len(backlog) <= Len(wire)
  /\ \A j \in 1..Len(backlog) : backlog[j] = Accepted + j
  /\ router \in {0, Accepted}

(* and come to the channels in that order, so a channel that was given n   *)
(* connections waits for none with a number below n + 1.                   *)
PipeInv ==
  \A k \in Channel :
    /\ k >= open_channels => channel_pipes[k] = <<>> /\ current_clients[k] = 0
    /\ current_clients[k] <= Accepted
    /\ router # 0 => current_clients[k] < router
    /\ Increasing(channel_pipes[k])
    /\ \A c \in Piped(k) : /\ c \in 1..Accepted /\ c # router
                           /\ c > current_clients[k] /\ c \notin Members(k)

TableInv ==
  /\ current_clients \in [Channel -> Nat]
  /\ socket_list \in [Cells -> {-1, 0} \cup Nat]
  /\ client_names \in [Cells -> User \cup {NoName}]
  /\ listen_fds = [k \in Channel |-> Members(k)]
  /\ \A k \in Channel :
       /\ current_clients[k] <= MAX_CLIENTS
       /\ Members(k) \subseteq 1..Accepted /\ router \notin Members(k)
       /\ \A i \in Row : socket_list[Cell(k, i)] = 0 <=> i >= current_clients[k]
       /\ \A i, j \in Slots(k) :
            socket_list[Cell(k, i)] = socket_list[Cell(k, j)] => i = j \/ socket_list[Cell(k, i)] = -1

(* A connection is in one channel, and those in a channel were opened for  *)
(* the same room, whose name the channel has or had.                       *)
RoomInv ==
  \A k \in Channel :
    /\ \A l \in Channel : k # l => Around(k) \cap Around(l) = {}
    /\ \A c, d \in Around(k) : wire[c].room = wire[d].room
    /\ channel_name_list[k] # NoName => \A c \in Around(k) : wire[c].room = channel_name_list[k]

Seated(c) == \E k \in Channel : c \in Members(k)
InPipe(c) == \E k \in Channel : c \in Piped(k)

UpOf(c) ==
  LET w == wire[c]
  IN  /\ \/ \E m \in 0..Len(w.up) : UpShape(w.up, m, w.said)
         \/ Queued(c) /\ w.up = <<JoinOf(w)>> /\ w.said = 0
      /\ Queued(c) => w.said = 0 /\ w.up \in {<<>>, <<JoinOf(w)>>}
      /\ InPipe(c) => w.up = <<>> /\ w.said = 0

UpInv == \A c \in Conns : UpOf(c)

DownOf(c) ==
  LET w == wire[c]
  IN  /\ DownShape(w.down)
      /\ Queued(c) \/ InPipe(c) => w.down = <<>> /\ w.server = "open"
      /\ Seated(c) => w.server = "open"
      /\ \A j \in 1..Len(w.down) : w.down[j].kind = "msg" =>
           w.down[j].from \in Conns /\ wire[w.down[j].from].room = w.room
      /\ \A j \in 1..Len(w.heard) :
           w.heard[j].from \in Conns /\ wire[w.heard[j].from].room = w.room

DownInv == \A c \in Conns : DownOf(c)

(* A client waiting for the answer to its join, on connection a.           *)
AskingOf(u, a) ==
  /\ a \in Conns /\ wire[a].owner = u /\ wire[a].client = "open" /\ wire[a].said = 0
  /\ ~client[u].asked => Queued(a) /\ wire[a].up = <<>>
  /\ ~Queued(a) => wire[a].up = <<>>
  /\ \/ wire[a].down = <<>> /\ ~Seated(a)
     \/ wire[a].down # <<>> /\ wire[a].down[1].kind = "accepted" /\ Seated(a)
     \/ Len(wire[a].down) = 1 /\ wire[a].down[1].kind = "rejected" /\ ~Seated(a)

(* A client whose last accepted join was on connection c.                  *)
JoinedOf(u, c) ==
  /\ c \in Conns /\ wire[c].owner = u /\ wire[c].client = "open"
  /\ ~Queued(c) /\ ~InPipe(c)
  /\ \A j \in 1..Len(wire[c].down) : wire[c].down[j].kind = "msg"
  /\ client[u].in_channel =>
       Seated(c) /\ \A j \in 1..Len(wire[c].up) : wire[c].up[j].kind = "msg"

ClientOf(u) ==
  LET s == client[u]
  IN  /\ s.asking # 0 => AskingOf(u, s.asking) /\ s.asking # s.client_socket /\ ~s.in_channel
      /\ s.asked => s.asking # 0
      /\ s.client_socket # 0 => JoinedOf(u, s.client_socket)
      /\ s.in_channel => s.client_socket # 0

ClientState == [in_channel : BOOLEAN, client_socket : Nat, asking : Nat, asked : BOOLEAN]

ClientInv ==
  /\ client \in [User -> ClientState]
  /\ \A u \in User : ClientOf(u)

IInv ==
  /\ WireInv /\ RouterInv /\ AcceptInv /\ PipeInv /\ TableInv
  /\ RoomInv /\ UpInv /\ DownInv /\ ClientInv

-----------------------------------------------------------------------------
(* Cells of the tables: one for each channel and place in its row.         *)
LEMMA CellIn ==
  ASSUME NEW k \in Channel, NEW i \in Row
  PROVE  Cell(k, i) \in Cells
  <1>1. /\ MAX_CLIENTS \in Nat \ {0} /\ MAX_CHANNELS \in Nat
        /\ k \in Nat /\ k + 1 <= MAX_CHANNELS /\ i \in Nat /\ i < MAX_CLIENTS
    BY ServerAssumption DEF Channel, Row
  <1>2. (k + 1) * MAX_CLIENTS <= MAX_CHANNELS * MAX_CLIENTS
    BY <1>1
  <1>3. (k + 1) * MAX_CLIENTS = k * MAX_CLIENTS + MAX_CLIENTS /\ k * MAX_CLIENTS \in Nat
    BY <1>1
  <1> QED BY <1>1, <1>2, <1>3 DEF Cells, Cell

LEMMA CellRow ==
  ASSUME NEW k \in Channel, NEW i \in Row
  PROVE  Cell(k, i) \div MAX_CLIENTS = k
  <1>1. /\ MAX_CLIENTS \in Nat \ {0} /\ k \in Nat /\ i \in Nat /\ i < MAX_CLIENTS
    BY ServerAssumption DEF Channel, Row
  <1> QED BY <1>1 DEF Cell

LEMMA CellOne ==
  ASSUME NEW k \in Channel, NEW l \in Channel, NEW i \in Row, NEW j \in Row,
         Cell(k, i) = Cell(l, j)
  PROVE  k = l /\ i = j
  <1>1. k = l
    BY CellRow
  <1>2. k * MAX_CLIENTS \in Int /\ i \in Int /\ j \in Int
    BY ServerAssumption DEF Channel, Row
  <1> QED BY <1>1, <1>2 DEF Cell

LEMMA CellOf ==
  ASSUME NEW x \in Cells
  PROVE  \E k \in Channel, i \in Row : x = Cell(k, i)
  <1> DEFINE k == x \div MAX_CLIENTS
             i == x % MAX_CLIENTS
  <1>1. /\ MAX_CLIENTS \in Nat \ {0} /\ MAX_CHANNELS \in Nat
        /\ x \in Nat /\ x < MAX_CHANNELS * MAX_CLIENTS
    BY ServerAssumption DEF Cells
  <1>2. x = k * MAX_CLIENTS + i /\ i \in Row /\ k \in Nat
    BY <1>1 DEF Row
  <1>3. k < MAX_CHANNELS
    BY <1>1
  <1>4. k \in Channel
    BY <1>1, <1>2, <1>3 DEF Channel
  <1> QED BY <1>2, <1>4 DEF Cell
-----------------------------------------------------------------------------
(* Sequences: what is added at the end and taken from the front.           *)
LEMMA Appended ==
  ASSUME NEW S, NEW s \in Seq(S), NEW x \in S
  PROVE  /\ Append(s, x) \in Seq(S) /\ Len(Append(s, x)) = Len(s) + 1 /\ Len(s) \in Nat
         /\ \A j \in 1..(Len(s) + 1) : Append(s, x)[j] = IF j = Len(s) + 1 THEN x ELSE s[j]
  BY AppendProperties, LenProperties

LEMMA Shortened ==
  ASSUME NEW S, NEW s \in Seq(S), s # <<>>
  PROVE  /\ Tail(s) \in Seq(S) /\ Len(Tail(s)) = Len(s) - 1 /\ Len(s) \in Nat \ {0}
         /\ Head(s) = s[1] /\ Head(s) \in S
         /\ \A j \in 1..(Len(s) - 1) : Tail(s)[j] = s[j + 1]
  BY HeadTailProperties, LenProperties

(* How many elements of a sequence are of a kind.                          *)
Count(s, T) == Cardinality({j \in DOMAIN s : s[j] \in T})

LEMMA CountAppended ==
  ASSUME NEW S, NEW T, NEW s \in Seq(S), NEW x \in S
  PROVE  /\ Count(s, T) \in Nat
         /\ Count(Append(s, x), T) = IF x \in T THEN Count(s, T) + 1 ELSE Count(s, T)
  <1> DEFINE D == {j \in DOMAIN s : s[j] \in T}
             E == {j \in DOMAIN Append(s, x) : Append(s, x)[j] \in T}
             n == Len(s) + 1
  <1>1. /\ DOMAIN s = 1..Len(s) /\ Len(s) \in Nat /\ DOMAIN Append(s, x) = 1..n
        /\ \A j \in 1..n : Append(s, x)[j] = IF j = n THEN x ELSE s[j]
    BY Appended, AppendProperties, LenProperties
  <1>2. IsFiniteSet(D)
    <2>1. IsFiniteSet(1..Len(s))
      BY <1>1, FS_Interval
    <2> QED BY <1>1, <2>1, FS_Subset
  <1>3. E = IF x \in T THEN D \cup {n} ELSE D
    <2> HIDE DEF n
    <2>1. n = Len(s) + 1
      BY DEF n
    <2> QED BY <1>1, <2>1
  <1>4. n \notin D
    BY <1>1
  <1> HIDE DEF D, E, n
  <1>5. Cardinality(D) \in Nat /\ Cardinality(D \cup {n}) = Cardinality(D) + 1
    BY <1>2, <1>4, FS_CardinalityType, FS_AddElement
  <1>6. Count(s, T) = Cardinality(D) /\ Count(Append(s, x), T) = Cardinality(E)
    BY DEF Count, D, E
  <1> QED BY <1>3, <1>5, <1>6

LEMMA CountShortened ==
  ASSUME NEW S, NEW T, NEW s \in Seq(S), s # <<>>
  PROVE  /\ Count(s, T) \in Nat /\ Count(Tail(s), T) \in Nat
         /\ Count(s, T) = IF Head(s) \in T THEN Count(Tail(s), T) + 1 ELSE Count(Tail(s), T)
  <1> DEFINE U == {j \in DOMAIN Tail(s) : Tail(s)[j] \in T}
             R == {j \in DOMAIN s \ {1} : s[j] \in T}
             D == {j \in DOMAIN s : s[j] \in T}
             f == [j \in U |-> j + 1]
  <1>1. /\ DOMAIN s = 1..Len(s) /\ Len(s) \in Nat \ {0} /\ DOMAIN Tail(s) = 1..(Len(s) - 1)
        /\ \A j \in 1..(Len(s) - 1) : Tail(s)[j] = s[j + 1]
        /\ Head(s) = s[1]
    BY Shortened, HeadTailProperties, LenProperties
  <1>2. IsFiniteSet(U) /\ IsFiniteSet(R)
    <2>1. IsFiniteSet(1..Len(s)) /\ IsFiniteSet(1..(Len(s) - 1))
      BY <1>1, FS_Interval
    <2>2. U \subseteq 1..(Len(s) - 1) /\ R \subseteq 1..Len(s)
      BY <1>1
    <2> QED BY <2>1, <2>2, FS_Subset
  <1>3. f \in Bijection(U, R)
    <2>1. f \in [U -> R]
      BY <1>1
    <2>2. \A a, b \in U : f[a] = f[b] => a = b
      BY <1>1
    <2>3. \A r \in R : \E a \in U : f[a] = r
      <3> TAKE r \in R
      <3>1. r \in 2..Len(s) /\ s[r] \in T
        BY <1>1
      <3>2. r - 1 \in 1..(Len(s) - 1) /\ Tail(s)[r - 1] = s[r]
        BY <1>1, <3>1
      <3>3. r - 1 \in U
        BY <1>1, <3>1, <3>2
      <3>4. f[r - 1] = r
        BY <3>1, <3>3
      <3> QED BY <3>3, <3>4
    <2> QED BY <2>1, <2>2, <2>3 DEF Bijection, Injection, Surjection, IsInjective
  <1>4. Cardinality(U) = Cardinality(R)
    <2> HIDE DEF U, R, f
    <2> QED BY <1>2, <1>3, FS_Bijection, FS_CardinalityType DEF ExistsBijection
  <1>5. D = IF Head(s) \in T THEN R \cup {1} ELSE R
    BY <1>1
  <1>6. 1 \notin R
    OBVIOUS
  <1>7. Count(s, T) = Cardinality(D) /\ Count(Tail(s), T) = Cardinality(U)
    BY DEF Count
  <1> HIDE DEF U, R, D
  <1>8. Cardinality(R) \in Nat /\ Cardinality(R \cup {1}) = Cardinality(R) + 1
    BY <1>2, <1>6, FS_CardinalityType, FS_AddElement
  <1> QED BY <1>4, <1>5, <1>7, <1>8

(* Lines typed at the server.                                              *)
CreatesIn(s) == Cardinality({j \in DOMAIN s : s[j].cmd = "create"})

LEMMA CreatesCount ==
  ASSUME NEW S, NEW s \in Seq(S)
  PROVE  CreatesIn(s) = Count(s, {x \in S : x.cmd = "create"})
  <1>1. \A j \in DOMAIN s : s[j] \in S
    BY ElementOfSeq, LenProperties
  <1>2. {j \in DOMAIN s : s[j] \in {x \in S : x.cmd = "create"}} = {j \in DOMAIN s : s[j].cmd = "create"}
    BY <1>1
  <1> QED BY <1>2 DEF CreatesIn, Count

LEMMA CreatesAppended ==
  ASSUME NEW S, NEW s \in Seq(S), NEW x \in S
  PROVE  /\ CreatesIn(s) \in Nat
         /\ CreatesIn(Append(s, x)) = IF x.cmd = "create" THEN CreatesIn(s) + 1 ELSE CreatesIn(s)
  <1>1. Append(s, x) \in Seq(S)
    BY Appended
  <1>2. PICK T : T = {y \in S : y.cmd = "create"}
    OBVIOUS
  <1>3. CreatesIn(s) = Count(s, T) /\ CreatesIn(Append(s, x)) = Count(Append(s, x), T)
    BY <1>1, <1>2, CreatesCount
  <1>4. x \in T <=> x.cmd = "create"
    BY <1>2
  <1>5. /\ Count(s, T) \in Nat
        /\ Count(Append(s, x), T) = IF x \in T THEN Count(s, T) + 1 ELSE Count(s, T)
    BY CountAppended
  <1> QED BY <1>3, <1>4, <1>5

LEMMA CreatesShortened ==
  ASSUME NEW S, NEW s \in Seq(S), s # <<>>
  PROVE  /\ CreatesIn(s) \in Nat /\ CreatesIn(Tail(s)) \in Nat
         /\ CreatesIn(s) = IF Head(s).cmd = "create" THEN CreatesIn(Tail(s)) + 1 ELSE CreatesIn(Tail(s))
  <1>1. Tail(s) \in Seq(S) /\ Head(s) \in S
    BY Shortened
  <1>2. PICK T : T = {y \in S : y.cmd = "create"}
    OBVIOUS
  <1>3. CreatesIn(s) = Count(s, T) /\ CreatesIn(Tail(s)) = Count(Tail(s), T)
    BY <1>1, <1>2, CreatesCount
  <1>4. Head(s) \in T <=> Head(s).cmd = "create"
    BY <1>1, <1>2
  <1>5. /\ Count(s, T) \in Nat /\ Count(Tail(s), T) \in Nat
        /\ Count(s, T) = IF Head(s) \in T THEN Count(Tail(s), T) + 1 ELSE Count(Tail(s), T)
    BY CountShortened
  <1> QED BY <1>3, <1>4, <1>5

(* What is on its way to the server.                                       *)
LEMMA UpSpoken ==
  ASSUME NEW s \in Seq(UpPacket), NEW said \in Nat, UpShape(s, Len(s), said),
         NEW p, p = [kind |-> "msg", n |-> said + 1]
  PROVE  Append(s, p) \in Seq(UpPacket) /\ UpShape(Append(s, p), Len(s) + 1, said + 1)
  <1> DEFINE t == Append(s, p)
             n == Len(s) + 1
  <1>1. p \in UpPacket
    BY DEF UpPacket, Spoken
  <1>2. /\ t \in Seq(UpPacket) /\ Len(t) = n /\ Len(s) \in Nat
        /\ \A j \in 1..n : t[j] = IF j = n THEN p ELSE s[j]
    BY <1>1, Appended
  <1> HIDE DEF t
  <1>3. \A j \in 1..Len(s) : s[j] = [kind |-> "msg", n |-> said - Len(s) + j]
    BY DEF UpShape
  <1>4. \A j \in 1..n : t[j] = [kind |-> "msg", n |-> (said + 1) - n + j]
    <2> TAKE j \in 1..n
    <2>1. CASE j = n
      <3>1. (said + 1) - n + j = said + 1 /\ t[j] = p
        BY <1>2, <2>1
      <3> QED BY <3>1
    <2>2. CASE j # n
      <3>1. j \in 1..Len(s) /\ (said + 1) - n + j = said - Len(s) + j /\ t[j] = s[j]
        BY <1>2, <2>2
      <3> QED BY <1>3, <3>1
    <2> QED BY <2>1, <2>2
  <1>5. n \in 0..Len(t) /\ n <= said + 1
    BY <1>2 DEF UpShape
  <1> QED BY <1>2, <1>4, <1>5 DEF UpShape, t

LEMMA UpQuit ==
  ASSUME NEW s \in Seq(UpPacket), NEW said \in Nat, NEW m, UpShape(s, m, said)
  PROVE  Append(s, Quit) \in Seq(UpPacket) /\ UpShape(Append(s, Quit), m, said)
  <1> DEFINE t == Append(s, Quit)
             n == Len(s) + 1
  <1>1. Quit \in UpPacket
    BY DEF UpPacket
  <1>2. /\ t \in Seq(UpPacket) /\ Len(t) = n /\ Len(s) \in Nat
        /\ \A j \in 1..n : t[j] = IF j = n THEN Quit ELSE s[j]
    BY <1>1, Appended
  <1> HIDE DEF t
  <1>3. \A j \in 1..n : t[j] = IF j <= m THEN [kind |-> "msg", n |-> said - m + j] ELSE Quit
    <2> TAKE j \in 1..n
    <2>1. m \in Nat /\ m <= Len(s)
      BY <1>2 DEF UpShape
    <2>2. CASE j = n
      <3>1. ~(j <= m) /\ t[j] = Quit
        BY <1>2, <2>1, <2>2
      <3> QED BY <3>1
    <2>3. CASE j # n
      <3>1. j \in 1..Len(s) /\ t[j] = s[j]
        BY <1>2, <2>3
      <3> QED BY <3>1 DEF UpShape
    <2> QED BY <2>2, <2>3
  <1> QED BY <1>2, <1>3 DEF UpShape, t

LEMMA UpTaken ==
  ASSUME NEW s \in Seq(UpPacket), NEW said \in Nat, NEW m, UpShape(s, m, said), s # <<>>
  PROVE  /\ Tail(s) \in Seq(UpPacket)
         /\ m > 0 => /\ Head(s) = [kind |-> "msg", n |-> said - m + 1]
                     /\ UpShape(Tail(s), m - 1, said)
         /\ m = 0 => Head(s) = Quit /\ UpShape(Tail(s), 0, said)
  <1> DEFINE t == Tail(s)
  <1>1. /\ t \in Seq(UpPacket) /\ Len(t) = Len(s) - 1 /\ Len(s) \in Nat \ {0} /\ Head(s) = s[1]
        /\ \A j \in 1..(Len(s) - 1) : t[j] = s[j + 1]
    BY Shortened
  <1> HIDE DEF t
  <1>2. m \in Nat /\ m <= Len(s) /\ m <= said
    BY <1>1 DEF UpShape
  <1>3. \A j \in 1..Len(s) : s[j] = IF j <= m THEN [kind |-> "msg", n |-> said - m + j] ELSE Quit
    BY DEF UpShape
  <1>4. Head(s) = IF 1 <= m THEN [kind |-> "msg", n |-> said - m + 1] ELSE Quit
    BY <1>1, <1>3
  <1>5. ASSUME m > 0 PROVE UpShape(t, m - 1, said)
    <2>1. \A j \in 1..Len(t) : t[j] = IF j <= m - 1 THEN [kind |-> "msg", n |-> said - (m - 1) + j] ELSE Quit
      <3> TAKE j \in 1..Len(t)
      <3>1. t[j] = s[j + 1] /\ j + 1 \in 1..Len(s)
        BY <1>1
      <3>2. s[j + 1] = IF j + 1 <= m THEN [kind |-> "msg", n |-> said - m + (j + 1)] ELSE Quit
        BY <1>3, <3>1
      <3>3. said - m + (j + 1) = said - (m - 1) + j /\ (j + 1 <= m <=> j <= m - 1)
        BY <1>1, <1>2
      <3> QED BY <3>1, <3>2, <3>3
    <2> QED BY <1>1, <1>2, <1>5, <2>1 DEF UpShape
  <1>6. ASSUME m = 0 PROVE UpShape(t, 0, said)
    <2>1. \A j \in 1..Len(t) : t[j] = IF j <= 0 THEN [kind |-> "msg", n |-> said - 0 + j] ELSE Quit
      <3> TAKE j \in 1..Len(t)
      <3>1. t[j] = s[j + 1] /\ j + 1 \in 1..Len(s) /\ ~(j + 1 <= m) /\ ~(j <= 0)
        BY <1>1, <1>6
      <3>2. s[j + 1] = Quit
        BY <1>3, <3>1
      <3> QED BY <3>1, <3>2
    <2> QED BY <1>1, <1>2, <1>6, <2>1 DEF UpShape
  <1> QED BY <1>1, <1>2, <1>4, <1>5, <1>6 DEF t

(* The messages of it are its first m.                                     *)
LEMMA UpCounted ==
  ASSUME NEW s \in Seq(UpPacket), NEW said \in Nat, NEW m, UpShape(s, m, said)
  PROVE  /\ Cardinality({j \in DOMAIN s : s[j].kind = "msg"}) = m
         /\ m \in Nat /\ m <= Len(s) /\ m <= said
  <1>1. m \in Nat /\ m <= Len(s) /\ m <= said /\ Len(s) \in Nat /\ DOMAIN s = 1..Len(s)
    BY LenProperties DEF UpShape
  <1>2. \A j \in 1..Len(s) : s[j].kind = "msg" <=> j <= m
    BY <1>1 DEF UpShape, Quit
  <1>3. {j \in DOMAIN s : s[j].kind = "msg"} = 1..m
    BY <1>1, <1>2
  <1>4. Cardinality(1..m) = m
    BY <1>1, FS_Interval
  <1> QED BY <1>1, <1>3, <1>4

LEMMA UpSaid ==
  ASSUME NEW s \in Seq(UpPacket), NEW said \in Nat, NEW m, UpShape(s, m, said),
         \A j \in 1..Len(s) : s[j].kind = "msg"
  PROVE  m = Len(s)
  <1>1. m \in Nat /\ m <= Len(s) /\ Len(s) \in Nat
    BY LenProperties DEF UpShape
  <1>2. m # Len(s) => Len(s) \in 1..Len(s) /\ ~(Len(s) <= m)
    BY <1>1
  <1>3. m # Len(s) => s[Len(s)] = Quit
    BY <1>2 DEF UpShape
  <1> QED BY <1>2, <1>3 DEF Quit

(* What is on its way to the client.                                       *)
LEMMA DownAdded ==
  ASSUME NEW s, DownShape(s), NEW p \in Message \cup Answer, p \in Message \/ s = <<>>
  PROVE  DownShape(Append(s, p))
  BY Appended DEF DownShape

LEMMA DownTaken ==
  ASSUME NEW s, DownShape(s), s # <<>>
  PROVE  DownShape(Tail(s)) /\ \A j \in 1..Len(Tail(s)) : Tail(s)[j] \in Message
  BY Shortened DEF DownShape

-----------------------------------------------------------------------------
(* The pipe of a channel.                                                  *)
LEMMA ItemTaken ==
  ASSUME NEW q \in Seq(Items), Increasing(q), q # <<>>
  PROVE  /\ Tail(q) \in Seq(Items) /\ Increasing(Tail(q))
         /\ Head(q) \in Items
         /\ Head(q).item # "add" => ConnsOf(Tail(q)) = ConnsOf(q)
         /\ Head(q).item = "add" =>
              /\ Head(q).conn \in ConnsOf(q) /\ Head(q).name \in User
              /\ ConnsOf(Tail(q)) = ConnsOf(q) \ {Head(q).conn}
              /\ \A c \in ConnsOf(Tail(q)) : c > Head(q).conn
  <1> DEFINE t == Tail(q)
  <1>1. /\ t \in Seq(Items) /\ Len(t) = Len(q) - 1 /\ Len(q) \in Nat \ {0}
        /\ Head(q) = q[1] /\ Head(q) \in Items
        /\ \A j \in 1..(Len(q) - 1) : t[j] = q[j + 1]
    BY Shortened
  <1> HIDE DEF t
  <1>2. \A j : j \in Adds(t) <=> j \in 1..(Len(q) - 1) /\ j + 1 \in Adds(q)
    BY <1>1 DEF Adds
  <1>3. Increasing(t)
    <2>1. ASSUME NEW i \in Adds(t), NEW j \in Adds(t), i < j PROVE t[i].conn < t[j].conn
      <3>1. /\ i \in 1..(Len(q) - 1) /\ i + 1 \in Adds(q) /\ j \in 1..(Len(q) - 1) /\ j + 1 \in Adds(q)
            /\ i + 1 < j + 1
        BY <1>1, <1>2, <2>1
      <3>2. q[i + 1].conn < q[j + 1].conn
        BY <3>1 DEF Increasing
      <3> QED BY <1>1, <3>1, <3>2
    <2> QED BY <2>1 DEF Increasing
  <1>4. \A j \in Adds(q) : q[j].conn \in Nat /\ q[j].name \in User
    <2>1. \A j \in Adds(q) : q[j] \in Items /\ q[j].item = "add"
      BY <1>1, ElementOfSeq DEF Adds
    <2> QED BY <2>1 DEF Items
  <1>5. Adds(q) = {j + 1 : j \in Adds(t)} \cup (IF Head(q).item = "add" THEN {1} ELSE {})
    <2>1. ASSUME NEW j \in Adds(q), j # 1 PROVE j - 1 \in Adds(t)
      BY <1>1, <1>2, <2>1 DEF Adds
    <2>2. ASSUME NEW j \in Adds(q), j # 1 PROVE \E i \in Adds(t) : j = i + 1
      BY <1>1, <2>1, <2>2 DEF Adds
    <2>3. 1 \in Adds(q) <=> Head(q).item = "add"
      BY <1>1 DEF Adds
    <2> QED BY <1>2, <2>2, <2>3
  <1>6. \A j \in Adds(t) : t[j].conn = q[j + 1].conn /\ j + 1 \in Adds(q)
    BY <1>1, <1>2
  <1>7. ConnsOf(q) = ConnsOf(t) \cup (IF Head(q).item = "add" THEN {Head(q).conn} ELSE {})
    BY <1>1, <1>5, <1>6 DEF ConnsOf
  <1>8. ASSUME Head(q).item = "add" PROVE \A c \in ConnsOf(t) : c > Head(q).conn
    <2>1. 1 \in Adds(q)
      BY <1>1, <1>8 DEF Adds
    <2>2. \A j \in Adds(t) : t[j].conn > q[1].conn
      BY <1>1, <1>2, <1>4, <1>6, <2>1 DEF Increasing, Adds
    <2> QED BY <1>1, <2>2 DEF ConnsOf
  <1>9. Head(q).item = "add" => Head(q).conn \in Nat /\ Head(q).name \in User
    BY <1>1 DEF Items
  <1>10. \A c \in ConnsOf(q) : c \in Nat
    BY <1>4 DEF ConnsOf
  <1> QED BY <1>1, <1>3, <1>7, <1>8, <1>9, <1>10 DEF t

LEMMA ItemAdded ==
  ASSUME NEW q \in Seq(Items), Increasing(q), NEW a \in Items,
         a.item = "add" => \A c \in ConnsOf(q) : c < a.conn
  PROVE  /\ Append(q, a) \in Seq(Items) /\ Increasing(Append(q, a))
         /\ ConnsOf(Append(q, a)) = IF a.item = "add" THEN ConnsOf(q) \cup {a.conn} ELSE ConnsOf(q)
  <1> DEFINE t == Append(q, a)
             n == Len(q) + 1
  <1>1. /\ t \in Seq(Items) /\ Len(t) = n /\ Len(q) \in Nat
        /\ \A j \in 1..n : t[j] = IF j = n THEN a ELSE q[j]
    BY Appended
  <1> HIDE DEF t
  <1>2. /\ \A j \in Adds(q) : j \in Adds(t) /\ j < n /\ t[j] = q[j]
        /\ \A j \in Adds(t) : j \in Adds(q) \/ (j = n /\ a.item = "add")
        /\ a.item = "add" => n \in Adds(t) /\ t[n] = a
    BY <1>1 DEF Adds
  <1>3. Adds(t) \subseteq Nat /\ n \in Nat
    BY <1>1 DEF Adds
  <1> HIDE DEF n
  <1>4. ConnsOf(t) = IF a.item = "add" THEN ConnsOf(q) \cup {a.conn} ELSE ConnsOf(q)
    BY <1>2 DEF ConnsOf
  <1>5. \A j \in Adds(q) : q[j].conn \in ConnsOf(q)
    BY DEF ConnsOf
  <1>6. ASSUME NEW i \in Adds(t), NEW j \in Adds(t), i < j PROVE t[i].conn < t[j].conn
    <2>1. CASE j \in Adds(q)
      <3>1. i \in Adds(q)
        BY <1>2, <1>3, <1>6, <2>1
      <3> QED BY <1>2, <1>6, <2>1, <3>1 DEF Increasing
    <2>2. CASE j = n /\ a.item = "add"
      <3>1. i \in Adds(q)
        BY <1>2, <1>3, <1>6, <2>2
      <3> QED BY <1>2, <1>5, <2>2, <3>1
    <2> QED BY <1>2, <2>1, <2>2
  <1> QED BY <1>1, <1>4, <1>6 DEF Increasing, t

-----------------------------------------------------------------------------
(* The connections: what each operation on one changes and what it keeps.  *)
Opened(v, w) == v.owner = w.owner /\ v.room = w.room
SameUp(v, w) == v.up = w.up /\ v.said = w.said
SameDown(v, w) == v.down = w.down /\ v.heard = w.heard
SameEnds(v, w) == v.client = w.client /\ v.server = w.server

Reads(w, c) == [w EXCEPT ![c].up = Tail(@)]
Closes(w, c) == [w EXCEPT ![c].server = "closed"]
Answers(w, c) == [w EXCEPT ![c].down = Tail(@)]
Speaks(w, c) == [Sends(w, c, [kind |-> "msg", n |-> w[c].said + 1]) EXCEPT ![c].said = @ + 1]

Rewired(w, x) ==
  x \in Seq(Connection) /\ Len(x) = Len(w) /\ \A d \in 1..Len(w) : Opened(x[d], w[d])

LEMMA WireAt ==
  ASSUME NEW w \in Seq(Connection), NEW c \in 1..Len(w)
  PROVE  /\ w[c] \in Connection /\ w[c].said \in Nat
         /\ w[c].owner \in User /\ w[c].room \in Name
         /\ w[c].up \in Seq(UpPacket) /\ w[c].down \in Seq(Message \cup Answer)
         /\ w[c].heard \in Seq(Message)
         /\ w[c].client \in {"open", "gone", "reset"} /\ w[c].server \in {"open", "closed"}
  <1>1. w[c] \in Connection
    BY ElementOfSeq
  <1> QED BY <1>1 DEF Connection

LEMMA WireTaken ==
  ASSUME NEW w \in Seq(Connection), NEW c \in 1..Len(w), w[c].up # <<>>
  PROVE  /\ Rewired(w, Reads(w, c))
         /\ \A d \in 1..Len(w) :
              LET x == Reads(w, c) IN
              /\ SameDown(x[d], w[d]) /\ SameEnds(x[d], w[d]) /\ x[d].said = w[d].said
              /\ x[d].up = IF d = c THEN Tail(w[c].up) ELSE w[d].up
  <1> DEFINE v == [w[c] EXCEPT !.up = Tail(w[c].up)]
             x == Reads(w, c)
  <1>1. w[c] \in Connection
    BY WireAt
  <1>2. Tail(w[c].up) \in Seq(UpPacket)
    BY <1>1, Shortened DEF Connection
  <1>3. v \in Connection /\ Opened(v, w[c]) /\ v.up = Tail(w[c].up)
        /\ SameDown(v, w[c]) /\ SameEnds(v, w[c]) /\ v.said = w[c].said
    BY <1>1, <1>2 DEF Connection, Opened, SameDown, SameEnds
  <1>4. x = [w EXCEPT ![c] = v]
    BY DEF Reads
  <1> HIDE DEF v, x
  <1>5. Rewired(w, x) /\ \A d \in 1..Len(w) : x[d] = IF d = c THEN v ELSE w[d]
    <2>1. x \in Seq(Connection) /\ Len(x) = Len(w) /\ \A d \in 1..Len(w) : x[d] = IF d = c THEN v ELSE w[d]
      BY <1>3, <1>4, ExceptSeq
    <2> QED BY <1>3, <2>1 DEF Rewired, Opened
  <1> QED BY <1>3, <1>5 DEF x, SameDown, SameEnds

LEMMA WireSent ==
  ASSUME NEW w \in Seq(Connection), NEW c \in 1..Len(w), NEW p \in UpPacket
  PROVE  /\ Rewired(w, Sends(w, c, p))
         /\ \A d \in 1..Len(w) :
              LET x == Sends(w, c, p) IN
              /\ SameDown(x[d], w[d]) /\ SameEnds(x[d], w[d]) /\ x[d].said = w[d].said
              /\ x[d].up = IF d = c /\ w[c].server = "open" THEN Append(w[c].up, p) ELSE w[d].up
  <1> DEFINE v == [w[c] EXCEPT !.up = Append(w[c].up, p)]
             x == Sends(w, c, p)
  <1>1. w[c] \in Connection
    BY WireAt
  <1>2. Append(w[c].up, p) \in Seq(UpPacket)
    BY <1>1, Appended DEF Connection
  <1>3. v \in Connection /\ Opened(v, w[c]) /\ v.up = Append(w[c].up, p)
        /\ SameDown(v, w[c]) /\ SameEnds(v, w[c]) /\ v.said = w[c].said
    BY <1>1, <1>2 DEF Connection, Opened, SameDown, SameEnds
  <1>4. x = IF w[c].server = "open" THEN [w EXCEPT ![c] = v] ELSE w
    BY DEF Sends
  <1>5. Rewired(w, w)
    BY DEF Rewired, Opened
  <1> HIDE DEF v, x
  <1>6. CASE w[c].server = "open"
    <2>1. x \in Seq(Connection) /\ Len(x) = Len(w) /\ \A d \in 1..Len(w) : x[d] = IF d = c THEN v ELSE w[d]
      BY <1>3, <1>4, <1>6, ExceptSeq
    <2>2. Rewired(w, x)
      BY <1>3, <2>1 DEF Rewired, Opened
    <2> QED BY <2>2, <1>3, <1>6, <2>1 DEF SameDown, SameEnds, x
  <1>7. CASE w[c].server # "open"
    BY <1>4, <1>5, <1>7 DEF SameDown, SameEnds, x
  <1> QED BY <1>6, <1>7

LEMMA WireSpoken ==
  ASSUME NEW w \in Seq(Connection), NEW c \in 1..Len(w), w[c].server = "open"
  PROVE  /\ Rewired(w, Speaks(w, c))
         /\ \A d \in 1..Len(w) :
              LET x == Speaks(w, c) IN
              /\ SameDown(x[d], w[d]) /\ SameEnds(x[d], w[d])
              /\ d # c => SameUp(x[d], w[d])
         /\ Speaks(w, c)[c].up = Append(w[c].up, [kind |-> "msg", n |-> w[c].said + 1])
         /\ Speaks(w, c)[c].said = w[c].said + 1
  <1> DEFINE p == [kind |-> "msg", n |-> w[c].said + 1]
             y == Sends(w, c, p)
             v == [y[c] EXCEPT !.said = w[c].said + 1]
             x == Speaks(w, c)
  <1>1. w[c] \in Connection /\ w[c].said \in Nat
    BY WireAt
  <1>2. p \in UpPacket
    BY <1>1 DEF UpPacket, Spoken
  <1> HIDE DEF p, x
  <1>3. /\ Rewired(w, y)
        /\ \A d \in 1..Len(w) :
             /\ SameDown(y[d], w[d]) /\ SameEnds(y[d], w[d]) /\ y[d].said = w[d].said
             /\ y[d].up = IF d = c /\ w[c].server = "open" THEN Append(w[c].up, p) ELSE w[d].up
    BY <1>2, WireSent
  <1> HIDE DEF y
  <1>4. y \in Seq(Connection) /\ c \in 1..Len(y) /\ y[c] \in Connection
    BY <1>3, WireAt DEF Rewired
  <1>5. v \in Connection /\ Opened(v, y[c]) /\ v.said = w[c].said + 1 /\ v.up = y[c].up
        /\ SameDown(v, y[c]) /\ SameEnds(v, y[c])
    <2>1. w[c].said + 1 \in Nat
      BY <1>1
    <2> QED BY <1>4, <2>1 DEF Connection, Opened, SameDown, SameEnds
  <1> HIDE DEF v
  <1>6. x = [y EXCEPT ![c] = v]
    <2>1. y[c].said = w[c].said
      BY <1>3
    <2> QED BY <2>1 DEF y, p, x, v, Speaks
  <1>7. x \in Seq(Connection) /\ Len(x) = Len(y) /\ \A d \in 1..Len(y) : x[d] = IF d = c THEN v ELSE y[d]
    BY <1>4, <1>5, <1>6, ExceptSeq
  <1>8. Rewired(w, x)
    BY <1>3, <1>5, <1>7 DEF Rewired, Opened
  <1>9. Len(y) = Len(w)
    BY <1>3 DEF Rewired
  <1> QED BY <1>3, <1>5, <1>7, <1>8, <1>9 DEF x, SameDown, SameEnds, SameUp, p

LEMMA WireWritten ==
  ASSUME NEW w \in Seq(Connection), NEW cs, NEW p \in Message \cup Answer
  PROVE  /\ Rewired(w, Written(w, cs, p))
         /\ \A d \in 1..Len(w) :
              LET x == Written(w, cs, p) IN
              /\ SameUp(x[d], w[d]) /\ x[d].heard = w[d].heard /\ x[d].server = w[d].server
              /\ x[d].client \in {w[d].client, "reset"}
              /\ x[d].client = "open" <=> w[d].client = "open"
              /\ d \notin cs => x[d].client = w[d].client
              /\ x[d].down = IF d \in cs /\ w[d].server = "open" /\ w[d].client = "open"
                               THEN Append(w[d].down, p) ELSE w[d].down
  <1> DEFINE x == Written(w, cs, p)
  <1>1. DOMAIN w = 1..Len(w) /\ Len(w) \in Nat
    BY LenProperties
  <1>2. x = [d \in 1..Len(w) |->
              IF d \notin cs \/ w[d].server = "closed"  THEN w[d]
              ELSE IF w[d].client = "open" THEN [w[d] EXCEPT !.down = Append(w[d].down, p)]
              ELSE [w[d] EXCEPT !.client = "reset"]]
    BY <1>1 DEF Written
  <1> HIDE DEF x
  <1>3. ASSUME NEW d \in 1..Len(w)
        PROVE  /\ x[d] \in Connection /\ Opened(x[d], w[d])
               /\ SameUp(x[d], w[d]) /\ x[d].heard = w[d].heard /\ x[d].server = w[d].server
               /\ x[d].client \in {w[d].client, "reset"}
               /\ x[d].client = "open" <=> w[d].client = "open"
               /\ d \notin cs => x[d].client = w[d].client
               /\ x[d].down = IF d \in cs /\ w[d].server = "open" /\ w[d].client = "open"
                                THEN Append(w[d].down, p) ELSE w[d].down
    <2>1. w[d] \in Connection /\ w[d].server \in {"open", "closed"}
      BY WireAt
    <2>2. Append(w[d].down, p) \in Seq(Message \cup Answer)
      BY <2>1, Appended DEF Connection
    <2>3. CASE d \notin cs \/ w[d].server = "closed"
      <3>1. x[d] = w[d]
        BY <1>2, <2>3
      <3> QED BY <2>1, <2>3, <3>1 DEF Opened, SameUp
    <2>4. CASE ~(d \notin cs \/ w[d].server = "closed") /\ w[d].client = "open"
      <3>1. x[d] = [w[d] EXCEPT !.down = Append(w[d].down, p)]
        BY <1>2, <2>4
      <3> QED BY <2>1, <2>2, <2>4, <3>1 DEF Opened, SameUp, Connection
    <2>5. CASE ~(d \notin cs \/ w[d].server = "closed") /\ w[d].client # "open"
      <3>1. x[d] = [w[d] EXCEPT !.client = "reset"]
        BY <1>2, <2>5
      <3> QED BY <2>1, <2>5, <3>1 DEF Opened, SameUp, Connection
    <2> QED BY <2>3, <2>4, <2>5
  <1>4. x \in Seq(Connection) /\ Len(x) = Len(w)
    <2>1. x \in [1..Len(w) -> Connection]
      BY <1>2, <1>3
    <2> QED BY <1>1, <2>1, SeqDef, LenProperties
  <1> QED BY <1>3, <1>4 DEF Rewired, x

LEMMA WireClosed ==
  ASSUME NEW w \in Seq(Connection), NEW c \in 1..Len(w)
  PROVE  /\ Rewired(w, Closes(w, c))
         /\ \A d \in 1..Len(w) :
              LET x == Closes(w, c) IN
              /\ SameUp(x[d], w[d]) /\ SameDown(x[d], w[d]) /\ x[d].client = w[d].client
              /\ x[d].server = IF d = c THEN "closed" ELSE w[d].server
  <1> DEFINE v == [w[c] EXCEPT !.server = "closed"]
             x == Closes(w, c)
  <1>1. w[c] \in Connection
    BY WireAt
  <1>2. v \in Connection /\ Opened(v, w[c]) /\ v.server = "closed"
        /\ SameUp(v, w[c]) /\ SameDown(v, w[c]) /\ v.client = w[c].client
    BY <1>1 DEF Connection, Opened, SameUp, SameDown
  <1>3. x = [w EXCEPT ![c] = v]
    BY DEF Closes
  <1> HIDE DEF v, x
  <1>4. Rewired(w, x) /\ \A d \in 1..Len(w) : x[d] = IF d = c THEN v ELSE w[d]
    <2>1. x \in Seq(Connection) /\ Len(x) = Len(w) /\ \A d \in 1..Len(w) : x[d] = IF d = c THEN v ELSE w[d]
      BY <1>2, <1>3, ExceptSeq
    <2> QED BY <1>2, <2>1 DEF Rewired, Opened
  <1> QED BY <1>2, <1>4 DEF x, SameUp, SameDown

LEMMA WireAnswered ==
  ASSUME NEW w \in Seq(Connection), NEW c \in 1..Len(w), w[c].down # <<>>
  PROVE  /\ Rewired(w, Answers(w, c))
         /\ \A d \in 1..Len(w) :
              LET x == Answers(w, c) IN
              /\ SameUp(x[d], w[d]) /\ SameEnds(x[d], w[d]) /\ x[d].heard = w[d].heard
              /\ x[d].down = IF d = c THEN Tail(w[c].down) ELSE w[d].down
  <1> DEFINE v == [w[c] EXCEPT !.down = Tail(w[c].down)]
             x == Answers(w, c)
  <1>1. w[c] \in Connection
    BY WireAt
  <1>2. Tail(w[c].down) \in Seq(Message \cup Answer)
    BY <1>1, Shortened DEF Connection
  <1>3. v \in Connection /\ Opened(v, w[c]) /\ v.down = Tail(w[c].down)
        /\ SameUp(v, w[c]) /\ SameEnds(v, w[c]) /\ v.heard = w[c].heard
    BY <1>1, <1>2 DEF Connection, Opened, SameUp, SameEnds
  <1>4. x = [w EXCEPT ![c] = v]
    BY DEF Answers
  <1> HIDE DEF v, x
  <1>5. Rewired(w, x) /\ \A d \in 1..Len(w) : x[d] = IF d = c THEN v ELSE w[d]
    <2>1. x \in Seq(Connection) /\ Len(x) = Len(w) /\ \A d \in 1..Len(w) : x[d] = IF d = c THEN v ELSE w[d]
      BY <1>3, <1>4, ExceptSeq
    <2> QED BY <1>3, <2>1 DEF Rewired, Opened
  <1> QED BY <1>3, <1>5 DEF x, SameUp, SameEnds

LEMMA WireDisplayed ==
  ASSUME NEW w \in Seq(Connection), NEW c \in 1..Len(w), w[c].down # <<>>, Head(w[c].down) \in Message
  PROVE  /\ Rewired(w, Displayed(w, c))
         /\ \A d \in 1..Len(w) :
              LET x == Displayed(w, c) IN
              /\ SameUp(x[d], w[d]) /\ SameEnds(x[d], w[d])
              /\ x[d].down = IF d = c THEN Tail(w[c].down) ELSE w[d].down
              /\ x[d].heard = IF d = c THEN Append(w[c].heard, Head(w[c].down)) ELSE w[d].heard
  <1> DEFINE v == [w[c] EXCEPT !.down = Tail(w[c].down), !.heard = Append(w[c].heard, Head(w[c].down))]
             x == Displayed(w, c)
  <1>1. w[c] \in Connection
    BY WireAt
  <1>2. Tail(w[c].down) \in Seq(Message \cup Answer) /\ Append(w[c].heard, Head(w[c].down)) \in Seq(Message)
    BY <1>1, Shortened, Appended DEF Connection
  <1>3. v \in Connection /\ Opened(v, w[c]) /\ v.down = Tail(w[c].down)
        /\ v.heard = Append(w[c].heard, Head(w[c].down))
        /\ SameUp(v, w[c]) /\ SameEnds(v, w[c])
    BY <1>1, <1>2 DEF Connection, Opened, SameUp, SameEnds
  <1>4. x = [w EXCEPT ![c] = v]
    BY DEF Displayed
  <1> HIDE DEF v
  <1>5. Rewired(w, x) /\ \A d \in 1..Len(w) : x[d] = IF d = c THEN v ELSE w[d]
    <2>1. x \in Seq(Connection) /\ Len(x) = Len(w) /\ \A d \in 1..Len(w) : x[d] = IF d = c THEN v ELSE w[d]
      BY <1>3, <1>4, ExceptSeq
    <2> QED BY <1>3, <2>1 DEF Rewired, Opened
  <1> QED BY <1>3, <1>5 DEF SameUp, SameEnds

LEMMA WireEnded ==
  ASSUME NEW w \in Seq(Connection), NEW u
  PROVE  /\ Rewired(w, Ended(w, u))
         /\ \A d \in 1..Len(w) :
              LET x == Ended(w, u) IN
              /\ SameUp(x[d], w[d]) /\ SameDown(x[d], w[d]) /\ x[d].server = w[d].server
              /\ x[d].client = IF w[d].owner = u /\ w[d].client = "open" THEN "gone" ELSE w[d].client
  <1> DEFINE x == Ended(w, u)
  <1>1. DOMAIN w = 1..Len(w) /\ Len(w) \in Nat
    BY LenProperties
  <1>2. x = [d \in 1..Len(w) |-> IF w[d].owner = u /\ w[d].client = "open"
                                   THEN [w[d] EXCEPT !.client = "gone"] ELSE w[d]]
    BY <1>1 DEF Ended
  <1> HIDE DEF x
  <1>3. ASSUME NEW d \in 1..Len(w)
        PROVE  /\ x[d] \in Connection /\ Opened(x[d], w[d])
               /\ SameUp(x[d], w[d]) /\ SameDown(x[d], w[d]) /\ x[d].server = w[d].server
               /\ x[d].client = IF w[d].owner = u /\ w[d].client = "open" THEN "gone" ELSE w[d].client
    <2>1. w[d] \in Connection
      BY WireAt
    <2> QED BY <1>2, <2>1 DEF Opened, SameUp, SameDown, Connection
  <1>4. x \in Seq(Connection) /\ Len(x) = Len(w)
    <2>1. x \in [1..Len(w) -> Connection]
      BY <1>2, <1>3
    <2> QED BY <1>1, <2>1, SeqDef, LenProperties
  <1> QED BY <1>3, <1>4 DEF Rewired, x
-----------------------------------------------------------------------------
(* What a step leaves alone: where a connection is, and all of it.         *)
SameStage(c) ==
  (Queued(c)' <=> Queued(c)) /\ (InPipe(c)' <=> InPipe(c)) /\ (Seated(c)' <=> Seated(c))

Kept(c) ==
  /\ Opened(wire'[c], wire[c]) /\ SameUp(wire'[c], wire[c]) /\ SameDown(wire'[c], wire[c])
  /\ wire'[c].client = wire[c].client /\ SameStage(c)

LEMMA UpKept ==
  ASSUME NEW c \in Conns, UpOf(c), SameStage(c),
         Opened(wire'[c], wire[c]), SameUp(wire'[c], wire[c])
  PROVE  UpOf(c)'
  BY DEF UpOf, SameStage, Opened, SameUp, UpShape, JoinOf

LEMMA DownKept ==
  ASSUME wire \in Seq(Connection), Rewired(wire, wire'), NEW c \in Conns, DownOf(c), SameStage(c),
         SameDown(wire'[c], wire[c]), wire'[c].server = wire[c].server
  PROVE  DownOf(c)'
  BY DEF DownOf, SameStage, SameDown, Rewired, Opened, Conns

LEMMA DownLeft ==
  ASSUME wire \in Seq(Connection), Rewired(wire, wire'), NEW c \in Conns, DownOf(c),
         SameDown(wire'[c], wire[c]), ~Queued(c)', ~InPipe(c)', ~Seated(c)'
  PROVE  DownOf(c)'
  BY DEF DownOf, SameDown, Rewired, Opened, Conns

LEMMA ClientKept ==
  ASSUME NEW u \in User, ClientOf(u), client'[u] = client[u], Len(wire') >= Len(wire),
         Len(wire) \in Nat, Len(wire') \in Nat,
         \A d \in Conns : wire[d].owner = u /\ wire[d].client = "open" => Kept(d)
  PROVE  ClientOf(u)'
  <1>1. Conns \subseteq Conns'
    BY DEF Conns
  <1>2. ASSUME NEW a \in Nat, AskingOf(u, a) PROVE AskingOf(u, a)'
    <2>1. Kept(a) /\ a \in Conns'
      BY <1>1, <1>2 DEF AskingOf
    <2> QED BY <1>2, <2>1 DEF AskingOf, Kept, SameStage, Opened, SameUp, SameDown
  <1>3. ASSUME NEW c \in Nat, JoinedOf(u, c) PROVE JoinedOf(u, c)'
    <2>1. Kept(c) /\ c \in Conns'
      BY <1>1, <1>3 DEF JoinedOf
    <2> QED BY <1>3, <2>1 DEF JoinedOf, Kept, SameStage, Opened, SameUp, SameDown
  <1>4. /\ client[u].asking # 0 => client[u].asking \in Nat
        /\ client[u].client_socket # 0 => client[u].client_socket \in Nat
    BY DEF ClientOf, AskingOf, JoinedOf, Conns
  <1>5. client[u].asking # 0 => AskingOf(u, client[u].asking)'
    <2> SUFFICES ASSUME NEW a \in Nat, a = client[u].asking, a # 0 PROVE AskingOf(u, a)'
      BY <1>4
    <2> QED BY <1>2 DEF ClientOf
  <1>6. client[u].client_socket # 0 => JoinedOf(u, client[u].client_socket)'
    <2> SUFFICES ASSUME NEW c \in Nat, c = client[u].client_socket, c # 0 PROVE JoinedOf(u, c)'
      BY <1>4
    <2> QED BY <1>3 DEF ClientOf
  <1> QED BY <1>5, <1>6 DEF ClientOf

(* Cells in use.                                                           *)
LEMMA SlotIn ==
  ASSUME TableInv, NEW k \in Channel, NEW i \in Slots(k)
  PROVE  /\ i \in Row /\ Cell(k, i) \in Cells
         /\ socket_list[Cell(k, i)] \in {-1} \cup Members(k)
  <1>1. i \in Row
    BY ServerAssumption DEF TableInv, Slots, Row
  <1> QED BY <1>1, CellIn DEF Members

LEMMA MemberSlot ==
  ASSUME TableInv, NEW k \in Channel, NEW c
  PROVE  c \in Members(k) <=> c # -1 /\ \E i \in Slots(k) : socket_list[Cell(k, i)] = c
  BY DEF Members

(* What is around a channel was accepted.                                  *)
LEMMA AroundConns ==
  ASSUME IInv
  PROVE  \A k \in Channel : Around(k) \subseteq Conns
  <1>1. wire \in Seq(Connection) /\ backlog \in Seq(Nat)
    BY DEF IInv, WireInv, AcceptInv
  <1>2. PICK m \in Nat, n \in Nat : m = Len(wire) /\ n = Len(backlog)
    BY <1>1, LenProperties
  <1>3. 1..Accepted \subseteq Conns
    BY <1>2 DEF Accepted, Conns
  <1>4. \A k \in Channel : Around(k) \subseteq 1..Accepted
    BY DEF IInv, PipeInv, TableInv, Around
  <1> QED BY <1>3, <1>4

(* A client's step leaves the server's side of the chat as it is.          *)
LEMMA ClientSide ==
  ASSUME IInv, Rewired(wire, wire'), UNCHANGED <<serverVars, backlog>>
  PROVE  /\ WireInv' /\ RouterInv' /\ AcceptInv' /\ PipeInv' /\ TableInv' /\ RoomInv'
         /\ Conns' = Conns /\ \A c \in Conns : SameStage(c)
  <1> USE DEF serverVars, routerVars, tableVars
  <1>1. /\ wire' \in Seq(Connection) /\ Len(wire') = Len(wire)
        /\ \A c \in Conns : wire'[c].room = wire[c].room
    BY DEF Rewired, Opened, Conns
  <1>2. Accepted' = Accepted /\ Conns' = Conns
    BY <1>1 DEF Accepted, Conns
  <1>3. \A k : Members(k)' = Members(k) /\ Piped(k)' = Piped(k) /\ Slots(k)' = Slots(k)
    BY DEF Members, Slots, Piped
  <1>4. \A k : Around(k)' = Around(k)
    BY <1>3 DEF Around
  <1>5. WireInv'
    BY <1>1 DEF IInv, WireInv
  <1>6. RouterInv'
    BY DEF IInv, RouterInv, Creates
  <1>7. AcceptInv'
    BY <1>1, <1>2 DEF IInv, AcceptInv
  <1>8. PipeInv'
    BY <1>2, <1>3 DEF IInv, PipeInv
  <1>9. TableInv'
    BY <1>2, <1>3 DEF IInv, TableInv
  <1>10. RoomInv'
    <2>1. \A k \in Channel : Around(k) \subseteq Conns
      BY AroundConns
    <2> QED BY <1>1, <1>4, <2>1 DEF IInv, RoomInv
  <1>11. \A c \in Conns : SameStage(c)
    BY <1>2, <1>3 DEF SameStage, Queued, InPipe, Seated
  <1> QED BY <1>2, <1>5, <1>6, <1>7, <1>8, <1>9, <1>10, <1>11

(* A connection is in one place at a time.                                 *)
LEMMA OnePlace ==
  ASSUME IInv, NEW c \in Conns
  PROVE  /\ Queued(c) => ~InPipe(c) /\ ~Seated(c)
         /\ InPipe(c) => ~Seated(c)
  <1>1. Len(wire) \in Nat /\ Len(backlog) \in Nat /\ Accepted \in Nat /\ Accepted <= Len(wire)
    BY LenProperties DEF IInv, WireInv, AcceptInv, Accepted
  <1>2. Queued(c) => ~InPipe(c)
    BY <1>1 DEF IInv, PipeInv, Queued, InPipe
  <1>3. Queued(c) => ~Seated(c)
    BY <1>1 DEF IInv, TableInv, Queued, Seated
  <1>4. InPipe(c) => ~Seated(c)
    BY DEF IInv, PipeInv, RoomInv, Around, InPipe, Seated
  <1> QED BY <1>2, <1>3, <1>4

(* What a step of a client at connection c alone has to show.              *)
LEMMA ClientStep ==
  ASSUME IInv, FromClients, UNCHANGED backlog, Rewired(wire, wire'),
         NEW u \in User, NEW c \in Conns, wire[c].owner = u,
         NEW s \in ClientState,
         client' = [client EXCEPT ![u] = s],
         \A d \in Conns : d # c =>
           SameUp(wire'[d], wire[d]) /\ SameDown(wire'[d], wire[d]) /\ SameEnds(wire'[d], wire[d]),
         wire'[c].server = wire[c].server,
         SameStage(c) => UpOf(c)' /\ DownOf(c)' /\ ClientOf(u)'
  PROVE  IInv'
  <1>1. /\ WireInv' /\ RouterInv' /\ AcceptInv' /\ PipeInv' /\ TableInv' /\ RoomInv'
        /\ Conns' = Conns /\ \A d \in Conns : SameStage(d)
    BY ClientSide DEF FromClients
  <1>2. wire \in Seq(Connection) /\ Len(wire') = Len(wire) /\ Len(wire) \in Nat
        /\ \A d \in Conns : Opened(wire'[d], wire[d])
    BY LenProperties DEF IInv, WireInv, Rewired, Conns
  <1>3. UpInv'
    <2>1. ASSUME NEW d \in Conns, d # c PROVE UpOf(d)'
      BY <1>1, <1>2, <2>1, UpKept DEF IInv, UpInv
    <2> QED BY <1>1, <2>1 DEF UpInv
  <1>4. DownInv'
    <2>1. ASSUME NEW d \in Conns, d # c PROVE DownOf(d)'
      BY <1>1, <1>2, <2>1, DownKept DEF IInv, DownInv, SameEnds
    <2> QED BY <1>1, <2>1 DEF DownInv
  <1>5. ClientInv'
    <2>1. client' \in [User -> ClientState]
      BY DEF IInv, ClientInv
    <2>2. ASSUME NEW v \in User, v # u PROVE ClientOf(v)'
      <3>1. client'[v] = client[v]
        BY <2>2 DEF IInv, ClientInv
      <3>2. ASSUME NEW d \in Conns, wire[d].owner = v PROVE Kept(d)
        BY <1>1, <1>2, <2>2, <3>2 DEF Kept, SameEnds
      <3> QED BY <1>2, <3>1, <3>2, ClientKept DEF IInv, ClientInv
    <2>3. ClientOf(u)'
      BY <1>1
    <2> QED BY <2>1, <2>2, <2>3 DEF ClientInv
  <1> QED BY <1>1, <1>3, <1>4, <1>5 DEF IInv

LEMMA SendJoinStep ==
  ASSUME IInv, NEW u \in User, SendJoin(u), FromClients
  PROVE  IInv'
  <1>1. PICK c \in Nat : c = client[u].asking
    BY DEF IInv, ClientInv, ClientState
  <1>2. c # 0 /\ ~client[u].asked
    BY <1>1 DEF SendJoin, Listens
  <1>3. AskingOf(u, c) /\ ClientOf(u)
    BY <1>1, <1>2 DEF IInv, ClientInv, ClientOf
  <1>4. /\ c \in Conns /\ wire[c].owner = u /\ Queued(c) /\ wire[c].up = <<>>
        /\ wire \in Seq(Connection) /\ wire[c].room \in Name /\ wire[c].said = 0
    BY <1>2, <1>3, WireAt DEF AskingOf, IInv, WireInv, Conns
  <1>5. wire[c].server = "open" /\ DownOf(c)
    BY <1>4 DEF IInv, DownInv, DownOf
  <1> DEFINE p == [kind |-> "join", channel |-> wire[c].room, name |-> u]
  <1>6. p \in UpPacket
    BY <1>4 DEF UpPacket
  <1>7. wire' = Sends(wire, c, p) /\ UNCHANGED backlog
    BY <1>1 DEF SendJoin
  <1>8. p = JoinOf(wire[c])
    BY <1>4 DEF JoinOf
  <1> HIDE DEF p
  <1>9. /\ Rewired(wire, wire')
        /\ \A d \in Conns :
             /\ SameDown(wire'[d], wire[d]) /\ SameEnds(wire'[d], wire[d]) /\ wire'[d].said = wire[d].said
             /\ wire'[d].up = IF d = c /\ wire[c].server = "open" THEN Append(wire[c].up, p) ELSE wire[d].up
    BY <1>4, <1>6, <1>7, WireSent DEF Conns
  <1> DEFINE s == [client[u] EXCEPT !.asked = TRUE]
  <1>10. /\ client[u] \in ClientState
         /\ client \in [User -> ClientState]
    BY DEF IInv, ClientInv
  <1>11. /\ s \in ClientState
         /\ client' = [client EXCEPT ![u] = s]
    BY <1>10 DEF SendJoin, ClientState
  <1>12. s.asking = c /\ s.client_socket = client[u].client_socket /\ s.in_channel = client[u].in_channel /\ s.asked = TRUE
    BY <1>1, <1>10 DEF ClientState
  <1> HIDE DEF s
  <1>13. client'[u] = s
    BY <1>10, <1>11
  <1>14. \A d \in Conns : d # c =>
           SameUp(wire'[d], wire[d]) /\ SameDown(wire'[d], wire[d]) /\ SameEnds(wire'[d], wire[d])
    BY <1>9 DEF SameUp
  <1>15. ~InPipe(c)
    BY <1>4, OnePlace
  <1>16. ASSUME SameStage(c) PROVE UpOf(c)'
    <2>1. wire'[c].up = <<p>> /\ wire'[c].said = 0
      BY <1>4, <1>5, <1>9
    <2>2. p = JoinOf(wire'[c])
      BY <1>4, <1>8, <1>9 DEF JoinOf, Rewired, Opened, Conns
    <2> QED BY <1>4, <1>15, <1>16, <2>1, <2>2 DEF UpOf, SameStage
  <1>17. ASSUME SameStage(c) PROVE DownOf(c)'
    BY <1>4, <1>5, <1>9, <1>17, DownKept DEF SameEnds
  <1>18. ASSUME SameStage(c) PROVE ClientOf(u)'
    <2>1. AskingOf(u, c)'
      BY <1>3, <1>4, <1>9, <1>12, <1>13, <1>18 DEF AskingOf, SameStage, SameEnds, SameDown, Rewired, Opened, Conns
    <2>2. ASSUME NEW e \in Nat, e = client[u].client_socket, e # 0 PROVE JoinedOf(u, e)'
      <3>1. JoinedOf(u, e) /\ e # c /\ ~client[u].in_channel
        BY <1>1, <1>2, <1>3, <2>2 DEF ClientOf
      <3>2. e \in Conns
        BY <3>1 DEF JoinedOf
      <3>3. SameStage(e)
        BY <3>2, ClientSide, <1>7, <1>9 DEF FromClients
      <3> QED BY <1>9, <1>12, <1>13, <1>14, <3>1, <3>2, <3>3
          DEF JoinedOf, SameStage, SameEnds, SameDown, SameUp, Rewired, Opened, Conns
    <2>3. client[u].client_socket \in Nat
      BY <1>10 DEF ClientState
    <2> QED BY <1>1, <1>2, <1>3, <1>12, <1>13, <2>1, <2>2, <2>3 DEF ClientOf
  <1> QED BY <1>4, <1>7, <1>9, <1>11, <1>14, <1>16, <1>17, <1>18, ClientStep DEF SameEnds

(* The connection a client is in a channel with, or left last.             *)
LEMMA Joined ==
  ASSUME IInv, NEW u \in User, NEW c, c = client[u].client_socket, c # 0
  PROVE  /\ ClientOf(u) /\ JoinedOf(u, c) /\ c \in Conns /\ wire[c].owner = u /\ c \in 1..Len(wire)
         /\ wire \in Seq(Connection) /\ wire[c] \in Connection /\ UpOf(c) /\ DownOf(c)
         /\ client \in [User -> ClientState] /\ client[u] \in ClientState
         /\ \E m \in 0..Len(wire[c].up) : UpShape(wire[c].up, m, wire[c].said)
         /\ wire[c].down # <<>> => Head(wire[c].down) \in Message /\ Head(wire[c].down) = wire[c].down[1]
  <1>1. ClientOf(u) /\ JoinedOf(u, c) /\ client \in [User -> ClientState]
    BY DEF IInv, ClientInv, ClientOf
  <1>2. c \in Conns /\ wire[c].owner = u /\ c \in 1..Len(wire) /\ wire \in Seq(Connection)
    BY <1>1 DEF JoinedOf, IInv, WireInv, Conns
  <1>3. UpOf(c) /\ DownOf(c)
    BY <1>2 DEF IInv, UpInv, DownInv
  <1>4. \E m \in 0..Len(wire[c].up) : UpShape(wire[c].up, m, wire[c].said)
    BY <1>1, <1>3 DEF UpOf, JoinedOf
  <1>5. ASSUME wire[c].down # <<>>
        PROVE  Head(wire[c].down) \in Message /\ Head(wire[c].down) = wire[c].down[1]
    <2>1. wire[c].down \in Seq(Message \cup Answer)
      BY <1>2, WireAt
    <2>2. 1 \in 1..Len(wire[c].down) /\ Head(wire[c].down) = wire[c].down[1]
          /\ Head(wire[c].down) \in Message \cup Answer
      BY <1>5, <2>1, Shortened
    <2>3. Head(wire[c].down).kind = "msg"
      BY <1>1, <2>2 DEF JoinedOf
    <2> QED BY <2>2, <2>3 DEF Answer
  <1> QED BY <1>1, <1>2, <1>3, <1>4, <1>5, WireAt

LEMMA AnsweredStep ==
  ASSUME IInv, NEW u \in User, Answered(u), FromClients
  PROVE  IInv'
  <1>1. PICK c \in Nat : c = client[u].asking
    BY DEF IInv, ClientInv, ClientState
  <1>2. /\ client[u].asked /\ wire[c].down # <<>> /\ UNCHANGED backlog
        /\ wire' = Answers(wire, c)
    BY <1>1 DEF Answered, Answers
  <1>3. c # 0 /\ AskingOf(u, c) /\ ClientOf(u) /\ client \in [User -> ClientState]
        /\ client[u] \in ClientState
    BY <1>1, <1>2 DEF IInv, ClientInv, ClientOf
  <1>4. /\ c \in Conns /\ wire[c].owner = u /\ c \in 1..Len(wire) /\ wire \in Seq(Connection)
        /\ UpOf(c) /\ DownOf(c)
    BY <1>3 DEF AskingOf, IInv, WireInv, UpInv, DownInv, Conns
  <1>5. ~Queued(c) /\ ~InPipe(c) /\ wire[c].up = <<>>
    BY <1>2, <1>3, <1>4 DEF DownOf, AskingOf
  <1>6. /\ Rewired(wire, wire')
        /\ \A d \in Conns :
             /\ SameUp(wire'[d], wire[d]) /\ SameEnds(wire'[d], wire[d]) /\ wire'[d].heard = wire[d].heard
             /\ wire'[d].down = IF d = c THEN Tail(wire[c].down) ELSE wire[d].down
    BY <1>2, <1>4, WireAnswered DEF Conns
  <1>7. /\ wire[c].down \in Seq(Message \cup Answer) /\ DownShape(Tail(wire[c].down))
        /\ \A j \in 1..Len(Tail(wire[c].down)) :
             /\ Tail(wire[c].down)[j] \in Message
             /\ Tail(wire[c].down)[j] = wire[c].down[j + 1] /\ j + 1 \in 1..Len(wire[c].down)
        /\ Head(wire[c].down) = wire[c].down[1]
    <2>1. wire[c].down \in Seq(Message \cup Answer) /\ DownShape(wire[c].down)
      BY <1>4, WireAt DEF DownOf
    <2> QED BY <1>2, <2>1, Shortened, DownTaken
  <1>8. PICK s \in ClientState :
          /\ client' = [client EXCEPT ![u] = s]
          /\ IF wire[c].down[1].kind = "accepted"
               THEN s = [Launched EXCEPT !.in_channel = TRUE, !.client_socket = c]
               ELSE s = [client[u] EXCEPT !.asking = 0, !.asked = FALSE]
    <2>1. [Launched EXCEPT !.in_channel = TRUE, !.client_socket = c] \in ClientState
      BY DEF Launched, ClientState
    <2>2. [client[u] EXCEPT !.asking = 0, !.asked = FALSE] \in ClientState
      BY <1>3 DEF ClientState
    <2> QED BY <1>1, <1>7, <2>1, <2>2 DEF Answered
  <1>9. client'[u] = s
    BY <1>3, <1>8
  <1>10. \A d \in Conns : d # c =>
           SameUp(wire'[d], wire[d]) /\ SameDown(wire'[d], wire[d]) /\ SameEnds(wire'[d], wire[d])
    BY <1>6 DEF SameDown
  <1>11. ASSUME SameStage(c) PROVE UpOf(c)'
    BY <1>4, <1>6, <1>11, UpKept DEF Rewired, Conns
  <1>12. ASSUME SameStage(c) PROVE DownOf(c)'
    <2>1. \A j \in 1..Len(wire'[c].down) : wire'[c].down[j].kind = "msg" =>
            wire'[c].down[j].from \in Conns /\ wire[wire'[c].down[j].from].room = wire[c].room
      <3> TAKE j \in 1..Len(wire'[c].down)
      <3>1. wire'[c].down = Tail(wire[c].down)
        BY <1>4, <1>6
      <3>2. wire'[c].down[j] = wire[c].down[j + 1] /\ j + 1 \in 1..Len(wire[c].down)
        BY <1>7, <3>1
      <3> QED BY <1>4, <3>2 DEF DownOf
    <2>2. DownShape(wire'[c].down) /\ wire'[c].heard = wire[c].heard /\ wire'[c].server = wire[c].server
      BY <1>4, <1>6, <1>7 DEF SameEnds
    <2> QED BY <1>4, <1>5, <1>6, <1>12, <2>1, <2>2 DEF DownOf, SameStage, Rewired, Opened, Conns
  <1>13. ASSUME SameStage(c) PROVE ClientOf(u)'
    <2>1. CASE wire[c].down[1].kind = "accepted"
      <3>1. /\ s.in_channel = TRUE /\ s.client_socket = c /\ s.asking = 0 /\ s.asked = FALSE
        BY <1>8, <2>1 DEF Launched
      <3>2. Seated(c)
        BY <1>3, <2>1, <1>2 DEF AskingOf
      <3>3. /\ wire'[c].owner = u /\ wire'[c].client = "open" /\ wire'[c].up = <<>> /\ c \in Conns'
            /\ wire'[c].down = Tail(wire[c].down)
        BY <1>3, <1>4, <1>5, <1>6 DEF AskingOf, SameEnds, SameUp, Rewired, Opened, Conns
      <3>4. \A j \in 1..Len(wire'[c].down) : wire'[c].down[j].kind = "msg"
        BY <1>7, <3>3 DEF Message
      <3>5. JoinedOf(u, c)'
        BY <1>5, <1>13, <3>2, <3>3, <3>4 DEF JoinedOf, SameStage
      <3> QED BY <1>3, <1>9, <3>1, <3>5 DEF ClientOf
    <2>2. CASE wire[c].down[1].kind # "accepted"
      <3>1. /\ s.in_channel = client[u].in_channel /\ s.client_socket = client[u].client_socket
            /\ s.asking = 0 /\ s.asked = FALSE
        BY <1>3, <1>8, <2>2 DEF ClientState
      <3>2. ASSUME NEW e \in Nat, e = client[u].client_socket, e # 0 PROVE JoinedOf(u, e)'
        <4>1. JoinedOf(u, e) /\ e # c /\ ~client[u].in_channel
          BY <1>1, <1>3, <3>2 DEF ClientOf
        <4>2. e \in Conns
          BY <4>1 DEF JoinedOf
        <4>3. SameStage(e)
          BY <4>2, ClientSide, <1>2, <1>6 DEF FromClients
        <4> QED BY <1>6, <1>9, <1>10, <3>1, <4>1, <4>2, <4>3
            DEF JoinedOf, SameStage, SameEnds, SameDown, SameUp, Rewired, Opened, Conns
      <3>3. client[u].client_socket \in Nat
        BY <1>3 DEF ClientState
      <3> QED BY <1>1, <1>3, <1>9, <3>1, <3>2, <3>3 DEF ClientOf
    <2> QED BY <2>1, <2>2
  <1>14. wire'[c].server = wire[c].server
    BY <1>4, <1>6 DEF SameEnds
  <1> QED BY <1>2, <1>4, <1>6, <1>8, <1>10, <1>11, <1>12, <1>13, <1>14, ClientStep

LEMMA SayStep ==
  ASSUME IInv, NEW u \in User, Say(u), FromClients
  PROVE  IInv'
  <1>1. PICK c : c = client[u].client_socket
    OBVIOUS
  <1>2. c # 0 /\ client[u].in_channel /\ UNCHANGED <<client, backlog>> /\ wire' = Speaks(wire, c)
    BY <1>1 DEF Say, Speaks, IInv, ClientInv, ClientOf
  <1>3. /\ ClientOf(u) /\ JoinedOf(u, c) /\ c \in Conns /\ wire[c].owner = u /\ c \in 1..Len(wire)
        /\ wire \in Seq(Connection) /\ wire[c] \in Connection /\ UpOf(c) /\ DownOf(c)
        /\ client \in [User -> ClientState] /\ client[u] \in ClientState
    BY <1>1, <1>2, Joined
  <1>4. PICK m \in 0..Len(wire[c].up) : UpShape(wire[c].up, m, wire[c].said)
    BY <1>1, <1>2, Joined
  <1>5. wire[c].up \in Seq(UpPacket) /\ wire[c].said \in Nat
    BY <1>3, WireAt
  <1>6. /\ Seated(c) /\ wire[c].server = "open"
        /\ \A j \in 1..Len(wire[c].up) : wire[c].up[j].kind = "msg"
    BY <1>2, <1>3 DEF JoinedOf, DownOf
  <1>7. m = Len(wire[c].up)
    BY <1>4, <1>5, <1>6, UpSaid
  <1> DEFINE p == [kind |-> "msg", n |-> wire[c].said + 1]
  <1>8. /\ Rewired(wire, wire')
        /\ \A d \in Conns :
              /\ SameDown(wire'[d], wire[d]) /\ SameEnds(wire'[d], wire[d])
              /\ d # c => SameUp(wire'[d], wire[d])
        /\ wire'[c].up = Append(wire[c].up, p)
        /\ wire'[c].said = wire[c].said + 1
    BY <1>2, <1>3, <1>6, WireSpoken DEF Conns
  <1>16. p \in UpPacket /\ p.kind = "msg"
    BY <1>5 DEF UpPacket, Spoken
  <1>17. UpShape(Append(wire[c].up, p), Len(wire[c].up) + 1, wire[c].said + 1)
    <2>1. UpShape(wire[c].up, Len(wire[c].up), wire[c].said)
      BY <1>4, <1>7
    <2> QED BY <1>5, <2>1, UpSpoken
  <1> HIDE DEF p
  <1>9. UpShape(wire'[c].up, Len(wire[c].up) + 1, wire'[c].said)
    BY <1>8, <1>17
  <1>10. /\ Len(wire'[c].up) = Len(wire[c].up) + 1 /\ Len(wire[c].up) \in Nat
         /\ \A j \in 1..Len(wire'[c].up) : wire'[c].up[j].kind = "msg"
    <2> DEFINE t == wire'[c].up
               n == Len(wire[c].up)
    <2>1. /\ Len(t) = n + 1 /\ n \in Nat
          /\ \A j \in 1..(n + 1) : t[j] = IF j = n + 1 THEN p ELSE wire[c].up[j]
      BY <1>5, <1>8, <1>16, Appended
    <2>2. ASSUME NEW j \in 1..(n + 1) PROVE t[j].kind = "msg"
      <3>1. CASE j = n + 1
        BY <1>16, <2>1, <3>1
      <3>2. CASE j # n + 1
        <4>1. j \in 1..n /\ t[j] = wire[c].up[j]
          BY <2>1, <3>2
        <4> QED BY <1>6, <4>1
      <3> QED BY <3>1, <3>2
    <2> QED BY <2>1, <2>2
  <1>11. ASSUME SameStage(c) PROVE UpOf(c)'
    <2>1. Len(wire[c].up) + 1 \in 0..Len(wire'[c].up)
      BY <1>10
    <2>2. ~Queued(c) /\ ~InPipe(c)
      BY <1>3 DEF JoinedOf
    <2> QED BY <1>9, <1>11, <2>1, <2>2 DEF UpOf, SameStage
  <1>12. ASSUME SameStage(c) PROVE DownOf(c)'
    BY <1>3, <1>8, <1>12, DownKept DEF SameEnds
  <1>13. ASSUME SameStage(c) PROVE ClientOf(u)'
    <2>1. JoinedOf(u, c)'
      BY <1>2, <1>3, <1>8, <1>10, <1>13 DEF JoinedOf, SameStage, SameEnds, SameDown, Rewired, Opened, Conns
    <2>2. client[u].asking = 0 /\ ~client[u].asked
      BY <1>2, <1>3 DEF Say, Listens, ClientOf
    <2> QED BY <1>1, <1>2, <1>3, <2>1, <2>2 DEF ClientOf
  <1>14. client' = [client EXCEPT ![u] = client[u]]
    BY <1>2, <1>3
  <1>15. wire'[c].server = wire[c].server
    BY <1>3, <1>8 DEF SameEnds
  <1> QED BY <1>2, <1>3, <1>8, <1>11, <1>12, <1>13, <1>14, <1>15, ClientStep

(* A message is displayed.                                                 *)
LEMMA DownShown ==
  ASSUME wire \in Seq(Connection), Rewired(wire, wire'), NEW c \in Conns, DownOf(c), SameStage(c),
         wire[c].down # <<>>, Head(wire[c].down) \in Message,
         \A j \in 1..Len(wire[c].down) : wire[c].down[j].kind = "msg",
         wire'[c].down = Tail(wire[c].down),
         wire'[c].heard = Append(wire[c].heard, Head(wire[c].down)),
         wire'[c].server = wire[c].server
  PROVE  DownOf(c)' /\ \A j \in 1..Len(wire'[c].down) : wire'[c].down[j].kind = "msg"
  <1> DEFINE d == wire[c].down
             h == wire[c].heard
             e == wire'[c].down
             g == wire'[c].heard
  <1>1. d \in Seq(Message \cup Answer) /\ h \in Seq(Message) /\ DownShape(d)
    BY WireAt DEF Conns, DownOf
  <1>2. /\ Len(e) = Len(d) - 1 /\ Len(d) \in Nat \ {0} /\ Head(d) = d[1]
        /\ \A j \in 1..Len(e) : e[j] = d[j + 1] /\ j + 1 \in 1..Len(d)
    BY <1>1, Shortened
  <1>3. DownShape(e)
    BY <1>1, DownTaken
  <1>4. /\ Len(g) = Len(h) + 1 /\ Len(h) \in Nat
        /\ \A j \in 1..Len(g) : g[j] = IF j = Len(h) + 1 THEN d[1] ELSE h[j]
    BY <1>1, <1>2, Appended
  <1>5. Seated(c) => wire[c].server = "open"
    BY DEF DownOf
  <1>6. ~Queued(c) /\ ~InPipe(c)
    BY DEF DownOf
  <1>7. \A j \in 1..Len(d) : d[j].from \in Conns /\ wire[d[j].from].room = wire[c].room
    BY DEF DownOf
  <1>8. \A j \in 1..Len(h) : h[j].from \in Conns /\ wire[h[j].from].room = wire[c].room
    BY DEF DownOf
  <1> HIDE DEF d, e, g, h
  <1>9. /\ \A j \in 1..Len(e) : e[j].from \in Conns /\ wire[e[j].from].room = wire[c].room
        /\ \A j \in 1..Len(e) : e[j].kind = "msg"
    <2> SUFFICES ASSUME NEW j \in 1..Len(e)
                 PROVE  e[j].from \in Conns /\ wire[e[j].from].room = wire[c].room /\ e[j].kind = "msg"
      OBVIOUS
    <2>1. e[j] = d[j + 1] /\ j + 1 \in 1..Len(d)
      BY <1>2
    <2> QED BY <1>7, <2>1 DEF d
  <1>10. \A j \in 1..Len(g) : g[j].from \in Conns /\ wire[g[j].from].room = wire[c].room
    <2> TAKE j \in 1..Len(g)
    <2>1. CASE j = Len(h) + 1
      <3>1. g[j] = d[1] /\ 1 \in 1..Len(d)
        BY <1>2, <1>4, <2>1
      <3> QED BY <1>7, <3>1
    <2>2. CASE j # Len(h) + 1
      <3>1. g[j] = h[j] /\ j \in 1..Len(h)
        BY <1>4, <2>2
      <3> QED BY <1>8, <3>1
    <2> QED BY <2>1, <2>2
  <1>11. Conns' = Conns /\ \A b \in Conns : wire'[b].room = wire[b].room
    BY DEF Rewired, Opened, Conns
  <1> QED BY <1>3, <1>5, <1>6, <1>9, <1>10, <1>11 DEF DownOf, SameStage, e, g

LEMMA check_output_socketsStep ==
  ASSUME IInv, NEW u \in User, check_output_sockets(u), FromClients
  PROVE  IInv'
  <1>1. PICK c : c = client[u].client_socket
    OBVIOUS
  <1>2. /\ c # 0 /\ client[u].in_channel /\ UNCHANGED <<client, backlog>> /\ wire' = Displayed(wire, c)
        /\ wire[c].down # <<>>
    BY <1>1 DEF check_output_sockets, IInv, ClientInv, ClientOf
  <1>3. /\ ClientOf(u) /\ JoinedOf(u, c) /\ c \in Conns /\ wire[c].owner = u /\ c \in 1..Len(wire)
        /\ wire \in Seq(Connection) /\ wire[c] \in Connection /\ UpOf(c) /\ DownOf(c)
        /\ client \in [User -> ClientState] /\ client[u] \in ClientState
    BY <1>1, <1>2, Joined
  <1>4. Head(wire[c].down) \in Message
    BY <1>1, <1>2, Joined
  <1>5. /\ Rewired(wire, wire')
        /\ \A d \in Conns :
              /\ SameUp(wire'[d], wire[d]) /\ SameEnds(wire'[d], wire[d])
              /\ wire'[d].down = IF d = c THEN Tail(wire[c].down) ELSE wire[d].down
              /\ wire'[d].heard = IF d = c THEN Append(wire[c].heard, Head(wire[c].down)) ELSE wire[d].heard
    BY <1>2, <1>3, <1>4, WireDisplayed DEF Conns
  <1>6. wire'[c].server = wire[c].server
    BY <1>3, <1>5 DEF SameEnds
  <1>7. ASSUME SameStage(c) PROVE UpOf(c)'
    BY <1>3, <1>5, <1>7, UpKept DEF Rewired, Conns
  <1>8. ASSUME SameStage(c)
        PROVE  DownOf(c)' /\ \A j \in 1..Len(wire'[c].down) : wire'[c].down[j].kind = "msg"
    <2>1. \A j \in 1..Len(wire[c].down) : wire[c].down[j].kind = "msg"
      BY <1>3 DEF JoinedOf
    <2>2. wire'[c].down = Tail(wire[c].down) /\ wire'[c].heard = Append(wire[c].heard, Head(wire[c].down))
      BY <1>3, <1>5
    <2> QED BY <1>2, <1>3, <1>4, <1>5, <1>6, <1>8, <2>1, <2>2, DownShown
  <1>9. ASSUME SameStage(c) PROVE ClientOf(u)'
    <2>1. wire'[c].owner = u /\ wire'[c].client = "open" /\ wire'[c].up = wire[c].up /\ c \in Conns'
      BY <1>3, <1>5 DEF JoinedOf, SameUp, SameEnds, Rewired, Opened, Conns
    <2>2. JoinedOf(u, c)'
      BY <1>2, <1>3, <1>8, <1>9, <2>1 DEF JoinedOf, SameStage
    <2>3. client[u].asking = 0 /\ ~client[u].asked
      BY <1>2, <1>3 DEF check_output_sockets, Listens, ClientOf
    <2> QED BY <1>1, <1>2, <1>3, <2>2, <2>3 DEF ClientOf
  <1>10. client' = [client EXCEPT ![u] = client[u]]
    BY <1>2, <1>3
  <1>11. \A d \in Conns : d # c =>
           SameUp(wire'[d], wire[d]) /\ SameDown(wire'[d], wire[d]) /\ SameEnds(wire'[d], wire[d])
    BY <1>5 DEF SameDown
  <1> QED BY <1>2, <1>3, <1>5, <1>6, <1>7, <1>8, <1>9, <1>10, <1>11, ClientStep

(* The packet of a leave is written.                                       *)
LEMMA Quitting ==
  ASSUME IInv, NEW u \in User, NEW c, c = client[u].client_socket, c # 0
  PROVE  /\ Rewired(wire, Quits(u))
         /\ \A d \in Conns :
              LET x == Quits(u) IN
              /\ SameDown(x[d], wire[d]) /\ SameEnds(x[d], wire[d])
              /\ d # c => SameUp(x[d], wire[d])
         /\ \E m \in 0..Len(Quits(u)[c].up) : UpShape(Quits(u)[c].up, m, Quits(u)[c].said)
  <1> DEFINE x == Quits(u)
  <1>1. /\ JoinedOf(u, c) /\ c \in Conns /\ c \in 1..Len(wire) /\ wire \in Seq(Connection)
        /\ \E m \in 0..Len(wire[c].up) : UpShape(wire[c].up, m, wire[c].said)
    BY Joined
  <1>2. Quit \in UpPacket /\ x = Sends(wire, c, Quit)
    BY DEF UpPacket, Quits, Quit
  <1>3. wire[c].up \in Seq(UpPacket) /\ wire[c].said \in Nat
    BY <1>1, WireAt
  <1> HIDE DEF x
  <1>4. /\ Rewired(wire, x)
        /\ \A d \in Conns :
             /\ SameDown(x[d], wire[d]) /\ SameEnds(x[d], wire[d]) /\ x[d].said = wire[d].said
             /\ x[d].up = IF d = c /\ wire[c].server = "open" THEN Append(wire[c].up, Quit) ELSE wire[d].up
    BY <1>1, <1>2, WireSent DEF Conns
  <1>5. PICK m \in 0..Len(wire[c].up) : UpShape(wire[c].up, m, wire[c].said)
    BY <1>1
  <1>6. /\ UpShape(Append(wire[c].up, Quit), m, wire[c].said)
        /\ m \in 0..Len(Append(wire[c].up, Quit))
    <2>1. UpShape(Append(wire[c].up, Quit), m, wire[c].said)
      BY <1>3, <1>5, UpQuit
    <2> QED BY <2>1 DEF UpShape
  <1>7. /\ x[c].said = wire[c].said
        /\ x[c].up = IF wire[c].server = "open" THEN Append(wire[c].up, Quit) ELSE wire[c].up
    BY <1>1, <1>4
  <1>8. UpShape(x[c].up, m, x[c].said) /\ m \in 0..Len(x[c].up)
    BY <1>5, <1>6, <1>7
  <1> QED BY <1>4, <1>8 DEF SameUp, x

(* The process of a client ends.                                           *)
LEMMA EndsStep ==
  ASSUME IInv, FromClients, NEW u \in User, NEW x \in Seq(Connection), Ends(u, x), Rewired(wire, x),
         \A d \in Conns :
           /\ SameDown(x[d], wire[d]) /\ SameEnds(x[d], wire[d])
           /\ wire[d].owner # u => SameUp(x[d], wire[d])
           /\ \/ SameUp(x[d], wire[d])
              \/ /\ ~Queued(d) /\ ~InPipe(d)
                 /\ \E m \in 0..Len(x[d].up) : UpShape(x[d].up, m, x[d].said)
  PROVE  IInv'
  <1>1. /\ wire' = Ended(x, u) /\ UNCHANGED backlog
        /\ client' = [client EXCEPT ![u] = Launched]
    BY DEF Ends
  <1>2. wire \in Seq(Connection) /\ Len(x) = Len(wire) /\ Len(wire) \in Nat
    BY LenProperties DEF IInv, WireInv, Rewired
  <1>3. /\ Rewired(x, wire')
        /\ \A d \in Conns :
             /\ SameUp(wire'[d], x[d]) /\ SameDown(wire'[d], x[d]) /\ wire'[d].server = x[d].server
             /\ wire'[d].client = IF x[d].owner = u /\ x[d].client = "open" THEN "gone" ELSE x[d].client
    BY <1>1, <1>2, WireEnded DEF Conns
  <1>4. Rewired(wire, wire')
    BY <1>2, <1>3 DEF Rewired, Opened
  <1>5. /\ WireInv' /\ RouterInv' /\ AcceptInv' /\ PipeInv' /\ TableInv' /\ RoomInv'
        /\ Conns' = Conns /\ \A d \in Conns : SameStage(d)
    BY <1>1, <1>4, ClientSide DEF FromClients
  <1>6. \A d \in Conns : SameDown(wire'[d], wire[d]) /\ wire'[d].server = wire[d].server
    BY <1>3 DEF SameDown, SameEnds
  <1>7. UpInv'
    <2>1. ASSUME NEW d \in Conns PROVE UpOf(d)'
      <3>1. CASE SameUp(x[d], wire[d])
        <4>1. SameUp(wire'[d], wire[d])
          BY <1>3, <3>1 DEF SameUp
        <4>2. Opened(wire'[d], wire[d]) /\ UpOf(d)
          BY <1>4 DEF Rewired, Conns, IInv, UpInv
        <4> QED BY <1>5, <4>1, <4>2, UpKept
      <3>2. CASE /\ ~Queued(d) /\ ~InPipe(d)
                 /\ \E m \in 0..Len(x[d].up) : UpShape(x[d].up, m, x[d].said)
        <4>1. SameStage(d)
          BY <1>5
        <4>2. \E m \in 0..Len(wire'[d].up) : UpShape(wire'[d].up, m, wire'[d].said)
          BY <1>3, <3>2 DEF SameUp
        <4> QED BY <3>2, <4>1, <4>2 DEF UpOf, SameStage
      <3> QED BY <3>1, <3>2
    <2> QED BY <1>5, <2>1 DEF UpInv
  <1>8. DownInv'
    <2>1. ASSUME NEW d \in Conns PROVE DownOf(d)'
      BY <1>2, <1>4, <1>5, <1>6, DownKept DEF IInv, DownInv
    <2> QED BY <1>5, <2>1 DEF DownInv
  <1>9. ClientInv'
    <2>1. client' \in [User -> ClientState] /\ client'[u] = Launched
      BY <1>1 DEF IInv, ClientInv, Launched, ClientState
    <2>2. ASSUME NEW v \in User, v # u PROVE ClientOf(v)'
      <3>1. client'[v] = client[v]
        BY <1>1, <2>2 DEF IInv, ClientInv
      <3>2. ASSUME NEW d \in Conns, wire[d].owner = v PROVE Kept(d)
        <4>1. Opened(wire'[d], wire[d]) /\ x[d].owner = v
          BY <1>4, <3>2 DEF Rewired, Opened, Conns
        <4>2. SameUp(x[d], wire[d]) /\ SameEnds(x[d], wire[d])
          BY <2>2, <3>2
        <4> QED BY <1>3, <1>5, <1>6, <2>2, <4>1, <4>2 DEF Kept, SameEnds, SameUp
      <3>3. Len(wire') = Len(wire)
        BY <1>4 DEF Rewired
      <3> QED BY <1>2, <3>1, <3>2, <3>3, ClientKept DEF IInv, ClientInv
    <2>3. ClientOf(u)'
      BY <2>1 DEF ClientOf, Launched
    <2> QED BY <2>1, <2>2, <2>3 DEF ClientInv
  <1> QED BY <1>5, <1>7, <1>8, <1>9 DEF IInv

LEMMA KillStep ==
  ASSUME IInv, NEW u \in User, Ends(u, wire), FromClients
  PROVE  IInv'
  <1>1. wire \in Seq(Connection) /\ Rewired(wire, wire)
    BY DEF IInv, WireInv, Rewired, Opened
  <1>2. \A d \in Conns : SameDown(wire[d], wire[d]) /\ SameEnds(wire[d], wire[d]) /\ SameUp(wire[d], wire[d])
    BY DEF SameDown, SameEnds, SameUp
  <1> QED BY <1>1, <1>2, EndsStep

LEMMA ExitStep ==
  ASSUME IInv, NEW u \in User, Exit(u), FromClients
  PROVE  IInv'
  <1>1. PICK c : c = client[u].client_socket
    OBVIOUS
  <1>2. c # 0 /\ Ends(u, Quits(u))
    BY <1>1 DEF Exit
  <1>3. JoinedOf(u, c) /\ c \in Conns /\ wire[c].owner = u
    BY <1>1, <1>2, Joined
  <1> DEFINE x == Quits(u)
  <1>4. /\ Rewired(wire, x)
        /\ \A d \in Conns :
              /\ SameDown(x[d], wire[d]) /\ SameEnds(x[d], wire[d])
              /\ d # c => SameUp(x[d], wire[d])
         /\ \E m \in 0..Len(x[c].up) : UpShape(x[c].up, m, x[c].said)
    BY <1>1, <1>2, Quitting
  <1> HIDE DEF x
  <1>5. x \in Seq(Connection) /\ ~Queued(c) /\ ~InPipe(c)
    BY <1>3, <1>4 DEF Rewired, JoinedOf
  <1>6. Ends(u, x)
    BY <1>2 DEF x
  <1> QED BY <1>3, <1>4, <1>5, <1>6, EndsStep

LEMMA quit_channelStep ==
  ASSUME IInv, NEW u \in User, quit_channel(u), FromClients
  PROVE  IInv'
  <1>1. PICK c : c = client[u].client_socket
    OBVIOUS
  <1>2. c # 0 /\ client[u].asking = 0
    BY <1>1 DEF quit_channel, Listens
  <1>3. /\ ClientOf(u) /\ JoinedOf(u, c) /\ c \in Conns /\ wire[c].owner = u /\ c \in 1..Len(wire)
        /\ wire \in Seq(Connection) /\ wire[c] \in Connection /\ UpOf(c) /\ DownOf(c)
        /\ client \in [User -> ClientState] /\ client[u] \in ClientState
    BY <1>1, <1>2, Joined
  <1>4. wire[c].down # <<>> => Head(wire[c].down) \in Message
    BY <1>1, <1>2, Joined
  <1> DEFINE x == Quits(u)
  <1>5. /\ Rewired(wire, x)
        /\ \A d \in Conns :
              /\ SameDown(x[d], wire[d]) /\ SameEnds(x[d], wire[d])
              /\ d # c => SameUp(x[d], wire[d])
        /\ \E m \in 0..Len(x[c].up) : UpShape(x[c].up, m, x[c].said)
    BY <1>1, <1>2, Quitting
  <1>6. CASE Ends(u, wire)
    BY <1>6, KillStep
  <1>7. CASE /\ wire' \in {x} \cup (IF client[u].in_channel /\ wire[c].down # <<>> THEN {Displayed(x, c)} ELSE {})
             /\ client' = [client EXCEPT ![u].in_channel = FALSE]
             /\ UNCHANGED backlog
    <2> HIDE DEF x
    <2> DEFINE shown == wire[c].down # <<>> /\ wire' = Displayed(x, c)
    <2>1. wire' = x \/ shown
      BY <1>7
    <2>2. /\ x \in Seq(Connection) /\ Len(x) = Len(wire) /\ x[c].down = wire[c].down /\ x[c].heard = wire[c].heard
          /\ \A d \in Conns : Opened(x[d], wire[d])
      BY <1>3, <1>5 DEF Rewired, SameDown, Conns
    <2>3. ASSUME shown
          PROVE  /\ Rewired(x, wire')
                 /\ \A d \in Conns :
                      /\ SameUp(wire'[d], x[d]) /\ SameEnds(wire'[d], x[d])
                      /\ wire'[d].down = IF d = c THEN Tail(wire[c].down) ELSE x[d].down
                      /\ wire'[d].heard = IF d = c THEN Append(wire[c].heard, Head(wire[c].down)) ELSE x[d].heard
      BY <1>3, <1>4, <2>2, <2>3, WireDisplayed DEF Conns
    <2>4. /\ Rewired(wire, wire')
          /\ \A d \in Conns :
               /\ SameUp(wire'[d], x[d]) /\ SameEnds(wire'[d], wire[d])
               /\ d # c => SameUp(wire'[d], wire[d]) /\ SameDown(wire'[d], wire[d])
      <3>1. CASE wire' = x
        BY <1>5, <3>1 DEF SameUp
      <3>2. CASE shown
        <4>1. Rewired(wire, wire')
          BY <2>2, <2>3, <3>2 DEF Rewired, Opened, Conns
        <4> QED BY <1>5, <2>3, <3>2, <4>1 DEF SameUp, SameDown, SameEnds
      <3> QED BY <2>1, <3>1, <3>2
    <2>5. ASSUME SameStage(c) PROVE UpOf(c)'
      <3>1. \E m \in 0..Len(wire'[c].up) : UpShape(wire'[c].up, m, wire'[c].said)
        BY <1>3, <1>5, <2>4 DEF SameUp
      <3>2. ~Queued(c) /\ ~InPipe(c)
        BY <1>3 DEF JoinedOf
      <3> QED BY <2>5, <3>1, <3>2 DEF UpOf, SameStage
    <2>6. wire'[c].server = wire[c].server
      BY <1>3, <2>4 DEF SameEnds
    <2>7. \A j \in 1..Len(wire[c].down) : wire[c].down[j].kind = "msg"
      BY <1>3 DEF JoinedOf
    <2>8. ASSUME SameStage(c)
          PROVE  DownOf(c)' /\ \A j \in 1..Len(wire'[c].down) : wire'[c].down[j].kind = "msg"
      <3>1. CASE wire' = x
        <4>1. SameDown(wire'[c], wire[c])
          BY <1>3, <1>5, <3>1
        <4>2. DownOf(c)'
          BY <1>3, <2>4, <2>6, <2>8, <4>1, DownKept
        <4> QED BY <2>7, <4>1, <4>2 DEF SameDown
      <3>2. CASE shown
        <4>1. wire'[c].down = Tail(wire[c].down) /\ wire'[c].heard = Append(wire[c].heard, Head(wire[c].down))
          BY <1>3, <2>3, <3>2
        <4> QED BY <1>3, <1>4, <2>4, <2>6, <2>7, <2>8, <3>2, <4>1, DownShown
      <3> QED BY <2>1, <3>1, <3>2
    <2> DEFINE s == [client[u] EXCEPT !.in_channel = FALSE]
    <2>9. /\ s \in ClientState /\ client' = [client EXCEPT ![u] = s]
          /\ s.in_channel = FALSE /\ s.client_socket = c /\ s.asking = 0 /\ s.asked = client[u].asked
      BY <1>1, <1>2, <1>3, <1>7 DEF ClientState
    <2> HIDE DEF s
    <2>10. client'[u] = s
      BY <1>3, <2>9
    <2>11. ASSUME SameStage(c) PROVE ClientOf(u)'
      <3>1. wire'[c].owner = u /\ wire'[c].client = "open" /\ c \in Conns'
        BY <1>3, <2>4 DEF JoinedOf, SameEnds, Rewired, Opened, Conns
      <3>2. JoinedOf(u, c)'
        BY <1>3, <2>8, <2>9, <2>10, <2>11, <3>1 DEF JoinedOf, SameStage
      <3>3. ~client[u].asked
        BY <1>2, <1>3 DEF ClientOf
      <3> QED BY <1>2, <2>9, <2>10, <3>2, <3>3 DEF ClientOf
    <2>12. UNCHANGED backlog /\ c \in Conns /\ wire[c].owner = u
      BY <1>3, <1>7
    <2>13. \A d \in Conns : d # c =>
             SameUp(wire'[d], wire[d]) /\ SameDown(wire'[d], wire[d]) /\ SameEnds(wire'[d], wire[d])
      BY <2>4
    <2>14. Rewired(wire, wire') /\ s \in ClientState /\ client' = [client EXCEPT ![u] = s]
      BY <2>4, <2>9
    <2> QED BY <2>5, <2>6, <2>8, <2>11, <2>12, <2>13, <2>14, ClientStep
  <1>8. \/ /\ wire' \in {x} \cup (IF client[u].in_channel /\ wire[c].down # <<>> THEN {Displayed(x, c)} ELSE {})
           /\ client' = [client EXCEPT ![u].in_channel = FALSE]
           /\ UNCHANGED backlog
        \/ Ends(u, wire)
    BY <1>1, Zenon DEF quit_channel
  <1> QED BY <1>6, <1>7, <1>8

(* A connection is opened.                                                 *)
LEMMA join_channelStep ==
  ASSUME IInv, NEW u \in User, NEW name \in Name, join_channel(u, name), FromClients
  PROVE  IInv'
  <1> USE DEF serverVars, routerVars, tableVars
  <1> DEFINE f == Fresh(u, name)
  <1>0. PICK n : n = Len(wire) + 1
    OBVIOUS
  <1>1. /\ ClientOf(u) /\ client[u].asking = 0 /\ ~client[u].in_channel /\ Len(wire) < MaxConns
        /\ wire' = Append(wire, f) /\ backlog' = Append(backlog, n)
        /\ client' = [client EXCEPT ![u].asking = n]
        /\ UNCHANGED serverVars
    BY <1>0 DEF join_channel, Listens, connect, FromClients, IInv, ClientInv
  <1>2. /\ wire \in Seq(Connection) /\ Len(wire) \in Nat /\ backlog \in Seq(Nat) /\ Len(backlog) \in Nat
        /\ client \in [User -> ClientState] /\ client[u] \in ClientState /\ n \in Nat
    BY <1>0, LenProperties DEF IInv, WireInv, AcceptInv, ClientInv
  <1>3. f \in Connection
    BY EmptySeq DEF Fresh, Connection
  <1>4. /\ f.owner = u /\ f.room = name /\ f.up = <<>> /\ f.down = <<>> /\ f.client = "open"
        /\ f.server = "open" /\ f.said = 0 /\ f.heard = <<>>
    BY DEF Fresh
  <1> HIDE DEF f
  <1>5. /\ wire' \in Seq(Connection) /\ Len(wire') = n
        /\ \A d \in 1..n : wire'[d] = IF d = n THEN f ELSE wire[d]
    BY <1>0, <1>1, <1>2, <1>3, Appended
  <1>6. /\ backlog' \in Seq(Nat) /\ Len(backlog') = Len(backlog) + 1
        /\ \A j \in 1..(Len(backlog) + 1) : backlog'[j] = IF j = Len(backlog) + 1 THEN n ELSE backlog[j]
    BY <1>1, <1>2, Appended
  <1>7. /\ Accepted' = Accepted /\ Accepted \in Nat /\ Accepted < n
    BY <1>0, <1>2, <1>5, <1>6 DEF Accepted, IInv, AcceptInv
  <1>8. /\ Conns' = Conns \cup {n} /\ n \notin Conns /\ n \in Conns'
        /\ \A d \in Conns : wire'[d] = wire[d]
        /\ wire'[n] = f
    BY <1>0, <1>2, <1>5 DEF Conns
  <1>9. \A k : Members(k)' = Members(k) /\ Piped(k)' = Piped(k) /\ Slots(k)' = Slots(k)
    BY <1>1 DEF Members, Slots, Piped
  <1>10. \A k : Around(k)' = Around(k)
    BY <1>9 DEF Around
  <1>11. \A d : (Queued(d)' <=> Queued(d)) /\ (InPipe(d)' <=> InPipe(d)) /\ (Seated(d)' <=> Seated(d))
    BY <1>1, <1>7, <1>9 DEF Queued, InPipe, Seated
  <1>12. \A d \in Conns : SameStage(d)
    BY <1>11 DEF SameStage
  <1>13. Queued(n) /\ ~Seated(n)
    BY <1>7 DEF Queued, Seated, IInv, TableInv
  <1>14. WireInv'
    BY <1>0, <1>1, <1>2, <1>5, SocketsAssumption DEF WireInv
  <1>15. RouterInv'
    BY <1>1 DEF IInv, RouterInv, Creates
  <1>16. AcceptInv'
    <2>1. \A j \in 1..Len(backlog') : backlog'[j] = Accepted + j
      <3> TAKE j \in 1..Len(backlog')
      <3>1. CASE j = Len(backlog) + 1
        <4>1. backlog'[j] = n
          BY <1>6, <3>1
        <4> QED BY <1>0, <1>2, <3>1, <4>1 DEF Accepted
      <3>2. CASE j # Len(backlog) + 1
        BY <1>2, <1>6, <3>2 DEF IInv, AcceptInv
      <3> QED BY <3>1, <3>2
    <2>2. Len(backlog') <= Len(wire')
      BY <1>0, <1>2, <1>5, <1>6 DEF IInv, AcceptInv
    <2> QED BY <1>1, <1>6, <1>7, <2>1, <2>2 DEF IInv, AcceptInv
  <1>17. PipeInv'
    BY <1>1, <1>7, <1>9 DEF IInv, PipeInv
  <1>18. TableInv'
    BY <1>1, <1>7, <1>9 DEF IInv, TableInv
  <1>19. RoomInv'
    <2>1. \A k \in Channel : Around(k) \subseteq Conns
      BY AroundConns
    <2>2. \A k \in Channel : \A c \in Around(k) : wire'[c].room = wire[c].room
      BY <1>8, <2>1
    <2>3. UNCHANGED channel_name_list
      BY <1>1
    <2> QED BY <1>10, <2>2, <2>3 DEF IInv, RoomInv
  <1>20. UpInv'
    <2>1. ASSUME NEW d \in Conns PROVE UpOf(d)'
      BY <1>8, <1>12, UpKept DEF IInv, UpInv, Opened, SameUp
    <2>2. UpOf(n)'
      <3>1. UpShape(<<>>, 0, 0)
        BY DEF UpShape
      <3> QED BY <1>4, <1>8, <1>11, <1>13, <3>1 DEF UpOf
    <2> QED BY <1>8, <2>1, <2>2 DEF UpInv
  <1>21. DownInv'
    <2>1. ASSUME NEW d \in Conns PROVE DownOf(d)'
      <3>1. DownOf(d)
        BY DEF IInv, DownInv
      <3> QED BY <1>8, <1>11, <3>1 DEF DownOf
    <2>2. DownOf(n)'
      <3>1. DownShape(<<>>)
        BY EmptySeq DEF DownShape
      <3> QED BY <1>4, <1>8, <3>1 DEF DownOf
    <2> QED BY <1>8, <2>1, <2>2 DEF DownInv
  <1>22. ClientInv'
    <2>1. \A d \in Conns : Kept(d)
      BY <1>8, <1>12 DEF Kept, Opened, SameUp, SameDown
    <2>2. /\ client' \in [User -> ClientState]
          /\ client'[u] = [client[u] EXCEPT !.asking = n]
      BY <1>1, <1>2 DEF ClientState
    <2>3. ASSUME NEW v \in User, v # u PROVE ClientOf(v)'
      <3>1. client'[v] = client[v]
        BY <1>1, <1>2, <2>3
      <3>2. Len(wire') >= Len(wire) /\ Len(wire') \in Nat
        BY <1>0, <1>2, <1>5
      <3> QED BY <1>2, <2>1, <3>1, <3>2, ClientKept DEF IInv, ClientInv
    <2>4. /\ client'[u].asking = n /\ client'[u].client_socket = client[u].client_socket
          /\ client'[u].in_channel = client[u].in_channel /\ client'[u].asked = client[u].asked
      BY <1>2, <2>2 DEF ClientState
    <2>5. ~client[u].asked
      BY <1>1 DEF ClientOf
    <2>6. AskingOf(u, n)'
      BY <1>4, <1>8, <1>11, <1>13 DEF AskingOf
    <2>7. ASSUME NEW e \in Nat, e = client[u].client_socket, e # 0 PROVE JoinedOf(u, e)' /\ e # n
      <3>1. JoinedOf(u, e)
        BY <1>1, <2>7 DEF ClientOf
      <3>2. e \in Conns
        BY <3>1 DEF JoinedOf
      <3> QED BY <1>1, <1>8, <1>11, <2>4, <3>1, <3>2 DEF JoinedOf
    <2>8. client[u].client_socket \in Nat /\ n # 0
      BY <1>2, <1>7 DEF ClientState
    <2>9. ClientOf(u)'
      BY <1>1, <2>4, <2>5, <2>6, <2>7, <2>8 DEF ClientOf
    <2> QED BY <2>2, <2>3, <2>9 DEF ClientInv
  <1> QED BY <1>14, <1>15, <1>16, <1>17, <1>18, <1>19, <1>20, <1>21, <1>22 DEF IInv

-----------------------------------------------------------------------------
(* Steps of the server that touch no connection.                           *)
LEMMA ServerQuiet ==
  ASSUME IInv, UNCHANGED <<wire, client>>, \A c \in Conns : SameStage(c)
  PROVE  WireInv' /\ UpInv' /\ DownInv' /\ ClientInv'
  <1>1. Conns' = Conns /\ Len(wire) \in Nat /\ wire \in Seq(Connection)
    BY LenProperties DEF Conns, IInv, WireInv
  <1>2. \A c \in Conns : Kept(c)
    BY DEF Kept, Opened, SameUp, SameDown
  <1>3. Rewired(wire, wire')
    BY <1>1 DEF Rewired, Opened
  <1>4. UpInv'
    BY <1>1, <1>2, UpKept DEF IInv, UpInv, Kept
  <1>5. DownInv'
    BY <1>1, <1>2, <1>3, DownKept DEF IInv, DownInv, Kept
  <1>6. ClientInv'
    <2>1. ASSUME NEW u \in User PROVE ClientOf(u)'
      BY <1>1, <1>2, ClientKept DEF IInv, ClientInv
    <2> QED BY <2>1 DEF IInv, ClientInv
  <1>7. WireInv'
    BY DEF IInv, WireInv
  <1> QED BY <1>4, <1>5, <1>6, <1>7

(* Steps that move no connection.                                          *)
LEMMA CommandQuiet ==
  ASSUME IInv, UNCHANGED <<wire, client, backlog, router, tableVars>>,
         RouterInv', open_channels' >= open_channels,
         \A k \in Channel :
           /\ Piped(k)' = Piped(k) /\ Increasing(channel_pipes'[k])
           /\ k >= open_channels' => channel_pipes'[k] = <<>>
           /\ channel_name_list'[k] # NoName =>
                channel_name_list'[k] = channel_name_list[k] \/ Around(k) = {}
  PROVE  IInv'
  <1> USE DEF tableVars
  <1>1. \A k : Members(k)' = Members(k) /\ Slots(k)' = Slots(k)
    BY DEF Members, Slots
  <1>2. Accepted' = Accepted /\ Conns' = Conns
    BY DEF Accepted, Conns
  <1>3. \A k \in Channel : Around(k)' = Around(k)
    BY <1>1 DEF Around
  <1>4. \A c \in Conns : SameStage(c)
    BY <1>1, <1>2 DEF SameStage, Queued, InPipe, Seated
  <1>5. AcceptInv'
    BY <1>2 DEF IInv, AcceptInv
  <1>6. TableInv'
    BY <1>1, <1>2 DEF IInv, TableInv
  <1>7. PipeInv'
    <2>1. \A k \in Channel : k \in Int
      BY DEF Channel
    <2>2. open_channels \in Nat /\ open_channels' \in Nat
      BY DEF IInv, RouterInv
    <2> SUFFICES ASSUME NEW k \in Channel
                 PROVE  /\ k >= open_channels' => channel_pipes'[k] = <<>> /\ current_clients'[k] = 0
                        /\ current_clients'[k] <= Accepted'
                        /\ router' # 0 => current_clients'[k] < router'
                        /\ Increasing(channel_pipes'[k])
                        /\ \A c \in Piped(k)' : /\ c \in 1..Accepted' /\ c # router'
                                                /\ c > current_clients'[k] /\ c \notin Members(k)'
      BY DEF PipeInv
    <2> QED BY <1>1, <1>2, <2>1, <2>2 DEF IInv, PipeInv
  <1>8. RoomInv'
    <2>1. \A k \in Channel : channel_name_list'[k] # NoName =>
            \A c \in Around(k) : wire[c].room = channel_name_list'[k]
      BY DEF IInv, RoomInv
    <2> QED BY <1>3, <2>1 DEF IInv, RoomInv
  <1>9. WireInv' /\ UpInv' /\ DownInv' /\ ClientInv'
    BY <1>4, ServerQuiet
  <1> QED BY <1>5, <1>6, <1>7, <1>8, <1>9 DEF IInv

(* What a channel is told.                                                 *)
LEMMA Told ==
  ASSUME IInv, NEW ks, NEW a \in Items, a.item # "add", ToChannels(ks, a)
  PROVE  /\ channel_pipes' \in [Channel -> Seq(Items)]
         /\ \A k \in Channel :
              /\ Piped(k)' = Piped(k) /\ Increasing(channel_pipes'[k])
              /\ k \notin ks => channel_pipes'[k] = channel_pipes[k]
  <1>1. channel_pipes \in [Channel -> Seq(Items)]
    BY DEF IInv, RouterInv
  <1>2. ASSUME NEW k \in Channel
        PROVE  /\ channel_pipes'[k] \in Seq(Items) /\ Piped(k)' = Piped(k) /\ Increasing(channel_pipes'[k])
               /\ k \notin ks => channel_pipes'[k] = channel_pipes[k]
    <2>1. channel_pipes[k] \in Seq(Items) /\ Increasing(channel_pipes[k])
      BY <1>1 DEF IInv, PipeInv
    <2>2. channel_pipes'[k] = IF k \in ks THEN Append(channel_pipes[k], a) ELSE channel_pipes[k]
      BY DEF ToChannels
    <2>3. /\ Append(channel_pipes[k], a) \in Seq(Items) /\ Increasing(Append(channel_pipes[k], a))
          /\ ConnsOf(Append(channel_pipes[k], a)) = ConnsOf(channel_pipes[k])
      BY <2>1, ItemAdded
    <2> QED BY <2>1, <2>2, <2>3 DEF Piped
  <1>3. channel_pipes' = [k \in Channel |-> IF k \in ks THEN Append(channel_pipes[k], a)
                                                         ELSE channel_pipes[k]]
    BY DEF ToChannels
  <1> QED BY <1>2, <1>3

(* A line of input is taken.                                               *)
LEMMA Taken1 ==
  ASSUME IInv, NEW cmd, Command(cmd)
  PROVE  /\ input_pipe' \in Seq(Commands) /\ Head(input_pipe) \in Commands
         /\ \A j \in 1..Len(input_pipe') : input_pipe'[j].cmd # "exit" => input_pipe'[j].name \in Name
         /\ Creates \in Nat /\ Creates' \in Nat
         /\ Creates = IF cmd = "create" THEN Creates' + 1 ELSE Creates'
         /\ cmd # "exit" => Head(input_pipe).name \in Name
  <1>1. /\ input_pipe \in Seq(Commands) /\ input_pipe # <<>> /\ input_pipe' = Tail(input_pipe)
        /\ Head(input_pipe).cmd = cmd
    BY DEF Command, IInv, RouterInv
  <1>2. /\ input_pipe' \in Seq(Commands) /\ Len(input_pipe') = Len(input_pipe) - 1
        /\ Len(input_pipe) \in Nat \ {0} /\ Head(input_pipe) = input_pipe[1] /\ Head(input_pipe) \in Commands
        /\ \A j \in 1..Len(input_pipe') : input_pipe'[j] = input_pipe[j + 1] /\ j + 1 \in 1..Len(input_pipe)
    BY <1>1, Shortened
  <1>3. /\ Creates = CreatesIn(input_pipe) /\ Creates' = CreatesIn(Tail(input_pipe))
    BY <1>1 DEF Creates, CreatesIn
  <1>4. /\ Creates \in Nat /\ Creates' \in Nat
        /\ Creates = IF cmd = "create" THEN Creates' + 1 ELSE Creates'
    BY <1>1, <1>3, CreatesShortened
  <1>5. \A j \in 1..Len(input_pipe) : input_pipe[j].cmd # "exit" => input_pipe[j].name \in Name
    BY DEF IInv, RouterInv
  <1>6. \A j \in 1..Len(input_pipe') : input_pipe'[j].cmd # "exit" => input_pipe'[j].name \in Name
    BY <1>2, <1>5
  <1>7. cmd # "exit" => Head(input_pipe).name \in Name
    BY <1>1, <1>2, <1>5
  <1> QED BY <1>2, <1>4, <1>6, <1>7

LEMMA InputManagerStep ==
  ASSUME IInv, NEW command \in Commands, InputManager(command), FromServer
  PROVE  IInv'
  <1>1. input_pipe \in Seq(Commands) /\ input_pipe' = Append(input_pipe, command)
    BY DEF InputManager, IInv, RouterInv
  <1>2. /\ input_pipe' \in Seq(Commands) /\ Len(input_pipe') = Len(input_pipe) + 1 /\ Len(input_pipe) \in Nat
        /\ \A j \in 1..(Len(input_pipe) + 1) :
             input_pipe'[j] = IF j = Len(input_pipe) + 1 THEN command ELSE input_pipe[j]
    BY <1>1, Appended
  <1>3. Creates = CreatesIn(input_pipe) /\ Creates' = CreatesIn(Append(input_pipe, command))
    BY <1>1 DEF Creates, CreatesIn
  <1>4. /\ Creates \in Nat
        /\ Creates' = IF command.cmd = "create" THEN Creates + 1 ELSE Creates
    BY <1>1, <1>3, CreatesAppended
  <1>5. \A j \in 1..Len(input_pipe') : input_pipe'[j].cmd # "exit" => input_pipe'[j].name \in Name
    <2>1. \A j \in 1..Len(input_pipe) : input_pipe[j].cmd # "exit" => input_pipe[j].name \in Name
      BY DEF IInv, RouterInv
    <2>2. command.cmd # "exit" => command.name \in Name
      BY CommandsAssumption
    <2> TAKE j \in 1..Len(input_pipe')
    <2>3. CASE j = Len(input_pipe) + 1
      <3>1. input_pipe'[j] = command
        BY <1>2, <2>3
      <3> QED BY <2>2, <3>1
    <2>4. CASE j # Len(input_pipe) + 1
      <3>1. input_pipe'[j] = input_pipe[j] /\ j \in 1..Len(input_pipe)
        BY <1>2, <2>4
      <3> QED BY <2>1, <3>1
    <2> QED BY <2>3, <2>4
  <1>6. /\ UNCHANGED <<server, router, open_channels, channel_name_list, tableVars,
                       channel_pipes, alive, type, ghosts, socketVars, client>>
        /\ command.cmd = "create" => open_channels + Creates < MAX_CHANNELS
    BY DEF InputManager, FromServer
  <1>7. open_channels + Creates' <= MAX_CHANNELS
    BY <1>4, <1>6, ServerAssumption DEF IInv, RouterInv
  <1>8. RouterInv'
    BY <1>2, <1>5, <1>6, <1>7 DEF IInv, RouterInv
  <1>9. \A k \in Channel : Piped(k)' = Piped(k)
    BY <1>6 DEF Piped
  <1>10. open_channels \in Nat
    BY DEF IInv, RouterInv
  <1>11. UNCHANGED <<wire, client, backlog, router, tableVars>>
    BY <1>6 DEF socketVars
  <1>12. open_channels' >= open_channels
    BY <1>6, <1>10
  <1>13. \A k \in Channel :
           /\ Piped(k)' = Piped(k) /\ Increasing(channel_pipes'[k])
           /\ k >= open_channels' => channel_pipes'[k] = <<>>
           /\ channel_name_list'[k] # NoName =>
                channel_name_list'[k] = channel_name_list[k] \/ Around(k) = {}
    BY <1>6, <1>9 DEF IInv, PipeInv
  <1> QED BY <1>8, <1>11, <1>12, <1>13, CommandQuiet

LEMMA add_channelStep ==
  ASSUME IInv, add_channel, FromServer
  PROVE  IInv'
  <1>1. /\ Command("create") /\ open_channels' = open_channels + 1 /\ alive' = alive \cup {open_channels}
        /\ channel_name_list' = [channel_name_list EXCEPT ![open_channels] = Head(input_pipe).name]
    BY DEF add_channel
  <1>2. /\ input_pipe' \in Seq(Commands) /\ Head(input_pipe).name \in Name
        /\ \A j \in 1..Len(input_pipe') : input_pipe'[j].cmd # "exit" => input_pipe'[j].name \in Name
        /\ Creates' \in Nat /\ Creates = Creates' + 1
    BY <1>1, Taken1
  <1>3. /\ UNCHANGED <<server, channel_pipes, type, router, tableVars, wire, client, backlog>>
    BY DEF add_channel, Command, FromServer, socketVars
  <1>4. /\ open_channels \in Nat /\ open_channels + Creates <= MAX_CHANNELS
        /\ alive \subseteq 0..(open_channels - 1)
        /\ channel_name_list \in [Channel -> Name \cup {NoName}]
    BY DEF IInv, RouterInv
  <1>5. /\ open_channels' + Creates' <= MAX_CHANNELS /\ open_channels \in Channel
        /\ alive' \subseteq 0..(open_channels' - 1)
    <2>1. PICK n \in Nat : n = Creates'
      BY <1>2
    <2>2. /\ MAX_CHANNELS \in Nat /\ open_channels + (n + 1) <= MAX_CHANNELS
          /\ open_channels' = open_channels + 1 /\ open_channels \in Nat
      BY <1>1, <1>2, <1>4, <2>1, ServerAssumption
    <2>3. open_channels' + n <= MAX_CHANNELS /\ open_channels \in 0..(MAX_CHANNELS - 1)
      BY <2>2
    <2>4. alive' \subseteq 0..(open_channels' - 1)
      BY <1>1, <1>4
    <2> QED BY <2>1, <2>3, <2>4 DEF Channel
  <1>6. channel_name_list' \in [Channel -> Name \cup {NoName}]
    BY <1>1, <1>2, <1>4
  <1>7. RouterInv'
    BY <1>1, <1>2, <1>3, <1>4, <1>5, <1>6 DEF IInv, RouterInv
  <1>8. ASSUME NEW k \in Channel
        PROVE  /\ Piped(k)' = Piped(k) /\ Increasing(channel_pipes'[k])
               /\ k >= open_channels' => channel_pipes'[k] = <<>>
               /\ channel_name_list'[k] # NoName =>
                    channel_name_list'[k] = channel_name_list[k] \/ Around(k) = {}
    <2>1. Piped(k)' = Piped(k)
      BY <1>3 DEF Piped
    <2>2. /\ Increasing(channel_pipes[k]) /\ k \in Int
          /\ k >= open_channels => channel_pipes[k] = <<>> /\ current_clients[k] = 0
      BY DEF IInv, PipeInv, Channel
    <2>3. CASE k = open_channels
      <3>1. channel_pipes[k] = <<>> /\ current_clients[k] = 0
        BY <1>4, <2>2, <2>3
      <3>2. Adds(<<>>) = {} /\ Slots(k) = {}
        BY <3>1 DEF Adds, Slots
      <3>3. Around(k) = {}
        BY <3>1, <3>2 DEF Around, Piped, ConnsOf, Members
      <3> QED BY <1>1, <1>3, <1>4, <2>1, <2>2, <3>3, <3>1
    <2>4. CASE k # open_channels
      <3>1. channel_name_list'[k] = channel_name_list[k]
        BY <1>1, <1>4, <2>4
      <3> QED BY <1>1, <1>3, <1>4, <2>1, <2>2, <3>1
    <2> QED BY <2>3, <2>4
  <1>9. open_channels' >= open_channels
    BY <1>1, <1>4
  <1> QED BY <1>3, <1>7, <1>8, <1>9, CommandQuiet

LEMMA NamedOpen ==
  ASSUME RouterInv, NEW name
  PROVE  Named(name) \subseteq Channel /\ \A k \in Named(name) : k < open_channels
  <1>1. open_channels \in Nat /\ Creates \in Nat => open_channels <= MAX_CHANNELS
    BY ServerAssumption DEF RouterInv
  <1>2. Creates \in Nat
    <2>1. CreatesIn(<<>>) \in Nat
      <3>1. {j \in DOMAIN <<>> : <<>>[j].cmd = "create"} = {}
        OBVIOUS
      <3> QED BY <3>1, FS_EmptySet DEF CreatesIn
    <2>2. input_pipe # <<>> => CreatesIn(input_pipe) \in Nat
      BY CreatesShortened DEF RouterInv
    <2> QED BY <2>1, <2>2 DEF Creates, CreatesIn
  <1>3. open_channels \in Nat
    BY DEF RouterInv
  <1> QED BY <1>1, <1>2, <1>3, ServerAssumption DEF Named, Channel

LEMMA channel_closeStep ==
  ASSUME IInv, channel_close, FromServer
  PROVE  IInv'
  <1> DEFINE ks == Named(Head(input_pipe).name)
  <1>1. /\ Command("close") /\ ToChannels(ks, [item |-> "close"])
        /\ channel_name_list' = [k \in Channel |-> IF k \in ks THEN NoName ELSE channel_name_list[k]]
        /\ UNCHANGED <<server, open_channels, alive, type, router, tableVars, wire, client, backlog>>
    BY DEF channel_close, Command, FromServer, socketVars
  <1>2. ks \subseteq Channel /\ \A k \in ks : k < open_channels
    BY NamedOpen DEF IInv
  <1> HIDE DEF ks
  <1>3. /\ input_pipe' \in Seq(Commands)
        /\ \A j \in 1..Len(input_pipe') : input_pipe'[j].cmd # "exit" => input_pipe'[j].name \in Name
        /\ Creates' \in Nat /\ Creates = Creates'
    BY <1>1, Taken1
  <1>4. /\ channel_pipes' \in [Channel -> Seq(Items)]
        /\ \A k \in Channel :
              /\ Piped(k)' = Piped(k) /\ Increasing(channel_pipes'[k])
              /\ k \notin ks => channel_pipes'[k] = channel_pipes[k]
    <2>1. [item |-> "close"] \in Items /\ [item |-> "close"].item # "add"
      BY DEF Items
    <2> QED BY <1>1, <2>1, Told
  <1>5. channel_name_list' \in [Channel -> Name \cup {NoName}]
    BY <1>1 DEF IInv, RouterInv
  <1>6. RouterInv'
    BY <1>1, <1>3, <1>4, <1>5 DEF IInv, RouterInv
  <1>7. open_channels \in Nat /\ open_channels' >= open_channels
    BY <1>1 DEF IInv, RouterInv
  <1>8. ASSUME NEW k \in Channel
        PROVE  /\ Piped(k)' = Piped(k) /\ Increasing(channel_pipes'[k])
               /\ k >= open_channels' => channel_pipes'[k] = <<>>
               /\ channel_name_list'[k] # NoName =>
                    channel_name_list'[k] = channel_name_list[k] \/ Around(k) = {}
    <2>1. k >= open_channels => k \notin ks /\ channel_pipes[k] = <<>>
      BY <1>2, <1>7 DEF IInv, PipeInv, Channel
    <2>2. channel_name_list'[k] = IF k \in ks THEN NoName ELSE channel_name_list[k]
      BY <1>1
    <2> QED BY <1>1, <1>4, <2>1, <2>2
  <1> QED BY <1>1, <1>6, <1>7, <1>8, CommandQuiet

LEMMA display_usersStep ==
  ASSUME IInv, display_users, FromServer
  PROVE  IInv'
  <1> DEFINE ks == Named(Head(input_pipe).name)
  <1>1. /\ Command("users") /\ ToChannels(ks, [item |-> "users"])
        /\ UNCHANGED <<server, open_channels, channel_name_list, alive, type, router, tableVars, wire, client, backlog>>
    BY DEF display_users, Command, FromServer, socketVars
  <1>2. ks \subseteq Channel /\ \A k \in ks : k < open_channels
    BY NamedOpen DEF IInv
  <1> HIDE DEF ks
  <1>3. /\ input_pipe' \in Seq(Commands)
        /\ \A j \in 1..Len(input_pipe') : input_pipe'[j].cmd # "exit" => input_pipe'[j].name \in Name
        /\ Creates' \in Nat /\ Creates = Creates'
    BY <1>1, Taken1
  <1>4. /\ channel_pipes' \in [Channel -> Seq(Items)]
        /\ \A k \in Channel :
              /\ Piped(k)' = Piped(k) /\ Increasing(channel_pipes'[k])
              /\ k \notin ks => channel_pipes'[k] = channel_pipes[k]
    <2>1. [item |-> "users"] \in Items /\ [item |-> "users"].item # "add"
      BY DEF Items
    <2> QED BY <1>1, <2>1, Told
  <1>5. RouterInv'
    BY <1>1, <1>3, <1>4 DEF IInv, RouterInv
  <1>6. open_channels \in Nat /\ open_channels' >= open_channels
    BY <1>1 DEF IInv, RouterInv
  <1>7. ASSUME NEW k \in Channel
        PROVE  /\ Piped(k)' = Piped(k) /\ Increasing(channel_pipes'[k])
               /\ k >= open_channels' => channel_pipes'[k] = <<>>
               /\ channel_name_list'[k] # NoName =>
                    channel_name_list'[k] = channel_name_list[k] \/ Around(k) = {}
    <2>1. k >= open_channels => k \notin ks /\ channel_pipes[k] = <<>>
      BY <1>2, <1>6 DEF IInv, PipeInv, Channel
    <2> QED BY <1>1, <1>4, <2>1
  <1> QED BY <1>1, <1>5, <1>6, <1>7, CommandQuiet

LEMMA close_serverStep ==
  ASSUME IInv, close_server, FromServer
  PROVE  IInv'
  <1>1. /\ Command("exit") /\ server' = "exited"
        /\ UNCHANGED <<open_channels, channel_name_list, channel_pipes, alive, type, router, tableVars, wire, client, backlog>>
    BY DEF close_server, Command, FromServer, socketVars
  <1>2. /\ input_pipe' \in Seq(Commands)
        /\ \A j \in 1..Len(input_pipe') : input_pipe'[j].cmd # "exit" => input_pipe'[j].name \in Name
        /\ Creates' \in Nat /\ Creates = Creates'
    BY <1>1, Taken1
  <1>3. RouterInv'
    BY <1>1, <1>2 DEF IInv, RouterInv
  <1>4. open_channels \in Nat /\ open_channels' >= open_channels
    BY <1>1 DEF IInv, RouterInv
  <1>5. \A k \in Channel : Piped(k)' = Piped(k)
    BY <1>1 DEF Piped
  <1>6. \A k \in Channel :
           /\ Piped(k)' = Piped(k) /\ Increasing(channel_pipes'[k])
           /\ k >= open_channels' => channel_pipes'[k] = <<>>
           /\ channel_name_list'[k] # NoName =>
                channel_name_list'[k] = channel_name_list[k] \/ Around(k) = {}
    BY <1>1, <1>5 DEF IInv, PipeInv
  <1> QED BY <1>1, <1>3, <1>4, <1>6, CommandQuiet

LEMMA accept_new_clientStep ==
  ASSUME IInv, accept_new_client, FromServer
  PROVE  IInv'
  <1>1. /\ router = 0 /\ backlog # <<>> /\ router' = Head(backlog) /\ backlog' = Tail(backlog)
        /\ UNCHANGED <<server, input_pipe, open_channels, channel_name_list,
                       tableVars, channel_pipes, alive, type, wire, client>>
    BY DEF accept_new_client, FromServer
  <1>2. /\ backlog \in Seq(Nat) /\ Len(backlog) <= Len(wire) /\ Len(wire) \in Nat
        /\ \A j \in 1..Len(backlog) : backlog[j] = Accepted + j
    BY LenProperties DEF IInv, AcceptInv, WireInv
  <1>3. /\ backlog' \in Seq(Nat) /\ Len(backlog') = Len(backlog) - 1 /\ Len(backlog) \in Nat \ {0}
        /\ router' = backlog[1]
        /\ \A j \in 1..(Len(backlog) - 1) : backlog'[j] = backlog[j + 1]
    BY <1>1, <1>2, Shortened
  <1>4. Accepted' = Accepted + 1 /\ router' = Accepted + 1 /\ Accepted \in Nat
    BY <1>1, <1>2, <1>3 DEF Accepted
  <1>5. \A k : Members(k)' = Members(k) /\ Slots(k)' = Slots(k) /\ Piped(k)' = Piped(k)
    BY <1>1 DEF Members, Slots, Piped, tableVars
  <1>6. \A k \in Channel : Around(k)' = Around(k)
    BY <1>5 DEF Around
  <1>7. AcceptInv'
    <2>1. \A j \in 1..Len(backlog') : backlog'[j] = Accepted' + j
      <3> TAKE j \in 1..Len(backlog')
      <3>1. backlog'[j] = backlog[j + 1] /\ j + 1 \in 1..Len(backlog)
        BY <1>3
      <3>2. backlog[j + 1] = Accepted + (j + 1)
        BY <1>2, <3>1
      <3> QED BY <1>4, <3>1, <3>2
    <2>2. Len(backlog') <= Len(wire')
      BY <1>1, <1>2, <1>3
    <2> QED BY <1>3, <1>4, <2>1, <2>2 DEF AcceptInv
  <1>8. RouterInv'
    BY <1>1 DEF IInv, RouterInv, Creates
  <1>9. PipeInv'
    <2> SUFFICES ASSUME NEW k \in Channel
                 PROVE  /\ k >= open_channels' => channel_pipes'[k] = <<>> /\ current_clients'[k] = 0
                        /\ current_clients'[k] <= Accepted'
                        /\ router' # 0 => current_clients'[k] < router'
                        /\ Increasing(channel_pipes'[k])
                        /\ \A c \in Piped(k)' : /\ c \in 1..Accepted' /\ c # router'
                                                /\ c > current_clients'[k] /\ c \notin Members(k)'
      BY DEF PipeInv
    <2>1. current_clients[k] \in Nat
      BY DEF IInv, TableInv
    <2> QED BY <1>1, <1>4, <1>5, <2>1 DEF IInv, PipeInv, tableVars
  <1>10. TableInv'
    <2>1. \A k \in Channel : Members(k)' \subseteq 1..Accepted' /\ router' \notin Members(k)'
      BY <1>4, <1>5 DEF IInv, TableInv
    <2> QED BY <1>1, <1>5, <2>1 DEF IInv, TableInv, tableVars
  <1>11. RoomInv'
    BY <1>1, <1>6 DEF IInv, RoomInv
  <1>12. \A c \in Conns : SameStage(c)
    <2>1. \A c \in Conns : Queued(c)' <=> Queued(c)
      BY <1>1, <1>4 DEF Queued, Conns
    <2> QED BY <1>5, <2>1 DEF SameStage, InPipe, Seated
  <1>13. WireInv' /\ UpInv' /\ DownInv' /\ ClientInv'
    BY <1>1, <1>12, ServerQuiet
  <1> QED BY <1>7, <1>8, <1>9, <1>10, <1>11, <1>13 DEF IInv

LEMMA ItemStep ==
  ASSUME IInv, NEW k \in Channel, CloseItem(k) \/ UsersItem(k), FromServer
  PROVE  IInv'
  <1>1. /\ channel_pipes[k] # <<>> /\ Head(channel_pipes[k]).item # "add"
        /\ channel_pipes' = [channel_pipes EXCEPT ![k] = Tail(@)]
        /\ type' = [type EXCEPT ![k] = "other"] /\ alive' \subseteq alive
        /\ UNCHANGED <<server, input_pipe, router, open_channels, channel_name_list, tableVars, backlog, wire, client>>
    BY DEF CloseItem, UsersItem, Item, FromServer, routerVars
  <1>2. /\ channel_pipes \in [Channel -> Seq(Items)] /\ Increasing(channel_pipes[k])
        /\ channel_pipes[k] \in Seq(Items)
    BY DEF IInv, RouterInv, PipeInv
  <1>3. /\ Tail(channel_pipes[k]) \in Seq(Items) /\ Increasing(Tail(channel_pipes[k]))
        /\ ConnsOf(Tail(channel_pipes[k])) = ConnsOf(channel_pipes[k])
    BY <1>1, <1>2, ItemTaken
  <1>4. /\ channel_pipes' \in [Channel -> Seq(Items)]
        /\ \A l \in Channel : channel_pipes'[l] = IF l = k THEN Tail(channel_pipes[k]) ELSE channel_pipes[l]
    BY <1>1, <1>2, <1>3
  <1>5. \A l \in Channel : Piped(l)' = Piped(l)
    BY <1>3, <1>4 DEF Piped
  <1>6. type' \in [Channel -> {"other", "quit", "msg"}]
    BY <1>1 DEF IInv, RouterInv
  <1>7. RouterInv'
    <2>1. Creates' = Creates
      BY <1>1 DEF Creates
    <2> QED BY <1>1, <1>4, <1>6, <2>1 DEF IInv, RouterInv
  <1>8. open_channels' >= open_channels
    BY <1>1 DEF IInv, RouterInv
  <1>9. ASSUME NEW l \in Channel
        PROVE  /\ Piped(l)' = Piped(l) /\ Increasing(channel_pipes'[l])
               /\ l >= open_channels' => channel_pipes'[l] = <<>>
               /\ channel_name_list'[l] # NoName =>
                    channel_name_list'[l] = channel_name_list[l] \/ Around(l) = {}
    <2>1. Increasing(channel_pipes[l]) /\ (l >= open_channels => channel_pipes[l] = <<>>)
      BY DEF IInv, PipeInv
    <2> QED BY <1>1, <1>3, <1>4, <1>5, <2>1
  <1> QED BY <1>1, <1>7, <1>8, <1>9, CommandQuiet

-----------------------------------------------------------------------------
(* Steps of the server that touch connections.                             *)
LEMMA EndKept ==
  ASSUME NEW u \in User, NEW d \in Conns, wire[d].client = "open" => Kept(d), Conns' = Conns,
         UNCHANGED client
  PROVE  /\ AskingOf(u, d) => AskingOf(u, d)'
         /\ JoinedOf(u, d) => JoinedOf(u, d)'
  <1>1. ASSUME AskingOf(u, d) PROVE AskingOf(u, d)'
    <2>1. Kept(d)
      BY <1>1 DEF AskingOf
    <2> QED BY <1>1, <2>1 DEF AskingOf, Kept, SameStage, Opened, SameUp, SameDown
  <1>2. ASSUME JoinedOf(u, d) PROVE JoinedOf(u, d)'
    <2>1. Kept(d)
      BY <1>2 DEF JoinedOf
    <2> QED BY <1>2, <2>1 DEF JoinedOf, Kept, SameStage, Opened, SameUp, SameDown
  <1> QED BY <1>1, <1>2

LEMMA ClientMoved ==
  ASSUME IInv, UNCHANGED client,
         \A u \in User, d \in Conns :
           /\ client[u].asking = d /\ AskingOf(u, d) => AskingOf(u, d)'
           /\ client[u].client_socket = d /\ JoinedOf(u, d) => JoinedOf(u, d)'
  PROVE  ClientInv'
  <1>1. ASSUME NEW u \in User PROVE ClientOf(u)'
    <2>1. ClientOf(u)
      BY DEF IInv, ClientInv
    <2>2. ASSUME NEW a, a = client[u].asking, a # 0 PROVE AskingOf(u, a)'
      <3>1. AskingOf(u, a)
        BY <2>1, <2>2 DEF ClientOf
      <3>2. a \in Conns
        BY <3>1 DEF AskingOf
      <3> QED BY <2>2, <3>1, <3>2
    <2>3. ASSUME NEW c, c = client[u].client_socket, c # 0 PROVE JoinedOf(u, c)'
      <3>1. JoinedOf(u, c)
        BY <2>1, <2>3 DEF ClientOf
      <3>2. c \in Conns
        BY <3>1 DEF JoinedOf
      <3> QED BY <2>3, <3>1, <3>2
    <2> QED BY <2>1, <2>2, <2>3 DEF ClientOf
  <1> QED BY <1>1 DEF IInv, ClientInv

(* The router has read the join of connection c; it is in no channel yet.  *)
LEMMA RouterLeft ==
  ASSUME IInv, router # 0, router' = 0, client' = client, backlog' = backlog, RouterInv',
         UNCHANGED <<open_channels, channel_name_list, tableVars>>,
         NEW c, c = router, Rewired(wire, wire'),
         \A k \in Channel :
           /\ Increasing(channel_pipes'[k])
           /\ k >= open_channels => channel_pipes'[k] = channel_pipes[k]
           /\ Piped(k)' \subseteq Piped(k) \cup {c}
           /\ c \in Piped(k)' => channel_name_list[k] = wire[c].room
           /\ \A l \in Channel : c \in Piped(k)' /\ c \in Piped(l)' => k = l
           /\ Piped(k) \subseteq Piped(k)',
         \A d \in Conns : d # c =>
           SameUp(wire'[d], wire[d]) /\ SameDown(wire'[d], wire[d]) /\ SameEnds(wire'[d], wire[d]),
         wire'[c].up = <<>>, wire'[c].said = wire[c].said,
         ~Queued(c)' => DownOf(c)',
         \A u \in User : ~Queued(c)' /\ ~Seated(c)' /\ AskingOf(u, c) /\ client[u].asking = c =>
           AskingOf(u, c)'
  PROVE  IInv'
  <1> USE DEF tableVars
  <1>1. /\ wire \in Seq(Connection) /\ Len(wire) \in Nat /\ Len(wire') = Len(wire) /\ wire' \in Seq(Connection)
        /\ Conns' = Conns /\ \A d \in Conns : Opened(wire'[d], wire[d])
    BY LenProperties DEF IInv, WireInv, Rewired, Conns
  <1>2. /\ Accepted' = Accepted /\ Accepted \in Nat /\ c = Accepted /\ c \in Conns
        /\ Accepted <= Len(wire)
    BY <1>1, LenProperties DEF Accepted, IInv, AcceptInv, Conns
  <1>3. \A k : Members(k)' = Members(k) /\ Slots(k)' = Slots(k)
    BY DEF Members, Slots
  <1>4. \A k \in Channel : Piped(k)' = IF c \in Piped(k)' THEN Piped(k) \cup {c} ELSE Piped(k)
    OBVIOUS
  <1>5. \A k \in Channel : c \notin Piped(k) /\ c \notin Members(k)
    BY DEF IInv, PipeInv, TableInv
  <1>6. \A d \in Conns : Seated(d)' <=> Seated(d)
    BY <1>3 DEF Seated
  <1>7. ~Queued(c)' /\ ~Seated(c)'
    BY <1>1, <1>2, <1>5, <1>6 DEF Queued, Conns, Seated
  <1>8. ASSUME NEW d \in Conns, d # c PROVE SameStage(d)
    <2>1. Queued(d)' <=> Queued(d)
      BY <1>2, <1>8 DEF Queued, Conns
    <2>2. InPipe(d)' <=> InPipe(d)
      BY <1>4, <1>8 DEF InPipe
    <2> QED BY <1>6, <2>1, <2>2 DEF SameStage
  <1>9. WireInv' /\ AcceptInv'
    BY <1>1, <1>2 DEF IInv, WireInv, AcceptInv
  <1>10. PipeInv'
    <2> SUFFICES ASSUME NEW k \in Channel
                 PROVE  /\ k >= open_channels' => channel_pipes'[k] = <<>> /\ current_clients'[k] = 0
                        /\ current_clients'[k] <= Accepted'
                        /\ router' # 0 => current_clients'[k] < router'
                        /\ Increasing(channel_pipes'[k])
                        /\ \A d \in Piped(k)' : /\ d \in 1..Accepted' /\ d # router'
                                                /\ d > current_clients'[k] /\ d \notin Members(k)'
      BY DEF PipeInv
    <2>1. current_clients[k] \in Nat /\ c > current_clients[k] /\ c \in 1..Accepted
      BY <1>2 DEF IInv, TableInv, PipeInv
    <2>2. \A d \in Piped(k) : /\ d \in 1..Accepted /\ d # 0 /\ d > current_clients[k] /\ d \notin Members(k)
      BY <1>2 DEF IInv, PipeInv
    <2>3. \A d \in Piped(k)' : d \in Piped(k) \/ d = c
      OBVIOUS
    <2>4. /\ k >= open_channels => channel_pipes[k] = <<>> /\ current_clients[k] = 0
          /\ current_clients[k] <= Accepted
      BY DEF IInv, PipeInv
    <2>5. \A d \in Piped(k)' : /\ d \in 1..Accepted /\ d # 0 /\ d > current_clients[k] /\ d \notin Members(k)
      BY <1>2, <1>5, <2>1, <2>2, <2>3
    <2> QED BY <1>2, <1>3, <2>4, <2>5
  <1>11. TableInv'
    <2>1. \A k \in Channel : 0 \notin Members(k)
      BY DEF IInv, TableInv
    <2> QED BY <1>2, <1>3, <2>1 DEF IInv, TableInv
  <1>12. RoomInv'
    <2>1. \A k \in Channel : Around(k)' = IF c \in Piped(k)' THEN Around(k) \cup {c} ELSE Around(k)
      BY <1>3, <1>4 DEF Around
    <2>2. \A k \in Channel : c \notin Around(k)
      BY <1>5 DEF Around
    <2>3. \A k \in Channel : Around(k) \subseteq Conns
      BY AroundConns
    <2>4. \A d \in Conns : wire'[d].room = wire[d].room
      BY <1>1 DEF Opened
    <2>5. wire[c].room # NoName
      BY <1>1, <1>2, WireAt, ServerAssumption DEF Conns
    <2>6. \A k \in Channel, l \in Channel : k # l => Around(k)' \cap Around(l)' = {}
      BY <2>1, <2>2 DEF IInv, RoomInv
    <2>7. \A k \in Channel : channel_name_list[k] # NoName =>
            \A d \in Around(k)' : wire[d].room = channel_name_list[k]
      BY <2>1 DEF IInv, RoomInv
    <2>8. \A k \in Channel : \A b, d \in Around(k)' : wire[b].room = wire[d].room
      <3> SUFFICES ASSUME NEW k \in Channel, NEW b \in Around(k)', NEW d \in Around(k)'
                   PROVE  wire[b].room = wire[d].room
        OBVIOUS
      <3>1. CASE c \in Piped(k)'
        <4>1. channel_name_list[k] # NoName
          BY <2>5, <3>1
        <4> QED BY <2>7, <4>1
      <3>2. CASE c \notin Piped(k)'
        BY <2>1, <3>2 DEF IInv, RoomInv
      <3> QED BY <3>1, <3>2
    <2>9. \A k \in Channel : Around(k)' \subseteq Conns
      BY <1>2, <2>1, <2>3
    <2> QED BY <2>4, <2>6, <2>7, <2>8, <2>9 DEF RoomInv
  <1>13. UpInv'
    <2>1. ASSUME NEW d \in Conns, d # c PROVE UpOf(d)'
      BY <1>1, <1>8, <2>1, UpKept DEF IInv, UpInv
    <2>2. UpOf(c)'
      <3>1. wire[c].said = 0
        BY <1>2 DEF IInv, UpInv, UpOf, Queued
      <3>2. UpShape(<<>>, 0, 0)
        BY DEF UpShape
      <3> QED BY <1>7, <3>1, <3>2 DEF UpOf
    <2> QED BY <1>1, <2>1, <2>2 DEF UpInv
  <1>14. DownInv'
    <2>1. ASSUME NEW d \in Conns, d # c PROVE DownOf(d)'
      BY <1>1, <1>8, <2>1, DownKept DEF IInv, DownInv, SameEnds
    <2> QED BY <1>1, <1>7, <2>1 DEF DownInv
  <1>15. ClientInv'
    <2>1. ASSUME NEW u \in User, NEW d \in Conns
          PROVE  /\ client[u].asking = d /\ AskingOf(u, d) => AskingOf(u, d)'
                 /\ client[u].client_socket = d /\ JoinedOf(u, d) => JoinedOf(u, d)'
      <3>1. CASE d # c
        <4>1. Kept(d)
          BY <1>1, <1>8, <3>1 DEF Kept, SameEnds
        <4> QED BY <1>1, <4>1, EndKept
      <3>2. CASE d = c
        <4>1. ~JoinedOf(u, d)
          BY <3>2 DEF JoinedOf, Queued
        <4> QED BY <1>7, <3>2, <4>1
      <3> QED BY <3>1, <3>2
    <2> QED BY <2>1, ClientMoved
  <1> QED BY <1>9, <1>10, <1>11, <1>12, <1>13, <1>14, <1>15 DEF IInv

(* A connection that is handed over, or whose join was refused.            *)
LEMMA Refused ==
  ASSUME NEW w \in Seq(Connection), NEW c \in 1..Len(w), w[c].down = <<>>, w[c].server = "open",
         NEW kind \in {"accepted", "rejected"}
  PROVE  LET x == Written(w, {c}, [kind |-> kind])
         IN  /\ Rewired(w, x)
             /\ \A d \in 1..Len(w) :
                  /\ SameUp(x[d], w[d])
                  /\ d # c => SameDown(x[d], w[d]) /\ SameEnds(x[d], w[d])
             /\ x[c].heard = w[c].heard /\ x[c].server = "open"
             /\ x[c].client = "open" <=> w[c].client = "open"
             /\ IF w[c].client = "open"
                  THEN /\ Len(x[c].down) = 1 /\ x[c].down[1].kind = kind /\ x[c].down # <<>>
                  ELSE x[c].down = <<>>
             /\ DownShape(x[c].down) /\ \A j \in 1..Len(x[c].down) : x[c].down[j].kind # "msg"
  <1> DEFINE p == [kind |-> kind]
             x == Written(w, {c}, p)
  <1>1. p \in Message \cup Answer /\ p.kind = kind
    BY DEF Answer
  <1> HIDE DEF p, x
  <1>2. /\ Rewired(w, x)
        /\ \A d \in 1..Len(w) :
              /\ SameUp(x[d], w[d]) /\ x[d].heard = w[d].heard /\ x[d].server = w[d].server
              /\ x[d].client \in {w[d].client, "reset"}
              /\ x[d].client = "open" <=> w[d].client = "open"
              /\ d \notin {c} => x[d].client = w[d].client
              /\ x[d].down = IF d \in {c} /\ w[d].server = "open" /\ w[d].client = "open"
                               THEN Append(w[d].down, p) ELSE w[d].down
    BY <1>1, WireWritten DEF x
  <1>4. DownShape(<<>>) /\ Append(<<>>, p) = <<p>>
    BY EmptySeq DEF DownShape
  <1>3. x[c].down = IF w[c].client = "open" THEN <<p>> ELSE <<>>
    <2>1. x[c].down = IF w[c].client = "open" THEN Append(w[c].down, p) ELSE w[c].down
      BY <1>2
    <2> QED BY <1>4, <2>1
  <1>5. DownShape(<<p>>)
    BY <1>1, <1>4, DownAdded
  <1>6. \A j \in 1..Len(x[c].down) : x[c].down[j].kind # "msg"
    BY <1>1, <1>3
  <1>7. \A d \in 1..Len(w) : d # c => SameDown(x[d], w[d]) /\ SameEnds(x[d], w[d])
    BY <1>2 DEF SameDown, SameEnds
  <1>8. IF w[c].client = "open"
          THEN /\ Len(x[c].down) = 1 /\ x[c].down[1].kind = kind /\ x[c].down # <<>>
          ELSE x[c].down = <<>>
    BY <1>1, <1>3
  <1>9. DownShape(x[c].down)
    BY <1>3, <1>4, <1>5
  <1> QED BY <1>2, <1>6, <1>7, <1>8, <1>9 DEF x, p

LEMMA add_clientStep ==
  ASSUME IInv, add_client, FromServer
  PROVE  IInv'
  <1> USE DEF tableVars
  <1>1. PICK c : c = router
    OBVIOUS
  <1> DEFINE p == Head(wire[c].up)
             w == Reads(wire, c)
             item == [item |-> "add", conn |-> c, name |-> p.name]
  <1>2. /\ router # 0 /\ router' = 0 /\ client' = client /\ backlog' = backlog
        /\ UNCHANGED <<input_pipe, open_channels, channel_name_list, tableVars, alive, type>>
        /\ \/ /\ wire[c].up = <<>> /\ wire[c].client # "open"
              /\ UNCHANGED <<server, channel_pipes, wire>>
           \/ /\ wire[c].up # <<>>
              /\ ToChannels(Named(p.channel), item) /\ wire' = w /\ UNCHANGED server
           \/ /\ wire[c].up # <<>>
              /\ Write(w, c, [kind |-> "rejected"]) /\ UNCHANGED channel_pipes
    BY <1>1 DEF add_client, FromServer, Reads
  <1>3. /\ wire \in Seq(Connection) /\ c \in Conns /\ c \in 1..Len(wire) /\ Queued(c) /\ c \in Nat
        /\ UpOf(c) /\ DownOf(c) /\ c # 0
    <2>1. c = Accepted /\ c # 0 /\ wire \in Seq(Connection) /\ Queued(c)
      BY <1>1, <1>2 DEF IInv, AcceptInv, WireInv, Queued
    <2>2. c \in 1..Len(wire)
      BY <2>1, LenProperties DEF IInv, AcceptInv, Accepted
    <2> QED BY <2>1, <2>2 DEF Conns, IInv, UpInv, DownInv
  <1>4. /\ wire[c].down = <<>> /\ wire[c].server = "open" /\ wire[c].said = 0
        /\ wire[c].up \in {<<>>, <<JoinOf(wire[c])>>}
    BY <1>3 DEF UpOf, DownOf
  <1>5. wire[c].room \in Name /\ wire[c].owner \in User
    BY <1>3, WireAt
  <1>6. \A d \in Conns : Opened(wire[d], wire[d]) /\ SameUp(wire[d], wire[d]) /\ SameDown(wire[d], wire[d]) /\ SameEnds(wire[d], wire[d])
    BY DEF Opened, SameUp, SameDown, SameEnds
  <1>7. ASSUME wire[c].up # <<>>
        PROVE  /\ p = JoinOf(wire[c]) /\ Tail(wire[c].up) = <<>>
               /\ Rewired(wire, w)
               /\ \A d \in Conns :
                    /\ SameDown(w[d], wire[d]) /\ SameEnds(w[d], wire[d]) /\ w[d].said = wire[d].said
                    /\ w[d].up = IF d = c THEN <<>> ELSE wire[d].up
    <2>1. p = JoinOf(wire[c]) /\ Tail(wire[c].up) = <<>>
      <3>1. wire[c].up = <<JoinOf(wire[c])>>
        BY <1>4, <1>7
      <3>2. \A j : Head(<<j>>) = j /\ Tail(<<j>>) = <<>>
        OBVIOUS
      <3> QED BY <3>1, <3>2
    <2>2. /\ Rewired(wire, w)
          /\ \A d \in Conns :
                    /\ SameDown(w[d], wire[d]) /\ SameEnds(w[d], wire[d]) /\ w[d].said = wire[d].said
                    /\ w[d].up = IF d = c THEN Tail(wire[c].up) ELSE wire[d].up
      BY <1>3, <1>7, WireTaken DEF Conns
    <2> QED BY <2>1, <2>2
  <1> HIDE DEF w, p
  <1>8. \A k : Members(k)' = Members(k)
    BY <1>2 DEF Members, Slots
  <1>9. \A k \in Channel : Increasing(channel_pipes[k]) /\ c \notin Piped(k)
    BY <1>1 DEF IInv, PipeInv
  <1>10. ASSUME UNCHANGED channel_pipes, server' \in {"up", "exited", "killed"}
         PROVE  /\ RouterInv'
                /\ \A k \in Channel :
                     /\ Increasing(channel_pipes'[k])
                     /\ k >= open_channels => channel_pipes'[k] = channel_pipes[k]
                     /\ Piped(k)' \subseteq Piped(k) \cup {c}
                     /\ c \in Piped(k)' => channel_name_list[k] = wire[c].room
                     /\ \A l \in Channel : c \in Piped(k)' /\ c \in Piped(l)' => k = l
                     /\ Piped(k) \subseteq Piped(k)'
    <2>1. RouterInv'
      BY <1>2, <1>10 DEF IInv, RouterInv, Creates
    <2>2. \A k \in Channel : Piped(k)' = Piped(k)
      BY <1>10 DEF Piped
    <2> QED BY <1>9, <1>10, <2>1, <2>2
  <1>11. server \in {"up", "exited", "killed"}
    BY DEF IInv, RouterInv
  <1>12. CASE wire[c].up = <<>> /\ wire[c].client # "open" /\ UNCHANGED <<server, channel_pipes, wire>>
    <2>1. Rewired(wire, wire')
      BY <1>3, <1>6, <1>12 DEF Rewired, Conns
    <2>2. Conns' = Conns
      BY <1>12 DEF Conns
    <2>3. ~Queued(c)' => DownOf(c)'
      BY <1>3, <1>4, <1>8, <1>12, <2>2 DEF DownOf, Seated
    <2>4. \A u \in User : ~AskingOf(u, c)
      BY <1>12 DEF AskingOf
    <2>5. RouterInv'
      BY <1>10, <1>11, <1>12
    <2>6. \A d \in Conns : d # c =>
            SameUp(wire'[d], wire[d]) /\ SameDown(wire'[d], wire[d]) /\ SameEnds(wire'[d], wire[d])
      BY <1>6, <1>12
    <2>7. wire'[c].up = <<>> /\ wire'[c].said = wire[c].said
      BY <1>12
    <2> QED BY <1>1, <1>2, <1>10, <1>11, <1>12, <2>1, <2>3, <2>4, <2>5, <2>6, <2>7, RouterLeft
  <1>13. CASE wire[c].up # <<>> /\ ToChannels(Named(p.channel), item) /\ wire' = w /\ UNCHANGED server
    <2>1. /\ Rewired(wire, wire')
          /\ \A d \in Conns :
                    /\ SameDown(wire'[d], wire[d]) /\ SameEnds(wire'[d], wire[d]) /\ wire'[d].said = wire[d].said
                    /\ wire'[d].up = IF d = c THEN <<>> ELSE wire[d].up
      BY <1>7, <1>13
    <2>2. p.channel = wire[c].room /\ p.name = wire[c].owner
      BY <1>7, <1>13 DEF JoinOf
    <2> DEFINE ks == Named(p.channel)
    <2>3. /\ ks \subseteq Channel /\ \A k \in ks : k < open_channels
          /\ \A k \in ks : channel_name_list[k] = wire[c].room
      BY <2>2, NamedOpen DEF IInv, Named
    <2>4. \A k, l \in ks : k = l
      <3>1. open_channels \in Nat
        BY DEF IInv, RouterInv
      <3>2. \A k, l \in ks : /\ k \in Nat /\ l \in Nat
                             /\ channel_name_list[k] = p.channel
                             /\ k < l => channel_name_list[k] # p.channel
                             /\ l < k => channel_name_list[l] # p.channel /\ channel_name_list[l] = p.channel
        BY <3>1 DEF Named
      <3> QED BY <3>2
    <2>5. item \in Items /\ item.item = "add" /\ item.conn = c
      BY <1>3, <1>5, <2>2 DEF Items
    <2>6. channel_pipes' = [k \in Channel |-> IF k \in ks THEN Append(channel_pipes[k], item) ELSE channel_pipes[k]]
      BY <1>13 DEF ToChannels
    <2> HIDE DEF ks, item
    <2>7. ASSUME NEW k \in Channel
          PROVE  /\ channel_pipes'[k] \in Seq(Items) /\ Increasing(channel_pipes'[k])
                 /\ k >= open_channels => channel_pipes'[k] = channel_pipes[k]
                 /\ Piped(k)' = IF k \in ks THEN Piped(k) \cup {c} ELSE Piped(k)
      <3>1. channel_pipes[k] \in Seq(Items)
        BY DEF IInv, RouterInv
      <3>2. \A d \in ConnsOf(channel_pipes[k]) : d < c
        <4>1. c = Accepted /\ c \in Nat
          BY <1>1, <1>2, <1>3 DEF IInv, AcceptInv
        <4>2. \A d \in Piped(k) : d \in 1..Accepted /\ d # router
          BY DEF IInv, PipeInv
        <4> QED BY <1>1, <4>1, <4>2 DEF Piped
      <3>3. /\ Append(channel_pipes[k], item) \in Seq(Items) /\ Increasing(Append(channel_pipes[k], item))
            /\ ConnsOf(Append(channel_pipes[k], item)) = ConnsOf(channel_pipes[k]) \cup {c}
        BY <1>9, <2>5, <3>1, <3>2, ItemAdded
      <3>4. channel_pipes'[k] = IF k \in ks THEN Append(channel_pipes[k], item) ELSE channel_pipes[k]
        BY <2>6
      <3>5. k \in ks => ~(k >= open_channels)
        BY <2>3 DEF IInv, RouterInv, Channel
      <3> QED BY <1>9, <3>1, <3>3, <3>4, <3>5 DEF Piped
    <2>8. RouterInv'
      <3>1. channel_pipes' \in [Channel -> Seq(Items)]
        BY <2>6, <2>7
      <3> QED BY <1>2, <1>13, <3>1 DEF IInv, RouterInv, Creates
    <2>9. \A k \in Channel :
            /\ Increasing(channel_pipes'[k])
            /\ k >= open_channels => channel_pipes'[k] = channel_pipes[k]
            /\ Piped(k)' \subseteq Piped(k) \cup {c}
            /\ c \in Piped(k)' => channel_name_list[k] = wire[c].room
            /\ \A l \in Channel : c \in Piped(k)' /\ c \in Piped(l)' => k = l
            /\ Piped(k) \subseteq Piped(k)'
      BY <1>9, <2>3, <2>4, <2>7
    <2>10. wire'[c].up = <<>> /\ wire'[c].said = wire[c].said
      BY <1>3, <2>1
    <2>11. /\ wire'[c].down = <<>> /\ wire'[c].server = "open" /\ wire'[c].heard = wire[c].heard
           /\ wire'[c].client = wire[c].client
      BY <1>3, <1>4, <2>1 DEF SameDown, SameEnds
    <2>12. Conns' = Conns /\ \A d \in Conns : Opened(wire'[d], wire[d])
      BY <2>1 DEF Rewired, Conns
    <2>13. DownOf(c)'
      <3>1. DownShape(wire'[c].down) /\ \A j \in 1..Len(wire'[c].down) : wire'[c].down[j].kind # "msg"
        BY <1>3, <1>4, <2>11 DEF DownOf
      <3>2. \A j \in 1..Len(wire'[c].heard) :
              wire'[c].heard[j].from \in Conns /\ wire[wire'[c].heard[j].from].room = wire[c].room
        BY <1>3, <2>11 DEF DownOf
      <3> QED BY <1>3, <2>11, <2>12, <3>1, <3>2 DEF DownOf, Opened
    <2>14. ASSUME NEW u \in User, ~Queued(c)', ~Seated(c)', AskingOf(u, c) PROVE AskingOf(u, c)'
      <3>1. client[u].asked
        BY <1>13, <2>14 DEF AskingOf
      <3> QED BY <1>2, <1>3, <2>10, <2>11, <2>12, <2>14, <3>1 DEF AskingOf, Opened
    <2>15. \A d \in Conns : d # c =>
            SameUp(wire'[d], wire[d]) /\ SameDown(wire'[d], wire[d]) /\ SameEnds(wire'[d], wire[d])
      BY <2>1 DEF SameUp
    <2> QED BY <1>1, <1>2, <2>1, <2>8, <2>9, <2>10, <2>13, <2>14, <2>15, RouterLeft
  <1>14. CASE wire[c].up # <<>> /\ Write(w, c, [kind |-> "rejected"]) /\ UNCHANGED channel_pipes
    <2>1. /\ Rewired(wire, w)
          /\ \A d \in Conns :
                    /\ SameDown(w[d], wire[d]) /\ SameEnds(w[d], wire[d]) /\ w[d].said = wire[d].said
                    /\ w[d].up = IF d = c THEN <<>> ELSE wire[d].up
      BY <1>7, <1>14
    <2>2. /\ w \in Seq(Connection) /\ Len(w) = Len(wire) /\ c \in 1..Len(w)
          /\ \A d \in Conns : Opened(w[d], wire[d])
      BY <1>3, <2>1 DEF Rewired, Conns
    <2>3. w[c].down = <<>> /\ w[c].server = "open" /\ w[c].heard = wire[c].heard /\ w[c].client = wire[c].client
          /\ w[c].up = <<>> /\ w[c].said = wire[c].said
      BY <1>3, <1>4, <2>1 DEF SameDown, SameEnds
    <2> DEFINE x == Written(w, {c}, [kind |-> "rejected"])
    <2>4. /\ Rewired(w, x)
          /\ \A d \in 1..Len(w) :
               /\ SameUp(x[d], w[d])
               /\ d # c => SameDown(x[d], w[d]) /\ SameEnds(x[d], w[d])
          /\ x[c].heard = w[c].heard /\ x[c].server = "open"
          /\ x[c].client = "open" <=> w[c].client = "open"
          /\ IF w[c].client = "open"
               THEN /\ Len(x[c].down) = 1 /\ x[c].down[1].kind = "rejected" /\ x[c].down # <<>>
               ELSE x[c].down = <<>>
          /\ DownShape(x[c].down) /\ \A j \in 1..Len(x[c].down) : x[c].down[j].kind # "msg"
      BY <2>2, <2>3, Refused
    <2>5. (wire' = x /\ server' = server) \/ (wire' = w /\ server' = "killed" /\ wire[c].client # "open")
      BY <1>14 DEF Write, MayRaise
    <2> HIDE DEF x
    <2>6. /\ Rewired(wire, wire')
          /\ \A d \in Conns : d # c =>
               SameUp(wire'[d], wire[d]) /\ SameDown(wire'[d], wire[d]) /\ SameEnds(wire'[d], wire[d])
      <3>1. CASE wire' = w
        BY <2>1, <3>1 DEF SameUp
      <3>2. CASE wire' = x
        <4>1. Rewired(wire, x)
          BY <2>1, <2>2, <2>4 DEF Rewired, Opened, Conns
        <4> QED BY <2>1, <2>2, <2>4, <3>2, <4>1 DEF SameUp, SameDown, SameEnds, Conns
      <3> QED BY <2>5, <3>1, <3>2
    <2>7. /\ wire'[c].up = <<>> /\ wire'[c].said = wire[c].said /\ wire'[c].server = "open"
          /\ wire'[c].heard = wire[c].heard
          /\ DownShape(wire'[c].down) /\ \A j \in 1..Len(wire'[c].down) : wire'[c].down[j].kind # "msg"
          /\ wire[c].client = "open" =>
               /\ wire'[c].client = "open" /\ Len(wire'[c].down) = 1 /\ wire'[c].down[1].kind = "rejected"
      <3>1. DownShape(w[c].down) /\ \A j \in 1..Len(w[c].down) : w[c].down[j].kind # "msg"
        BY <1>3, <1>4, <2>3 DEF DownOf
      <3>2. CASE wire' = w /\ wire[c].client # "open"
        BY <2>3, <3>1, <3>2
      <3>3. CASE wire' = x
        BY <2>2, <2>3, <2>4, <3>3 DEF SameUp
      <3> QED BY <2>5, <3>2, <3>3
    <2>8. Conns' = Conns /\ \A d \in Conns : Opened(wire'[d], wire[d])
      BY <2>6 DEF Rewired, Conns
    <2>9. ~InPipe(c)'
      BY <1>9, <1>14 DEF InPipe, Piped
    <2>10. ~Queued(c)' => DownOf(c)'
      BY <1>3, <2>7, <2>8, <2>9 DEF DownOf, Opened
    <2>11. ASSUME NEW u \in User, ~Queued(c)', ~Seated(c)', AskingOf(u, c) PROVE AskingOf(u, c)'
      <3>1. client[u].asked
        BY <1>14, <2>11 DEF AskingOf
      <3> QED BY <1>2, <1>3, <2>7, <2>8, <2>11, <3>1 DEF AskingOf, Opened
    <2>12. server' \in {"up", "exited", "killed"}
      BY <1>11, <2>5
    <2> QED BY <1>1, <1>2, <1>10, <1>14, <2>6, <2>7, <2>10, <2>11, <2>12, RouterLeft
  <1> QED BY <1>2, <1>12, <1>13, <1>14

(* A channel's thread has taken connection c from its pipe.                *)
LEMMA PipeLeft ==
  ASSUME IInv, NEW k \in Channel, NEW c \in Piped(k),
         UNCHANGED <<router, open_channels, channel_name_list, backlog, client>>,
         RouterInv', TableInv',
         Piped(k)' = Piped(k) \ {c}, Increasing(channel_pipes'[k]), \A d \in Piped(k)' : d > c,
         \A l \in Channel : l # k =>
           /\ channel_pipes'[l] = channel_pipes[l] /\ current_clients'[l] = current_clients[l]
           /\ Members(l)' = Members(l),
         current_clients'[k] <= c,
         Members(k)' \in {Members(k), Members(k) \cup {c}},
         Rewired(wire, wire'),
         \A d \in Conns : d # c =>
           SameUp(wire'[d], wire[d]) /\ SameDown(wire'[d], wire[d]) /\ SameEnds(wire'[d], wire[d]),
         SameUp(wire'[c], wire[c]), wire'[c].heard = wire[c].heard, wire'[c].server = "open",
         DownShape(wire'[c].down), \A j \in 1..Len(wire'[c].down) : wire'[c].down[j].kind # "msg",
         wire[c].client = "open" =>
           /\ wire'[c].client = "open" /\ Len(wire'[c].down) = 1
           /\ wire'[c].down[1].kind = IF c \in Members(k)' THEN "accepted" ELSE "rejected"
  PROVE  IInv'
  <1>1. /\ wire \in Seq(Connection) /\ Len(wire) \in Nat /\ Len(wire') = Len(wire) /\ wire' \in Seq(Connection)
        /\ Conns' = Conns /\ \A d \in Conns : Opened(wire'[d], wire[d])
    BY LenProperties DEF IInv, WireInv, Rewired, Conns
  <1>2. /\ Accepted' = Accepted /\ Accepted \in Nat /\ Accepted <= Len(wire)
        /\ c \in 1..Accepted /\ c # router /\ router \in {0, Accepted} /\ c \notin Members(k)
        /\ c \in Conns
    <2>1. /\ Accepted' = Accepted /\ Accepted \in Nat /\ Accepted <= Len(wire) /\ router \in {0, Accepted}
      BY <1>1, LenProperties DEF Accepted, IInv, AcceptInv
    <2> QED BY <1>1, <2>1 DEF IInv, PipeInv, Conns
  <1>3. \A l \in Channel : l # k => c \notin Piped(l) /\ c \notin Members(l)
    BY DEF IInv, RoomInv, Around
  <1>4. \A l \in Channel : l # k => Piped(l)' = Piped(l)
    BY DEF Piped
  <1>5. InPipe(c) /\ ~Queued(c) /\ ~Seated(c) /\ ~InPipe(c)' /\ ~Queued(c)' /\ (Seated(c)' <=> c \in Members(k)')
    <2>1. InPipe(c) /\ ~Queued(c) /\ ~Seated(c)
      BY <1>2, <1>3 DEF InPipe, Queued, Seated
    <2>2. ~InPipe(c)' /\ ~Queued(c)'
      BY <1>2, <1>3, <1>4 DEF InPipe, Queued
    <2>3. Seated(c)' <=> c \in Members(k)'
      BY <1>3 DEF Seated
    <2> QED BY <2>1, <2>2, <2>3
  <1>6. ASSUME NEW d \in Conns, d # c PROVE SameStage(d)
    <2>1. Queued(d)' <=> Queued(d)
      BY <1>2 DEF Queued
    <2>2. InPipe(d)' <=> InPipe(d)
      BY <1>4, <1>6 DEF InPipe
    <2>3. Seated(d)' <=> Seated(d)
      BY <1>6 DEF Seated
    <2> QED BY <2>1, <2>2, <2>3 DEF SameStage
  <1>7. WireInv' /\ AcceptInv'
    BY <1>1, <1>2 DEF IInv, WireInv, AcceptInv
  <1>8. PipeInv'
    <2> SUFFICES ASSUME NEW l \in Channel
                 PROVE  /\ l >= open_channels' => channel_pipes'[l] = <<>> /\ current_clients'[l] = 0
                        /\ current_clients'[l] <= Accepted'
                        /\ router' # 0 => current_clients'[l] < router'
                        /\ Increasing(channel_pipes'[l])
                        /\ \A d \in Piped(l)' : /\ d \in 1..Accepted' /\ d # router'
                                                /\ d > current_clients'[l] /\ d \notin Members(l)'
      BY DEF PipeInv
    <2>1. CASE l # k
      BY <1>2, <1>4, <2>1 DEF IInv, PipeInv
    <2>2. CASE l = k
      <3>1. ~(k >= open_channels)
        <4>1. channel_pipes[k] # <<>>
          BY DEF Piped, ConnsOf, Adds
        <4> QED BY <4>1 DEF IInv, PipeInv
      <3>2. current_clients'[k] \in Nat
        BY DEF TableInv
      <3>3. \A d \in Piped(k)' : d \in 1..Accepted /\ d # router /\ d \notin Members(k)' /\ d > current_clients'[k]
        <4>1. \A d \in Piped(k)' : d \in Piped(k) /\ d # c /\ d > c
          OBVIOUS
        <4>2. \A d \in Piped(k) : d \in 1..Accepted /\ d # router /\ d \notin Members(k)
          BY DEF IInv, PipeInv
        <4>3. \A d \in Piped(k)' : d \in 1..Accepted /\ d # router /\ d \notin Members(k)'
          BY <4>1, <4>2
        <4>4. \A d \in Piped(k)' : d > current_clients'[k]
          BY <1>2, <3>2, <4>1, <4>3
        <4> QED BY <4>3, <4>4
      <3> QED BY <1>2, <2>2, <3>1, <3>2, <3>3
    <2> QED BY <2>1, <2>2
  <1>9. RoomInv'
    <2>1. \A l \in Channel : Around(l)' \subseteq Around(l)
      BY <1>4 DEF Around
    <2>2. \A l \in Channel : Around(l) \subseteq Conns
      BY AroundConns
    <2>3. \A d \in Conns : wire'[d].room = wire[d].room
      BY <1>1 DEF Opened
    <2> QED BY <2>1, <2>2, <2>3 DEF IInv, RoomInv
  <1>10. UpInv'
    <2>1. ASSUME NEW d \in Conns, d # c PROVE UpOf(d)'
      BY <1>1, <1>6, <2>1, UpKept DEF IInv, UpInv
    <2>2. UpOf(c)'
      <3>1. wire'[c].up = <<>> /\ wire'[c].said = 0
        BY <1>2, <1>5 DEF IInv, UpInv, UpOf, SameUp
      <3>2. UpShape(<<>>, 0, 0)
        BY DEF UpShape
      <3> QED BY <1>5, <3>1, <3>2 DEF UpOf
    <2> QED BY <1>1, <2>1, <2>2 DEF UpInv
  <1>11. DownInv'
    <2>1. ASSUME NEW d \in Conns, d # c PROVE DownOf(d)'
      BY <1>1, <1>6, <2>1, DownKept DEF IInv, DownInv, SameEnds
    <2>2. DownOf(c)'
      <3>1. \A j \in 1..Len(wire[c].heard) :
              wire[c].heard[j].from \in Conns /\ wire[wire[c].heard[j].from].room = wire[c].room
        BY <1>2 DEF IInv, DownInv, DownOf
      <3>2. \A d \in Conns : wire'[d].room = wire[d].room
        BY <1>1 DEF Opened
      <3>3. \A j \in 1..Len(wire'[c].heard) :
              wire'[c].heard[j].from \in Conns' /\ wire'[wire'[c].heard[j].from].room = wire'[c].room
        <4> TAKE j \in 1..Len(wire'[c].heard)
        <4>1. PICK d : d = wire[c].heard[j].from
          OBVIOUS
        <4>2. d \in Conns /\ wire[d].room = wire[c].room
          BY <3>1, <4>1
        <4>3. wire'[d].room = wire'[c].room
          BY <1>2, <3>2, <4>2
        <4> QED BY <1>1, <4>1, <4>2, <4>3
      <3> QED BY <1>5, <3>3 DEF DownOf
    <2> QED BY <1>1, <2>1, <2>2 DEF DownInv
  <1>12. ClientInv'
    <2>1. ASSUME NEW u \in User, NEW d \in Conns
          PROVE  /\ client[u].asking = d /\ AskingOf(u, d) => AskingOf(u, d)'
                 /\ client[u].client_socket = d /\ JoinedOf(u, d) => JoinedOf(u, d)'
      <3>1. CASE d # c
        <4>1. Kept(d)
          BY <1>1, <1>6, <3>1 DEF Kept, SameEnds
        <4> QED BY <1>1, <4>1, EndKept
      <3>2. CASE d = c
        <4>1. ~JoinedOf(u, d)
          BY <1>5, <3>2 DEF JoinedOf
        <4>2. ASSUME AskingOf(u, c) PROVE AskingOf(u, c)'
          <5>1. wire'[c].owner = u /\ wire'[c].client = "open" /\ wire'[c].said = 0 /\ wire'[c].up = <<>>
            BY <1>1, <1>2, <1>5, <4>2 DEF AskingOf, Opened, SameUp
          <5>2. client[u].asked
            BY <1>5, <4>2 DEF AskingOf
          <5>3. Len(wire'[c].down) = 1 /\ wire'[c].down # <<>>
            <6>1. Len(wire'[c].down) = 1
              BY <4>2 DEF AskingOf
            <6> QED BY <6>1
          <5>4. wire'[c].down[1].kind = IF Seated(c)' THEN "accepted" ELSE "rejected"
            BY <1>5, <4>2 DEF AskingOf
          <5> QED BY <1>1, <1>2, <5>1, <5>2, <5>3, <5>4 DEF AskingOf
        <4> QED BY <3>2, <4>1, <4>2
      <3> QED BY <3>1, <3>2
    <2> QED BY <2>1, ClientMoved
  <1> QED BY <1>7, <1>8, <1>9, <1>10, <1>11, <1>12 DEF IInv

(* The table of channel k has c in its next slot.                          *)
LEMMA SeatTaken ==
  ASSUME TableInv, NEW k \in Channel, NEW c \in Nat \ {0}, NEW name \in User,
         current_clients[k] < MAX_CLIENTS, c \notin Members(k), c <= Accepted, c # router,
         UNCHANGED router, Accepted' = Accepted,
         NEW x, x = Cell(k, current_clients[k]),
         socket_list' = [socket_list EXCEPT ![x] = c],
         client_names' = [client_names EXCEPT ![x] = name],
         listen_fds' = [listen_fds EXCEPT ![k] = @ \cup {c}],
         current_clients' = [current_clients EXCEPT ![k] = @ + 1]
  PROVE  /\ TableInv'
         /\ current_clients'[k] = current_clients[k] + 1
         /\ Members(k)' = Members(k) \cup {c}
         /\ \A l \in Channel : l # k =>
              current_clients'[l] = current_clients[l] /\ Members(l)' = Members(l)
  <1> DEFINE n == current_clients[k]
  <1>1. /\ current_clients \in [Channel -> Nat] /\ n \in Nat /\ n \in Row /\ x \in Cells
        /\ MAX_CLIENTS \in Nat
        /\ socket_list \in [Cells -> {-1, 0} \cup Nat] /\ client_names \in [Cells -> User \cup {NoName}]
        /\ listen_fds = [l \in Channel |-> Members(l)]
    BY ServerAssumption, CellIn DEF TableInv, Row
  <1>2. /\ current_clients' \in [Channel -> Nat] /\ current_clients'[k] = n + 1
        /\ \A l \in Channel : l # k => current_clients'[l] = current_clients[l]
    BY <1>1
  <1>3. /\ socket_list' \in [Cells -> {-1, 0} \cup Nat]
        /\ client_names' \in [Cells -> User \cup {NoName}]
        /\ \A y \in Cells : socket_list'[y] = IF y = x THEN c ELSE socket_list[y]
    BY <1>1
  <1>4. \A l \in Channel, i \in Row :
          /\ Cell(l, i) \in Cells
          /\ socket_list'[Cell(l, i)] = IF l = k /\ i = n THEN c ELSE socket_list[Cell(l, i)]
    BY <1>1, <1>3, CellIn, CellOne
  <1> HIDE DEF n
  <1>5. /\ Slots(k)' = Slots(k) \cup {n} /\ n \notin Slots(k)
        /\ \A l \in Channel : l # k => Slots(l)' = Slots(l)
        /\ \A l \in Channel : Slots(l) \subseteq Row
    <2>1. Slots(k)' = Slots(k) \cup {n} /\ n \notin Slots(k)
      BY <1>1, <1>2 DEF Slots, n
    <2>2. \A l \in Channel : l # k => Slots(l)' = Slots(l)
      BY <1>2 DEF Slots
    <2>3. \A l \in Channel : Slots(l) \subseteq Row
      BY SlotIn
    <2> QED BY <2>1, <2>2, <2>3
  <1>6. \A l \in Channel : l # k => Members(l)' = Members(l)
    BY <1>4, <1>5 DEF Members
  <1>7. Members(k)' = Members(k) \cup {c}
    <2>1. \A i \in Slots(k) : socket_list'[Cell(k, i)] = socket_list[Cell(k, i)]
      BY <1>4, <1>5
    <2>2. socket_list'[Cell(k, n)] = c /\ c # -1
      BY <1>1, <1>4
    <2> QED BY <1>5, <2>1, <2>2 DEF Members
  <1>8. listen_fds' = [l \in Channel |-> Members(l)']
    BY <1>1, <1>6, <1>7
  <1>9. ASSUME NEW l \in Channel
        PROVE  /\ current_clients'[l] <= MAX_CLIENTS
               /\ Members(l)' \subseteq 1..Accepted' /\ router' \notin Members(l)'
               /\ \A i \in Row : socket_list'[Cell(l, i)] = 0 <=> i >= current_clients'[l]
               /\ \A i, j \in Slots(l)' :
                    socket_list'[Cell(l, i)] = socket_list'[Cell(l, j)] => i = j \/ socket_list'[Cell(l, i)] = -1
    <2>1. Accepted \in Int
      BY DEF TableInv, Accepted
    <2>2. current_clients'[l] <= MAX_CLIENTS
      BY <1>1, <1>2 DEF TableInv, n
    <2>3. Members(l)' \subseteq 1..Accepted' /\ router' \notin Members(l)'
      <3>1. Members(l) \subseteq 1..Accepted /\ router \notin Members(l)
        BY DEF TableInv
      <3>2. \A d \in Members(l)' : d \in Members(l) \/ d = c
        BY <1>6, <1>7
      <3>3. c \in 1..Accepted
        OBVIOUS
      <3> QED BY <3>1, <3>2, <3>3
    <2>4. \A i \in Row : socket_list'[Cell(l, i)] = 0 <=> i >= current_clients'[l]
      <3> TAKE i \in Row
      <3>1. i \in Nat /\ (socket_list[Cell(l, i)] = 0 <=> i >= current_clients[l])
        BY DEF TableInv, Row
      <3>2. CASE l = k
        BY <1>1, <1>2, <1>4, <3>1, <3>2 DEF n
      <3>3. CASE l # k
        BY <1>2, <1>4, <3>1, <3>3
      <3> QED BY <3>2, <3>3
    <2>5. \A i, j \in Slots(l)' :
            socket_list'[Cell(l, i)] = socket_list'[Cell(l, j)] => i = j \/ socket_list'[Cell(l, i)] = -1
      <3>1. \A i, j \in Slots(l) :
              socket_list[Cell(l, i)] = socket_list[Cell(l, j)] => i = j \/ socket_list[Cell(l, i)] = -1
        BY DEF TableInv
      <3>2. CASE l # k
        BY <1>4, <1>5, <3>1, <3>2
      <3>3. CASE l = k
        <4>1. \A i \in Slots(k) : socket_list[Cell(k, i)] # c
          BY MemberSlot
        <4>2. \A i \in Slots(k) : socket_list'[Cell(k, i)] = socket_list[Cell(k, i)]
          BY <1>4, <1>5
        <4>3. socket_list'[Cell(k, n)] = c
          BY <1>1, <1>4
        <4> SUFFICES ASSUME NEW i \in Slots(k)', NEW j \in Slots(k)',
                            socket_list'[Cell(k, i)] = socket_list'[Cell(k, j)]
                     PROVE  i = j \/ socket_list'[Cell(k, i)] = -1
          BY <3>3
        <4>4. CASE i \in Slots(k) /\ j \in Slots(k)
          BY <3>1, <3>3, <4>2, <4>4
        <4>5. CASE i = n \/ j = n
          BY <1>5, <4>1, <4>2, <4>3, <4>5
        <4> QED BY <1>5, <4>4, <4>5
      <3> QED BY <3>2, <3>3
    <2> QED BY <2>2, <2>3, <2>4, <2>5
  <1> QED BY <1>2, <1>3, <1>6, <1>7, <1>8, <1>9 DEF TableInv, n

LEMMA process_add_clientStep ==
  ASSUME RowsFit, IInv, NEW k \in Channel, process_add_client(k), FromServer
  PROVE  IInv'
  <1>1. PICK a : a = Head(channel_pipes[k])
    OBVIOUS
  <1>2. PICK x : x = Cell(k, current_clients[k])
    OBVIOUS
  <1>3. /\ channel_pipes[k] # <<>> /\ a.item = "add"
        /\ channel_pipes' = [channel_pipes EXCEPT ![k] = Tail(@)]
        /\ type' = [type EXCEPT ![k] = "other"]
        /\ UNCHANGED <<input_pipe, router, open_channels, channel_name_list, backlog, client, alive>>
    BY <1>1 DEF process_add_client, Item, FromServer, routerVars
  <1>4. \/ /\ Write(wire, a.conn, [kind |-> "rejected"]) /\ UNCHANGED tableVars
        \/ /\ Write(wire, a.conn, [kind |-> "accepted"])
           /\ socket_list' = [socket_list EXCEPT ![x] = a.conn]
           /\ client_names' = [client_names EXCEPT ![x] = a.name]
           /\ listen_fds' = [listen_fds EXCEPT ![k] = @ \cup {a.conn}]
           /\ current_clients' = [current_clients EXCEPT ![k] = @ + 1]
    BY <1>1, <1>2 DEF process_add_client
  <1>5. /\ channel_pipes \in [Channel -> Seq(Items)] /\ Increasing(channel_pipes[k])
        /\ channel_pipes[k] \in Seq(Items)
    BY DEF IInv, RouterInv, PipeInv
  <1>6. /\ Tail(channel_pipes[k]) \in Seq(Items) /\ Increasing(Tail(channel_pipes[k]))
        /\ a.conn \in ConnsOf(channel_pipes[k]) /\ a.name \in User
        /\ ConnsOf(Tail(channel_pipes[k])) = ConnsOf(channel_pipes[k]) \ {a.conn}
        /\ \A d \in ConnsOf(Tail(channel_pipes[k])) : d > a.conn
    BY <1>1, <1>3, <1>5, ItemTaken
  <1>7. PICK c : c = a.conn
    OBVIOUS
  <1>8. /\ channel_pipes' \in [Channel -> Seq(Items)]
        /\ channel_pipes'[k] = Tail(channel_pipes[k])
        /\ \A l \in Channel : l # k => channel_pipes'[l] = channel_pipes[l]
    BY <1>3, <1>5, <1>6
  <1>9. /\ c \in Piped(k) /\ Piped(k)' = Piped(k) \ {c} /\ Increasing(channel_pipes'[k])
        /\ \A d \in Piped(k)' : d > c
    BY <1>6, <1>7, <1>8 DEF Piped
  <1>10. type' \in [Channel -> {"other", "quit", "msg"}]
    BY <1>3 DEF IInv, RouterInv
  <1>11. /\ wire \in Seq(Connection) /\ Len(wire) \in Nat /\ Len(wire) <= MaxConns
         /\ Accepted <= Len(wire) /\ Accepted \in Nat
    BY LenProperties DEF IInv, WireInv, AcceptInv, Accepted
  <1>12. /\ c \in 1..Accepted /\ c # router /\ c > current_clients[k] /\ c \notin Members(k)
         /\ current_clients[k] \in Nat
    BY <1>9 DEF IInv, PipeInv, TableInv
  <1>13. c \in Conns /\ c \in Nat \ {0} /\ c \in 1..Len(wire) /\ InPipe(c) /\ DownOf(c)
    <2>1. c \in Conns /\ c \in Nat \ {0} /\ c \in 1..Len(wire)
      BY <1>11, <1>12 DEF Conns
    <2> QED BY <1>9, <2>1 DEF InPipe, IInv, DownInv
  <1>14. wire[c].down = <<>> /\ wire[c].server = "open"
    BY <1>13 DEF DownOf
  <1>15. current_clients[k] < MAX_CLIENTS /\ current_clients[k] + 1 <= c
    <2>1. MAX_CLIENTS \in Nat /\ MaxConns \in Nat /\ MaxConns <= MAX_CLIENTS
      BY ServerAssumption, SocketsAssumption DEF RowsFit
    <2> QED BY <1>11, <1>12, <2>1
  <1>16. ASSUME NEW kind \in {"accepted", "rejected"}, Write(wire, c, [kind |-> kind])
         PROVE  /\ Rewired(wire, wire') /\ Accepted' = Accepted
                /\ \A d \in Conns : d # c =>
                     SameUp(wire'[d], wire[d]) /\ SameDown(wire'[d], wire[d]) /\ SameEnds(wire'[d], wire[d])
                /\ SameUp(wire'[c], wire[c]) /\ wire'[c].heard = wire[c].heard /\ wire'[c].server = "open"
                /\ DownShape(wire'[c].down)
                /\ \A j \in 1..Len(wire'[c].down) : wire'[c].down[j].kind # "msg"
                /\ wire[c].client = "open" =>
                     wire'[c].client = "open" /\ Len(wire'[c].down) = 1 /\ wire'[c].down[1].kind = kind
                /\ RouterInv'
    <2> DEFINE w == Written(wire, {c}, [kind |-> kind])
    <2>1. /\ Rewired(wire, w)
          /\ \A d \in 1..Len(wire) :
               /\ SameUp(w[d], wire[d])
               /\ d # c => SameDown(w[d], wire[d]) /\ SameEnds(w[d], wire[d])
          /\ w[c].heard = wire[c].heard /\ w[c].server = "open"
          /\ w[c].client = "open" <=> wire[c].client = "open"
          /\ IF wire[c].client = "open"
               THEN /\ Len(w[c].down) = 1 /\ w[c].down[1].kind = kind /\ w[c].down # <<>>
               ELSE w[c].down = <<>>
          /\ DownShape(w[c].down) /\ \A j \in 1..Len(w[c].down) : w[c].down[j].kind # "msg"
      BY <1>11, <1>13, <1>14, Refused
    <2>2. \/ wire' = w /\ server' = server
          \/ wire' = wire /\ server' = "killed" /\ wire[c].client # "open"
      BY <1>16 DEF Write, MayRaise
    <2> HIDE DEF w
    <2>3. RouterInv'
      <3>1. server' \in {"up", "exited", "killed"}
        BY <2>2 DEF IInv, RouterInv
      <3> QED BY <1>3, <1>8, <1>10, <3>1 DEF IInv, RouterInv, Creates
    <2>4. CASE wire' = w
      <3>1. Accepted' = Accepted
        BY <1>3, <2>1, <2>4 DEF Accepted, Rewired
      <3>2. /\ \A d \in Conns : d # c =>
                 SameUp(wire'[d], wire[d]) /\ SameDown(wire'[d], wire[d]) /\ SameEnds(wire'[d], wire[d])
            /\ SameUp(wire'[c], wire[c])
        BY <1>13, <2>1, <2>4 DEF Conns
      <3>3. wire[c].client = "open" =>
              wire'[c].client = "open" /\ Len(wire'[c].down) = 1 /\ wire'[c].down[1].kind = kind
        BY <2>1, <2>4
      <3> QED BY <2>1, <2>3, <2>4, <3>1, <3>2, <3>3
    <2>5. CASE wire' = wire /\ wire[c].client # "open"
      <3>1. Accepted' = Accepted /\ Rewired(wire, wire')
        BY <1>3, <1>11, <2>5 DEF Accepted, Rewired, Opened
      <3>2. DownShape(wire[c].down) /\ \A j \in 1..Len(wire[c].down) : wire[c].down[j].kind # "msg"
        BY <1>13, <1>14 DEF DownOf
      <3> QED BY <1>14, <2>3, <2>5, <3>1, <3>2 DEF SameUp, SameDown, SameEnds
    <2> QED BY <2>2, <2>4, <2>5
  <1>17. CASE Write(wire, a.conn, [kind |-> "rejected"]) /\ UNCHANGED tableVars
    <2>1. \A l : Members(l)' = Members(l)
      BY <1>17 DEF tableVars, Members, Slots
    <2>2. /\ Rewired(wire, wire') /\ Accepted' = Accepted
          /\ \A d \in Conns : d # c =>
               SameUp(wire'[d], wire[d]) /\ SameDown(wire'[d], wire[d]) /\ SameEnds(wire'[d], wire[d])
          /\ SameUp(wire'[c], wire[c]) /\ wire'[c].heard = wire[c].heard /\ wire'[c].server = "open"
          /\ DownShape(wire'[c].down)
          /\ \A j \in 1..Len(wire'[c].down) : wire'[c].down[j].kind # "msg"
          /\ wire[c].client = "open" =>
               wire'[c].client = "open" /\ Len(wire'[c].down) = 1 /\ wire'[c].down[1].kind = "rejected"
          /\ RouterInv'
      BY <1>7, <1>16, <1>17
    <2>3. TableInv'
      <3>1. \A l : Slots(l)' = Slots(l)
        BY <1>17 DEF tableVars, Slots
      <3> QED BY <1>3, <1>17, <2>1, <2>2, <3>1 DEF tableVars, TableInv, IInv
    <2>4. current_clients'[k] <= c /\ \A l \in Channel : current_clients'[l] = current_clients[l]
      BY <1>12, <1>17 DEF tableVars
    <2>5. c \notin Members(k)'
      BY <1>12, <2>1
    <2> QED BY <1>3, <1>8, <1>9, <2>1, <2>2, <2>3, <2>4, <2>5, PipeLeft
  <1>18. CASE /\ Write(wire, a.conn, [kind |-> "accepted"])
              /\ socket_list' = [socket_list EXCEPT ![x] = a.conn]
              /\ client_names' = [client_names EXCEPT ![x] = a.name]
              /\ listen_fds' = [listen_fds EXCEPT ![k] = @ \cup {a.conn}]
              /\ current_clients' = [current_clients EXCEPT ![k] = @ + 1]
    <2>1. /\ Rewired(wire, wire') /\ Accepted' = Accepted
          /\ \A d \in Conns : d # c =>
               SameUp(wire'[d], wire[d]) /\ SameDown(wire'[d], wire[d]) /\ SameEnds(wire'[d], wire[d])
          /\ SameUp(wire'[c], wire[c]) /\ wire'[c].heard = wire[c].heard /\ wire'[c].server = "open"
          /\ DownShape(wire'[c].down)
          /\ \A j \in 1..Len(wire'[c].down) : wire'[c].down[j].kind # "msg"
          /\ wire[c].client = "open" =>
               wire'[c].client = "open" /\ Len(wire'[c].down) = 1 /\ wire'[c].down[1].kind = "accepted"
          /\ RouterInv'
      BY <1>7, <1>16, <1>18
    <2>2. /\ TableInv'
          /\ current_clients'[k] = current_clients[k] + 1
          /\ Members(k)' = Members(k) \cup {c}
          /\ \A l \in Channel : l # k =>
               current_clients'[l] = current_clients[l] /\ Members(l)' = Members(l)
      <3>1. c <= Accepted /\ UNCHANGED router
        BY <1>3, <1>12
      <3>2. a.name \in User /\ TableInv
        BY <1>6 DEF IInv
      <3>3. /\ socket_list' = [socket_list EXCEPT ![x] = c]
            /\ client_names' = [client_names EXCEPT ![x] = a.name]
            /\ listen_fds' = [listen_fds EXCEPT ![k] = @ \cup {c}]
            /\ current_clients' = [current_clients EXCEPT ![k] = @ + 1]
        BY <1>7, <1>18
      <3> QED BY <1>2, <1>12, <1>13, <1>15, <2>1, <3>1, <3>2, <3>3, SeatTaken
    <2>3. current_clients'[k] <= c /\ c \in Members(k)'
      BY <1>12, <1>15, <2>2
    <2> QED BY <1>3, <1>8, <1>9, <2>1, <2>2, <2>3, PipeLeft
  <1> QED BY <1>4, <1>17, <1>18

(* Slot i of channel k is vacated; its connection had no other.            *)
LEMMA SeatLeft ==
  ASSUME TableInv, NEW k \in Channel, NEW i \in Slots(k), NEW x, x = Cell(k, i),
         NEW c, c = socket_list[x], c # -1,
         Accepted' = Accepted, UNCHANGED <<router, current_clients>>,
         client_names' = [client_names EXCEPT ![x] = NoName],
         socket_list' = [socket_list EXCEPT ![x] = -1],
         listen_fds' = [listen_fds EXCEPT ![k] = @ \ {c}]
  PROVE  /\ TableInv'
         /\ Members(k)' = Members(k) \ {c}
         /\ \A l \in Channel : l # k => Members(l)' = Members(l)
  <1>1. /\ x \in Cells /\ i \in Row /\ c \in Members(k)
        /\ socket_list \in [Cells -> {-1, 0} \cup Nat] /\ client_names \in [Cells -> User \cup {NoName}]
        /\ listen_fds = [l \in Channel |-> Members(l)]
    BY SlotIn, MemberSlot DEF TableInv
  <1>2. /\ socket_list' \in [Cells -> {-1, 0} \cup Nat]
        /\ client_names' \in [Cells -> User \cup {NoName}]
        /\ \A y \in Cells : socket_list'[y] = IF y = x THEN -1 ELSE socket_list[y]
    BY <1>1
  <1>3. \A l \in Channel, j \in Row :
          /\ Cell(l, j) \in Cells
          /\ socket_list'[Cell(l, j)] = IF l = k /\ j = i THEN -1 ELSE socket_list[Cell(l, j)]
    BY <1>1, <1>2, CellIn, CellOne
  <1>4. \A l \in Channel : Slots(l)' = Slots(l) /\ Slots(l) \subseteq Row
    <2>1. \A l \in Channel : Slots(l) \subseteq Row
      BY SlotIn
    <2> QED BY <2>1 DEF Slots
  <1>5. \A l \in Channel : l # k => Members(l)' = Members(l)
    BY <1>3, <1>4 DEF Members
  <1>6. Members(k)' = Members(k) \ {c}
    <2>1. \A j \in Slots(k) : j # i => socket_list[Cell(k, j)] # c
      BY DEF TableInv
    <2>2. \A j \in Slots(k) : socket_list'[Cell(k, j)] = IF j = i THEN -1 ELSE socket_list[Cell(k, j)]
      BY <1>3, <1>4
    <2> QED BY <1>4, <2>1, <2>2 DEF Members
  <1>7. listen_fds' = [l \in Channel |-> Members(l)']
    BY <1>1, <1>5, <1>6
  <1>8. \A l \in Channel : Members(l)' \subseteq Members(l)
    BY <1>5, <1>6
  <1>9. \A l \in Channel : \A j \in Row : socket_list'[Cell(l, j)] = 0 <=> j >= current_clients'[l]
    <2> TAKE l \in Channel
    <2> TAKE j \in Row
    <2>1. socket_list[Cell(l, j)] = 0 <=> j >= current_clients[l]
      BY DEF TableInv
    <2>2. l = k /\ j = i => ~(j >= current_clients[l])
      BY DEF Slots, TableInv
    <2> QED BY <1>3, <2>1, <2>2
  <1>10. \A l \in Channel : \A g, h \in Slots(l)' :
           socket_list'[Cell(l, g)] = socket_list'[Cell(l, h)] => g = h \/ socket_list'[Cell(l, g)] = -1
    <2> TAKE l \in Channel
    <2> SUFFICES ASSUME NEW g \in Slots(l), NEW h \in Slots(l),
                        socket_list'[Cell(l, g)] = socket_list'[Cell(l, h)], socket_list'[Cell(l, g)] # -1
                 PROVE  g = h
      BY <1>4
    <2>1. /\ socket_list'[Cell(l, g)] = socket_list[Cell(l, g)]
          /\ socket_list'[Cell(l, h)] = socket_list[Cell(l, h)]
      BY <1>3, <1>4
    <2> QED BY <2>1 DEF TableInv
  <1> QED BY <1>2, <1>5, <1>6, <1>7, <1>8, <1>9, <1>10 DEF TableInv

(* The packet, or the end of the stream, of a member has been read.        *)
LEMMA PacketRead ==
  ASSUME IInv, NEW k \in Channel, NEW i \in Positions, NEW kind \in {"quit", "msg"}, ReadPacket(k, i, kind),
         NEW c, c = socket_list[Cell(k, i)], NEW w, w = Consumed(c)
  PROVE  /\ i \in Slots(k) /\ c \in Members(k) /\ c \in Conns /\ c \in 1..Len(wire) /\ c # -1
         /\ wire \in Seq(Connection) /\ Len(wire) \in Nat
         /\ Seated(c) /\ ~Queued(c) /\ ~InPipe(c) /\ wire[c].server = "open"
         /\ Rewired(wire, w)
         /\ \A d \in Conns :
              /\ SameDown(w[d], wire[d]) /\ SameEnds(w[d], wire[d]) /\ w[d].said = wire[d].said
              /\ d # c => w[d].up = wire[d].up
         /\ w[c].up = IF wire[c].up = <<>> THEN <<>> ELSE Tail(wire[c].up)
         /\ wire[c].up = <<>> => wire[c].client # "open"
         /\ wire[c].up # <<>> => Head(wire[c].up).kind = kind
         /\ \E n \in 0..Len(w[c].up) : UpShape(w[c].up, n, w[c].said)
         /\ \E m \in 0..Len(wire[c].up) :
              /\ UpShape(wire[c].up, m, wire[c].said)
              /\ wire[c].up # <<>> /\ kind = "msg" =>
                   /\ m > 0 /\ Head(wire[c].up) = [kind |-> "msg", n |-> wire[c].said - m + 1]
                   /\ UpShape(w[c].up, m - 1, w[c].said)
              /\ wire[c].up # <<>> /\ kind = "quit" => m = 0 /\ UpShape(w[c].up, 0, w[c].said)
  <1>1. i \in Slots(k) /\ c \in listen_fds[k] /\ (wire[c].up # <<>> \/ wire[c].client # "open")
        /\ TypeRead(k, c) = kind
    BY DEF ReadPacket, Readable
  <1>2. c \in Members(k) /\ c # -1 /\ Members(k) \subseteq 1..Accepted
    BY <1>1 DEF IInv, TableInv, Members
  <1>3. /\ wire \in Seq(Connection) /\ Len(wire) \in Nat /\ Accepted <= Len(wire)
        /\ Accepted \in Nat
    BY LenProperties DEF IInv, WireInv, AcceptInv, Accepted
  <1>4. c \in Conns /\ c \in 1..Len(wire)
    BY <1>2, <1>3 DEF Conns
  <1>5. Seated(c) /\ ~Queued(c) /\ ~InPipe(c)
    BY <1>2, <1>4, OnePlace DEF Seated
  <1>6. UpOf(c) /\ DownOf(c)
    BY <1>4 DEF IInv, UpInv, DownInv
  <1>7. wire[c].server = "open"
    BY <1>5, <1>6 DEF DownOf
  <1>8. PICK m \in 0..Len(wire[c].up) : UpShape(wire[c].up, m, wire[c].said)
    BY <1>5, <1>6 DEF UpOf
  <1>9. wire[c].up \in Seq(UpPacket) /\ wire[c].said \in Nat
    BY <1>3, <1>4, WireAt
  <1>10. CASE wire[c].up = <<>>
    <2>1. w = wire
      BY <1>10 DEF Consumed
    <2>2. Rewired(wire, w)
      BY <1>3, <2>1 DEF Rewired, Opened
    <2> QED BY <1>1, <1>2, <1>3, <1>4, <1>5, <1>7, <1>8, <1>10, <2>1, <2>2 DEF SameDown, SameEnds
  <1>11. CASE wire[c].up # <<>>
    <2>1. w = Reads(wire, c)
      BY <1>11 DEF Consumed, Reads
    <2>2. /\ Rewired(wire, w)
          /\ \A d \in Conns :
               /\ SameDown(w[d], wire[d]) /\ SameEnds(w[d], wire[d]) /\ w[d].said = wire[d].said
               /\ w[d].up = IF d = c THEN Tail(wire[c].up) ELSE wire[d].up
      BY <1>3, <1>4, <1>11, <2>1, WireTaken DEF Conns
    <2>3. w[c].up = Tail(wire[c].up) /\ w[c].said = wire[c].said
      BY <1>4, <2>2
    <2>4. Head(wire[c].up).kind = kind
      BY <1>1, <1>11 DEF TypeRead
    <2>5. /\ m > 0 => /\ Head(wire[c].up) = [kind |-> "msg", n |-> wire[c].said - m + 1]
                      /\ UpShape(Tail(wire[c].up), m - 1, wire[c].said)
          /\ m = 0 => Head(wire[c].up) = Quit /\ UpShape(Tail(wire[c].up), 0, wire[c].said)
      BY <1>8, <1>9, <1>11, UpTaken
    <2>6. m > 0 <=> kind = "msg"
      BY <2>4, <2>5 DEF Quit
    <2>7. \E n \in 0..Len(w[c].up) : UpShape(w[c].up, n, w[c].said)
      <3>1. \A n : UpShape(w[c].up, n, w[c].said) => n \in 0..Len(w[c].up)
        BY DEF UpShape
      <3> QED BY <2>3, <2>5, <3>1
    <2>8. /\ UpShape(wire[c].up, m, wire[c].said)
          /\ wire[c].up # <<>> /\ kind = "msg" =>
               /\ m > 0 /\ Head(wire[c].up) = [kind |-> "msg", n |-> wire[c].said - m + 1]
               /\ UpShape(w[c].up, m - 1, w[c].said)
          /\ wire[c].up # <<>> /\ kind = "quit" => m = 0 /\ UpShape(w[c].up, 0, w[c].said)
      BY <1>8, <2>3, <2>5, <2>6
    <2> QED BY <1>1, <1>2, <1>3, <1>4, <1>5, <1>7, <1>11, <2>2, <2>3, <2>4, <2>7, <2>8
  <1> QED BY <1>10, <1>11

(* What such a step has to show.                                           *)
LEMMA MemberStep ==
  ASSUME IInv, UNCHANGED <<router, open_channels, channel_name_list, channel_pipes, current_clients, backlog, client>>,
         NEW k \in Channel, NEW c \in Members(k), RouterInv', TableInv',
         \A l \in Channel : Members(l)' \subseteq Members(l),
         Rewired(wire, wire'), UpOf(c)', \A d \in Conns : d # c => SameUp(wire'[d], wire[d]),
         \A d \in Conns : d # c => SameStage(d),
         \A d \in Conns : DownOf(d)',
         \A u \in User, d \in Conns :
           /\ client[u].asking = d /\ AskingOf(u, d) => AskingOf(u, d)'
           /\ client[u].client_socket = d /\ JoinedOf(u, d) => JoinedOf(u, d)'
  PROVE  IInv'
  <1>1. /\ wire \in Seq(Connection) /\ Len(wire) \in Nat /\ Len(wire') = Len(wire) /\ wire' \in Seq(Connection)
        /\ Conns' = Conns /\ \A d \in Conns : Opened(wire'[d], wire[d])
    BY LenProperties DEF IInv, WireInv, Rewired, Conns
  <1>2. /\ Accepted' = Accepted /\ Accepted \in Nat /\ Accepted <= Len(wire)
    BY <1>1, LenProperties DEF Accepted, IInv, AcceptInv
  <1>3. \A l \in Channel : Piped(l)' = Piped(l) /\ Around(l)' \subseteq Around(l)
    BY DEF Piped, Around
  <1>4. WireInv' /\ AcceptInv'
    BY <1>1, <1>2 DEF IInv, WireInv, AcceptInv
  <1>5. PipeInv'
    <2>1. \A l \in Channel : \A d \in Piped(l) : d \notin Members(l)'
      BY DEF IInv, PipeInv
    <2> QED BY <1>2, <1>3, <2>1 DEF IInv, PipeInv
  <1>6. RoomInv'
    <2>1. \A l \in Channel : Around(l) \subseteq Conns
      BY AroundConns
    <2>2. \A d \in Conns : wire'[d].room = wire[d].room
      BY <1>1 DEF Opened
    <2> QED BY <1>3, <2>1, <2>2 DEF IInv, RoomInv
  <1>7. UpInv'
    <2>1. ASSUME NEW d \in Conns, d # c PROVE UpOf(d)'
      BY <1>1, <2>1, UpKept DEF IInv, UpInv
    <2> QED BY <1>1, <2>1 DEF UpInv
  <1>8. DownInv'
    BY <1>1 DEF DownInv
  <1>9. ClientInv'
    BY ClientMoved
  <1> QED BY <1>4, <1>5, <1>6, <1>7, <1>8, <1>9 DEF IInv

LEMMA process_client_quitStep ==
  ASSUME IInv, NEW k \in Channel, NEW i \in Positions, process_client_quit(k, i), FromServer
  PROVE  IInv'
  <1>1. PICK x : x = Cell(k, i)
    OBVIOUS
  <1>2. PICK c : c = socket_list[x]
    OBVIOUS
  <1>3. PICK w : w = Consumed(c)
    OBVIOUS
  <1>4. /\ ReadPacket(k, i, "quit") /\ wire' = Closes(w, c)
        /\ client_names' = [client_names EXCEPT ![x] = NoName]
        /\ socket_list' = [socket_list EXCEPT ![x] = -1]
        /\ listen_fds' = [listen_fds EXCEPT ![k] = @ \ {c}]
        /\ UNCHANGED <<server, client>>
    BY <1>1, <1>2, <1>3 DEF process_client_quit, FromServer, Closes
  <1>5. /\ type' = [type EXCEPT ![k] = "quit"]
        /\ UNCHANGED <<input_pipe, router, open_channels, channel_name_list, channel_pipes,
                       alive, current_clients, backlog>>
    BY <1>4 DEF ReadPacket, routerVars
  <1>6. c = socket_list[Cell(k, i)]
    BY <1>1, <1>2
  <1>7. /\ i \in Slots(k) /\ c \in Members(k) /\ c \in Conns /\ c \in 1..Len(wire) /\ c # -1
        /\ wire \in Seq(Connection) /\ Len(wire) \in Nat
        /\ Seated(c) /\ ~Queued(c) /\ ~InPipe(c) /\ wire[c].server = "open"
        /\ Rewired(wire, w)
        /\ \A d \in Conns :
             /\ SameDown(w[d], wire[d]) /\ SameEnds(w[d], wire[d]) /\ w[d].said = wire[d].said
             /\ d # c => w[d].up = wire[d].up
        /\ wire[c].up = <<>> => wire[c].client # "open"
        /\ wire[c].up # <<>> => Head(wire[c].up).kind = "quit"
        /\ \E n \in 0..Len(w[c].up) : UpShape(w[c].up, n, w[c].said)
    BY <1>3, <1>4, <1>6, PacketRead
  <1>8. w \in Seq(Connection) /\ Len(w) = Len(wire) /\ c \in 1..Len(w)
        /\ \A d \in Conns : Opened(w[d], wire[d])
    BY <1>7 DEF Rewired, Conns
  <1>9. /\ Rewired(w, wire')
        /\ \A d \in Conns :
             /\ SameUp(wire'[d], w[d]) /\ SameDown(wire'[d], w[d]) /\ wire'[d].client = w[d].client
             /\ wire'[d].server = IF d = c THEN "closed" ELSE w[d].server
    BY <1>4, <1>8, WireClosed DEF Conns
  <1>10. Rewired(wire, wire') /\ \A d \in Conns : Opened(wire'[d], wire[d])
    BY <1>8, <1>9 DEF Rewired, Opened, Conns
  <1>11. /\ \A d \in Conns : SameDown(wire'[d], wire[d]) /\ wire'[d].client = wire[d].client
         /\ \A d \in Conns : d # c => SameUp(wire'[d], wire[d]) /\ wire'[d].server = wire[d].server
         /\ SameUp(wire'[c], w[c])
    BY <1>7, <1>9 DEF SameUp, SameDown, SameEnds
  <1>12. /\ TableInv'
         /\ Members(k)' = Members(k) \ {c}
         /\ \A l \in Channel : l # k => Members(l)' = Members(l)
    <2>1. Accepted' = Accepted
      BY <1>5, <1>10 DEF Accepted, Rewired
    <2> QED BY <1>1, <1>2, <1>4, <1>5, <1>7, <2>1, SeatLeft DEF IInv
  <1>13. RouterInv'
    <2>1. type' \in [Channel -> {"other", "quit", "msg"}]
      BY <1>5 DEF IInv, RouterInv
    <2> QED BY <1>4, <1>5, <2>1 DEF IInv, RouterInv, Creates
  <1>14. \A l \in Channel : Members(l)' \subseteq Members(l)
    BY <1>12
  <1>15. Conns' = Conns /\ \A d : (Queued(d)' <=> Queued(d)) /\ (InPipe(d)' <=> InPipe(d))
    <2>1. Accepted' = Accepted
      BY <1>5, <1>10 DEF Accepted, Rewired
    <2> QED BY <1>5, <1>10, <2>1 DEF Rewired, Conns, Queued, InPipe, Piped
  <1>16. ~Seated(c)'
    <2>1. \A l \in Channel : l # k => c \notin Members(l)
      BY <1>7 DEF IInv, RoomInv, Around
    <2> QED BY <1>12, <2>1 DEF Seated
  <1>17. ASSUME NEW d \in Conns, d # c PROVE SameStage(d)
    BY <1>12, <1>15, <1>17 DEF SameStage, Seated
  <1>18. UpOf(c)'
    <2>1. wire'[c].up = w[c].up /\ wire'[c].said = w[c].said
      BY <1>11 DEF SameUp
    <2> QED BY <1>7, <1>15, <2>1 DEF UpOf
  <1>19. ASSUME NEW d \in Conns PROVE DownOf(d)'
    <2>1. CASE d # c
      BY <1>7, <1>10, <1>11, <1>17, <2>1, DownKept DEF IInv, DownInv
    <2>2. CASE d = c
      <3>1. DownOf(c)
        BY <1>7 DEF IInv, DownInv
      <3> QED BY <1>7, <1>10, <1>11, <1>15, <1>16, <2>2, <3>1, DownLeft
    <2> QED BY <2>1, <2>2
  <1>20. ASSUME NEW u \in User, NEW d \in Conns
         PROVE  /\ client[u].asking = d /\ AskingOf(u, d) => AskingOf(u, d)'
                /\ client[u].client_socket = d /\ JoinedOf(u, d) => JoinedOf(u, d)'
    <2>1. CASE d # c
      <3>1. Kept(d)
        BY <1>10, <1>11, <1>17, <2>1 DEF Kept
      <3> QED BY <1>4, <1>15, <3>1, EndKept
    <2>2. CASE d = c
      <3>1. ~AskingOf(u, c)
        BY <1>7 DEF AskingOf
      <3>2. ASSUME JoinedOf(u, c), client[u].client_socket = c PROVE JoinedOf(u, c)'
        <4>1. wire[c].up # <<>> /\ wire[c].up \in Seq(UpPacket)
          BY <1>7, <3>2, WireAt DEF JoinedOf
        <4>2. Head(wire[c].up) = wire[c].up[1] /\ 1 \in 1..Len(wire[c].up)
          BY <4>1, Shortened
        <4>3. ~client[u].in_channel
          BY <1>7, <3>2, <4>1, <4>2 DEF JoinedOf
        <4>4. wire'[c].owner = u /\ wire'[c].client = "open" /\ wire'[c].down = wire[c].down
          BY <1>7, <1>10, <1>11, <3>2 DEF JoinedOf, Opened, SameDown
        <4> QED BY <1>4, <1>7, <1>15, <3>2, <4>3, <4>4 DEF JoinedOf
      <3> QED BY <2>2, <3>1, <3>2
    <2> QED BY <2>1, <2>2
  <1>21. UNCHANGED <<router, open_channels, channel_name_list, channel_pipes, current_clients, backlog, client>>
    BY <1>4, <1>5
  <1>22. \A d \in Conns : d # c => SameUp(wire'[d], wire[d])
    BY <1>11
  <1> QED BY <1>7, <1>10, <1>12, <1>13, <1>14, <1>17, <1>18, <1>19, <1>20, <1>21, <1>22, MemberStep

(* A message is on its way to a member.                                    *)
LEMMA DownAppended ==
  ASSUME wire \in Seq(Connection), Rewired(wire, wire'), NEW d \in Conns, DownOf(d), SameStage(d), Seated(d),
         ~Queued(d), ~InPipe(d), NEW p \in Message,
         p.from \in Conns, wire[p.from].room = wire[d].room,
         wire'[d].down = Append(wire[d].down, p),
         wire'[d].heard = wire[d].heard,
         wire'[d].server = wire[d].server
  PROVE  /\ DownOf(d)' /\ wire'[d].down # <<>>
         /\ wire[d].down # <<>> => wire'[d].down[1] = wire[d].down[1]
         /\ (\A j \in 1..Len(wire[d].down) : wire[d].down[j].kind = "msg") =>
              \A j \in 1..Len(wire'[d].down) : wire'[d].down[j].kind = "msg"
  <1> DEFINE s == wire[d].down
             t == wire'[d].down
             n == Len(s) + 1
  <1>1. s \in Seq(Message \cup Answer) /\ DownShape(s) /\ wire[d].server = "open"
    BY WireAt DEF Conns, DownOf
  <1>2. /\ Len(t) = n /\ Len(s) \in Nat
        /\ \A j \in 1..n : t[j] = IF j = n THEN p ELSE s[j]
    BY <1>1, Appended
  <1>3. DownShape(t)
    BY <1>1, DownAdded
  <1>4. p.kind = "msg"
    BY DEF Message
  <1>5. Conns' = Conns /\ \A e \in Conns : wire'[e].room = wire[e].room
    BY DEF Rewired, Opened, Conns
  <1>6. \A j \in 1..Len(s) : s[j].kind = "msg" => s[j].from \in Conns /\ wire[s[j].from].room = wire[d].room
    BY DEF DownOf
  <1>7. \A j \in 1..Len(wire[d].heard) :
          wire[d].heard[j].from \in Conns /\ wire[wire[d].heard[j].from].room = wire[d].room
    BY DEF DownOf
  <1>8. \A j \in 1..Len(wire'[d].heard) :
          wire'[d].heard[j].from \in Conns' /\ wire'[wire'[d].heard[j].from].room = wire'[d].room
    <2> TAKE j \in 1..Len(wire'[d].heard)
    <2>1. PICK e : e = wire[d].heard[j].from
      OBVIOUS
    <2>2. e \in Conns /\ wire[e].room = wire[d].room
      BY <1>7, <2>1
    <2>3. wire'[e].room = wire'[d].room
      BY <1>5, <2>2
    <2> QED BY <1>5, <2>1, <2>2, <2>3
  <1> HIDE DEF t, s
  <1>9. \A j \in 1..Len(t) : t[j].kind = "msg" => t[j].from \in Conns' /\ wire'[t[j].from].room = wire'[d].room
    <2> SUFFICES ASSUME NEW j \in 1..n, t[j].kind = "msg", NEW e, e = t[j].from
                 PROVE  e \in Conns /\ wire'[e].room = wire'[d].room
      BY <1>2, <1>5
    <2>1. CASE j = n
      BY <1>2, <1>5, <2>1
    <2>2. CASE j # n
      <3>1. j \in 1..Len(s) /\ t[j] = s[j]
        BY <1>2, <2>2
      <3> QED BY <1>5, <1>6, <3>1
    <2> QED BY <2>1, <2>2
  <1>10. t # <<>> /\ (s # <<>> => t[1] = s[1])
    <2>1. s # <<>> => Len(s) # 0
      BY <1>1
    <2> QED BY <1>2, <2>1
  <1>11. (\A j \in 1..Len(s) : s[j].kind = "msg") => \A j \in 1..Len(t) : t[j].kind = "msg"
    <2> SUFFICES ASSUME \A j \in 1..Len(s) : s[j].kind = "msg", NEW j \in 1..n PROVE t[j].kind = "msg"
      BY <1>2
    <2>1. CASE j = n
      BY <1>2, <1>4, <2>1
    <2>2. CASE j # n
      <3>1. j \in 1..Len(s) /\ t[j] = s[j]
        BY <1>2, <2>2
      <3> QED BY <3>1
    <2> QED BY <2>1, <2>2
  <1>12. wire'[d].server = "open" /\ ~Queued(d)' /\ ~InPipe(d)'
    BY <1>1 DEF SameStage
  <1>13. DownOf(d)'
    BY <1>3, <1>8, <1>9, <1>12 DEF DownOf, t
  <1> QED BY <1>10, <1>11, <1>13 DEF s, t

(* Its number, or that of a ghost.                                         *)
LEMMA Numbered ==
  ASSUME IInv, NEW k \in Channel, NEW i \in Positions, ReadPacket(k, i, "msg"),
         NEW c, c = socket_list[Cell(k, i)],
         NEW j, j = IF wire[c].up = <<>> THEN 0 ELSE Head(wire[c].up).n
  PROVE  j \in Nat /\ c \in Nat
  <1>1. /\ c \in Conns /\ c \in 1..Len(wire) /\ wire \in Seq(Connection)
        /\ \E m \in 0..Len(wire[c].up) :
             /\ UpShape(wire[c].up, m, wire[c].said)
             /\ wire[c].up # <<>> => m > 0 /\ Head(wire[c].up) = [kind |-> "msg", n |-> wire[c].said - m + 1]
    BY PacketRead
  <1>2. PICK m \in 0..Len(wire[c].up) :
             /\ UpShape(wire[c].up, m, wire[c].said)
             /\ wire[c].up # <<>> => m > 0 /\ Head(wire[c].up) = [kind |-> "msg", n |-> wire[c].said - m + 1]
    BY <1>1
  <1>3. wire[c].said \in Nat /\ m \in Nat /\ m <= wire[c].said
    BY <1>1, <1>2, WireAt DEF UpShape
  <1>4. CASE wire[c].up = <<>>
    <2>1. j = 0
      BY <1>4
    <2> QED BY <1>1, <2>1
  <1>5. CASE wire[c].up # <<>>
    <2>1. j = wire[c].said - m + 1
      BY <1>2, <1>5
    <2>2. PICK said \in Nat : said = wire[c].said /\ m <= said
      BY <1>3
    <2>3. said - m + 1 \in Nat
      BY <1>3, <2>2
    <2>4. j = said - m + 1
      BY <2>1, <2>2
    <2>5. c \in Nat
      BY <1>1
    <2> QED BY <2>3, <2>4, <2>5
  <1> QED BY <1>4, <1>5

(* A member's message has been read, and written to members cs.            *)
LEMMA MessageStep ==
  ASSUME IInv, NEW k \in Channel, NEW i \in Positions, ReadPacket(k, i, "msg"), FromServer,
         NEW c, c = socket_list[Cell(k, i)], NEW w, w = Consumed(c),
         NEW cs \in SUBSET (Members(k) \ {c}),
         NEW msg \in Message, msg.from = c,
         wire' = Written(w, cs, msg), server' \in {"up", "exited", "killed"},
         UNCHANGED <<listen_fds, socket_list, client_names>>
  PROVE  IInv'
  <1>1. /\ type' = [type EXCEPT ![k] = "msg"]
        /\ UNCHANGED <<input_pipe, router, open_channels, channel_name_list, channel_pipes,
                       alive, current_clients, backlog, client>>
    BY DEF ReadPacket, routerVars, FromServer
  <1>2. /\ i \in Slots(k) /\ c \in Members(k) /\ c \in Conns /\ c \in 1..Len(wire) /\ c # -1
        /\ wire \in Seq(Connection) /\ Len(wire) \in Nat
        /\ Seated(c) /\ ~Queued(c) /\ ~InPipe(c) /\ wire[c].server = "open"
        /\ Rewired(wire, w)
        /\ \A d \in Conns :
             /\ SameDown(w[d], wire[d]) /\ SameEnds(w[d], wire[d]) /\ w[d].said = wire[d].said
             /\ d # c => w[d].up = wire[d].up
        /\ w[c].up = IF wire[c].up = <<>> THEN <<>> ELSE Tail(wire[c].up)
        /\ wire[c].up = <<>> => wire[c].client # "open"
        /\ \E g \in 0..Len(w[c].up) : UpShape(w[c].up, g, w[c].said)
    BY PacketRead
  <1>3. w \in Seq(Connection) /\ Len(w) = Len(wire) /\ c \in 1..Len(w)
        /\ \A d \in Conns : Opened(w[d], wire[d])
    BY <1>2 DEF Rewired, Conns
  <1>5. /\ Rewired(w, wire')
        /\ \A d \in Conns :
             /\ SameUp(wire'[d], w[d]) /\ wire'[d].heard = w[d].heard /\ wire'[d].server = w[d].server
             /\ wire'[d].client \in {w[d].client, "reset"}
             /\ wire'[d].client = "open" <=> w[d].client = "open"
             /\ d \notin cs => wire'[d].client = w[d].client
             /\ wire'[d].down = IF d \in cs /\ w[d].server = "open" /\ w[d].client = "open"
                                  THEN Append(w[d].down, msg) ELSE w[d].down
    BY <1>3, WireWritten DEF Conns
  <1>6. Rewired(wire, wire') /\ \A d \in Conns : Opened(wire'[d], wire[d])
    BY <1>3, <1>5 DEF Rewired, Opened, Conns
  <1>7. \A d \in Conns :
          /\ d # c => SameUp(wire'[d], wire[d])
          /\ wire'[d].heard = wire[d].heard /\ wire'[d].server = wire[d].server
          /\ wire'[d].client = "open" <=> wire[d].client = "open"
          /\ wire'[d].down = IF d \in cs /\ wire[d].server = "open" /\ wire[d].client = "open"
                               THEN Append(wire[d].down, msg) ELSE wire[d].down
    BY <1>2, <1>5 DEF SameUp, SameDown, SameEnds
  <1>8. \A l : Members(l)' = Members(l) /\ Slots(l)' = Slots(l) /\ Piped(l)' = Piped(l)
    BY <1>1 DEF Members, Slots, Piped
  <1>9. Accepted' = Accepted /\ Conns' = Conns
    BY <1>1, <1>6 DEF Accepted, Rewired, Conns
  <1>10. \A d : SameStage(d)
    BY <1>1, <1>8, <1>9 DEF SameStage, Queued, InPipe, Seated
  <1>11. TableInv'
    BY <1>1, <1>8, <1>9 DEF IInv, TableInv
  <1>12. RouterInv'
    <2>1. type' \in [Channel -> {"other", "quit", "msg"}]
      BY <1>1 DEF IInv, RouterInv
    <2> QED BY <1>1, <2>1 DEF IInv, RouterInv, Creates
  <1>13. UpOf(c)'
    <2>1. wire'[c].up = w[c].up /\ wire'[c].said = w[c].said
      BY <1>2, <1>5 DEF SameUp
    <2> QED BY <1>2, <1>10, <2>1 DEF UpOf, SameStage
  <1>14. ASSUME NEW d \in cs
         PROVE  d \in Conns /\ Seated(d) /\ ~Queued(d) /\ ~InPipe(d) /\ wire[c].room = wire[d].room
    <2>1. d \in Members(k) /\ d \in Conns
      <3>1. \A l \in Channel : Members(l) \subseteq 1..Accepted
        BY DEF IInv, TableInv
      <3>2. Accepted <= Len(wire) /\ Accepted \in Nat
        BY <1>2, LenProperties DEF IInv, AcceptInv, Accepted
      <3> QED BY <1>2, <3>1, <3>2 DEF Conns
    <2>2. Seated(d)
      BY <2>1 DEF Seated
    <2>3. wire[c].room = wire[d].room
      BY <1>2, <2>1 DEF IInv, RoomInv, Around
    <2> QED BY <2>1, <2>2, <2>3, OnePlace
  <1>15. ASSUME NEW d \in Conns, ~(d \in cs /\ wire[d].server = "open" /\ wire[d].client = "open")
         PROVE  SameDown(wire'[d], wire[d])
    BY <1>7, <1>15 DEF SameDown
  <1>16. ASSUME NEW d \in cs, wire[d].server = "open" /\ wire[d].client = "open"
         PROVE  /\ DownOf(d)' /\ wire'[d].down # <<>>
                /\ wire[d].down # <<>> => wire'[d].down[1] = wire[d].down[1]
                /\ (\A j \in 1..Len(wire[d].down) : wire[d].down[j].kind = "msg") =>
                     \A j \in 1..Len(wire'[d].down) : wire'[d].down[j].kind = "msg"
    <2>1. d \in Conns /\ Seated(d) /\ ~Queued(d) /\ ~InPipe(d) /\ wire[msg.from].room = wire[d].room
          /\ msg.from \in Conns /\ SameStage(d)
      BY <1>2, <1>10, <1>14
    <2>2. DownOf(d)
      BY <2>1 DEF IInv, DownInv
    <2>3. /\ wire'[d].down = Append(wire[d].down, msg) /\ wire'[d].heard = wire[d].heard
          /\ wire'[d].server = wire[d].server
      BY <1>7, <1>16, <2>1
    <2> QED BY <1>2, <1>6, <2>1, <2>2, <2>3, DownAppended
  <1>17. ASSUME NEW d \in Conns PROVE DownOf(d)'
    <2>1. CASE d \in cs /\ wire[d].server = "open" /\ wire[d].client = "open"
      BY <1>16, <2>1
    <2>2. CASE ~(d \in cs /\ wire[d].server = "open" /\ wire[d].client = "open")
      <3>1. SameDown(wire'[d], wire[d]) /\ wire'[d].server = wire[d].server /\ SameStage(d) /\ DownOf(d)
        BY <1>7, <1>10, <1>15, <2>2 DEF IInv, DownInv
      <3> QED BY <1>2, <1>6, <3>1, DownKept
    <2> QED BY <2>1, <2>2
  <1>18. ASSUME NEW u \in User, NEW d \in Conns
         PROVE  /\ client[u].asking = d /\ AskingOf(u, d) => AskingOf(u, d)'
                /\ client[u].client_socket = d /\ JoinedOf(u, d) => JoinedOf(u, d)'
    <2>1. CASE d # c /\ ~(d \in cs /\ wire[d].server = "open" /\ wire[d].client = "open")
      <3>1. wire[d].client = "open" => Kept(d)
        BY <1>6, <1>7, <1>10, <1>15, <2>1 DEF Kept
      <3> QED BY <1>1, <1>9, <3>1, EndKept
    <2>2. CASE d # c /\ d \in cs /\ wire[d].server = "open" /\ wire[d].client = "open"
      <3>1. /\ wire'[d].down # <<>> /\ Seated(d) /\ ~Queued(d) /\ ~InPipe(d)
            /\ wire[d].down # <<>> => wire'[d].down[1] = wire[d].down[1]
            /\ (\A j \in 1..Len(wire[d].down) : wire[d].down[j].kind = "msg") =>
                 \A j \in 1..Len(wire'[d].down) : wire'[d].down[j].kind = "msg"
        BY <1>14, <1>16, <2>2
      <3>2. wire'[d].owner = wire[d].owner /\ wire'[d].client = "open" /\ SameUp(wire'[d], wire[d])
        BY <1>6, <1>7, <2>2 DEF Opened
      <3>3. ASSUME AskingOf(u, d) PROVE AskingOf(u, d)'
        BY <1>1, <1>9, <1>10, <3>1, <3>2, <3>3 DEF AskingOf, SameUp, SameStage
      <3>4. ASSUME JoinedOf(u, d) PROVE JoinedOf(u, d)'
        BY <1>1, <1>9, <1>10, <3>1, <3>2, <3>4 DEF JoinedOf, SameUp, SameStage
      <3> QED BY <3>3, <3>4
    <2>3. CASE d = c
      <3>1. ~AskingOf(u, c)
        BY <1>2 DEF AskingOf
      <3>2. ASSUME JoinedOf(u, c) PROVE JoinedOf(u, c)'
        <4>1. wire[c].up # <<>> /\ wire[c].up \in Seq(UpPacket)
          BY <1>2, <3>2, WireAt DEF JoinedOf
        <4>2. /\ Len(Tail(wire[c].up)) = Len(wire[c].up) - 1 /\ Len(wire[c].up) \in Nat \ {0}
              /\ \A j \in 1..(Len(wire[c].up) - 1) : Tail(wire[c].up)[j] = wire[c].up[j + 1]
          BY <4>1, Shortened
        <4>3. wire'[c].up = Tail(wire[c].up)
          BY <1>2, <1>5, <4>1 DEF SameUp
        <4>4. (\A j \in 1..Len(wire[c].up) : wire[c].up[j].kind = "msg") =>
                \A j \in 1..Len(wire'[c].up) : wire'[c].up[j].kind = "msg"
          <5> SUFFICES ASSUME \A j \in 1..Len(wire[c].up) : wire[c].up[j].kind = "msg",
                              NEW j \in 1..(Len(wire[c].up) - 1)
                       PROVE  Tail(wire[c].up)[j].kind = "msg"
            BY <4>2, <4>3
          <5>1. j + 1 \in 1..Len(wire[c].up)
            BY <4>2
          <5> QED BY <4>2, <5>1
        <4>5. /\ wire'[c].owner = u /\ wire'[c].client = "open" /\ wire'[c].down = wire[c].down
          BY <1>2, <1>6, <1>7, <3>2 DEF JoinedOf, Opened
        <4> QED BY <1>1, <1>2, <1>9, <1>10, <3>2, <4>4, <4>5 DEF JoinedOf, SameStage
      <3> QED BY <2>3, <3>1, <3>2
    <2> QED BY <2>1, <2>2, <2>3
  <1>19. UNCHANGED <<router, open_channels, channel_name_list, channel_pipes, current_clients, backlog, client>>
    BY <1>1
  <1>20. /\ \A l \in Channel : Members(l)' \subseteq Members(l)
         /\ \A d \in Conns : d # c => SameUp(wire'[d], wire[d])
         /\ \A d \in Conns : d # c => SameStage(d)
    BY <1>7, <1>8, <1>10
  <1> QED BY <1>2, <1>6, <1>11, <1>12, <1>13, <1>17, <1>18, <1>19, <1>20, MemberStep

LEMMA process_incoming_messageStep ==
  ASSUME IInv, NEW k \in Channel, NEW i \in Positions, process_incoming_message(k, i), FromServer
  PROVE  IInv'
  <1>1. PICK c : c = socket_list[Cell(k, i)]
    OBVIOUS
  <1>2. PICK n : n = IF wire[c].up = <<>> THEN 0 ELSE Head(wire[c].up).n
    OBVIOUS
  <1>3. PICK msg : msg = [kind |-> "msg", from |-> c, n |-> n]
    OBVIOUS
  <1>4. PICK w : w = Consumed(c)
    OBVIOUS
  <1>5. current_clients[k] \in Nat /\ server \in {"up", "exited", "killed"}
    BY DEF IInv, TableInv, RouterInv
  <1>6. \A m \in 0..current_clients[k] : Targets(k, c, m) \subseteq Members(k) \ {c}
    <2> TAKE m \in 0..current_clients[k]
    <2>1. 0..(m - 1) \subseteq Slots(k)
      BY <1>5 DEF Slots
    <2> QED BY <2>1 DEF Targets, Members
  <1>7. ReadPacket(k, i, "msg") /\ UNCHANGED <<listen_fds, socket_list, client_names>>
    BY DEF process_incoming_message
  <1>8. \E m \in 0..current_clients[k] :
          wire' = Written(w, Targets(k, c, m), msg) /\ server' \in {server, "killed"}
    <2>1. \/ wire' = Written(w, Targets(k, c, current_clients[k]), msg) /\ server' = server
          \/ \E j \in Slots(k) : wire' = Written(w, Targets(k, c, j), msg) /\ server' = "killed"
      BY <1>1, <1>2, <1>3, <1>4 DEF process_incoming_message
    <2>2. Slots(k) \subseteq 0..current_clients[k] /\ current_clients[k] \in 0..current_clients[k]
      BY <1>5 DEF Slots
    <2> QED BY <2>1, <2>2
  <1>9. PICK m \in 0..current_clients[k] :
          wire' = Written(w, Targets(k, c, m), msg) /\ server' \in {server, "killed"}
    BY <1>8
  <1>10. server' \in {"up", "exited", "killed"}
    BY <1>5, <1>9
  <1>11. msg \in Message /\ msg.from = c
    BY <1>1, <1>2, <1>3, <1>7, Numbered DEF Message
  <1>12. Targets(k, c, m) \in SUBSET (Members(k) \ {c})
    BY <1>6
  <1> QED BY <1>1, <1>4, <1>7, <1>9, <1>10, <1>11, <1>12, MessageStep

-----------------------------------------------------------------------------
(* The invariant holds, and what follows from it.                          *)
LEMMA IInvInit == Init => IInv
  <1> SUFFICES ASSUME Init PROVE IInv
    OBVIOUS
  <1> USE DEF Init, SocketsInit, ServerInit, ClientInit
  <1>1. wire = <<>> /\ Len(wire) = 0 /\ Conns = {} /\ backlog = <<>> /\ Len(backlog) = 0 /\ Accepted = 0
    <2>1. wire = <<>> /\ Len(wire) = 0 /\ backlog = <<>> /\ Len(backlog) = 0
      OBVIOUS
    <2> QED BY <2>1 DEF Conns, Accepted
  <1>2. \A k \in Channel : Slots(k) = {} /\ Members(k) = {} /\ Piped(k) = {} /\ Around(k) = {}
    <2> TAKE k \in Channel
    <2>1. Slots(k) = {}
      BY DEF Slots
    <2>2. Piped(k) = {}
      <3>1. channel_pipes[k] = <<>>
        OBVIOUS
      <3>2. Adds(channel_pipes[k]) = {}
        BY <3>1 DEF Adds
      <3> QED BY <3>2 DEF Piped, ConnsOf
    <2> QED BY <2>1, <2>2 DEF Members, Around
  <1>3. WireInv
    BY <1>1, SocketsAssumption DEF WireInv
  <1>4. RouterInv
    <2>1. Creates = 0
      <3>1. {j \in DOMAIN input_pipe : input_pipe[j].cmd = "create"} = {}
        OBVIOUS
      <3> QED BY <3>1, FS_EmptySet DEF Creates
    <2>2. MAX_CHANNELS \in Nat
      BY ServerAssumption
    <2>3. open_channels + Creates <= MAX_CHANNELS
      BY <2>1, <2>2
    <2>4. input_pipe \in Seq(Commands) /\ \A j \in 1..Len(input_pipe) : input_pipe[j].cmd # "exit" => input_pipe[j].name \in Name
      OBVIOUS
    <2> QED BY <2>3, <2>4 DEF RouterInv
  <1>5. AcceptInv
    BY <1>1 DEF AcceptInv
  <1>6. PipeInv
    <2>1. \A k \in Channel : Increasing(channel_pipes[k]) /\ channel_pipes[k] = <<>> /\ current_clients[k] = 0
      BY DEF Increasing, Adds
    <2> QED BY <1>1, <1>2, <2>1 DEF PipeInv
  <1>7. TableInv
    <2>1. MAX_CLIENTS \in Nat
      BY ServerAssumption
    <2>2. listen_fds = [k \in Channel |-> Members(k)]
      BY <1>2
    <2>3. \A k \in Channel : \A i \in Row : socket_list[Cell(k, i)] = 0 <=> i >= current_clients[k]
      BY CellIn DEF Row
    <2> QED BY <1>2, <2>1, <2>2, <2>3 DEF TableInv
  <1>8. RoomInv
    BY <1>2 DEF RoomInv
  <1>9. UpInv /\ DownInv
    BY <1>1 DEF UpInv, DownInv
  <1>10. ClientInv
    BY DEF ClientInv, ClientOf, Launched, ClientState
  <1> QED BY <1>3, <1>4, <1>5, <1>6, <1>7, <1>8, <1>9, <1>10 DEF IInv

LEMMA IInvStep ==
  ASSUME RowsFit, IInv, [Next]_vars
  PROVE  IInv'
  <1>1. CASE UNCHANGED vars
    <2> USE DEF vars, serverVars, routerVars, tableVars, socketVars
    <2>1. /\ WireInv' /\ RouterInv' /\ AcceptInv'
      BY <1>1 DEF IInv, WireInv, RouterInv, AcceptInv, Accepted, Creates
    <2>2. PipeInv' /\ TableInv' /\ RoomInv'
      <3>1. \A k : Members(k)' = Members(k) /\ Slots(k)' = Slots(k) /\ Piped(k)' = Piped(k)
        BY <1>1 DEF Members, Slots, Piped
      <3>2. Accepted' = Accepted /\ \A k : Around(k)' = Around(k)
        BY <1>1, <3>1 DEF Accepted, Around
      <3>3. PipeInv'
        BY <1>1, <3>1, <3>2 DEF IInv, PipeInv
      <3>4. TableInv'
        BY <1>1, <3>1, <3>2 DEF IInv, TableInv
      <3>5. RoomInv'
        BY <1>1, <3>2 DEF IInv, RoomInv
      <3> QED BY <3>3, <3>4, <3>5
    <2>3. UpInv' /\ DownInv' /\ ClientInv'
      BY <1>1 DEF IInv, UpInv, DownInv, ClientInv, UpOf, DownOf, ClientOf, AskingOf, JoinedOf,
                  Conns, Queued, InPipe, Seated, Accepted, Members, Slots, Piped
    <2> QED BY <2>1, <2>2, <2>3 DEF IInv
  <1>2. CASE Next
    <2>1. CASE \E command \in Commands : InputManager(command) /\ FromServer
      BY <2>1, InputManagerStep
    <2>2. CASE add_channel /\ FromServer
      BY <2>2, add_channelStep
    <2>3. CASE channel_close /\ FromServer
      BY <2>3, channel_closeStep
    <2>4. CASE display_users /\ FromServer
      BY <2>4, display_usersStep
    <2>5. CASE close_server /\ FromServer
      BY <2>5, close_serverStep
    <2>6. CASE accept_new_client /\ FromServer
      BY <2>6, accept_new_clientStep
    <2>7. CASE add_client /\ FromServer
      BY <2>7, add_clientStep
    <2>8. CASE \E k \in Channel : process_add_client(k) /\ FromServer
      BY <2>8, process_add_clientStep
    <2>9. CASE \E k \in Channel : (CloseItem(k) \/ UsersItem(k)) /\ FromServer
      BY <2>9, ItemStep
    <2>10. CASE \E k \in Channel, i \in Positions : process_client_quit(k, i) /\ FromServer
      BY <2>10, process_client_quitStep
    <2>11. CASE \E k \in Channel, i \in Positions : process_incoming_message(k, i) /\ FromServer
      BY <2>11, process_incoming_messageStep
    <2>12. CASE \E u \in User, name \in Name : join_channel(u, name) /\ FromClients
      BY <2>12, join_channelStep
    <2>13. CASE \E u \in User : SendJoin(u) /\ FromClients
      BY <2>13, SendJoinStep
    <2>14. CASE \E u \in User : Answered(u) /\ FromClients
      BY <2>14, AnsweredStep
    <2>15. CASE \E u \in User : Say(u) /\ FromClients
      BY <2>15, SayStep
    <2>16. CASE \E u \in User : check_output_sockets(u) /\ FromClients
      BY <2>16, check_output_socketsStep
    <2>17. CASE \E u \in User : quit_channel(u) /\ FromClients
      BY <2>17, quit_channelStep
    <2>18. CASE \E u \in User : Exit(u) /\ FromClients
      BY <2>18, ExitStep
    <2>19. CASE \E u \in User : Kill(u) /\ FromClients
      BY <2>19, KillStep DEF Kill
    <2> QED BY <1>2, <2>1, <2>2, <2>3, <2>4, <2>5, <2>6, <2>7, <2>8, <2>9, <2>10, <2>11, <2>12,
               <2>13, <2>14, <2>15, <2>16, <2>17, <2>18, <2>19 DEF Next
  <1> QED BY <1>1, <1>2

LEMMA IInvTypes == IInv => TypeOK
  <1> SUFFICES ASSUME IInv PROVE TypeOK
    OBVIOUS
  <1>1. /\ Len(wire) \in Nat /\ Accepted \in Nat /\ Accepted <= Len(wire) /\ router \in {0, Accepted}
    BY LenProperties DEF IInv, WireInv, AcceptInv, Accepted
  <1>2. router \in 0..Len(wire)
    BY <1>1
  <1>3. open_channels \in 0..MAX_CHANNELS
    <2> DEFINE C == {j \in DOMAIN input_pipe : input_pipe[j].cmd = "create"}
    <2>1. IsFiniteSet(1..Len(input_pipe)) /\ DOMAIN input_pipe = 1..Len(input_pipe)
      BY LenProperties, FS_Interval DEF IInv, RouterInv
    <2>2. IsFiniteSet(C)
      BY <2>1, FS_Subset
    <2>3. Creates \in Nat
      BY <2>2, FS_CardinalityType DEF Creates
    <2> QED BY <2>3, ServerAssumption DEF IInv, RouterInv
  <1>4. \A k \in Channel : Members(k) \subseteq Conns /\ listen_fds[k] = Members(k)
    BY <1>1 DEF IInv, TableInv, Conns
  <1>5. socket_list \in [Cells -> {-1, 0} \cup Conns]
    <2>1. ASSUME NEW x \in Cells PROVE socket_list[x] \in {-1, 0} \cup Conns
      <3>1. PICK k \in Channel, i \in Row : x = Cell(k, i)
        BY CellOf
      <3>2. CASE i >= current_clients[k]
        BY <3>1, <3>2 DEF IInv, TableInv
      <3>3. CASE ~(i >= current_clients[k])
        <4>1. i \in Slots(k)
          BY <3>3 DEF IInv, TableInv, Slots, Row
        <4> QED BY <1>4, <3>1, <4>1, SlotIn DEF IInv
      <3> QED BY <3>2, <3>3
    <2> QED BY <2>1 DEF IInv, TableInv
  <1>6. ASSUME NEW u \in User
        PROVE  client[u].client_socket \in 0..Len(wire) /\ client[u].asking \in 0..Len(wire)
    <2>1. client[u].client_socket # 0 => client[u].client_socket \in Conns
      BY DEF IInv, ClientInv, ClientOf, JoinedOf
    <2>2. client[u].asking # 0 => client[u].asking \in Conns
      BY DEF IInv, ClientInv, ClientOf, AskingOf
    <2>3. Conns \subseteq 0..Len(wire) /\ 0 \in 0..Len(wire)
      BY <1>1 DEF Conns
    <2> QED BY <2>1, <2>2, <2>3
  <1> QED BY <1>2, <1>3, <1>4, <1>5, <1>6 DEF TypeOK, IInv, RouterInv, TableInv

LEMMA IInvJoined == IInv => JoinedIsMember
  <1> SUFFICES ASSUME IInv, NEW u \in User, NEW c, c = client[u].client_socket, client[u].in_channel
               PROVE  \E k \in Channel :
                        /\ c \in Members(k) /\ c \in listen_fds[k]
                        /\ channel_name_list[k] \in {wire[c].room, NoName}
                        /\ Cardinality({i \in Slots(k) : socket_list[Cell(k, i)] = c}) = 1
                        /\ \A j \in Channel \ {k} : c \notin Members(j)
    BY DEF JoinedIsMember
  <1>1. c \in Conns /\ Seated(c)
    BY DEF IInv, ClientInv, ClientOf, JoinedOf
  <1>2. PICK k \in Channel : c \in Members(k)
    BY <1>1 DEF Seated
  <1>3. listen_fds[k] = Members(k)
    BY DEF IInv, TableInv
  <1>4. channel_name_list[k] \in {wire[c].room, NoName}
    BY <1>2 DEF IInv, RoomInv, Around
  <1>5. \A j \in Channel \ {k} : c \notin Members(j)
    BY <1>2 DEF IInv, RoomInv, Around
  <1>6. Cardinality({i \in Slots(k) : socket_list[Cell(k, i)] = c}) = 1
    <2>1. PICK i \in Slots(k) : socket_list[Cell(k, i)] = c /\ c # -1
      BY <1>2, MemberSlot DEF IInv
    <2>2. \A j \in Slots(k) : socket_list[Cell(k, j)] = c => j = i
      BY <2>1 DEF IInv, TableInv
    <2>3. {j \in Slots(k) : socket_list[Cell(k, j)] = c} = {i}
      BY <2>1, <2>2
    <2> QED BY <2>3, FS_Singleton
  <1> QED BY <1>2, <1>3, <1>4, <1>5, <1>6

LEMMA IInvHeard == IInv => NoCrossTalk
  <1> SUFFICES ASSUME IInv, NEW c \in Conns, NEW j \in DOMAIN wire[c].heard
               PROVE  wire[wire[c].heard[j].from].room = wire[c].room
    BY DEF NoCrossTalk
  <1>1. wire[c].heard \in Seq(Message)
    BY WireAt DEF Conns, IInv, WireInv
  <1>2. j \in 1..Len(wire[c].heard)
    BY <1>1, LenProperties
  <1> QED BY <1>2 DEF IInv, DownInv, DownOf

LEMMA ChatInvariant ==
  ASSUME RowsFit
  PROVE  Spec => []IInv
  <1>1. Init => IInv
    BY IInvInit
  <1>2. IInv /\ [Next]_vars => IInv'
    BY IInvStep
  <1> QED BY <1>1, <1>2, PTL DEF Spec

(* The tables, the sockets and the clients' statics hold what their types  *)
(* say: every entry of socket_list is a connection, vacant or unused.      *)
THEOREM ChatTypes ==
  ASSUME RowsFit
  PROVE  Spec => []TypeOK
  BY ChatInvariant, IInvTypes, PTL

(* A client that believes it is in a channel is in one slot of one channel *)
(* of the server, the one it asked for (join_channel and                   *)
(* process_add_client agree), whatever was closed or vacated meanwhile.    *)
THEOREM ChatJoined ==
  ASSUME RowsFit
  PROVE  Spec => []JoinedIsMember
  BY ChatInvariant, IInvJoined, PTL

(* process_incoming_message sends a message to members of its channel      *)
(* only: what a client displays was said in the channel it asked for.      *)
THEOREM ChatNoCrossTalk ==
  ASSUME RowsFit
  PROVE  Spec => []NoCrossTalk
  BY ChatInvariant, IInvHeard, PTL
=============================================================================
