-------------------------- MODULE ChatRooms_proofs --------------------------
(***************************************************************************)
(* The chat is an implementation of ChatRooms.                             *)
(***************************************************************************)
EXTENDS Chat_proofs

(* What a connection's client was sent, of what it displayed and what is   *)
(* on its way: only that can be seen of them.                              *)
Behind(d) == IF d # <<>> /\ Head(d).kind # "msg" THEN Tail(d) ELSE d
Seen(p) == [from |-> p.from, n |-> p.n]
Sent(h, d) == [j \in 1..Len(h \o Behind(d)) |-> Seen((h \o Behind(d))[j])]

LEMMA MessagesSent ==
  ASSUME NEW c
  PROVE  Messages(c) = Sent(wire[c].heard, wire[c].down)
  BY DEF Messages, Pending, Sent, Behind, Seen

LEMMA Joint ==
  ASSUME NEW h \in Seq(Message), NEW d \in Seq(Message)
  PROVE  /\ h \o d \in Seq(Message) /\ Len(h) \in Nat /\ Len(d) \in Nat
         /\ Len(h \o d) = Len(h) + Len(d)
         /\ \A j \in 1..(Len(h) + Len(d)) : (h \o d)[j] = IF j <= Len(h) THEN h[j] ELSE d[j - Len(h)]
  BY ConcatProperties, LenProperties

LEMMA SeqOf ==
  ASSUME NEW S, NEW T, NEW s \in Seq(S), \A j \in 1..Len(s) : s[j] \in T
  PROVE  s \in Seq(T)
  <1>1. s \in [1..Len(s) -> S] /\ Len(s) \in Nat
    BY LenProperties
  <1>2. s \in [1..Len(s) -> T]
    BY <1>1
  <1> QED BY <1>1, <1>2, SeqDef

LEMMA BehindIn ==
  ASSUME NEW d, DownShape(d)
  PROVE  /\ Behind(d) \in Seq(Message)
         /\ d # <<>> /\ Head(d).kind = "msg" => Behind(d) = d
  <1>1. d \in Seq(Message \cup Answer)
    BY DEF DownShape
  <1>2. CASE d = <<>>
    BY <1>2 DEF Behind
  <1>3. CASE d # <<>> /\ Head(d).kind # "msg"
    <2>1. DownShape(Tail(d)) /\ \A j \in 1..Len(Tail(d)) : Tail(d)[j] \in Message
      BY <1>3, DownTaken
    <2>2. Tail(d) \in Seq(Message)
      <3>1. Tail(d) \in Seq(Message \cup Answer)
        BY <2>1 DEF DownShape
      <3> QED BY <2>1, <3>1, SeqOf
    <2> QED BY <1>3, <2>2 DEF Behind
  <1>4. CASE d # <<>> /\ Head(d).kind = "msg"
    <2>1. Len(d) \in Nat \ {0} /\ Head(d) = d[1] /\ d[1] \in Message \cup Answer
      BY <1>1, <1>4, Shortened
    <2>2. d[1] \in Message
      BY <1>4, <2>1 DEF Answer
    <2>3. \A j \in 1..Len(d) : d[j] \in Message
      BY <2>1, <2>2 DEF DownShape
    <2>4. d \in Seq(Message)
      BY <1>1, <2>3, SeqOf
    <2> QED BY <1>4, <2>4 DEF Behind
  <1> QED BY <1>2, <1>3, <1>4

(* An answer is read, or comes.                                            *)
LEMMA SentAnswer ==
  ASSUME NEW h, NEW d, DownShape(d), d # <<>>, Head(d).kind # "msg"
  PROVE  Sent(h, Tail(d)) = Sent(h, d)
  <1>1. DownShape(Tail(d)) /\ \A j \in 1..Len(Tail(d)) : Tail(d)[j] \in Message
    BY DownTaken
  <1>2. Tail(d) # <<>> => Head(Tail(d)) \in Message
    <2>1. PICK t \in Seq(Message \cup Answer) : t = Tail(d)
      BY <1>1 DEF DownShape
    <2>2. t # <<>> => Head(t) = t[1] /\ 1 \in 1..Len(t)
      BY Shortened
    <2>3. \A j \in 1..Len(t) : t[j] \in Message
      BY <1>1, <2>1
    <2> QED BY <2>1, <2>2, <2>3
  <1>3. Behind(Tail(d)) = Tail(d)
    BY <1>2 DEF Behind, Message
  <1>4. Behind(d) = Tail(d)
    BY DEF Behind
  <1> QED BY <1>3, <1>4 DEF Sent

LEMMA SentRefused ==
  ASSUME NEW h, NEW d, DownShape(d), Len(d) <= 1, \A j \in 1..Len(d) : d[j].kind # "msg"
  PROVE  Sent(h, d) = Sent(h, <<>>)
  <1>1. d \in Seq(Message \cup Answer)
    BY DEF DownShape
  <1>2. Behind(<<>>) = <<>>
    BY DEF Behind
  <1>3. CASE d # <<>>
    <2>1. /\ Len(d) \in Nat \ {0} /\ Head(d) = d[1] /\ Tail(d) \in Seq(Message \cup Answer)
          /\ Len(Tail(d)) = Len(d) - 1
      BY <1>1, <1>3, Shortened
    <2>2. Head(d).kind # "msg" /\ Len(Tail(d)) = 0
      BY <2>1
    <2>3. Tail(d) = <<>>
      BY <2>1, <2>2, EmptySeq
    <2> QED BY <1>2, <1>3, <2>2, <2>3 DEF Sent, Behind
  <1> QED BY <1>3

(* A message is displayed.                                                 *)
LEMMA SentDisplayed ==
  ASSUME NEW h \in Seq(Message), NEW d, DownShape(d), d # <<>>, Head(d) \in Message
  PROVE  Sent(Append(h, Head(d)), Tail(d)) = Sent(h, d)
  <1>1. DownShape(Tail(d)) /\ \A j \in 1..Len(Tail(d)) : Tail(d)[j] \in Message
    BY DownTaken
  <1>2. Head(d).kind = "msg"
    BY DEF Message
  <1>3. Behind(d) = d /\ d \in Seq(Message)
    BY <1>2, BehindIn
  <1>4. /\ Tail(d) \in Seq(Message) /\ Len(Tail(d)) = Len(d) - 1 /\ Len(d) \in Nat \ {0}
        /\ Head(d) = d[1] /\ \A j \in 1..(Len(d) - 1) : Tail(d)[j] = d[j + 1]
    BY <1>3, Shortened
  <1>5. Behind(Tail(d)) = Tail(d)
    <2>1. Tail(d) # <<>> => Head(Tail(d)) \in Message
      BY <1>4, Shortened
    <2> QED BY <2>1 DEF Behind, Message
  <1> DEFINE g == Append(h, Head(d))
             a == g \o Tail(d)
             b == h \o d
             m == Len(h)
             n == Len(h) + Len(d)
  <1>6. /\ g \in Seq(Message) /\ Len(g) = m + 1 /\ m \in Nat
        /\ \A j \in 1..(m + 1) : g[j] = IF j = m + 1 THEN d[1] ELSE h[j]
    BY <1>4, Appended
  <1>7. Len(b) = n /\ n \in Nat /\ \A j \in 1..n : b[j] = IF j <= m THEN h[j] ELSE d[j - m]
    BY <1>3, Joint
  <1>8. Len(a) = n /\ \A j \in 1..n : a[j] = IF j <= m + 1 THEN g[j] ELSE Tail(d)[j - (m + 1)]
    <2>1. /\ Len(g \o Tail(d)) = Len(g) + Len(Tail(d))
          /\ \A j \in 1..(Len(g) + Len(Tail(d))) :
               (g \o Tail(d))[j] = IF j <= Len(g) THEN g[j] ELSE Tail(d)[j - Len(g)]
      BY <1>4, <1>6, Joint
    <2>2. Len(g) + Len(Tail(d)) = n
      BY <1>4, <1>6
    <2> QED BY <1>6, <2>1, <2>2
  <1> HIDE DEF a, b, g
  <1>9. ASSUME NEW j \in 1..n PROVE a[j] = b[j]
    <2>1. CASE j <= m
      BY <1>6, <1>7, <1>8, <2>1
    <2>2. CASE j = m + 1
      <3>1. a[j] = d[1]
        BY <1>6, <1>8, <2>2
      <3>2. b[j] = d[j - m] /\ j - m = 1
        BY <1>6, <1>7, <2>2
      <3> QED BY <3>1, <3>2
    <2>3. CASE j > m + 1
      <3>1. a[j] = Tail(d)[j - (m + 1)]
        BY <1>6, <1>8, <2>3
      <3>2. b[j] = d[j - m]
        BY <1>6, <1>7, <2>3
      <3>3. j - (m + 1) \in 1..(Len(d) - 1) /\ (j - (m + 1)) + 1 = j - m
        BY <1>4, <1>6, <2>3
      <3>4. Tail(d)[j - (m + 1)] = d[(j - (m + 1)) + 1]
        BY <1>4, <3>3
      <3> QED BY <3>1, <3>2, <3>3, <3>4
    <2> QED BY <1>6, <2>1, <2>2, <2>3
  <1>10. Sent(g, Tail(d)) = [j \in 1..n |-> Seen(a[j])]
    BY <1>5, <1>8 DEF Sent, a
  <1>11. Sent(h, d) = [j \in 1..n |-> Seen(b[j])]
    BY <1>3, <1>7 DEF Sent, b
  <1> QED BY <1>9, <1>10, <1>11 DEF g

(* A message comes.                                                        *)
LEMMA TailAppended ==
  ASSUME NEW S, NEW d \in Seq(S), d # <<>>, NEW p \in S
  PROVE  Tail(Append(d, p)) = Append(Tail(d), p)
  <1>1. PICK n \in Nat \ {0} : n = Len(d)
    BY Shortened
  <1>2. PICK t \in Seq(S) : t = Tail(d) /\ Len(t) = n - 1 /\ \A j \in 1..(n - 1) : t[j] = d[j + 1]
    BY <1>1, Shortened
  <1>3. PICK a \in Seq(S) : /\ a = Append(d, p) /\ Len(a) = n + 1
                            /\ \A j \in 1..(n + 1) : a[j] = IF j = n + 1 THEN p ELSE d[j]
    <2>1. /\ Append(d, p) \in Seq(S) /\ Len(Append(d, p)) = Len(d) + 1
          /\ \A j \in 1..(Len(d) + 1) : Append(d, p)[j] = IF j = Len(d) + 1 THEN p ELSE d[j]
      BY Appended
    <2>2. /\ Append(d, p) \in Seq(S) /\ Len(Append(d, p)) = n + 1
          /\ \A j \in 1..(n + 1) : Append(d, p)[j] = IF j = n + 1 THEN p ELSE d[j]
      BY <1>1, <2>1
    <2> QED BY <2>2
  <1>4. PICK b \in Seq(S) : /\ b = Append(t, p) /\ Len(b) = n
                            /\ \A j \in 1..n : b[j] = IF j = n THEN p ELSE t[j]
    <2>1. /\ Append(t, p) \in Seq(S) /\ Len(Append(t, p)) = Len(t) + 1
          /\ \A j \in 1..(Len(t) + 1) : Append(t, p)[j] = IF j = Len(t) + 1 THEN p ELSE t[j]
      BY Appended
    <2>2. Len(t) + 1 = n
      BY <1>1, <1>2
    <2>3. /\ Append(t, p) \in Seq(S) /\ Len(Append(t, p)) = n
          /\ \A j \in 1..n : Append(t, p)[j] = IF j = n THEN p ELSE t[j]
      BY <2>1, <2>2
    <2> QED BY <2>3
  <1>5. PICK c \in Seq(S) : c = Tail(a) /\ Len(c) = n /\ \A j \in 1..n : c[j] = a[j + 1]
    <2>1. a # <<>>
      BY <1>1, <1>3
    <2>2. /\ Tail(a) \in Seq(S) /\ Len(Tail(a)) = Len(a) - 1
          /\ \A j \in 1..(Len(a) - 1) : Tail(a)[j] = a[j + 1]
      BY <2>1, Shortened
    <2>3. Len(a) - 1 = n
      BY <1>1, <1>3
    <2>4. Tail(a) \in Seq(S) /\ Len(Tail(a)) = n /\ \A j \in 1..n : Tail(a)[j] = a[j + 1]
      BY <2>2, <2>3
    <2> QED BY <2>4
  <1>6. \A j \in 1..n : c[j] = b[j]
    <2> TAKE j \in 1..n
    <2>1. c[j] = a[j + 1] /\ j + 1 \in 1..(n + 1)
      BY <1>5
    <2>2. CASE j = n
      BY <1>3, <1>4, <2>1, <2>2
    <2>3. CASE j # n
      <3>1. j \in 1..(n - 1) /\ j + 1 # n + 1
        BY <2>3
      <3> QED BY <1>2, <1>3, <1>4, <2>1, <2>3, <3>1
    <2> QED BY <2>2, <2>3
  <1>7. c = b
    BY <1>4, <1>5, <1>6, SeqEqual
  <1> QED BY <1>2, <1>3, <1>4, <1>5, <1>7

LEMMA SentMore ==
  ASSUME NEW h \in Seq(Message), NEW d, DownShape(d), NEW p \in Message
  PROVE  Sent(h, Append(d, p)) = Append(Sent(h, d), Seen(p))
  <1> DEFINE e == Behind(d)
             q == Append(e, p)
             a == h \o q
             b == h \o e
             n == Len(h) + Len(e)
  <1>1. e \in Seq(Message) /\ q \in Seq(Message) /\ Len(q) = Len(e) + 1 /\ Len(e) \in Nat
        /\ \A j \in 1..(Len(e) + 1) : q[j] = IF j = Len(e) + 1 THEN p ELSE e[j]
    <2>1. e \in Seq(Message)
      BY BehindIn
    <2> HIDE DEF e
    <2> QED BY <2>1, Appended
  <1>2. Behind(Append(d, p)) = q
    <2>1. d \in Seq(Message \cup Answer) /\ p \in Message \cup Answer /\ p.kind = "msg"
      BY DEF DownShape, Message
    <2>2. CASE d = <<>>
      <3>1. Append(d, p) = <<p>> /\ Head(<<p>>) = p
        BY <2>2
      <3>2. e = <<>>
        BY <2>2 DEF Behind
      <3> QED BY <2>1, <2>2, <3>1, <3>2 DEF Behind
    <2>3. CASE d # <<>>
      <3>1. Append(d, p) # <<>> /\ Head(Append(d, p)) = Head(d) /\ Tail(Append(d, p)) = Append(Tail(d), p)
        <4>1. Append(d, p) # <<>> /\ Head(Append(d, p)) = Head(d)
          BY <2>1, <2>3, Shortened, Appended
        <4>2. Tail(Append(d, p)) = Append(Tail(d), p)
          <5> QED BY <2>1, <2>3, TailAppended
        <4> QED BY <4>1, <4>2
      <3> QED BY <2>3, <3>1 DEF Behind
    <2> QED BY <2>2, <2>3
  <1>3. /\ b \in Seq(Message) /\ Len(h) \in Nat /\ n \in Nat /\ Len(b) = n
        /\ \A j \in 1..n : b[j] = IF j <= Len(h) THEN h[j] ELSE e[j - Len(h)]
    BY <1>1, Joint
  <1>4. Len(a) = n + 1 /\ \A j \in 1..(n + 1) : a[j] = IF j <= Len(h) THEN h[j] ELSE q[j - Len(h)]
    <2>1. /\ Len(a) = Len(h) + Len(q)
          /\ \A j \in 1..(Len(h) + Len(q)) : a[j] = IF j <= Len(h) THEN h[j] ELSE q[j - Len(h)]
      BY <1>1, Joint
    <2>2. Len(h) + Len(q) = n + 1
      BY <1>1, <1>3
    <2> QED BY <2>1, <2>2
  <1> HIDE DEF q, e, a, b
  <1>5. \A j \in 1..(n + 1) : a[j] = IF j = n + 1 THEN p ELSE b[j]
    <2> TAKE j \in 1..(n + 1)
    <2>1. CASE j = n + 1
      <3>1. a[j] = q[j - Len(h)] /\ j - Len(h) = Len(e) + 1
        BY <1>1, <1>3, <1>4, <2>1
      <3>2. q[Len(e) + 1] = p
        BY <1>1
      <3> QED BY <2>1, <3>1, <3>2
    <2>2. CASE j # n + 1 /\ j <= Len(h)
      <3>1. a[j] = h[j] /\ j \in 1..n
        BY <1>3, <1>4, <2>2
      <3>2. b[j] = h[j]
        BY <1>3, <2>2, <3>1
      <3> QED BY <2>2, <3>1, <3>2
    <2>3. CASE j # n + 1 /\ j > Len(h)
      <3>1. a[j] = q[j - Len(h)] /\ b[j] = e[j - Len(h)] /\ j - Len(h) \in 1..Len(e)
        <4>1. a[j] = q[j - Len(h)]
          BY <1>3, <1>4, <2>3
        <4>2. j \in 1..n /\ j - Len(h) \in 1..Len(e)
          <5>1. PICK x \in Nat, y \in Nat : x = Len(h) /\ y = Len(e)
            BY <1>1, <1>3
          <5>2. n = x + y
            BY <5>1
          <5> HIDE DEF n
          <5>3. j \in 1..(x + y + 1) /\ j # x + y + 1 /\ j > x
            BY <2>3, <5>1, <5>2
          <5>4. j \in 1..(x + y) /\ j - x \in 1..y
            BY <5>3
          <5> QED BY <5>1, <5>2, <5>4
        <4>3. b[j] = e[j - Len(h)]
          BY <1>3, <2>3, <4>2
        <4> QED BY <4>1, <4>2, <4>3
      <3>2. q[j - Len(h)] = e[j - Len(h)]
        BY <1>1, <3>1
      <3> QED BY <2>3, <3>1, <3>2
    <2> QED BY <1>3, <2>1, <2>2, <2>3
  <1>6. Sent(h, d) = [j \in 1..n |-> Seen(b[j])]
    BY <1>3 DEF Sent, b, e
  <1>7. Sent(h, Append(d, p)) = [j \in 1..(n + 1) |-> Seen(a[j])]
    BY <1>2, <1>4 DEF Sent, a
  <1>8. DOMAIN Sent(h, d) = 1..n /\ Sent(h, d) \in Seq({Seen(r) : r \in Message})
    <2>1. \A j \in 1..n : b[j] \in Message
      BY <1>3, ElementOfSeq
    <2> QED BY <1>3, <1>6, <2>1, SeqDef
  <1>9. PICK v \in Seq({Seen(r) : r \in Message}) :
          /\ v = Append(Sent(h, d), Seen(p)) /\ Len(v) = n + 1
          /\ \A j \in 1..(n + 1) : v[j] = IF j = n + 1 THEN Seen(p) ELSE Sent(h, d)[j]
    <2>1. Len(Sent(h, d)) = n
      BY <1>3, <1>8, LenProperties
    <2>2. Seen(p) \in {Seen(r) : r \in Message}
      OBVIOUS
    <2>3. PICK s \in Seq({Seen(r) : r \in Message}), z \in {Seen(r) : r \in Message} :
            s = Sent(h, d) /\ z = Seen(p)
      BY <1>8, <2>2
    <2>4. /\ Append(s, z) \in Seq({Seen(r) : r \in Message}) /\ Len(Append(s, z)) = Len(s) + 1
          /\ \A j \in 1..(Len(s) + 1) : Append(s, z)[j] = IF j = Len(s) + 1 THEN z ELSE s[j]
      BY Appended
    <2>5. /\ Append(s, z) \in Seq({Seen(r) : r \in Message}) /\ Len(Append(s, z)) = n + 1
          /\ \A j \in 1..(n + 1) : Append(s, z)[j] = IF j = n + 1 THEN z ELSE s[j]
      BY <2>1, <2>3, <2>4
    <2> QED BY <2>3, <2>5
  <1>10. \A j \in 1..(n + 1) : Seen(a[j]) = v[j]
    <2> TAKE j \in 1..(n + 1)
    <2>1. j # n + 1 => j \in 1..n
      BY <1>3
    <2> QED BY <1>5, <1>6, <1>9, <2>1
  <1>11. v = [j \in 1..(n + 1) |-> v[j]]
    <2>1. v \in [1..(n + 1) -> {Seen(r) : r \in Message}]
      BY <1>9, LenProperties
    <2> QED BY <2>1
  <1> QED BY <1>7, <1>9, <1>10, <1>11

-----------------------------------------------------------------------------
(* What can be seen of a connection.                                       *)
Talks(s) == Cardinality({j \in DOMAIN s : s[j].kind = "msg"})
Talk == {x \in UpPacket : x.kind = "msg"}

Quiet(c) ==
  /\ Said(c)' = Said(c) /\ Messages(c)' = Messages(c)
  /\ (wire'[c].client = "open") = (wire[c].client = "open")

LEMMA TalksCount ==
  ASSUME NEW s \in Seq(UpPacket)
  PROVE  Talks(s) = Count(s, Talk)
  <1>1. \A j \in DOMAIN s : s[j] \in UpPacket
    BY ElementOfSeq, LenProperties
  <1>2. {j \in DOMAIN s : s[j] \in Talk} = {j \in DOMAIN s : s[j].kind = "msg"}
    BY <1>1 DEF Talk
  <1> QED BY <1>2 DEF Talks, Count

LEMMA TalksAppended ==
  ASSUME NEW s \in Seq(UpPacket), NEW p \in UpPacket
  PROVE  /\ Talks(s) \in Nat
         /\ Talks(Append(s, p)) = IF p.kind = "msg" THEN Talks(s) + 1 ELSE Talks(s)
  <1>1. Append(s, p) \in Seq(UpPacket)
    BY Appended
  <1>2. Talks(s) = Count(s, Talk) /\ Talks(Append(s, p)) = Count(Append(s, p), Talk)
    BY <1>1, TalksCount
  <1>3. p \in Talk <=> p.kind = "msg"
    BY DEF Talk
  <1> QED BY <1>2, <1>3, CountAppended

LEMMA TalksShortened ==
  ASSUME NEW s \in Seq(UpPacket), s # <<>>
  PROVE  /\ Talks(s) \in Nat /\ Talks(Tail(s)) \in Nat
         /\ Talks(s) = IF Head(s).kind = "msg" THEN Talks(Tail(s)) + 1 ELSE Talks(Tail(s))
  <1>1. Tail(s) \in Seq(UpPacket) /\ Head(s) \in UpPacket
    BY Shortened
  <1>2. Talks(s) = Count(s, Talk) /\ Talks(Tail(s)) = Count(Tail(s), Talk)
    BY <1>1, TalksCount
  <1>3. Head(s) \in Talk <=> Head(s).kind = "msg"
    BY <1>1 DEF Talk
  <1> QED BY <1>2, <1>3, CountShortened

LEMMA SaidTalks ==
  ASSUME NEW c
  PROVE  Said(c) = wire[c].said - Talks(wire[c].up)
  BY DEF Said, Talks

LEMMA SaidNow ==
  ASSUME NEW c
  PROVE  Said(c)' = wire'[c].said - Talks(wire'[c].up)
  BY DEF Said, Talks

LEMMA MessagesNow ==
  ASSUME NEW c
  PROVE  Messages(c)' = Sent(wire'[c].heard, wire'[c].down)
  BY DEF Messages, Pending, Sent, Behind, Seen

LEMMA UpQuiet ==
  ASSUME NEW c, SameUp(wire'[c], wire[c])
  PROVE  Said(c)' = Said(c)
  BY SaidTalks, SaidNow DEF SameUp

LEMMA DownQuiet ==
  ASSUME NEW c, SameDown(wire'[c], wire[c])
  PROVE  Messages(c)' = Messages(c)
  BY MessagesSent, MessagesNow DEF SameDown

LEMMA AllQuiet ==
  ASSUME NEW c, SameUp(wire'[c], wire[c]), SameDown(wire'[c], wire[c]),
         wire'[c].client = "open" <=> wire[c].client = "open"
  PROVE  Quiet(c)
  BY UpQuiet, DownQuiet DEF Quiet

LEMMA Silence ==
  ASSUME Conns' = Conns, \A c \in Conns : Quiet(c)
  PROVE  UNCHANGED <<Gone, Posted, Views>>
  <1>1. Gone' = Gone
    BY DEF Gone, Quiet
  <1>2. Posted' = Posted
    BY DEF Posted, Quiet
  <1>3. Views' = Views
    BY DEF Views, Quiet
  <1> QED BY <1>1, <1>2, <1>3

LEMMA Seats ==
  ASSUME UNCHANGED <<socket_list, client_names>>
  PROVE  UNCHANGED Places
  BY DEF Places, Place

LEMMA Silent ==
  ASSUME Conns' = Conns, \A c \in Conns : Quiet(c), UNCHANGED <<socket_list, client_names, server>>
  PROVE  UNCHANGED Rooms!vars
  <1>1. UNCHANGED <<Gone, Posted, Views>>
    BY Silence
  <1>2. UNCHANGED Places
    BY Seats
  <1> QED BY <1>1, <1>2 DEF Rooms!vars

LEMMA Unheard ==
  ASSUME UNCHANGED <<wire, socket_list, client_names>>
  PROVE  UNCHANGED <<Places, Gone, Posted, Views>>
  <1>1. Conns' = Conns
    BY DEF Conns
  <1>2. \A c \in Conns : Quiet(c)
    BY AllQuiet DEF SameUp, SameDown
  <1> QED BY <1>1, <1>2, Silence, Seats

-----------------------------------------------------------------------------
(* The places in the tables.                                               *)
Held(c) == {x \in Cells : socket_list[x] = c}

LEMMA Holds ==
  ASSUME IInv, NEW k \in Channel, NEW i \in Slots(k), NEW c, c = socket_list[Cell(k, i)], c # -1
  PROVE  Held(c) = {Cell(k, i)} /\ c # 0 /\ i \in Row /\ Cell(k, i) \in Cells /\ c \in Members(k)
  <1>1. /\ i \in Row /\ Cell(k, i) \in Cells /\ c \in Members(k)
    BY SlotIn DEF IInv
  <1>2. c # 0
    BY <1>1 DEF IInv, TableInv
  <1>3. ASSUME NEW x \in Cells, socket_list[x] = c PROVE x = Cell(k, i)
    <2>1. PICK l \in Channel, j \in Row : x = Cell(l, j)
      BY CellOf
    <2>2. j \in Slots(l)
      <3>1. ~(j >= current_clients[l]) /\ current_clients[l] \in Nat
        BY <1>2, <1>3, <2>1 DEF IInv, TableInv
      <3> QED BY <3>1 DEF Slots, Row
    <2>3. c \in Members(l)
      BY <1>3, <2>1, <2>2 DEF Members
    <2>4. l = k
      BY <1>1, <2>3 DEF IInv, RoomInv, Around
    <2>5. j = i
      BY <1>3, <2>1, <2>2, <2>4 DEF IInv, TableInv
    <2> QED BY <2>1, <2>4, <2>5
  <1> QED BY <1>1, <1>2, <1>3 DEF Held

LEMMA HoldsNone ==
  ASSUME IInv, NEW c, c # 0, c # -1, ~Seated(c)
  PROVE  Held(c) = {}
  <1>1. ASSUME NEW x \in Cells, socket_list[x] = c PROVE FALSE
    <2>1. PICK l \in Channel, j \in Row : x = Cell(l, j)
      BY CellOf
    <2>2. j \in Slots(l)
      <3>1. ~(j >= current_clients[l]) /\ current_clients[l] \in Nat
        BY <1>1, <2>1 DEF IInv, TableInv
      <3> QED BY <3>1 DEF Slots, Row
    <2>3. c \in Members(l)
      BY <1>1, <2>1, <2>2 DEF Members
    <2> QED BY <2>3 DEF Seated
  <1> QED BY <1>1 DEF Held

LEMMA PlaceOne ==
  ASSUME NEW c, NEW x, Held(c) = {x}
  PROVE  Place(c) = [room |-> x \div MAX_CLIENTS, name |-> client_names[x]]
  BY DEF Place, Held

LEMMA PlaceNone ==
  ASSUME NEW c, Held(c) = {}
  PROVE  Place(c) = Nowhere
  BY DEF Place, Held

LEMMA PlaceOf ==
  ASSUME IInv, NEW k \in Channel, NEW i \in Slots(k), NEW c, c = socket_list[Cell(k, i)], c # -1
  PROVE  Place(c) = [room |-> k, name |-> client_names[Cell(k, i)]]
  <1>1. Held(c) = {Cell(k, i)} /\ i \in Row
    BY Holds
  <1>2. Cell(k, i) \div MAX_CLIENTS = k
    BY <1>1, CellRow
  <1> QED BY <1>1, <1>2, PlaceOne

LEMMA PlaceOutside ==
  ASSUME IInv, NEW c \in 1..MaxConns, ~Seated(c)
  PROVE  Place(c) = Nowhere
  <1>1. c # 0 /\ c # -1
    BY SocketsAssumption
  <1> QED BY <1>1, HoldsNone, PlaceNone

LEMMA Somewhere ==
  ASSUME NEW k \in Channel, NEW name
  PROVE  [room |-> k, name |-> name] # Nowhere
  <1>1. k # MAX_CHANNELS
    BY ServerAssumption DEF Channel
  <1> QED BY <1>1 DEF Nowhere

(* Those in a channel's room are its members.                              *)
LEMMA RoomOf ==
  ASSUME IInv, NEW c \in 1..MaxConns, NEW k \in Channel
  PROVE  c \in Members(k) <=> Place(c) # Nowhere /\ Place(c).room = k
  <1>1. ASSUME NEW l \in Channel, c \in Members(l) PROVE Place(c) # Nowhere /\ Place(c).room = l
    <2>1. PICK i \in Slots(l) : socket_list[Cell(l, i)] = c /\ c # -1
      BY <1>1 DEF Members
    <2>2. Place(c) = [room |-> l, name |-> client_names[Cell(l, i)]]
      BY <2>1, PlaceOf
    <2> QED BY <2>2, Somewhere
  <1>2. ASSUME Place(c) # Nowhere, Place(c).room = k PROVE c \in Members(k)
    <2>1. PICK l \in Channel : c \in Members(l)
      BY <1>2, PlaceOutside DEF Seated
    <2> QED BY <1>1, <1>2, <2>1
  <1> QED BY <1>1, <1>2

LEMMA MembersIn ==
  ASSUME IInv
  PROVE  /\ Conns \subseteq 1..MaxConns /\ Len(wire) \in Nat
         /\ \A k \in Channel : Members(k) \subseteq Conns
  <1>1. wire \in Seq(Connection) /\ Len(wire) \in Nat /\ Len(wire) <= MaxConns
    BY LenProperties DEF IInv, WireInv
  <1>2. Accepted <= Len(wire) /\ Accepted \in Int
    BY <1>1, LenProperties DEF IInv, AcceptInv, Accepted
  <1> QED BY <1>1, <1>2, SocketsAssumption DEF IInv, TableInv, Conns

LEMMA OthersOf ==
  ASSUME IInv, NEW k \in Channel, NEW c \in Members(k)
  PROVE  /\ Rooms!Others(c) = {d \in Members(k) \ {c} : wire[d].client = "open"}
         /\ c \in 1..MaxConns /\ Places[c] # Nowhere
  <1>1. c \in 1..MaxConns /\ Members(k) \subseteq 1..MaxConns /\ Members(k) \subseteq Conns
    BY MembersIn
  <1>2. Places[c] # Nowhere /\ Places[c].room = k
    BY <1>1, RoomOf DEF Places
  <1>3. \A d \in 1..MaxConns : d \in Members(k) <=> Places[d] # Nowhere /\ Places[d].room = k
    BY RoomOf DEF Places
  <1>4. Rooms!Others(c) = {d \in (1..MaxConns) \ (Gone \cup {c}) : Places[d] # Nowhere /\ Places[d].room = k}
    BY <1>2 DEF Rooms!Others
  <1>5. \A d \in Members(k) : d \in Gone <=> wire[d].client # "open"
    BY <1>1 DEF Gone
  <1> QED BY <1>1, <1>2, <1>3, <1>4, <1>5

(* A place is taken, or left.                                              *)
LEMMA PlaceTaken ==
  ASSUME socket_list \in [Cells -> {-1, 0} \cup Nat], client_names \in [Cells -> User \cup {NoName}],
         NEW x \in Cells, socket_list[x] = 0,
         NEW c \in 1..MaxConns, Held(c) = {}, NEW name,
         socket_list' = [socket_list EXCEPT ![x] = c],
         client_names' = [client_names EXCEPT ![x] = name]
  PROVE  Places' = [Places EXCEPT ![c] = [room |-> x \div MAX_CLIENTS, name |-> name]]
  <1>1. ASSUME NEW d \in 1..MaxConns, d # c PROVE Place(d)' = Place(d)
    <2>1. d # 0
      BY SocketsAssumption
    <2>2. Held(d)' = Held(d) /\ x \notin Held(d)
      BY <1>1, <2>1 DEF Held
    <2>3. \A y \in Held(d) : client_names'[y] = client_names[y]
      BY <2>2 DEF Held
    <2> QED BY <2>2, <2>3 DEF Place, Held
  <1>2. Place(c)' = [room |-> x \div MAX_CLIENTS, name |-> name]
    <2>1. Held(c)' = {x}
      BY DEF Held
    <2>2. client_names'[x] = name
      OBVIOUS
    <2> QED BY <2>1, <2>2 DEF Place, Held
  <1> QED BY <1>1, <1>2 DEF Places

LEMMA PlaceLeft ==
  ASSUME socket_list \in [Cells -> {-1, 0} \cup Nat], client_names \in [Cells -> User \cup {NoName}],
         NEW c \in 1..MaxConns, NEW x \in Cells, Held(c) = {x},
         socket_list' = [socket_list EXCEPT ![x] = -1],
         client_names' = [client_names EXCEPT ![x] = NoName]
  PROVE  Places' = [Places EXCEPT ![c] = Nowhere]
  <1>1. ASSUME NEW d \in 1..MaxConns, d # c PROVE Place(d)' = Place(d)
    <2>1. d # -1 /\ socket_list[x] = c
      BY SocketsAssumption DEF Held
    <2>2. Held(d)' = Held(d) /\ x \notin Held(d)
      BY <1>1, <2>1 DEF Held
    <2>3. \A y \in Held(d) : client_names'[y] = client_names[y]
      BY <2>2 DEF Held
    <2> QED BY <2>2, <2>3 DEF Place, Held
  <1>2. Place(c)' = Nowhere
    <2>1. c # -1
      BY SocketsAssumption
    <2>2. Held(c)' = {}
      BY <2>1 DEF Held
    <2> QED BY <2>2 DEF Place, Held, Nowhere
  <1> QED BY <1>1, <1>2 DEF Places

-----------------------------------------------------------------------------
(* Steps that cannot be seen: what the server does between two messages.   *)
LEMMA ServerSilent ==
  ASSUME UNCHANGED <<wire, socket_list, client_names, server>>
  PROVE  UNCHANGED Rooms!vars
  BY Unheard DEF Rooms!vars

LEMMA ClientSilent ==
  ASSUME IInv, FromClients, Rewired(wire, wire'), \A d \in Conns : Quiet(d)
  PROVE  UNCHANGED Rooms!vars
  <1>1. Conns' = Conns
    BY DEF Rewired, Conns
  <1> QED BY <1>1, Silent DEF FromClients, serverVars, tableVars

LEMMA SendJoinSilent ==
  ASSUME IInv, NEW u \in User, SendJoin(u), FromClients
  PROVE  UNCHANGED Rooms!vars
  <1>1. PICK c \in Nat : c = client[u].asking
    BY DEF IInv, ClientInv, ClientState
  <1>2. AskingOf(u, c)
    BY <1>1 DEF SendJoin, Listens, IInv, ClientInv, ClientOf
  <1>3. /\ c \in Conns /\ c \in 1..Len(wire) /\ wire \in Seq(Connection) /\ wire[c].room \in Name
        /\ wire[c].up \in Seq(UpPacket)
    BY <1>2, WireAt DEF AskingOf, IInv, WireInv, Conns
  <1> DEFINE p == [kind |-> "join", channel |-> wire[c].room, name |-> u]
  <1>4. p \in UpPacket /\ p.kind # "msg" /\ wire' = Sends(wire, c, p)
    BY <1>1, <1>3 DEF UpPacket, SendJoin
  <1> HIDE DEF p
  <1>5. /\ Rewired(wire, wire')
        /\ \A d \in Conns :
             /\ SameDown(wire'[d], wire[d]) /\ SameEnds(wire'[d], wire[d]) /\ wire'[d].said = wire[d].said
             /\ wire'[d].up = IF d = c /\ wire[c].server = "open" THEN Append(wire[c].up, p) ELSE wire[d].up
    BY <1>3, <1>4, WireSent DEF Conns
  <1>6. ASSUME NEW d \in Conns PROVE Quiet(d)
    <2>1. Said(d)' = Said(d)
      <3>1. Talks(wire'[d].up) = Talks(wire[d].up)
        BY <1>3, <1>4, <1>5, TalksAppended
      <3> QED BY <1>5, <3>1, SaidTalks, SaidNow
    <2> QED BY <1>5, <2>1, DownQuiet DEF Quiet, SameEnds
  <1> QED BY <1>5, <1>6, ClientSilent

LEMMA AnsweredSilent ==
  ASSUME IInv, NEW u \in User, Answered(u), FromClients
  PROVE  UNCHANGED Rooms!vars
  <1>1. PICK c \in Nat : c = client[u].asking
    BY DEF IInv, ClientInv, ClientState
  <1>2. client[u].asked /\ wire[c].down # <<>> /\ wire' = Answers(wire, c)
    BY <1>1 DEF Answered, Answers
  <1>3. AskingOf(u, c)
    BY <1>1, <1>2 DEF IInv, ClientInv, ClientOf
  <1>4. /\ c \in Conns /\ c \in 1..Len(wire) /\ wire \in Seq(Connection)
        /\ DownShape(wire[c].down) /\ wire[c].down \in Seq(Message \cup Answer)
    BY <1>3, WireAt DEF AskingOf, IInv, WireInv, DownInv, DownOf, Conns
  <1>5. Head(wire[c].down).kind # "msg"
    <2>1. Head(wire[c].down) = wire[c].down[1]
      BY <1>2, <1>4, Shortened
    <2> QED BY <1>2, <1>3, <2>1 DEF AskingOf
  <1>6. /\ Rewired(wire, wire')
        /\ \A d \in Conns :
             /\ SameUp(wire'[d], wire[d]) /\ SameEnds(wire'[d], wire[d]) /\ wire'[d].heard = wire[d].heard
             /\ wire'[d].down = IF d = c THEN Tail(wire[c].down) ELSE wire[d].down
    BY <1>2, <1>4, WireAnswered DEF Conns
  <1>7. ASSUME NEW d \in Conns PROVE Quiet(d)
    <2>1. CASE d # c
      BY <1>6, <2>1, AllQuiet DEF SameDown, SameEnds
    <2>2. CASE d = c
      <3>1. Sent(wire[c].heard, Tail(wire[c].down)) = Sent(wire[c].heard, wire[c].down)
        BY <1>2, <1>4, <1>5, SentAnswer
      <3>2. Messages(c)' = Messages(c)
        BY <1>4, <1>6, <3>1, MessagesSent, MessagesNow
      <3> QED BY <1>6, <2>2, <3>2, UpQuiet DEF Quiet, SameEnds
    <2> QED BY <2>1, <2>2
  <1> QED BY <1>6, <1>7, ClientSilent

LEMMA SaySilent ==
  ASSUME IInv, NEW u \in User, Say(u), FromClients
  PROVE  UNCHANGED Rooms!vars
  <1>1. PICK c : c = client[u].client_socket
    OBVIOUS
  <1>2. c # 0 /\ client[u].in_channel /\ wire' = Speaks(wire, c)
    BY <1>1 DEF Say, Speaks, IInv, ClientInv, ClientOf
  <1>3. JoinedOf(u, c) /\ c \in Conns /\ c \in 1..Len(wire) /\ wire \in Seq(Connection) /\ DownOf(c)
    BY <1>1, <1>2, Joined
  <1>4. wire[c].up \in Seq(UpPacket) /\ wire[c].said \in Nat
    BY <1>3, WireAt
  <1>5. wire[c].server = "open"
    BY <1>2, <1>3 DEF JoinedOf, DownOf
  <1> DEFINE p == [kind |-> "msg", n |-> wire[c].said + 1]
  <1>6. /\ Rewired(wire, wire')
        /\ \A d \in Conns :
              /\ SameDown(wire'[d], wire[d]) /\ SameEnds(wire'[d], wire[d])
              /\ d # c => SameUp(wire'[d], wire[d])
        /\ wire'[c].up = Append(wire[c].up, p)
        /\ wire'[c].said = wire[c].said + 1
    BY <1>2, <1>3, <1>5, WireSpoken DEF Conns
  <1>7. p \in UpPacket /\ p.kind = "msg"
    BY <1>4 DEF UpPacket, Spoken
  <1> HIDE DEF p
  <1>8. ASSUME NEW d \in Conns PROVE Quiet(d)
    <2>1. CASE d # c
      BY <1>6, <2>1, AllQuiet DEF SameEnds
    <2>2. CASE d = c
      <3>1. Talks(wire'[c].up) = Talks(wire[c].up) + 1 /\ Talks(wire[c].up) \in Nat
        BY <1>4, <1>6, <1>7, TalksAppended
      <3>2. PICK s \in Nat, n \in Nat : s = wire[c].said /\ n = Talks(wire[c].up)
        BY <1>4, <3>1
      <3>3. Said(c)' = (s + 1) - (n + 1) /\ Said(c) = s - n
        BY <1>6, <3>1, <3>2, SaidTalks, SaidNow
      <3>4. Said(c)' = Said(c)
        BY <3>3
      <3> QED BY <1>6, <2>2, <3>4, DownQuiet DEF Quiet, SameEnds
    <2> QED BY <2>1, <2>2
  <1> QED BY <1>6, <1>8, ClientSilent

LEMMA ShownQuiet ==
  ASSUME IInv, NEW c \in Conns, wire[c].down # <<>>, Head(wire[c].down) \in Message,
         wire'[c].down = Tail(wire[c].down), wire'[c].heard = Append(wire[c].heard, Head(wire[c].down))
  PROVE  Messages(c)' = Messages(c)
  <1>1. wire[c].heard \in Seq(Message) /\ DownShape(wire[c].down)
    BY WireAt DEF IInv, WireInv, DownInv, DownOf, Conns
  <1>2. Sent(Append(wire[c].heard, Head(wire[c].down)), Tail(wire[c].down)) = Sent(wire[c].heard, wire[c].down)
    BY <1>1, SentDisplayed
  <1> QED BY <1>2, MessagesSent, MessagesNow

LEMMA DisplayedQuiet ==
  ASSUME IInv, NEW w, w \in Seq(Connection), Rewired(wire, w), NEW c \in Conns,
         \A d \in Conns : /\ SameDown(w[d], wire[d]) /\ SameEnds(w[d], wire[d])
                          /\ w[d].said - Talks(w[d].up) = Said(d),
         \/ wire' = w
         \/ wire[c].down # <<>> /\ Head(wire[c].down) \in Message /\ wire' = Displayed(w, c)
  PROVE  Rewired(wire, wire') /\ \A d \in Conns : Quiet(d)
  <1>1. CASE wire' = w
    BY <1>1, SaidNow, DownQuiet DEF Quiet, SameEnds
  <1>2. CASE wire[c].down # <<>> /\ Head(wire[c].down) \in Message /\ wire' = Displayed(w, c)
    <2>1. w[c].down = wire[c].down /\ c \in 1..Len(w)
      BY DEF SameDown, Rewired, Conns
    <2>2. /\ Rewired(w, wire')
          /\ \A d \in 1..Len(w) :
               /\ SameUp(wire'[d], w[d]) /\ SameEnds(wire'[d], w[d])
               /\ wire'[d].down = IF d = c THEN Tail(w[c].down) ELSE w[d].down
               /\ wire'[d].heard = IF d = c THEN Append(w[c].heard, Head(w[c].down)) ELSE w[d].heard
      BY <1>2, <2>1, WireDisplayed
    <2>3. Rewired(wire, wire')
      BY <2>2 DEF Rewired, Opened
    <2>4. ASSUME NEW d \in Conns PROVE Quiet(d)
      <3>1. d \in 1..Len(w)
        BY DEF Rewired, Conns
      <3>2. Said(d)' = Said(d) /\ (wire'[d].client = "open") = (wire[d].client = "open")
        BY <2>2, <3>1, SaidNow DEF SameUp, SameEnds
      <3>3. Messages(d)' = Messages(d)
        <4>1. CASE d # c
          BY <2>2, <3>1, <4>1, DownQuiet DEF SameDown
        <4>2. CASE d = c
          BY <1>2, <2>1, <2>2, <4>2, ShownQuiet DEF SameDown
        <4> QED BY <4>1, <4>2
      <3> QED BY <3>2, <3>3 DEF Quiet
    <2> QED BY <2>3, <2>4
  <1> QED BY <1>1, <1>2

LEMMA check_output_socketsSilent ==
  ASSUME IInv, NEW u \in User, check_output_sockets(u), FromClients
  PROVE  UNCHANGED Rooms!vars
  <1>1. PICK c : c = client[u].client_socket
    OBVIOUS
  <1>2. c # 0 /\ wire[c].down # <<>> /\ wire' = Displayed(wire, c)
    BY <1>1 DEF check_output_sockets, IInv, ClientInv, ClientOf
  <1>3. c \in Conns /\ wire \in Seq(Connection) /\ Head(wire[c].down) \in Message
    BY <1>1, <1>2, Joined
  <1>4. Rewired(wire, wire)
    BY <1>3 DEF Rewired, Opened
  <1>5. \A d \in Conns : /\ SameDown(wire[d], wire[d]) /\ SameEnds(wire[d], wire[d])
                         /\ wire[d].said - Talks(wire[d].up) = Said(d)
    BY SaidTalks DEF SameDown, SameEnds
  <1>6. Rewired(wire, wire') /\ \A d \in Conns : Quiet(d)
    BY <1>2, <1>3, <1>4, <1>5, DisplayedQuiet
  <1> QED BY <1>6, ClientSilent

(* A quit says nothing.                                                    *)
LEMMA QuitsQuiet ==
  ASSUME IInv, NEW u \in User, client[u].client_socket # 0
  PROVE  /\ Quits(u) \in Seq(Connection) /\ Rewired(wire, Quits(u))
         /\ \A d \in Conns :
              LET x == Quits(u) IN
              /\ SameDown(x[d], wire[d]) /\ SameEnds(x[d], wire[d]) /\ Opened(x[d], wire[d])
              /\ x[d].said - Talks(x[d].up) = Said(d)
  <1>1. PICK c : c = client[u].client_socket /\ c # 0
    OBVIOUS
  <1>2. c \in Conns /\ c \in 1..Len(wire) /\ wire \in Seq(Connection)
    BY <1>1, Joined
  <1> DEFINE x == Quits(u)
  <1>3. Quit \in UpPacket /\ Quit.kind # "msg" /\ x = Sends(wire, c, Quit)
    BY <1>1 DEF UpPacket, Quits, Quit
  <1> HIDE DEF x
  <1>4. wire[c].up \in Seq(UpPacket)
    BY <1>2, WireAt
  <1>5. /\ Rewired(wire, x)
        /\ \A d \in Conns :
             /\ SameDown(x[d], wire[d]) /\ SameEnds(x[d], wire[d]) /\ x[d].said = wire[d].said
             /\ x[d].up = IF d = c /\ wire[c].server = "open" THEN Append(wire[c].up, Quit) ELSE wire[d].up
    BY <1>2, <1>3, WireSent DEF Conns
  <1>6. Talks(Append(wire[c].up, Quit)) = Talks(wire[c].up)
    BY <1>3, <1>4, TalksAppended
  <1>7. ASSUME NEW d \in Conns PROVE x[d].said - Talks(x[d].up) = Said(d)
    <2>1. Talks(x[d].up) = Talks(wire[d].up)
      BY <1>5, <1>6
    <2> QED BY <1>5, <2>1, SaidTalks
  <1> QED BY <1>5, <1>7 DEF x, Rewired, Conns

(* A process ends, with what it wrote last.                                *)
LEMMA EndsEnd ==
  ASSUME IInv, FromClients, NEW u \in User, NEW x \in Seq(Connection), Ends(u, x), Rewired(wire, x),
         \A d \in Conns :
           /\ SameDown(x[d], wire[d]) /\ SameEnds(x[d], wire[d]) /\ Opened(x[d], wire[d])
           /\ x[d].said - Talks(x[d].up) = Said(d)
  PROVE  Rooms!Next
  <1> DEFINE cs == {d \in Conns : wire[d].owner = u /\ wire[d].client = "open"}
  <1>1. Len(x) = Len(wire) /\ wire' = Ended(x, u)
    BY DEF Rewired, Ends
  <1>2. /\ Rewired(x, wire')
        /\ \A d \in 1..Len(x) :
             /\ SameUp(wire'[d], x[d]) /\ SameDown(wire'[d], x[d])
             /\ wire'[d].client = IF x[d].owner = u /\ x[d].client = "open" THEN "gone" ELSE x[d].client
    BY <1>1, WireEnded
  <1>3. Conns' = Conns /\ Conns = 1..Len(x)
    BY <1>1, <1>2 DEF Rewired, Conns
  <1>4. ASSUME NEW d \in Conns
        PROVE  /\ Said(d)' = Said(d) /\ Messages(d)' = Messages(d)
               /\ wire'[d].client # "open" <=> wire[d].client # "open" \/ d \in cs
    <2>1. Said(d)' = Said(d)
      BY <1>2, <1>3, SaidNow DEF SameUp
    <2>2. SameDown(wire'[d], wire[d])
      BY <1>2, <1>3 DEF SameDown
    <2>3. wire'[d].client # "open" <=> wire[d].client # "open" \/ d \in cs
      BY <1>2, <1>3 DEF SameEnds, Opened
    <2> QED BY <2>1, <2>2, <2>3, DownQuiet
  <1>5. Gone' = Gone \cup cs
    BY <1>3, <1>4 DEF Gone
  <1>6. UNCHANGED <<Posted, Views>>
    BY <1>3, <1>4 DEF Posted, Views
  <1>7. UNCHANGED <<Places, server>>
    BY Seats DEF FromClients, serverVars, tableVars
  <1>8. cs \in SUBSET (1..MaxConns)
    BY MembersIn
  <1> HIDE DEF cs
  <1>9. Rooms!End(cs)
    BY <1>5, <1>6, <1>7 DEF Rooms!End
  <1> QED BY <1>8, <1>9 DEF Rooms!Next

LEMMA ExitEnds ==
  ASSUME IInv, NEW u \in User, Exit(u), FromClients
  PROVE  Rooms!Next
  <1>1. client[u].client_socket # 0 /\ Ends(u, Quits(u))
    BY DEF Exit
  <1> DEFINE x == Quits(u)
  <1>2. /\ x \in Seq(Connection) /\ Rewired(wire, x)
        /\ \A d \in Conns :
             /\ SameDown(x[d], wire[d]) /\ SameEnds(x[d], wire[d]) /\ Opened(x[d], wire[d])
             /\ x[d].said - Talks(x[d].up) = Said(d)
    BY <1>1, QuitsQuiet
  <1>3. Ends(u, x)
    BY <1>1
  <1> HIDE DEF x
  <1> QED BY <1>2, <1>3, EndsEnd

LEMMA KillEnds ==
  ASSUME IInv, NEW u \in User, Ends(u, wire), FromClients
  PROVE  Rooms!Next
  <1>1. wire \in Seq(Connection) /\ Rewired(wire, wire)
    BY DEF IInv, WireInv, Rewired, Opened
  <1>2. \A d \in Conns : /\ SameDown(wire[d], wire[d]) /\ SameEnds(wire[d], wire[d]) /\ Opened(wire[d], wire[d])
                         /\ wire[d].said - Talks(wire[d].up) = Said(d)
    BY SaidTalks DEF SameDown, SameEnds, Opened
  <1> QED BY <1>1, <1>2, EndsEnd

LEMMA quit_channelMaps ==
  ASSUME IInv, NEW u \in User, quit_channel(u), FromClients
  PROVE  Rooms!Next \/ UNCHANGED Rooms!vars
  <1>1. PICK c : c = client[u].client_socket
    OBVIOUS
  <1>2. c # 0
    BY <1>1 DEF quit_channel
  <1>3. /\ c \in Conns /\ wire \in Seq(Connection) /\ client[u].client_socket # 0
        /\ wire[c].down # <<>> => Head(wire[c].down) \in Message
    BY <1>1, <1>2, Joined
  <1> DEFINE x == Quits(u)
  <1>4. /\ x \in Seq(Connection) /\ Rewired(wire, x)
        /\ \A d \in Conns :
             /\ SameDown(x[d], wire[d]) /\ SameEnds(x[d], wire[d]) /\ Opened(x[d], wire[d])
             /\ x[d].said - Talks(x[d].up) = Said(d)
    BY <1>3, QuitsQuiet
  <1>5. \/ wire' = x \/ (wire[c].down # <<>> /\ wire' = Displayed(x, c))
        \/ Ends(u, wire)
    BY <1>1 DEF quit_channel
  <1> HIDE DEF x
  <1>6. CASE Ends(u, wire)
    BY <1>6, KillEnds
  <1>7. CASE wire' = x \/ (wire[c].down # <<>> /\ wire' = Displayed(x, c))
    <2>1. Rewired(wire, wire') /\ \A d \in Conns : Quiet(d)
      BY <1>3, <1>4, <1>7, DisplayedQuiet
    <2> QED BY <2>1, ClientSilent
  <1> QED BY <1>5, <1>6, <1>7

(* A connection is opened, with nothing said or sent on it.                *)
LEMMA join_channelSilent ==
  ASSUME IInv, NEW u \in User, NEW name \in Name, join_channel(u, name), FromClients
  PROVE  UNCHANGED Rooms!vars
  <1> DEFINE f == Fresh(u, name)
  <1>1. PICK n : n = Len(wire) + 1
    OBVIOUS
  <1>2. /\ wire \in Seq(Connection) /\ Len(wire) \in Nat /\ n \in Nat
    BY <1>1, LenProperties DEF IInv, WireInv
  <1>3. f \in Connection
    BY EmptySeq DEF Fresh, Connection
  <1>4. f.up = <<>> /\ f.down = <<>> /\ f.client = "open" /\ f.said = 0 /\ f.heard = <<>>
    BY DEF Fresh
  <1>5. wire' = Append(wire, f)
    BY DEF join_channel, connect
  <1> HIDE DEF f
  <1>6. /\ Len(wire') = n /\ \A d \in 1..n : wire'[d] = IF d = n THEN f ELSE wire[d]
    BY <1>1, <1>2, <1>3, <1>5, Appended
  <1>7. /\ Conns' = Conns \cup {n} /\ n \notin Conns
        /\ \A d \in Conns : wire'[d] = wire[d]
        /\ wire'[n] = f
    BY <1>1, <1>2, <1>6 DEF Conns
  <1>8. \A d \in Conns : Quiet(d)
    BY <1>7, AllQuiet DEF SameUp, SameDown
  <1>9. Said(n)' = 0
    <2>1. Talks(<<>>) = 0
      <3>1. {j \in DOMAIN <<>> : <<>>[j].kind = "msg"} = {}
        OBVIOUS
      <3> QED BY <3>1, FS_EmptySet DEF Talks
    <2> QED BY <1>4, <1>7, <2>1, SaidNow
  <1>10. Messages(n)' = <<>>
    <2>1. Sent(<<>>, <<>>) = <<>>
      BY DEF Sent, Behind
    <2> QED BY <1>4, <1>7, <2>1, MessagesNow
  <1>11. UNCHANGED <<Gone, Posted, Views>>
    <2>1. Gone' = Gone
      BY <1>4, <1>7 DEF Gone
    <2>2. Posted' = Posted
      BY <1>7, <1>8, <1>9 DEF Posted, Quiet
    <2>3. Views' = Views
      BY <1>7, <1>8, <1>10 DEF Views, Quiet
    <2> QED BY <2>1, <2>2, <2>3
  <1>12. UNCHANGED <<Places, server>>
    BY Seats DEF FromClients, serverVars, tableVars
  <1> QED BY <1>11, <1>12 DEF Rooms!vars

-----------------------------------------------------------------------------
(* The server may end in a step that cannot be seen otherwise.             *)
LEMMA Ending ==
  ASSUME server = "up", server' \in {"up", "exited", "killed"}, UNCHANGED <<Places, Gone, Posted, Views>>
  PROVE  Rooms!Next \/ UNCHANGED Rooms!vars
  <1>1. CASE server' = "up"
    BY <1>1 DEF Rooms!vars
  <1>2. CASE server' # "up"
    <2>1. Rooms!Stop
      BY <1>2 DEF Rooms!Stop
    <2> QED BY <2>1 DEF Rooms!Next
  <1> QED BY <1>1, <1>2

(* A join is answered.                                                     *)
LEMMA WriteQuiet ==
  ASSUME wire \in Seq(Connection), NEW w \in Seq(Connection), Rewired(wire, w), NEW c \in Conns,
         \A d \in Conns : /\ SameDown(w[d], wire[d]) /\ SameEnds(w[d], wire[d])
                          /\ w[d].said - Talks(w[d].up) = Said(d),
         wire[c].down = <<>>, wire[c].server = "open",
         NEW kind \in {"accepted", "rejected"}, Write(w, c, [kind |-> kind])
  PROVE  /\ Conns' = Conns /\ \A d \in Conns : Quiet(d)
         /\ server' \in {server, "killed"}
  <1> DEFINE x == Written(w, {c}, [kind |-> kind])
  <1>1. /\ c \in 1..Len(w) /\ Conns = 1..Len(w)
        /\ w[c].down = <<>> /\ w[c].server = "open"
    BY DEF Rewired, Conns, SameDown, SameEnds
  <1>2. /\ Rewired(w, x)
        /\ \A d \in 1..Len(w) :
             /\ SameUp(x[d], w[d])
             /\ d # c => SameDown(x[d], w[d]) /\ SameEnds(x[d], w[d])
        /\ x[c].heard = w[c].heard /\ x[c].server = "open"
        /\ x[c].client = "open" <=> w[c].client = "open"
        /\ IF w[c].client = "open"
             THEN /\ Len(x[c].down) = 1 /\ x[c].down[1].kind = kind /\ x[c].down # <<>>
             ELSE x[c].down = <<>>
        /\ DownShape(x[c].down) /\ \A j \in 1..Len(x[c].down) : x[c].down[j].kind # "msg"
    BY <1>1, Refused, ZenonT(60)
  <1>3. (wire' = x /\ server' = server) \/ (wire' = w /\ server' = "killed")
    BY DEF Write
  <1> HIDE DEF x
  <1>4. CASE wire' = w
    <2>1. Conns' = Conns
      BY <1>4 DEF Rewired, Conns
    <2> QED BY <1>3, <1>4, <2>1, SaidNow, DownQuiet DEF Quiet, SameEnds
  <1>5. CASE wire' = x
    <2>1. Conns' = Conns
      BY <1>1, <1>2, <1>5 DEF Rewired, Conns
    <2>2. ASSUME NEW d \in Conns PROVE Quiet(d)
      <3>1. Said(d)' = Said(d)
        BY <1>1, <1>2, <1>5, SaidNow DEF SameUp
      <3>2. (wire'[d].client = "open") = (wire[d].client = "open")
        BY <1>1, <1>2, <1>5 DEF SameEnds
      <3>3. Messages(d)' = Messages(d)
        <4>1. CASE d # c
          BY <1>1, <1>2, <1>5, <4>1, DownQuiet DEF SameDown
        <4>2. CASE d = c
          <5>1. Len(x[c].down) <= 1
            <6>1. Len(<<>>) = 0
              OBVIOUS
            <6>2. Len(x[c].down) = 1 \/ x[c].down = <<>>
              BY <1>2
            <6>3. PICK n : n = Len(x[c].down)
              OBVIOUS
            <6>4. n \in {0, 1}
              BY <6>1, <6>2, <6>3
            <6>5. n <= 1
              BY <6>4
            <6> QED BY <6>3, <6>5
          <5>2. Sent(x[c].heard, x[c].down) = Sent(x[c].heard, <<>>)
            BY <1>2, <5>1, SentRefused
          <5>3. x[c].heard = wire[c].heard
            BY <1>2 DEF SameDown
          <5> QED BY <1>5, <4>2, <5>2, <5>3, MessagesSent, MessagesNow
        <4> QED BY <4>1, <4>2
      <3> QED BY <3>1, <3>2, <3>3 DEF Quiet
    <2> QED BY <1>3, <1>5, <2>1, <2>2
  <1> QED BY <1>3, <1>4, <1>5

LEMMA add_clientMaps ==
  ASSUME IInv, add_client, FromServer
  PROVE  Rooms!Next \/ UNCHANGED Rooms!vars
  <1>1. PICK c : c = router
    OBVIOUS
  <1> DEFINE w == Reads(wire, c)
  <1>2. /\ router # 0 /\ server = "up" /\ UNCHANGED <<socket_list, client_names>>
        /\ \/ UNCHANGED <<server, wire>>
           \/ wire[c].up # <<>> /\ wire' = w /\ UNCHANGED server
           \/ wire[c].up # <<>> /\ Write(w, c, [kind |-> "rejected"])
    BY <1>1 DEF add_client, tableVars, Reads
  <1>3. /\ wire \in Seq(Connection) /\ c \in Conns /\ c \in 1..Len(wire)
        /\ UpOf(c) /\ DownOf(c) /\ Queued(c)
    <2>1. c = Accepted /\ c # 0 /\ wire \in Seq(Connection) /\ Queued(c)
      BY <1>1, <1>2 DEF IInv, AcceptInv, WireInv, Queued
    <2>2. c \in 1..Len(wire)
      BY <2>1, LenProperties DEF IInv, AcceptInv, Accepted
    <2> QED BY <2>1, <2>2 DEF Conns, IInv, UpInv, DownInv
  <1>4. /\ wire[c].down = <<>> /\ wire[c].server = "open" /\ wire[c].up \in Seq(UpPacket)
        /\ wire[c].up \in {<<>>, <<JoinOf(wire[c])>>}
    BY <1>3, WireAt DEF UpOf, DownOf
  <1>5. ASSUME wire[c].up # <<>>
        PROVE  /\ w \in Seq(Connection) /\ Rewired(wire, w)
               /\ \A d \in Conns : /\ SameDown(w[d], wire[d]) /\ SameEnds(w[d], wire[d])
                                   /\ w[d].said - Talks(w[d].up) = Said(d)
    <2>1. /\ Rewired(wire, w)
          /\ \A d \in Conns :
                    /\ SameDown(w[d], wire[d]) /\ SameEnds(w[d], wire[d]) /\ w[d].said = wire[d].said
                    /\ w[d].up = IF d = c THEN Tail(wire[c].up) ELSE wire[d].up
      BY <1>3, <1>5, WireTaken DEF Conns
    <2> HIDE DEF w
    <2>2. Head(wire[c].up).kind # "msg"
      <3>1. wire[c].up = <<JoinOf(wire[c])>>
        BY <1>4, <1>5
      <3>2. \A j : Head(<<j>>) = j
        OBVIOUS
      <3> QED BY <3>1, <3>2 DEF JoinOf
    <2>3. Talks(Tail(wire[c].up)) = Talks(wire[c].up)
      BY <1>4, <1>5, <2>2, TalksShortened
    <2>4. ASSUME NEW d \in Conns PROVE w[d].said - Talks(w[d].up) = Said(d)
      <3>1. Talks(w[d].up) = Talks(wire[d].up)
        BY <2>1, <2>3
      <3> QED BY <2>1, <3>1, SaidTalks
    <2> QED BY <2>1, <2>4 DEF Rewired
  <1> HIDE DEF w
  <1>6. CASE UNCHANGED <<server, wire>>
    BY <1>2, <1>6, ServerSilent
  <1>7. CASE wire[c].up # <<>> /\ wire' = w /\ UNCHANGED server
    <2>1. Conns' = Conns
      BY <1>5, <1>7 DEF Rewired, Conns
    <2>2. \A d \in Conns : Quiet(d)
      BY <1>5, <1>7, SaidNow, DownQuiet DEF Quiet, SameEnds
    <2> QED BY <1>2, <1>7, <2>1, <2>2, Silent
  <1>8. CASE wire[c].up # <<>> /\ Write(w, c, [kind |-> "rejected"])
    <2>1. /\ Conns' = Conns /\ \A d \in Conns : Quiet(d)
          /\ server' \in {server, "killed"}
      BY <1>3, <1>4, <1>5, <1>8, WriteQuiet
    <2>2. UNCHANGED <<Places, Gone, Posted, Views>>
      BY <1>2, <2>1, Silence, Seats
    <2> QED BY <1>2, <2>1, <2>2, Ending
  <1> QED BY <1>2, <1>6, <1>7, <1>8

(* A connection comes to a channel.                                        *)
LEMMA Coming ==
  ASSUME RowsFit, IInv, NEW k \in Channel, channel_pipes[k] # <<>>, Head(channel_pipes[k]).item = "add",
         NEW c, c = Head(channel_pipes[k]).conn
  PROVE  /\ c \in Conns /\ c \in 1..MaxConns /\ ~Seated(c) /\ Head(channel_pipes[k]).name \in User
         /\ wire[c].down = <<>> /\ wire[c].server = "open"
         /\ current_clients[k] \in Row
  <1>1. channel_pipes[k] \in Seq(Items) /\ Increasing(channel_pipes[k])
    BY DEF IInv, RouterInv, PipeInv
  <1>2. c \in Piped(k) /\ Head(channel_pipes[k]).name \in User
    BY <1>1, ItemTaken DEF Piped
  <1>3. /\ wire \in Seq(Connection) /\ Len(wire) \in Nat /\ Len(wire) <= MaxConns
        /\ Accepted <= Len(wire) /\ Accepted \in Nat
    BY LenProperties DEF IInv, WireInv, AcceptInv, Accepted
  <1>4. /\ c \in 1..Accepted /\ c > current_clients[k] /\ current_clients[k] \in Nat
    BY <1>2 DEF IInv, PipeInv, TableInv
  <1>5. MAX_CLIENTS \in Nat /\ MaxConns \in Nat /\ MaxConns <= MAX_CLIENTS
    BY ServerAssumption, SocketsAssumption DEF RowsFit
  <1>6. c \in Conns /\ c \in 1..MaxConns /\ current_clients[k] \in Row
    BY <1>3, <1>4, <1>5 DEF Conns, Row
  <1>7. InPipe(c)
    BY <1>2 DEF InPipe
  <1>8. ~Seated(c)
    BY <1>6, <1>7, OnePlace
  <1>9. wire[c].down = <<>> /\ wire[c].server = "open"
    BY <1>6, <1>7 DEF IInv, DownInv, DownOf
  <1> QED BY <1>2, <1>6, <1>8, <1>9

LEMMA process_add_clientMaps ==
  ASSUME RowsFit, IInv, NEW k \in Channel, process_add_client(k), FromServer
  PROVE  Rooms!Next \/ UNCHANGED Rooms!vars
  <1>1. PICK a : a = Head(channel_pipes[k])
    OBVIOUS
  <1>2. PICK x : x = Cell(k, current_clients[k])
    OBVIOUS
  <1>3. PICK c : c = a.conn
    OBVIOUS
  <1>4. server = "up" /\ channel_pipes[k] # <<>> /\ Head(channel_pipes[k]).item = "add"
    BY DEF process_add_client, Item
  <1>5. \/ /\ Write(wire, c, [kind |-> "rejected"])
           /\ UNCHANGED <<socket_list, client_names>>
        \/ /\ ~Taken(k, a.name)
           /\ Write(wire, c, [kind |-> "accepted"])
           /\ socket_list' = [socket_list EXCEPT ![x] = c]
           /\ client_names' = [client_names EXCEPT ![x] = a.name]
    BY <1>1, <1>2, <1>3 DEF process_add_client, tableVars
  <1>6. /\ c \in Conns /\ c \in 1..MaxConns /\ ~Seated(c) /\ a.name \in User
        /\ wire[c].down = <<>> /\ wire[c].server = "open"
        /\ current_clients[k] \in Row
    BY <1>1, <1>3, <1>4, Coming
  <1>7. wire \in Seq(Connection) /\ Rewired(wire, wire)
    BY DEF IInv, WireInv, Rewired, Opened
  <1>8. \A d \in Conns : /\ SameDown(wire[d], wire[d]) /\ SameEnds(wire[d], wire[d])
                         /\ wire[d].said - Talks(wire[d].up) = Said(d)
    BY SaidTalks DEF SameDown, SameEnds
  <1>9. ASSUME NEW kind \in {"accepted", "rejected"}, Write(wire, c, [kind |-> kind])
        PROVE  /\ UNCHANGED <<Gone, Posted, Views>>
               /\ server' \in {server, "killed"}
    <2>1. /\ Conns' = Conns /\ \A d \in Conns : Quiet(d)
          /\ server' \in {server, "killed"}
      BY <1>6, <1>7, <1>8, <1>9, WriteQuiet
    <2> QED BY <2>1, Silence
  <1>10. CASE Write(wire, c, [kind |-> "rejected"]) /\ UNCHANGED <<socket_list, client_names>>
    BY <1>4, <1>9, <1>10, Seats, Ending
  <1>11. CASE /\ ~Taken(k, a.name)
              /\ Write(wire, c, [kind |-> "accepted"])
              /\ socket_list' = [socket_list EXCEPT ![x] = c]
              /\ client_names' = [client_names EXCEPT ![x] = a.name]
    <2>1. UNCHANGED <<Gone, Posted, Views>> /\ server' \in {server, "killed"}
      BY <1>9, <1>11
    <2>2. Held(c) = {} /\ Places[c] = Nowhere
      <3>1. c # 0 /\ c # -1
        BY <1>6, SocketsAssumption
      <3> QED BY <1>6, <3>1, HoldsNone, PlaceOutside DEF Places
    <2>3. /\ x \in Cells /\ socket_list[x] = 0 /\ x \div MAX_CLIENTS = k
          /\ socket_list \in [Cells -> {-1, 0} \cup Nat] /\ client_names \in [Cells -> User \cup {NoName}]
      <3>1. current_clients[k] >= current_clients[k]
        BY <1>6, ServerAssumption DEF Row
      <3> QED BY <1>2, <1>6, <3>1, CellIn, CellRow DEF IInv, TableInv
    <2>4. Places' = [Places EXCEPT ![c] = [room |-> k, name |-> a.name]]
      BY <1>6, <1>11, <2>2, <2>3, PlaceTaken
    <2>5. ASSUME NEW d \in 1..MaxConns PROVE Places[d] # [room |-> k, name |-> a.name]
      <3>1. SUFFICES ASSUME Place(d) = [room |-> k, name |-> a.name] PROVE FALSE
        BY DEF Places
      <3>2. d \in Members(k)
        BY <3>1, RoomOf, Somewhere
      <3>3. PICK i \in Slots(k) : socket_list[Cell(k, i)] = d /\ d # -1
        BY <3>2 DEF Members
      <3>4. Place(d) = [room |-> k, name |-> client_names[Cell(k, i)]]
        BY <3>3, PlaceOf
      <3> QED BY <1>11, <3>1, <3>3, <3>4 DEF Taken
    <2>6. Rooms!TakePlace(c, k, a.name)
      BY <2>1, <2>2, <2>4, <2>5 DEF Rooms!TakePlace
    <2>7. CASE server' = server
      <3>1. Rooms!Enter(c, k, a.name)
        BY <1>4, <2>6, <2>7 DEF Rooms!Enter
      <3> QED BY <1>6, <3>1 DEF Rooms!Next
    <2>8. CASE server' = "killed"
      <3>1. Rooms!Stop
        BY <1>4, <1>6, <2>6, <2>8 DEF Rooms!Stop
      <3> QED BY <3>1 DEF Rooms!Next
    <2> QED BY <2>1, <2>7, <2>8
  <1> QED BY <1>5, <1>10, <1>11

(* What the server reads of member c: a message is the next one it said.   *)
LEMMA Reading ==
  ASSUME IInv, NEW k \in Channel, NEW i \in Positions, NEW kind \in {"quit", "msg"}, ReadPacket(k, i, kind),
         NEW c, c = socket_list[Cell(k, i)], NEW w, w = Consumed(c)
  PROVE  /\ i \in Slots(k) /\ c \in Members(k) /\ c \in Conns /\ c # -1
         /\ w \in Seq(Connection) /\ Conns = 1..Len(w) /\ Rewired(wire, w)
         /\ \A d \in Conns : /\ SameDown(w[d], wire[d]) /\ SameEnds(w[d], wire[d])
                             /\ d # c => w[d].said - Talks(w[d].up) = Said(d)
         /\ Said(c) \in Nat
         /\ wire[c].up = <<>> => wire[c].client # "open" /\ w[c].said - Talks(w[c].up) = Said(c)
         /\ wire[c].up # <<>> /\ kind = "quit" => w[c].said - Talks(w[c].up) = Said(c)
         /\ wire[c].up # <<>> /\ kind = "msg" =>
              /\ Head(wire[c].up).n = Said(c) + 1
              /\ w[c].said - Talks(w[c].up) = Said(c) + 1
  <1>1. /\ i \in Slots(k) /\ c \in Members(k) /\ c \in Conns /\ c \in 1..Len(wire) /\ c # -1
        /\ wire \in Seq(Connection)
        /\ Rewired(wire, w)
        /\ \A d \in Conns :
             /\ SameDown(w[d], wire[d]) /\ SameEnds(w[d], wire[d]) /\ w[d].said = wire[d].said
             /\ d # c => w[d].up = wire[d].up
        /\ w[c].up = IF wire[c].up = <<>> THEN <<>> ELSE Tail(wire[c].up)
        /\ wire[c].up = <<>> => wire[c].client # "open"
        /\ wire[c].up # <<>> => Head(wire[c].up).kind = kind
    BY PacketRead
  <1>2. \E m \in 0..Len(wire[c].up) :
              /\ UpShape(wire[c].up, m, wire[c].said)
              /\ wire[c].up # <<>> /\ kind = "msg" =>
                   /\ m > 0 /\ Head(wire[c].up) = [kind |-> "msg", n |-> wire[c].said - m + 1]
                   /\ UpShape(w[c].up, m - 1, w[c].said)
              /\ wire[c].up # <<>> /\ kind = "quit" => m = 0 /\ UpShape(w[c].up, 0, w[c].said)
    BY PacketRead
  <1>3. PICK m :
              /\ UpShape(wire[c].up, m, wire[c].said)
              /\ wire[c].up # <<>> /\ kind = "msg" =>
                   Head(wire[c].up) = [kind |-> "msg", n |-> wire[c].said - m + 1]
    BY <1>2
  <1>4. wire[c].up \in Seq(UpPacket) /\ wire[c].said \in Nat
    BY <1>1, WireAt
  <1>5. PICK s \in Nat : s = wire[c].said
    BY <1>4
  <1>6. m \in Nat /\ Talks(wire[c].up) = m /\ m <= s
    BY <1>3, <1>4, <1>5, UpCounted DEF Talks
  <1>7. Said(c) = s - m /\ Said(c) \in Nat /\ w[c].said = s
    BY <1>1, <1>5, <1>6, SaidTalks
  <1>8. ASSUME NEW d \in Conns, d # c PROVE w[d].said - Talks(w[d].up) = Said(d)
    BY <1>1, <1>8, SaidTalks
  <1>9. wire[c].up = <<>> => w[c].said - Talks(w[c].up) = Said(c)
    BY <1>1, SaidTalks
  <1>10. ASSUME wire[c].up # <<>>, kind = "quit" PROVE w[c].said - Talks(w[c].up) = Said(c)
    <2>1. Head(wire[c].up).kind # "msg" /\ w[c].up = Tail(wire[c].up)
      BY <1>1, <1>10
    <2>2. Talks(w[c].up) = Talks(wire[c].up)
      BY <1>4, <1>10, <2>1, TalksShortened
    <2> QED BY <1>1, <2>2, SaidTalks
  <1>11. ASSUME wire[c].up # <<>>, kind = "msg"
         PROVE  Head(wire[c].up).n = Said(c) + 1 /\ w[c].said - Talks(w[c].up) = Said(c) + 1
    <2>1. Head(wire[c].up).kind = "msg" /\ w[c].up = Tail(wire[c].up)
      BY <1>1, <1>11
    <2>2. m = Talks(w[c].up) + 1 /\ Talks(w[c].up) \in Nat
      BY <1>4, <1>6, <1>11, <2>1, TalksShortened
    <2>3. PICK t \in Nat : t = Talks(w[c].up)
      BY <2>2
    <2>4. m = t + 1
      BY <2>2, <2>3
    <2>5. s - t = (s - m) + 1
      BY <2>4
    <2>6. Head(wire[c].up).n = s - m + 1
      BY <1>3, <1>5, <1>11
    <2> QED BY <1>7, <2>3, <2>5, <2>6
  <1>12. w \in Seq(Connection) /\ Conns = 1..Len(w)
    BY <1>1 DEF Rewired, Conns
  <1> QED BY <1>1, <1>7, <1>8, <1>9, <1>10, <1>11, <1>12

(* A member leaves.                                                        *)
LEMMA process_client_quitMaps ==
  ASSUME IInv, NEW k \in Channel, NEW i \in Positions, process_client_quit(k, i), FromServer
  PROVE  Rooms!Next
  <1>1. PICK x : x = Cell(k, i)
    OBVIOUS
  <1>2. PICK c : c = socket_list[x]
    OBVIOUS
  <1>3. PICK w : w = Consumed(c)
    OBVIOUS
  <1>4. /\ ReadPacket(k, i, "quit") /\ wire' = Closes(w, c)
        /\ client_names' = [client_names EXCEPT ![x] = NoName]
        /\ socket_list' = [socket_list EXCEPT ![x] = -1]
        /\ UNCHANGED server
    BY <1>1, <1>2, <1>3 DEF process_client_quit, Closes
  <1>5. /\ i \in Slots(k) /\ c \in Members(k) /\ c \in Conns /\ c # -1
        /\ w \in Seq(Connection) /\ Conns = 1..Len(w) /\ Rewired(wire, w)
        /\ \A d \in Conns : /\ SameDown(w[d], wire[d]) /\ SameEnds(w[d], wire[d])
                            /\ w[d].said - Talks(w[d].up) = Said(d)
    BY <1>1, <1>2, <1>3, <1>4, Reading
  <1>6. /\ Rewired(w, wire')
        /\ \A d \in Conns :
             /\ SameUp(wire'[d], w[d]) /\ SameDown(wire'[d], w[d]) /\ wire'[d].client = w[d].client
    BY <1>4, <1>5, WireClosed
  <1>7. Conns' = Conns
    BY <1>5, <1>6 DEF Rewired, Conns
  <1>8. ASSUME NEW d \in Conns PROVE Quiet(d)
    <2>1. Said(d)' = Said(d)
      BY <1>5, <1>6, SaidNow DEF SameUp
    <2>2. SameDown(wire'[d], wire[d]) /\ wire'[d].client = wire[d].client
      BY <1>5, <1>6 DEF SameDown, SameEnds
    <2> QED BY <2>1, <2>2, DownQuiet DEF Quiet
  <1>9. UNCHANGED <<Gone, Posted, Views>>
    BY <1>7, <1>8, Silence
  <1>10. c \in 1..MaxConns /\ Places[c] # Nowhere
    BY <1>5, OthersOf
  <1>11. Held(c) = {x} /\ x \in Cells
    BY <1>1, <1>2, <1>5, Holds
  <1>12. /\ socket_list \in [Cells -> {-1, 0} \cup Nat]
         /\ client_names \in [Cells -> User \cup {NoName}]
    BY DEF IInv, TableInv
  <1>13. Places' = [Places EXCEPT ![c] = Nowhere]
    BY <1>4, <1>10, <1>11, <1>12, PlaceLeft
  <1>14. server = "up"
    BY <1>4 DEF ReadPacket
  <1>15. Rooms!Leave(c)
    BY <1>4, <1>9, <1>10, <1>13, <1>14 DEF Rooms!Leave
  <1> QED BY <1>10, <1>15 DEF Rooms!Next

(* A message is written to cs: those still there are sent it.              *)
LEMMA Broadcast ==
  ASSUME IInv, NEW w \in Seq(Connection), Conns = 1..Len(w),
         \A d \in Conns : SameDown(w[d], wire[d]) /\ SameEnds(w[d], wire[d]),
         NEW cs \in SUBSET Conns, \A d \in cs : wire[d].server = "open",
         NEW msg \in Message, wire' = Written(w, cs, msg)
  PROVE  /\ Conns' = Conns /\ Gone' = Gone
         /\ \A d \in Conns :
              /\ Said(d)' = w[d].said - Talks(w[d].up)
              /\ Messages(d)' = IF d \in cs /\ wire[d].client = "open"
                                  THEN Append(Messages(d), Seen(msg)) ELSE Messages(d)
  <1> DEFINE x == Written(w, cs, msg)
  <1>1. /\ Rewired(w, x)
        /\ \A d \in 1..Len(w) :
             /\ SameUp(x[d], w[d]) /\ x[d].heard = w[d].heard
             /\ x[d].client = "open" <=> w[d].client = "open"
             /\ x[d].down = IF d \in cs /\ w[d].server = "open" /\ w[d].client = "open"
                              THEN Append(w[d].down, msg) ELSE w[d].down
    BY WireWritten
  <1>2. wire' = x
    OBVIOUS
  <1> HIDE DEF x
  <1>3. Conns' = Conns
    BY <1>1, <1>2 DEF Rewired, Conns
  <1>4. Gone' = Gone
    BY <1>1, <1>2, <1>3 DEF Gone, SameEnds
  <1>5. ASSUME NEW d \in Conns
        PROVE  /\ Said(d)' = w[d].said - Talks(w[d].up)
               /\ Messages(d)' = IF d \in cs /\ wire[d].client = "open"
                                   THEN Append(Messages(d), Seen(msg)) ELSE Messages(d)
    <2>1. d \in 1..Len(w)
      OBVIOUS
    <2>2. Said(d)' = w[d].said - Talks(w[d].up)
      BY <1>1, <1>2, <2>1, SaidNow DEF SameUp
    <2>3. CASE d \in cs /\ wire[d].client = "open"
      <3>1. wire'[d].down = Append(wire[d].down, msg) /\ wire'[d].heard = wire[d].heard
        BY <1>1, <1>2, <2>1, <2>3 DEF SameDown, SameEnds
      <3>2. wire[d].heard \in Seq(Message) /\ DownShape(wire[d].down)
        BY WireAt DEF IInv, WireInv, DownInv, DownOf, Conns
      <3>3. Sent(wire[d].heard, Append(wire[d].down, msg)) = Append(Sent(wire[d].heard, wire[d].down), Seen(msg))
        BY <3>2, SentMore
      <3>4. Messages(d)' = Append(Messages(d), Seen(msg))
        BY <3>1, <3>3, MessagesSent, MessagesNow
      <3> QED BY <2>2, <2>3, <3>4
    <2>4. CASE ~(d \in cs /\ wire[d].client = "open")
      <3>1. SameDown(wire'[d], wire[d])
        BY <1>1, <1>2, <2>1, <2>4 DEF SameDown, SameEnds
      <3>2. Messages(d)' = Messages(d)
        BY <3>1, DownQuiet
      <3> QED BY <2>2, <2>4, <3>2
    <2> QED BY <2>3, <2>4
  <1> QED BY <1>3, <1>4, <1>5

(* Member c's message is sent to those of cs that are still there.         *)
LEMMA Spoke ==
  ASSUME IInv, NEW k \in Channel, NEW c \in Members(k),
         NEW w \in Seq(Connection), Conns = 1..Len(w),
         \A d \in Conns : SameDown(w[d], wire[d]) /\ SameEnds(w[d], wire[d]),
         \A d \in Conns : d # c => w[d].said - Talks(w[d].up) = Said(d),
         NEW n, NEW msg \in Message, Seen(msg) = [from |-> c, n |-> n],
         \/ n = 0 /\ wire[c].client # "open" /\ w[c].said - Talks(w[c].up) = Said(c)
         \/ n = Said(c) + 1 /\ Said(c) \in Nat /\ w[c].said - Talks(w[c].up) = Said(c) + 1,
         NEW cs \in SUBSET (Members(k) \ {c}),
         wire' = Written(w, cs, msg),
         UNCHANGED <<socket_list, client_names>>
  PROVE  Rooms!Speak(c, {d \in cs : wire[d].client = "open"})
  <1>1. c \in Conns
    BY MembersIn
  <1>2. cs \in SUBSET Conns /\ \A d \in cs : wire[d].server = "open"
    <2>1. cs \subseteq Conns
      BY MembersIn
    <2>2. \A d \in cs : Seated(d)
      BY DEF Seated
    <2> QED BY <2>1, <2>2 DEF IInv, DownInv, DownOf
  <1>3. /\ Conns' = Conns /\ Gone' = Gone
        /\ \A d \in Conns :
              /\ Said(d)' = w[d].said - Talks(w[d].up)
              /\ Messages(d)' = IF d \in cs /\ wire[d].client = "open"
                                  THEN Append(Messages(d), Seen(msg)) ELSE Messages(d)
    BY <1>2, Broadcast
  <1>4. PICK ds : ds = {d \in cs : wire[d].client = "open"}
    OBVIOUS
  <1>5. PICK v : v = [from |-> c, n |-> n] /\ v = Seen(msg)
    OBVIOUS
  <1>6. Conns \subseteq 1..MaxConns /\ c \in 1..MaxConns
    BY <1>1, MembersIn
  <1>7. Views' = [d \in 1..MaxConns |-> IF d \in ds THEN Append(Views[d], v) ELSE Views[d]]
    <2>1. \A d \in Conns : Messages(d)' = IF d \in ds THEN Append(Messages(d), v) ELSE Messages(d)
      BY <1>3, <1>4, <1>5
    <2>2. ds \subseteq Conns
      BY <1>2, <1>4
    <2>3. Conns' = Conns
      BY <1>3
    <2> QED BY <1>6, <2>1, <2>2, <2>3 DEF Views
  <1>8. Posted[c] = Said(c)
    BY <1>1, <1>6 DEF Posted
  <1>9. /\ n \in {0, Posted[c] + 1}
        /\ n = 0 => c \in Gone
        /\ Posted' = IF n = 0 THEN Posted ELSE [Posted EXCEPT ![c] = n]
    <2>1. CASE n = 0 /\ wire[c].client # "open" /\ w[c].said - Talks(w[c].up) = Said(c)
      <3>1. \A d \in Conns : Said(d)' = Said(d)
        BY <1>1, <1>3, <2>1
      <3>2. Posted' = Posted
        BY <1>3, <3>1 DEF Posted
      <3> QED BY <1>1, <2>1, <3>2 DEF Gone
    <2>2. CASE n = Said(c) + 1 /\ Said(c) \in Nat /\ w[c].said - Talks(w[c].up) = Said(c) + 1
      <3>1. n = Said(c) + 1 /\ n # 0 /\ Said(c)' = n
        BY <1>1, <1>3, <2>2
      <3>2. \A d \in Conns : d # c => Said(d)' = Said(d)
        BY <1>1, <1>3
      <3>3. Posted' = [Posted EXCEPT ![c] = n]
        BY <1>1, <1>3, <1>6, <3>1, <3>2 DEF Posted
      <3> QED BY <1>8, <3>1, <3>3
    <2> QED BY <2>1, <2>2
  <1>10. Places' = Places /\ Places[c] # Nowhere
    BY <1>1, Seats, OthersOf
  <1>11. Rooms!Speak(c, ds)
    BY <1>3, <1>5, <1>7, <1>9, <1>10 DEF Rooms!Speak
  <1> QED BY <1>4, <1>11

LEMMA process_incoming_messageMaps ==
  ASSUME IInv, NEW k \in Channel, NEW i \in Positions, process_incoming_message(k, i), FromServer
  PROVE  Rooms!Next
  <1>1. PICK c : c = socket_list[Cell(k, i)]
    OBVIOUS
  <1>2. PICK n : n = IF wire[c].up = <<>> THEN 0 ELSE Head(wire[c].up).n
    OBVIOUS
  <1>3. PICK msg : msg = [kind |-> "msg", from |-> c, n |-> n]
    OBVIOUS
  <1>4. PICK w : w = Consumed(c)
    OBVIOUS
  <1>5. current_clients[k] \in Nat
    BY DEF IInv, TableInv
  <1>6. ReadPacket(k, i, "msg") /\ UNCHANGED <<socket_list, client_names>> /\ server = "up"
    BY DEF process_incoming_message, ReadPacket
  <1>7. msg \in Message
    BY <1>1, <1>2, <1>3, <1>6, Numbered DEF Message
  <1>8. /\ c \in Members(k)
        /\ w \in Seq(Connection) /\ Conns = 1..Len(w)
        /\ \A d \in Conns : SameDown(w[d], wire[d]) /\ SameEnds(w[d], wire[d])
        /\ \A d \in Conns : d # c => w[d].said - Talks(w[d].up) = Said(d)
        /\ \/ n = 0 /\ wire[c].client # "open" /\ w[c].said - Talks(w[c].up) = Said(c)
           \/ n = Said(c) + 1 /\ Said(c) \in Nat /\ w[c].said - Talks(w[c].up) = Said(c) + 1
    <2>1. /\ c \in Members(k) /\ c \in Conns
          /\ w \in Seq(Connection) /\ Conns = 1..Len(w)
          /\ \A d \in Conns : /\ SameDown(w[d], wire[d]) /\ SameEnds(w[d], wire[d])
                              /\ d # c => w[d].said - Talks(w[d].up) = Said(d)
          /\ Said(c) \in Nat
          /\ wire[c].up = <<>> => wire[c].client # "open" /\ w[c].said - Talks(w[c].up) = Said(c)
          /\ wire[c].up # <<>> =>
               /\ Head(wire[c].up).n = Said(c) + 1
               /\ w[c].said - Talks(w[c].up) = Said(c) + 1
      BY <1>1, <1>4, <1>6, Reading
    <2>2. CASE wire[c].up = <<>>
      BY <1>2, <2>1, <2>2
    <2>3. CASE wire[c].up # <<>>
      BY <1>2, <2>1, <2>3
    <2> QED BY <2>2, <2>3
  <1>9. /\ Rooms!Others(c) = {d \in Members(k) \ {c} : wire[d].client = "open"}
        /\ c \in 1..MaxConns
    BY <1>8, OthersOf
  <1>10. \/ wire' = Written(w, Targets(k, c, current_clients[k]), msg) /\ server' = server
         \/ \E j \in Slots(k) : wire' = Written(w, Targets(k, c, j), msg) /\ server' = "killed"
    BY <1>1, <1>2, <1>3, <1>4 DEF process_incoming_message
  <1>11. ASSUME NEW cs \in SUBSET (Members(k) \ {c}), wire' = Written(w, cs, msg)
         PROVE  Rooms!Speak(c, {d \in cs : wire[d].client = "open"})
    <2>1. Seen(msg) = [from |-> c, n |-> n]
      BY <1>3 DEF Seen
    <2> QED BY <1>6, <1>7, <1>8, <1>11, <2>1, Spoke
  <1>12. CASE wire' = Written(w, Targets(k, c, current_clients[k]), msg) /\ server' = server
    <2>1. Targets(k, c, current_clients[k]) = Members(k) \ {c}
      BY DEF Targets, Members, Slots
    <2>2. Rooms!Speak(c, Rooms!Others(c))
      BY <1>9, <1>11, <1>12, <2>1
    <2>3. Rooms!Post(c)
      BY <1>6, <1>12, <2>2 DEF Rooms!Post
    <2> QED BY <1>9, <2>3 DEF Rooms!Next
  <1>13. CASE \E j \in Slots(k) : wire' = Written(w, Targets(k, c, j), msg) /\ server' = "killed"
    <2>1. PICK j \in Slots(k) : wire' = Written(w, Targets(k, c, j), msg) /\ server' = "killed"
      BY <1>13
    <2>2. PICK cs : cs = Targets(k, c, j)
      OBVIOUS
    <2>3. cs \in SUBSET (Members(k) \ {c})
      <3>1. 0..(j - 1) \subseteq Slots(k)
        BY <1>5 DEF Slots
      <3> QED BY <2>2, <3>1 DEF Targets, Members
    <2>4. PICK ds : ds = {d \in cs : wire[d].client = "open"}
      OBVIOUS
    <2>5. Rooms!Speak(c, ds)
      BY <1>11, <2>1, <2>2, <2>3, <2>4
    <2>6. ds \in SUBSET Rooms!Others(c)
      BY <1>9, <2>3, <2>4
    <2>7. Rooms!Stop
      BY <1>6, <1>9, <2>1, <2>5, <2>6 DEF Rooms!Stop
    <2> QED BY <2>7 DEF Rooms!Next
  <1> QED BY <1>10, <1>12, <1>13

-----------------------------------------------------------------------------
(* The first states, and every step.                                       *)
LEMMA InitMaps ==
  ASSUME Init
  PROVE  Rooms!Init
  <1>1. Conns = {}
    <2>1. Len(wire) = 0
      BY DEF Init, SocketsInit
    <2> QED BY <2>1 DEF Conns
  <1>2. Gone = {} /\ Posted = [c \in 1..MaxConns |-> 0] /\ Views = [c \in 1..MaxConns |-> <<>>]
    BY <1>1 DEF Gone, Posted, Views
  <1>3. server = "up"
    BY DEF Init, ServerInit
  <1>4. Places = [c \in 1..MaxConns |-> Nowhere]
    <2>1. \A c \in 1..MaxConns : Held(c) = {}
      BY SocketsAssumption DEF Held, Init, ServerInit
    <2> QED BY <2>1, PlaceNone DEF Places
  <1> QED BY <1>2, <1>3, <1>4 DEF Rooms!Init

Maps == Rooms!Next \/ UNCHANGED Rooms!vars

LEMMA StepMaps ==
  ASSUME RowsFit, IInv, [Next]_vars
  PROVE  Maps
  <1> USE DEF Maps
  <1>1. CASE UNCHANGED vars
    BY <1>1, ServerSilent DEF vars, serverVars, tableVars, socketVars
  <1>2. CASE Next
    <2>1. CASE \E command \in Commands : InputManager(command) /\ FromServer
      BY <2>1, ServerSilent DEF InputManager, tableVars, socketVars
    <2>2. CASE add_channel /\ FromServer
      BY <2>2, ServerSilent DEF add_channel, Command, tableVars, socketVars
    <2>3. CASE channel_close /\ FromServer
      BY <2>3, ServerSilent DEF channel_close, Command, tableVars, socketVars
    <2>4. CASE display_users /\ FromServer
      BY <2>4, ServerSilent DEF display_users, Command, tableVars, socketVars
    <2>5. CASE close_server /\ FromServer
      <3>1. UNCHANGED <<wire, socket_list, client_names>> /\ server = "up" /\ server' = "exited"
        BY <2>5 DEF close_server, Command, tableVars, socketVars
      <3>2. UNCHANGED <<Places, Gone, Posted, Views>>
        BY <3>1, Unheard
      <3> QED BY <3>1, <3>2, Ending
    <2>6. CASE accept_new_client /\ FromServer
      BY <2>6, ServerSilent DEF accept_new_client, tableVars
    <2>7. CASE add_client /\ FromServer
      BY <2>7, add_clientMaps
    <2>8. CASE \E k \in Channel : process_add_client(k) /\ FromServer
      BY <2>8, process_add_clientMaps
    <2>9. CASE \E k \in Channel : (CloseItem(k) \/ UsersItem(k)) /\ FromServer
      BY <2>9, ServerSilent DEF CloseItem, UsersItem, tableVars
    <2>10. CASE \E k \in Channel, i \in Positions : process_client_quit(k, i) /\ FromServer
      BY <2>10, process_client_quitMaps
    <2>11. CASE \E k \in Channel, i \in Positions : process_incoming_message(k, i) /\ FromServer
      BY <2>11, process_incoming_messageMaps
    <2>12. CASE \E u \in User, name \in Name : join_channel(u, name) /\ FromClients
      BY <2>12, join_channelSilent
    <2>13. CASE \E u \in User : SendJoin(u) /\ FromClients
      BY <2>13, SendJoinSilent
    <2>14. CASE \E u \in User : Answered(u) /\ FromClients
      BY <2>14, AnsweredSilent
    <2>15. CASE \E u \in User : Say(u) /\ FromClients
      BY <2>15, SaySilent
    <2>16. CASE \E u \in User : check_output_sockets(u) /\ FromClients
      BY <2>16, check_output_socketsSilent
    <2>17. CASE \E u \in User : quit_channel(u) /\ FromClients
      BY <2>17, quit_channelMaps
    <2>18. CASE \E u \in User : Exit(u) /\ FromClients
      BY <2>18, ExitEnds
    <2>19. CASE \E u \in User : Kill(u) /\ FromClients
      BY <2>19, KillEnds DEF Kill
    <2> HIDE DEF Maps
    <2> QED BY <1>2, <2>1, <2>2, <2>3, <2>4, <2>5, <2>6, <2>7, <2>8, <2>9, <2>10, <2>11, <2>12,
               <2>13, <2>14, <2>15, <2>16, <2>17, <2>18, <2>19 DEF Next
  <1> QED BY <1>1, <1>2

(* The chat is the abstract one: a message the server takes from a member  *)
(* goes at once, and once, to every other member of its channel that is    *)
(* still there and to nobody else (process_incoming_message), a name is in *)
(* a channel once (process_add_client), and nothing but a join or a quit   *)
(* changes who is where, whatever is typed, killed or lost meanwhile.      *)
THEOREM ChatImplementsRooms ==
  ASSUME RowsFit
  PROVE  Spec => ImplementsRooms
  <1>1. Init => Rooms!Init
    BY InitMaps
  <1>2. IInv /\ [Next]_vars => [Rooms!Next]_(Rooms!vars)
    BY StepMaps DEF Maps
  <1> QED BY <1>1, <1>2, ChatInvariant, PTL DEF Spec, ImplementsRooms, Rooms!Spec
=============================================================================
