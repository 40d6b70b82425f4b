------------------------------ MODULE ChatRooms ------------------------------
(***************************************************************************)
(* What the chat promises (LinuxAssign3/README.txt): "anyone who is in the *)
(* same channel will be able to chat with that user and will not hear chat *)
(* from other channels".  A message posted in a room reaches every other   *)
(* member that is still there, at once and once; nothing else is sent to   *)
(* anyone.  Members are connections under a user name, and a name is in a  *)
(* room only once.                                                         *)
(***************************************************************************)
EXTENDS Integers, Sequences

CONSTANTS
  Conn,           \* the connections
  Room, User,
  Outside         \* in no room

VARIABLES
  place,          \* [room, name] of each connection, or Outside
  gone,           \* connections whose process has ended
  posted,         \* the number of messages posted by each
  view,           \* the messages sent to each, in order
  open            \* FALSE once the server has ended

vars == <<place, gone, posted, view, open>>

Init ==
  /\ place = [c \in Conn |-> Outside] /\ gone = {} /\ open = TRUE
  /\ posted = [c \in Conn |-> 0] /\ view = [c \in Conn |-> <<>>]

TakePlace(c, r, u) ==
  /\ place[c] = Outside
  /\ \A d \in Conn : place[d] # [room |-> r, name |-> u]
  /\ place' = [place EXCEPT ![c] = [room |-> r, name |-> u]]
  /\ UNCHANGED <<gone, posted, view>>

Enter(c, r, u) == open /\ TakePlace(c, r, u) /\ UNCHANGED open

Leave(c) ==
  /\ open /\ place[c] # Outside
  /\ place' = [place EXCEPT ![c] = Outside]
  /\ UNCHANGED <<gone, posted, view, open>>

End(cs) == gone' = gone \cup cs /\ UNCHANGED <<place, posted, view, open>>

(* Those a message of c is for.                                            *)
Others(c) ==
  IF place[c] = Outside THEN {}
  ELSE {d \in Conn \ (gone \cup {c}) :
          place[d] # Outside /\ place[d].room = place[c].room}

(* Member c's next message reaches ds.  The one exception: a member that   *)
(* has gone may be heard saying something nobody said, numbered 0.         *)
Speak(c, ds) ==
  /\ place[c] # Outside
  /\ \E n \in {0, posted[c] + 1} :
       /\ n = 0 => c \in gone
       /\ posted' = IF n = 0 THEN posted ELSE [posted EXCEPT ![c] = n]
       /\ view' = [d \in Conn |-> IF d \in ds THEN Append(view[d], [from |-> c, n |-> n])
                                             ELSE view[d]]
  /\ UNCHANGED <<place, gone>>

Post(c) == open /\ Speak(c, Others(c)) /\ UNCHANGED open

(* The server ends, by command or in the middle of something.              *)
Stop ==
  /\ open /\ open' = FALSE
  /\ \/ UNCHANGED <<place, gone, posted, view>>
     \/ \E c \in Conn : \/ \E ds \in SUBSET Others(c) : Speak(c, ds)
                        \/ \E r \in Room, u \in User : TakePlace(c, r, u)

Next ==
  \/ \E c \in Conn : \/ Leave(c) \/ Post(c)
                     \/ \E r \in Room, u \in User : Enter(c, r, u)
  \/ \E cs \in SUBSET Conn : End(cs)
  \/ Stop

Spec == Init /\ [][Next]_vars
=============================================================================
