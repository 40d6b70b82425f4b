----------------------------- MODULE ChatClient -----------------------------
(***************************************************************************)
(* The chat clients (LinuxAssign3/client), one process for each user: the  *)
(* select loop of SystemRouter.cpp, which takes the user's commands from   *)
(* the InputManager thread's pipe and messages from one socket.            *)
(*                                                                         *)
(* A command is taken when its handler runs; /log changes nothing here.    *)
(* The clients are followed while the server is up.                        *)
(***************************************************************************)
EXTENDS ChatSockets

CONSTANTS
  MaxSaid,        \* bound: messages said on one connection
  MaxUp           \* bound: packets on their way when the user leaves again

ASSUME ClientAssumption == MaxSaid \in Nat /\ MaxUp \in Nat

VARIABLE client   \* the statics of each process, and the locals of its join

(* "asking" is the connection join_channel is using, or 0; "asked" whether *)
(* the join packet is on it.  client_socket is 0, the terminal, at first.  *)
Launched == [in_channel |-> FALSE, client_socket |-> 0, asking |-> 0, asked |-> FALSE]

ClientInit == client = [u \in User |-> Launched]

Listens(u) == client[u].asking = 0       \* in select, not in a join

(* Of a /join inside a channel the name stays in the pipe: not modelled.   *)
join_channel(u, name) ==
  /\ Listens(u) /\ ~client[u].in_channel
  /\ connect(u, name)
  /\ client' = [client EXCEPT ![u].asking = Len(wire) + 1]

SendJoin(u) ==
  LET c == client[u].asking
  IN  /\ ~Listens(u) /\ ~client[u].asked
      /\ wire' = Sends(wire, c, [kind |-> "join", channel |-> wire[c].room, name |-> u])
      /\ client' = [client EXCEPT ![u].asked = TRUE]
      /\ UNCHANGED backlog

(* The rest of join_channel, which has been waiting in read_packet; a      *)
(* rejected connection is left open and forgotten.                         *)
AnsweredAny(u) ==                \* slip: the code of the answer is not checked
  LET c == client[u].asking
  IN  /\ client[u].asked /\ wire[c].down # <<>>
      /\ wire' = [wire EXCEPT ![c].down = Tail(@)]
      /\ client' = [client EXCEPT ![u] =
                      [Launched EXCEPT !.in_channel = TRUE, !.client_socket = c]]
      /\ UNCHANGED backlog

Answered(u) ==
  LET c == client[u].asking
  IN  /\ client[u].asked /\ wire[c].down # <<>>
      /\ wire' = [wire EXCEPT ![c].down = Tail(@)]
      /\ client' = [client EXCEPT ![u] =
           IF Head(wire[c].down).kind = "accepted"
             THEN [Launched EXCEPT !.in_channel = TRUE, !.client_socket = c]
             ELSE [@ EXCEPT !.asking = 0, !.asked = FALSE]]
      /\ UNCHANGED backlog

Say(u) ==
  LET c == client[u].client_socket
  IN  /\ Listens(u) /\ client[u].in_channel /\ wire[c].said < MaxSaid
      /\ wire' = [Sends(wire, c, [kind |-> "msg", n |-> wire[c].said + 1])
                    EXCEPT ![c].said = @ + 1]
      /\ UNCHANGED <<client, backlog>>

(* display_incoming_message of the next packet on c.                       *)
Displayed(w, c) ==
  [w EXCEPT ![c].down = Tail(@), ![c].heard = Append(@, Head(w[c].down))]

check_output_sockets(u) ==
  LET c == client[u].client_socket
  IN  /\ Listens(u) /\ client[u].in_channel /\ wire[c].down # <<>>
      /\ wire' = Displayed(wire, c)
      /\ UNCHANGED <<client, backlog>>

(* The process ends; started again, it is a new one of the same user.      *)
Ends(u, w) ==
  /\ wire' = Ended(w, u)
  /\ client' = [client EXCEPT ![u] = Launched]
  /\ UNCHANGED backlog

Quits(u) ==                      \* quit_channel's packet, into any last socket
  LET c == client[u].client_socket
  IN  IF c = 0 THEN wire ELSE Sends(wire, c, [kind |-> "quit"])

(* /leave, in a channel or not: the socket is not closed and keeps its     *)
(* place in client_socket.  The round that leaves may still display a      *)
(* message, and a second packet to the socket the server closed may raise  *)
(* SIGPIPE.                                                                *)
quit_channel(u) ==
  LET c == client[u].client_socket
  IN  /\ Listens(u) /\ c # 0
      /\ \/ /\ Len(wire[c].up) < MaxUp
            /\ wire' \in {Quits(u)} \cup
                 (IF client[u].in_channel /\ wire[c].down # <<>>
                    THEN {Displayed(Quits(u), c)} ELSE {})
            /\ client' = [client EXCEPT ![u].in_channel = FALSE]
            /\ UNCHANGED backlog
         \/ wire[c].server = "closed" /\ Ends(u, wire)

(* /exit.                                                                  *)
Exit(u) == Listens(u) /\ client[u].client_socket # 0 /\ Ends(u, Quits(u))

(* The process is killed, in a join or not.                                *)
Kill(u) == client[u] # Launched /\ Ends(u, wire)
=============================================================================
