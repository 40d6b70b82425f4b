-------------------------------- MODULE Chat --------------------------------
(***************************************************************************)
(* The chat of LinuxAssign3: one server and a client for each user.        *)
(***************************************************************************)
EXTENDS ChatServer, ChatClient

CONSTANTS
  Commands,       \* lines typed at the server that are tried
  MayKill         \* whether a client process may be killed

ASSUME KillAssumption == MayKill \in BOOLEAN
ASSUME CommandsAssumption ==
  \A command \in Commands : command.cmd # "exit" => command.name \in Name

vars == <<serverVars, socketVars, client>>

Init == SocketsInit /\ ServerInit /\ ClientInit

Positions == 0..(MaxConns - 1)   \* in a channel's row: one for each join

FromServer == UNCHANGED client
FromClients == server = "up" /\ UNCHANGED serverVars

Next ==
  \/ \E command \in Commands : InputManager(command) /\ FromServer
  \/ add_channel /\ FromServer
  \/ channel_close /\ FromServer
  \/ display_users /\ FromServer
  \/ close_server /\ FromServer
  \/ accept_new_client /\ FromServer
  \/ add_client /\ FromServer
  \/ \E k \in Channel : process_add_client(k) /\ FromServer
  \/ \E k \in Channel : CloseItem(k) /\ FromServer
  \/ \E k \in Channel : UsersItem(k) /\ FromServer
  \/ \E k \in Channel, i \in Positions : process_client_quit(k, i) /\ FromServer
  \/ \E k \in Channel, i \in Positions : process_incoming_message(k, i) /\ FromServer
  \/ \E u \in User, name \in Name : join_channel(u, name) /\ FromClients
  \/ \E u \in User : SendJoin(u) /\ FromClients
  \/ \E u \in User : Answered(u) /\ FromClients
  \/ \E u \in User : Say(u) /\ FromClients
  \/ \E u \in User : check_output_sockets(u) /\ FromClients
  \/ \E u \in User : quit_channel(u) /\ FromClients
  \/ \E u \in User : Exit(u) /\ FromClients
  \/ \E u \in User : MayKill /\ Kill(u) /\ FromClients

Spec == Init /\ [][Next]_vars

(* Both programs loop over select(), which reports a descriptor until it   *)
(* is read: every handler whose input is there runs.  What users do is     *)
(* free, but a client that connected sends its join and reads the answer.  *)
FairSpec ==
  /\ Spec
  /\ WF_vars(Router /\ FromServer)
  /\ \A k \in Channel :
       /\ WF_vars(PipeItem(k) /\ FromServer)
       /\ \A i \in Positions : WF_vars(Packet(k, i) /\ FromServer)
  /\ \A u \in User : WF_vars((SendJoin(u) \/ Answered(u)) /\ FromClients)

-----------------------------------------------------------------------------
Conns == 1..Len(wire)

(* The connections in the table of channel k.                              *)
Members(k) == {socket_list[Cell(k, i)] : i \in Slots(k)} \ {-1}

TypeOK ==
  /\ server \in {"up", "exited", "killed"}
  /\ router \in 0..Len(wire)
  /\ open_channels \in 0..MAX_CHANNELS
  /\ alive \subseteq 0..(open_channels - 1)
  /\ channel_name_list \in [Channel -> Name \cup {NoName}]
  /\ current_clients \in [Channel -> Nat]
  /\ \A k \in Channel : listen_fds[k] \subseteq Conns
  /\ socket_list \in [Cells -> {-1, 0} \cup Conns]
  /\ client_names \in [Cells -> User \cup {NoName}]
  /\ type \in [Channel -> {"other", "quit", "msg"}]
  /\ \A u \in User : /\ client[u].client_socket \in 0..Len(wire)
                     /\ client[u].asking \in 0..Len(wire)

(* A client that believes it is in a channel is: the server has it, and in *)
(* one slot only, in the channel it asked for (or that was closed since),  *)
(* and its thread listens to it.                                           *)
JoinedIsMember ==
  \A u \in User :
    LET c == client[u].client_socket
    IN  client[u].in_channel /\ server = "up" =>
          \E k \in Channel :
            /\ c \in Members(k) /\ c \in listen_fds[k]
            /\ channel_name_list[k] \in {wire[c].room, NoName}
            /\ Cardinality({i \in Slots(k) : socket_list[Cell(k, i)] = c}) = 1
            /\ \A j \in Channel \ {k} : c \notin Members(j)

(* What a client displays was said in the channel it asked for.            *)
NoCrossTalk ==
  \A c \in Conns : \A j \in DOMAIN wire[c].heard :
    wire[wire[c].heard[j].from].room = wire[c].room

(* The chat is the abstract one: its members are those in the tables, what *)
(* a member was sent is what its client displayed and what is on its way.  *)
Pending(c) ==                    \* on its way, after the answer to the join
  LET d == wire[c].down
  IN  IF d # <<>> /\ Head(d).kind # "msg" THEN Tail(d) ELSE d

Messages(c) ==
  LET s == wire[c].heard \o Pending(c)
  IN  [j \in 1..Len(s) |-> [from |-> s[j].from, n |-> s[j].n]]

Said(c) == wire[c].said - Cardinality({j \in DOMAIN wire[c].up : wire[c].up[j].kind = "msg"})

Nowhere == [room |-> MAX_CHANNELS, name |-> NoName]   \* no channel has this number

Place(c) ==
  LET xs == {x \in Cells : socket_list[x] = c}
  IN  IF xs = {} THEN Nowhere
      ELSE LET x == CHOOSE x \in xs : TRUE
           IN  [room |-> x \div MAX_CLIENTS, name |-> client_names[x]]

Places == [c \in 1..MaxConns |-> Place(c)]
Gone == {c \in Conns : wire[c].client # "open"}
Posted == [c \in 1..MaxConns |-> IF c \in Conns THEN Said(c) ELSE 0]
Views == [c \in 1..MaxConns |-> IF c \in Conns THEN Messages(c) ELSE <<>>]

Rooms == INSTANCE ChatRooms WITH
  Conn <- 1..MaxConns, Room <- Channel, Outside <- Nowhere,
  place <- Places, gone <- Gone, posted <- Posted, view <- Views,
  open <- server = "up"
ImplementsRooms == Rooms!Spec

(* Every join is answered, whatever is typed at the server meanwhile, as   *)
(* long as it runs: the router and the channel threads lose none.  (What   *)
(* users do is bounded here, so it comes to rest.)                         *)
JoinsAnswered == <>[](server # "up" \/ \A u \in User : ~client[u].asked)

(* A member that left or exited does not keep its name, unless its channel *)
(* was closed.                                                             *)
Leaving(c) == \E j \in DOMAIN wire[c].up : wire[c].up[j].kind = "quit"
LeavesEnd ==
  <>[](server # "up" \/ \A k \in alive : \A c \in Members(k) : ~Leaving(c))
=============================================================================
