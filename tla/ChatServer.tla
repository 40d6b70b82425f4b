----------------------------- MODULE ChatServer -----------------------------
(***************************************************************************)
(* The chat server (LinuxAssign3/server): the router thread with its pipe  *)
(* from the InputManager thread, and one ChannelManager thread for each    *)
(* channel with its pipe from the router.                                  *)
(*                                                                         *)
(* Both kinds of thread loop over select().  A descriptor stays ready      *)
(* until it is read and only its thread reads it, so the order in which an *)
(* iteration looks at the ready ones adds no constraint: each handler is   *)
(* an action.  The router's select also watches the channels' pipes, which *)
(* only wakes it.  A pipe item is its type with what follows it: a pipe    *)
(* has one writer and its reader waits for the rest.                       *)
(***************************************************************************)
EXTENDS ChatSockets, FiniteSets

CONSTANTS
  NoName,         \* twenty zero bytes
  MAX_CHANNELS, MAX_CLIENTS,
  MaxCommands,    \* bound: commands typed at the server
  MaxGhosts       \* bound: broadcasts of a packet nobody sent

ASSUME ServerAssumption ==
  /\ MAX_CHANNELS \in Nat /\ MAX_CLIENTS \in Nat \ {0} /\ NoName \notin Name
  /\ NoName \notin User /\ MaxCommands \in Nat /\ MaxGhosts \in Nat

VARIABLES
  server,             \* "up"; "exited" by /exit; "killed" by SIGPIPE
  input_pipe, typed,  \* typed is the history of MaxCommands
  router,             \* connection whose join add_client is reading, or 0
  open_channels, channel_name_list, channel_pipes,
  alive,              \* channels whose thread still runs
  current_clients, listen_fds, type,   \* locals of each channel's thread
  socket_list, client_names,           \* [MAX_CHANNELS][MAX_CLIENTS]
  ghosts              \* history of MaxGhosts

routerVars == <<input_pipe, typed, router, open_channels, channel_name_list>>
tableVars == <<current_clients, listen_fds, socket_list, client_names>>
serverVars == <<server, routerVars, tableVars, channel_pipes, alive, type, ghosts>>

Channel == 0..(MAX_CHANNELS - 1)

(* Slot i of channel k.  Nothing bounds i: slot MAX_CLIENTS of a channel   *)
(* is slot 0 of the next.                                                  *)
Cells == 0..(MAX_CHANNELS * MAX_CLIENTS - 1)
Cell(k, i) == k * MAX_CLIENTS + i
Slots(k) == 0..(current_clients[k] - 1)

ServerInit ==
  /\ server = "up" /\ router = 0
  /\ input_pipe = <<>> /\ typed = 0 /\ open_channels = 0
  /\ channel_name_list = [k \in Channel |-> NoName]
  /\ channel_pipes = [k \in Channel |-> <<>>]
  /\ alive = {}
  /\ current_clients = [k \in Channel |-> 0]
  /\ listen_fds = [k \in Channel |-> {}]
  /\ type = [k \in Channel |-> "other"]
  /\ socket_list = [x \in Cells |-> 0]
  /\ client_names = [x \in Cells |-> NoName]
  /\ ghosts = 0

-----------------------------------------------------------------------------
(* The InputManager thread.  Bound: no more channels than the table holds  *)
(* are created (nothing in the code checks it).                            *)
Creates == Cardinality({j \in DOMAIN input_pipe : input_pipe[j].cmd = "create"})

InputManager(command) ==
  /\ server = "up" /\ typed < MaxCommands
  /\ command.cmd = "create" => open_channels + Creates < MAX_CHANNELS
  /\ \A j \in DOMAIN input_pipe : input_pipe[j].cmd # "exit"
  /\ input_pipe' = Append(input_pipe, command)
  /\ typed' = typed + 1
  /\ UNCHANGED <<server, router, open_channels, channel_name_list, tableVars,
                 channel_pipes, alive, type, ghosts, socketVars>>

(* The first open channel with this name, as a set of at most one.         *)
NamedFirst(name) ==              \* slip: the names are not compared
  {k \in 0..(open_channels - 1) : k = 0}
Named(name) ==
  {k \in 0..(open_channels - 1) :
     /\ channel_name_list[k] = name
     /\ \A j \in 0..(k - 1) : channel_name_list[j] # name}

ToChannels(ks, item) ==
  channel_pipes' = [k \in Channel |-> IF k \in ks THEN Append(channel_pipes[k], item)
                                                 ELSE channel_pipes[k]]

Command(cmd) ==
  /\ server = "up" /\ router = 0
  /\ input_pipe # <<>> /\ Head(input_pipe).cmd = cmd
  /\ input_pipe' = Tail(input_pipe)
  /\ UNCHANGED <<typed, router, tableVars, type, ghosts, socketVars>>

add_channelNext ==               \* slip: the thread gets the next number
  /\ Command("create")
  /\ channel_name_list' = [channel_name_list EXCEPT
                             ![open_channels] = Head(input_pipe).name]
  /\ open_channels' = open_channels + 1
  /\ alive' = alive \cup {open_channels'}
  /\ UNCHANGED <<server, channel_pipes>>

add_channel ==
  /\ Command("create")
  /\ channel_name_list' = [channel_name_list EXCEPT
                             ![open_channels] = Head(input_pipe).name]
  /\ alive' = alive \cup {open_channels}
  /\ open_channels' = open_channels + 1
  /\ UNCHANGED <<server, channel_pipes>>

(* The name goes at once, the thread when it comes to the item; the number *)
(* of open channels never falls.                                           *)
channel_closeKept ==             \* slip: the name stays in the list
  /\ Command("close")
  /\ ToChannels(Named(Head(input_pipe).name), [item |-> "close"])
  /\ UNCHANGED <<server, open_channels, alive, channel_name_list>>

channel_close ==
  LET ks == Named(Head(input_pipe).name)
  IN  /\ Command("close")
      /\ ToChannels(ks, [item |-> "close"])
      /\ channel_name_list' = [k \in Channel |-> IF k \in ks THEN NoName
                                                 ELSE channel_name_list[k]]
      /\ UNCHANGED <<server, open_channels, alive>>

display_users ==
  /\ Command("users")
  /\ ToChannels(Named(Head(input_pipe).name), [item |-> "users"])
  /\ UNCHANGED <<server, open_channels, channel_name_list, alive>>

(* main returns, and with it the process and every thread end.             *)
close_server ==
  /\ Command("exit")
  /\ server' = "exited"
  /\ UNCHANGED <<open_channels, channel_name_list, channel_pipes, alive>>

accept_new_client ==
  /\ server = "up" /\ router = 0 /\ backlog # <<>>
  /\ router' = Head(backlog) /\ backlog' = Tail(backlog)
  /\ UNCHANGED <<server, input_pipe, typed, open_channels, channel_name_list,
                 tableVars, channel_pipes, alive, type, ghosts, wire>>

(* write_packet() to one connection.                                       *)
Write(w, c, p) ==
  \/ ~MustRaise(c) /\ wire' = Written(w, {c}, p) /\ server' = server
  \/ MayRaise(c) /\ wire' = w /\ server' = "killed"

(* add_client has been waiting in read_packet, and the router with it.     *)
add_client ==
  LET c == router
      p == Head(wire[c].up)
      w == [wire EXCEPT ![c].up = Tail(@)]
  IN  /\ server = "up" /\ router # 0
      /\ router' = 0
      /\ \/ /\ wire[c].up = <<>> /\ wire[c].client # "open"
            /\ UNCHANGED <<server, channel_pipes, wire>>
         \/ /\ wire[c].up # <<>> /\ Named(p.channel) # {}
            /\ ToChannels(Named(p.channel), [item |-> "add", conn |-> c, name |-> p.name])
            /\ wire' = w /\ UNCHANGED server
         \/ /\ wire[c].up # <<>> /\ Named(p.channel) = {}
            /\ Write(w, c, [kind |-> "rejected"])
            /\ UNCHANGED channel_pipes
      /\ UNCHANGED <<input_pipe, typed, open_channels, channel_name_list,
                     tableVars, alive, type, ghosts, backlog>>

-----------------------------------------------------------------------------
(* The thread of channel k.  "type" keeps the type of the last item or     *)
(* packet for as long as the thread runs.                                  *)
Item(k, item) ==
  /\ server = "up" /\ k \in alive
  /\ channel_pipes[k] # <<>> /\ Head(channel_pipes[k]).item = item
  /\ channel_pipes' = [channel_pipes EXCEPT ![k] = Tail(@)]
  /\ type' = [type EXCEPT ![k] = "other"]
  /\ UNCHANGED <<routerVars, ghosts, backlog>>

TakenLast(k, name) ==            \* slip: only the last entry is compared
  current_clients[k] > 0 /\ client_names[Cell(k, current_clients[k] - 1)] = name
Taken(k, name) == \E i \in Slots(k) : client_names[Cell(k, i)] = name

process_add_client(k) ==
  LET a == Head(channel_pipes[k])
      x == Cell(k, current_clients[k])
  IN  /\ Item(k, "add")
      /\ \/ /\ Taken(k, a.name)
            /\ Write(wire, a.conn, [kind |-> "rejected"])
            /\ UNCHANGED tableVars
         \/ /\ ~Taken(k, a.name) /\ x \in Cells
            /\ socket_list' = [socket_list EXCEPT ![x] = a.conn]
            /\ client_names' = [client_names EXCEPT ![x] = a.name]
            /\ listen_fds' = [listen_fds EXCEPT ![k] = @ \cup {a.conn}]
            /\ Write(wire, a.conn, [kind |-> "accepted"])
            /\ current_clients' = [current_clients EXCEPT ![k] = @ + 1]
      /\ UNCHANGED alive

(* The loop that would close the sockets runs up to num_clients, which is  *)
(* 0 for ever: the thread ends and the connections stay.                   *)
CloseItem(k) ==
  /\ Item(k, "close")
  /\ alive' = alive \ {k}
  /\ UNCHANGED <<server, tableVars, wire>>

UsersItem(k) == Item(k, "users") /\ UNCHANGED <<server, tableVars, alive, wire>>

(* Connection c of slot i is readable, with a packet or the end of the     *)
(* stream.  A slot whose client left holds -1; FD_ISSET(-1) reads the word *)
(* in front of the set, taken to be clear.                                 *)
ReadableNotLast(k, i) ==         \* slip: the last slot is never looked at
  LET c == socket_list[Cell(k, i)]
  IN  /\ i \in Slots(k) \ {current_clients[k] - 1}
      /\ c \in listen_fds[k]
      /\ wire[c].up # <<>> \/ wire[c].client # "open"

Readable(k, i) ==
  LET c == socket_list[Cell(k, i)]
  IN  /\ i \in Slots(k)
      /\ c \in listen_fds[k]
      /\ wire[c].up # <<>> \/ wire[c].client # "open"

(* read_packet: at the end of the stream nothing is read and type stays.   *)
TypeRead(k, c) == IF wire[c].up # <<>> THEN Head(wire[c].up).kind ELSE type[k]

Consumed(c) ==
  IF wire[c].up # <<>> THEN [wire EXCEPT ![c].up = Tail(@)] ELSE wire

ReadPacket(k, i, kind) ==
  LET c == socket_list[Cell(k, i)]
  IN  /\ server = "up" /\ k \in alive /\ Readable(k, i)
      /\ TypeRead(k, c) = kind
      /\ type' = [type EXCEPT ![k] = kind]
      /\ UNCHANGED <<routerVars, channel_pipes, alive, current_clients, backlog>>

(* The slot is vacated, not handed out again: current_clients only grows.  *)
process_client_quit(k, i) ==
  LET x == Cell(k, i)
      c == socket_list[x]
  IN  /\ ReadPacket(k, i, "quit")
      /\ wire' = [Consumed(c) EXCEPT ![c].server = "closed"]
      /\ client_names' = [client_names EXCEPT ![x] = NoName]
      /\ socket_list' = [socket_list EXCEPT ![x] = -1]
      /\ listen_fds' = [listen_fds EXCEPT ![k] = @ \ {c}]
      /\ UNCHANGED <<server, ghosts>>

(* The sockets a message of connection c goes to, from the slots below n.  *)
TargetsEcho(k, c, n) ==          \* slip: the sender is not left out
  {socket_list[Cell(k, i)] : i \in 0..(n - 1)} \ {-1}
Targets(k, c, n) ==
  {socket_list[Cell(k, i)] : i \in 0..(n - 1)} \ {c, -1}

(* The broadcast.  At the end of a stream with the type of a message left  *)
(* behind, the message is the unread heap block: a ghost, numbered 0.      *)
process_incoming_message(k, i) ==
  LET c == socket_list[Cell(k, i)]
      n == current_clients[k]
      ghost == wire[c].up = <<>>
      msg == [kind |-> "msg", from |-> c,
              n |-> IF ghost THEN 0 ELSE Head(wire[c].up).n]
  IN  /\ ReadPacket(k, i, "msg")
      /\ ghost => ghosts < MaxGhosts
      /\ ghosts' = IF ghost THEN ghosts + 1 ELSE ghosts
      /\ \/ /\ \A d \in Targets(k, c, n) : ~MustRaise(d)
            /\ wire' = Written(Consumed(c), Targets(k, c, n), msg)
            /\ server' = server
         \/ \E j \in Slots(k) :
              /\ socket_list[Cell(k, j)] \notin {c, -1}
              /\ MayRaise(socket_list[Cell(k, j)])
              /\ \A d \in Targets(k, c, j) : ~MustRaise(d)
              /\ wire' = Written(Consumed(c), Targets(k, c, j), msg)
              /\ server' = "killed"
      /\ UNCHANGED <<listen_fds, socket_list, client_names>>

(* With any other type left behind the loop turns without any effect.      *)
Packet(k, i) == process_client_quit(k, i) \/ process_incoming_message(k, i)

PipeItem(k) == process_add_client(k) \/ CloseItem(k) \/ UsersItem(k)

Router == \/ add_channel \/ channel_close \/ display_users \/ close_server
          \/ accept_new_client \/ add_client
=============================================================================
