----------------------------- MODULE ChatSockets -----------------------------
(***************************************************************************)
(* The TCP connections between the chat clients and the chat server        *)
(* (LinuxAssign3), numbered in the order they are opened.  A packet is     *)
(* what write_packet() writes and read_packet() reads, as a whole.         *)
(***************************************************************************)
EXTENDS Integers, Sequences

CONSTANTS
  User,
  Name,           \* names of channels
  MaxConns,       \* bound: connections opened
  QUEUE           \* length of the listen queue

ASSUME SocketsAssumption == MaxConns \in Nat /\ QUEUE \in Nat \ {0}

VARIABLES
  wire,           \* the connections
  backlog         \* those accept() has not returned yet

socketVars == <<wire, backlog>>

(* "client" is the client's end: "open", "gone" with its process, "reset"  *)
(* when the server has written to it since.  Histories: the owner, the     *)
(* room it was opened to join, the number of messages its client said and  *)
(* the messages its client displayed.                                      *)
Fresh(u, name) ==
  [owner |-> u, room |-> name, up |-> <<>>, down |-> <<>>,
   client |-> "open", server |-> "open", said |-> 0, heard |-> <<>>]

SocketsInit == wire = <<>> /\ backlog = <<>>

connect(u, name) ==
  /\ Len(wire) < MaxConns /\ Len(backlog) < QUEUE
  /\ wire' = Append(wire, Fresh(u, name))
  /\ backlog' = Append(backlog, Len(wire) + 1)

(* w with packet p on its way to the server; to a closed socket it is lost.*)
Sends(w, c, p) ==
  IF w[c].server = "open" THEN [w EXCEPT ![c].up = Append(@, p)] ELSE w

(* w after the server wrote packet p to every connection of cs.            *)
Written(w, cs, p) ==
  [c \in DOMAIN w |->
     IF c \notin cs \/ w[c].server = "closed"  THEN w[c]
     ELSE IF w[c].client = "open" THEN [w[c] EXCEPT !.down = Append(@, p)]
     ELSE [w[c] EXCEPT !.client = "reset"]]

(* write() to a peer that has gone is answered by a reset; a write after   *)
(* the reset raises SIGPIPE, which nobody handles.  write_packet() writes  *)
(* a packet in several pieces, so its first packet may already do so.      *)
MayRaise(c) == wire[c].server = "open" /\ wire[c].client # "open"
MustRaise(c) == wire[c].server = "open" /\ wire[c].client = "reset"

(* w after every connection of user u went with its process.               *)
Ended(w, u) ==
  [c \in DOMAIN w |-> IF w[c].owner = u /\ w[c].client = "open"
                        THEN [w[c] EXCEPT !.client = "gone"] ELSE w[c]]
=============================================================================
