---------------------------- MODULE ChatPipeline ----------------------------
(***************************************************************************)
(* How what a user types at the chat client reaches the server, in words   *)
(* of four bytes: the InputManager thread writes a type and its fields to  *)
(* a pipe, the main thread reads them and puts packets on a socket, and    *)
(* the server, here any program that reads packets, answers joins.         *)
(*                                                                         *)
(* A word says which packet it is from, and that it is the ith written of  *)
(* it; the first is the type.                                              *)
(* Every descriptor has one writer and one reader, and both loop until all *)
(* of a packet is written or read, so a packet is written in one step and  *)
(* read in one step once enough words are there, its own or not.  Another   *)
(* word read as a type is no command: it is text, or memory nobody wrote.  *)
(***************************************************************************)
EXTENDS Integers, Sequences

CONSTANTS
  MAX_USER_NAME, MAX_CHANNEL_NAME, MAX_STRING,   \* lengths in words
  MAX_CLIENTS,                                    \* names in a list of users
  MaxLines, MaxConns, MaxHeard                \* bounds

ASSUME PipelineAssumption ==
  /\ {MAX_USER_NAME, MAX_CHANNEL_NAME, MAX_STRING, MAX_CLIENTS} \subseteq Nat \ {0}
  /\ {MaxLines, MaxConns, MaxHeard} \subseteq Nat

VARIABLES
  cmd,            \* InputManager's cmd, which a blank line leaves as it was
  input_pipe,
  at,             \* main thread: "select", "asking" (in a join), "left", "ended"
  in_channel, logging,
  client_socket,  \* 0, the terminal, before the first join
  link,           \* the connections
  typed,          \* history: the packets InputManager wrote
  taken           \* history: the commands the main thread took

clientVars == <<at, in_channel, logging, client_socket>>
pipelineVars == <<cmd, input_pipe, clientVars, link, typed, taken>>

(* What write_packet and the serialize functions write, the type included, *)
(* and InputManager for /leave, /log and /exit: the fields in their order. *)
Written(kind) ==
  CASE kind = "join" -> 1 + MAX_USER_NAME + MAX_CHANNEL_NAME + 1
    [] kind = "msg" -> 1 + MAX_STRING
    [] kind = "quit" -> 1 + 1
    [] kind \in {"leave", "log", "exit"} -> 1
    [] kind = "smsg" -> 1 + MAX_USER_NAME + MAX_STRING + MAX_CHANNEL_NAME
    [] OTHER -> 1 + 1 + 1 + MAX_CHANNEL_NAME + MAX_CLIENTS * MAX_USER_NAME

Packet(p) == [i \in 1..Written(p.kind) |-> [packet |-> p, i |-> i]]

(* What the recieve functions read for a packet, the type included.        *)
SizesLong(kind) ==               \* slip: a message is read with its type
  CASE kind = "join" -> 2 + MAX_USER_NAME + MAX_CHANNEL_NAME
    [] kind = "msg" -> 2 + MAX_STRING
    [] kind = "quit" -> 2
    [] kind \in {"leave", "log", "exit"} -> 1
    [] kind = "smsg" -> 1 + MAX_USER_NAME + MAX_STRING + MAX_CHANNEL_NAME
    [] OTHER -> 3 + MAX_CHANNEL_NAME + MAX_CLIENTS * MAX_USER_NAME

Sizes(kind) ==
  CASE kind = "join" -> 2 + MAX_USER_NAME + MAX_CHANNEL_NAME
    [] kind = "msg" -> 1 + MAX_STRING
    [] kind = "quit" -> 2
    [] kind \in {"leave", "log", "exit"} -> 1
    [] kind = "smsg" -> 1 + MAX_USER_NAME + MAX_STRING + MAX_CHANNEL_NAME
    [] OTHER -> 3 + MAX_CHANNEL_NAME + MAX_CLIENTS * MAX_USER_NAME

Kind(words) == IF Head(words).i = 1 THEN Head(words).packet.kind ELSE "noise"

(* read_packet on a stream: enough words for the type it begins with.      *)
Complete(words) ==
  /\ words # <<>> /\ Kind(words) # "noise"
  /\ Len(words) >= Sizes(Kind(words))
ReadOf(words) == SubSeq(words, 1, Sizes(Kind(words)))
Unread(words) == SubSeq(words, Sizes(Kind(words)) + 1, Len(words))

(* Histories of a connection: the packets the client meant to send, those  *)
(* the server wrote, and what each side read.                              *)
Opened == [up |-> <<>>, down |-> <<>>, server |-> "open", member |-> FALSE,
           meant |-> <<>>, served |-> <<>>, wrote |-> <<>>, heard |-> <<>>]

PipelineInit ==
  /\ cmd = "msg" /\ input_pipe = <<>>
  /\ at = "select" /\ in_channel = FALSE /\ logging = FALSE /\ client_socket = 0
  /\ link = <<>> /\ typed = <<>> /\ taken = <<>>

-----------------------------------------------------------------------------
(* The InputManager thread.                                                *)

Lines == {"join", "bare join", "msg", "leave", "log", "exit", "blank"}

(* sscanf leaves cmd alone on a blank line: the last command again, or for *)
(* a join a syntax error, as without a name.                               *)
Typed(l) == IF l = "blank" THEN cmd ELSE IF l = "bare join" THEN "join" ELSE l

InputManager(l) ==
  LET p == [kind |-> Typed(l), n |-> Len(typed) + 1]
  IN  /\ cmd # "exit" /\ Len(typed) < MaxLines /\ at # "ended"
      /\ cmd' = Typed(l)
      /\ IF Typed(l) = "join" /\ l # "join" THEN UNCHANGED <<input_pipe, typed>>
         ELSE /\ input_pipe' = input_pipe \o Packet(p)
              /\ typed' = Append(typed, p)
      /\ UNCHANGED <<clientVars, link, taken>>

-----------------------------------------------------------------------------
(* The main thread: check_input_pipes.                                     *)

Takes(kind) ==
  /\ at = "select" /\ input_pipe # <<>> /\ Kind(input_pipe) = kind
  /\ taken' = Append(taken, Head(input_pipe).packet)
  /\ UNCHANGED <<cmd, typed>>

Noise ==
  /\ at = "select" /\ input_pipe # <<>> /\ Kind(input_pipe) = "noise"
  /\ input_pipe' = Tail(input_pipe)
  /\ UNCHANGED <<cmd, clientVars, link, typed, taken>>

(* A refused command leaves its fields in the pipe.                        *)
Refused ==
  /\ (Takes("join") /\ in_channel) \/ (Takes("msg") /\ ~in_channel)
  /\ input_pipe' = Tail(input_pipe)
  /\ UNCHANGED <<clientVars, link>>

Log ==
  /\ Takes("log")
  /\ input_pipe' = Tail(input_pipe)
  /\ logging' = ~logging
  /\ UNCHANGED <<at, in_channel, client_socket, link>>

(* write_packet of the command p, with the words that stand for it.        *)
Sent(c, p, words) ==
  [link EXCEPT ![c].up = IF link[c].server = "open" THEN @ \o words ELSE @,
               ![c].meant = Append(@, p)]

(* join_channel, up to the wait for the answer.                            *)
JoinChannel ==
  /\ Takes("join") /\ ~in_channel /\ Complete(input_pipe)
  /\ Len(link) < MaxConns
  /\ link' = Append(link, [Opened EXCEPT !.up = ReadOf(input_pipe),
                                         !.meant = <<Head(input_pipe).packet>>])
  /\ input_pipe' = Unread(input_pipe)
  /\ at' = "asking"
  /\ UNCHANGED <<in_channel, logging, client_socket>>

Heard(c) ==
  [link EXCEPT ![c].heard = Append(@, ReadOf(link[c].down)), ![c].down = Unread(@)]

AnsweredYes ==                   \* slip: a rejection is waited over
  LET c == Len(link)
  IN  /\ at = "asking" /\ Complete(link[c].down)
      /\ link' = Heard(c)
      /\ IF Kind(link[c].down) = "accepted"
           THEN at' = "select" /\ in_channel' = TRUE /\ client_socket' = c
           ELSE UNCHANGED <<at, in_channel, client_socket>>
      /\ UNCHANGED <<cmd, input_pipe, logging, typed, taken>>

Answered ==
  LET c == Len(link)
  IN  /\ at = "asking" /\ Complete(link[c].down)
      /\ link' = Heard(c) /\ at' = "select"
      /\ IF Kind(link[c].down) = "accepted"
           THEN in_channel' = TRUE /\ client_socket' = c
           ELSE UNCHANGED <<in_channel, client_socket>>
      /\ UNCHANGED <<cmd, input_pipe, logging, typed, taken>>

SayShort ==                      \* slip: the size of another packet
  LET p == Head(input_pipe).packet
  IN  /\ Takes("msg") /\ in_channel /\ Complete(input_pipe)
      /\ link' = Sent(client_socket, p, SubSeq(input_pipe, 1, Sizes("msg") - 1))
      /\ input_pipe' = Unread(input_pipe)
      /\ UNCHANGED clientVars

Say ==
  LET p == Head(input_pipe).packet
  IN  /\ Takes("msg") /\ in_channel /\ Complete(input_pipe)
      /\ link' = Sent(client_socket, p, ReadOf(input_pipe))
      /\ input_pipe' = Unread(input_pipe)
      /\ UNCHANGED clientVars

Quit(c, n) ==
  LET p == [kind |-> "quit", n |-> n]
  IN  IF c = 0 THEN link ELSE Sent(c, p, Packet(p))

(* quit_channel, in a channel or not.  The round may still find the socket *)
(* readable; a socket the server closed may raise SIGPIPE.                 *)
Leave ==
  /\ Takes("leave")
  /\ input_pipe' = Tail(input_pipe)
  /\ link' = Quit(client_socket, Head(input_pipe).packet.n)
  /\ \/ at' = IF in_channel THEN "left" ELSE "select"
     \/ client_socket # 0 /\ link[client_socket].server = "closed" /\ at' = "ended"
  /\ in_channel' = FALSE
  /\ UNCHANGED <<logging, client_socket>>

ExitClient ==
  /\ Takes("exit")
  /\ input_pipe' = Tail(input_pipe)
  /\ link' = Quit(client_socket, Head(input_pipe).packet.n)
  /\ at' = "ended" /\ in_channel' = FALSE
  /\ UNCHANGED <<logging, client_socket>>

(* check_output_sockets, and the end of the round in which a channel was   *)
(* left.                                                                   *)
Display ==
  LET c == client_socket
  IN  /\ (at = "select" /\ in_channel) \/ at = "left"
      /\ Complete(link[c].down)
      /\ link' = Heard(c) /\ at' = "select"
      /\ UNCHANGED <<cmd, input_pipe, in_channel, logging, client_socket, typed, taken>>

EndRound ==
  /\ at = "left" /\ at' = "select"
  /\ UNCHANGED <<cmd, input_pipe, in_channel, logging, client_socket, link, typed, taken>>

-----------------------------------------------------------------------------
(* The server's end of connection c.                                       *)

Writes(l, p) == [l EXCEPT !.down = @ \o Packet(p), !.wrote = Append(@, p)]

ServerReads(c) ==
  LET l == [link[c] EXCEPT !.up = Unread(@), !.served = Append(@, ReadOf(link[c].up))]
      kind == Kind(link[c].up)
  IN  /\ link[c].server = "open" /\ Complete(link[c].up)
      /\ \/ /\ kind = "join"
            /\ \E code \in {"accepted", "rejected"} :
                 link' = [link EXCEPT ![c] = [Writes(l, [kind |-> code, n |-> c])
                                                EXCEPT !.member = (code = "accepted")]]
         \/ kind = "msg" /\ link' = [link EXCEPT ![c] = l]
         \/ kind = "quit" /\ link' = [link EXCEPT ![c] = [l EXCEPT !.server = "closed"]]
      /\ UNCHANGED <<cmd, input_pipe, clientVars, typed, taken>>

(* Another member's message.                                               *)
Broadcast(c) ==
  /\ link[c].server = "open" /\ link[c].member /\ Len(link[c].wrote) <= MaxHeard
  /\ link' = [link EXCEPT ![c] = Writes(@, [kind |-> "smsg", n |-> Len(@.wrote)])]
  /\ UNCHANGED <<cmd, input_pipe, clientVars, typed, taken>>

Router ==
  \/ Noise \/ Refused \/ Log \/ JoinChannel \/ Answered \/ Say \/ Leave \/ ExitClient
  \/ Display \/ EndRound

PipelineNext ==
  \/ \E l \in Lines : InputManager(l)
  \/ Router
  \/ \E c \in DOMAIN link : ServerReads(c) \/ Broadcast(c)

(* The main thread runs and looks at the input pipe in each round, and the *)
(* server reads each connection.                                           *)
CheckInput == Noise \/ Refused \/ Log \/ JoinChannel \/ Say \/ Leave \/ ExitClient

PipelineFairness ==
  /\ WF_pipelineVars(CheckInput \/ Answered \/ EndRound)
  /\ \A c \in 1..MaxConns : WF_pipelineVars(c \in DOMAIN link /\ ServerReads(c))

PipelineSpec == PipelineInit /\ [][PipelineNext]_pipelineVars
PipelineFairSpec == PipelineSpec /\ PipelineFairness
-----------------------------------------------------------------------------
(* Types.                                                                  *)
PipelineTypeOK ==
  /\ cmd \in Lines /\ at \in {"select", "asking", "left", "ended"}
  /\ in_channel \in BOOLEAN /\ logging \in BOOLEAN /\ client_socket \in 0..Len(link)
  /\ Len(typed) <= MaxLines /\ Len(link) <= MaxConns
  /\ \A c \in DOMAIN link :
       link[c].server \in {"open", "closed"} /\ link[c].member \in BOOLEAN

(* Refused commands leave their fields in the pipe, yet no line is lost or *)
(* taken for another: the commands taken are the first that were typed, and*)
(* the types in the pipe are those of the others, in order.                *)
CommandsInOrder ==
  LET types == {j \in DOMAIN input_pipe : input_pipe[j].i = 1}
      after == Len(taken) + 1 .. Len(typed)
  IN  /\ taken = SubSeq(typed, 1, Len(taken))
      /\ {input_pipe[j].packet : j \in types} = {typed[k] : k \in after}
      /\ \A j, k \in types : j < k => input_pipe[j].packet.n < input_pipe[k].packet.n

(* The packets each side of a connection read are those the other side     *)
(* meant to send, each with all of its own words: what serialize writes is *)
(* what recieve reads, and what the pipe holds beside it stays out.        *)
ReadAsWritten ==
  \A c \in DOMAIN link :
    /\ \A i \in DOMAIN link[c].served : link[c].served[i] = Packet(link[c].meant[i])
    /\ \A i \in DOMAIN link[c].heard : link[c].heard[i] = Packet(link[c].wrote[i])

(* What was typed is taken by the main thread, unless the client ends or   *)
(* has used its connections: nobody waits for ever for a packet's words,   *)
(* or for an answer.                                                       *)
EveryLineTaken ==
  Len(taken) < Len(typed) ~>
    (Len(taken) = Len(typed) \/ at = "ended" \/ Len(link) = MaxConns)
=============================================================================
