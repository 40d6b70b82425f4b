# Verification of ridingthecode

The repository holds seven small C++ programs that have nothing in common but
their author. This directory models the ones whose behaviour is worth checking,
model-checks them with TLC on small instances, and proves the main results with
TLAPS for every value of the parameters. Paths below are relative to `src/`.

## 1. The system

| program | parts | state | operations | talks to |
|---|---|---|---|---|
| NVirt client, `7005_NVirt/Client` | Controller (select loop), TransferController (one transfer), CommandController | queue of transfers with `current_ack`, `current_seq`, `current_window`; one timer flag for the process | `/send`, `/quit`, send the next packet, take a packet in, time out | other clients, over UDP through the emulator |
| NVirt emulator, `7005_NVirt/NVirt` | Controller, CircularBuffer, NoiseController | a byte ring with two indices and a size; a loss rate | receive, draw and send on, `/setloss`, `/setdelay`, `/quit` | the clients, over one UDP socket |
| chat server, `LinuxAssign3/server` | router thread, one thread for each channel, input thread | channel names, pipes, a table of sockets and a table of user names | create, close and list channels, accept, join, broadcast, quit, exit | its threads over pipes, the clients over TCP |
| chat client, `LinuxAssign3/client` | select loop, input thread | `in_channel`, `client_socket`; the pipe between its threads | read a line, join, say, leave, log, exit, display | the server |
| packet sender, `TCP_RUDP_Packet_Sender` | sending side, receiving side, windows | `header_received` and the counters of the current transfer; the packet being delivered | begin a transfer, send and wait for `;ACK;`, read a datagram or part of a stream, save a file | its peer, over TCP or UDP |
| Extreme Racing, `ExtremeRacing` | race (a window thread and five cars), two start windows | `winner`, `GLOBAL`, a critical section, `wndExit`; four named events | start, race with or without the section, announce the winner, close everything | three processes over events |
| serialTerm | window thread, reading thread | `io`: the port, its handle, `serialOn`, the thread | connect, type, read and show, end the session | another terminal over a serial line |
| Shaper, `Win32_Shaper` | drawing window, paint box, party threads | the current options and their check marks, the shapes, scroll positions, `lastBG` | choose, draw, scroll, resize, copy, paste, party | the clipboard, its threads by messages |
| resolver, `SimpleTCPIPResolver` | menus | the text shown | look a name up | the system's resolver |

What is hard about them, and hence what the models are aimed at:

* **NVirt client.** Acknowledgements are lost, repeated and late. Three handlers
  (send, receive, timeout) share the three counters of a transfer; a host sends
  and receives at once with one timer; packets carry no mark of the transfer
  they belong to. Right means: what the sender calls completed was delivered,
  and every transfer of the queue gets its turn.
* **NVirt emulator.** The ring's capacity (204856) is no multiple of the packet
  size (2104), so packets are split at the end of the array, and any packet may
  be dropped at three points after it left the ring. Right means: a FIFO channel
  that loses whole packets and does nothing else to them.
* **Chat.** Threads hand connections and commands over through pipes; users
  leave and come back while their old connection is still being served; clients
  die in the middle of a broadcast; tables are indexed by the number of joins
  ever made. Right means: rooms. A message reaches the other members of its
  room and nobody else, once, and every join is answered.
* **Packet sender.** Acknowledgements carry no number, receive calls have no
  timeout, and whether a datagram is a header or data depends only on what the
  receiver expects. A file is saved in a modal dialog that runs the message loop
  inside the read handler. Right means: both sides stay in step, and what the
  sender calls completed was received in order.
* **Race.** A flag tested and set by five threads, with or without a lock; the
  lock is held while `SendMessage` waits for the window's thread, which runs a
  message box. Each message polls the start windows' events, `WM_DESTROY` too.
  Right means: with the lock one winner, an end to every race, and a start window
  whose button was noted is closed with the race.
* **serialTerm.** Two threads use one synchronous handle, and ending a session
  cancels, closes and terminates while the reader may be anywhere in its loop.
  Right means: one reader for each open port, and no character lost or doubled.
* **Shaper.** Menu, paint box, party threads and repaints change the same
  structure, also inside a scroll or a dialog; positions are kept twice. Right
  means: the copies agree when they are used.
* **Chat client's pipe.** Packets are written and read field by field, with their
  lengths stated in different places, and a refused command leaves its fields
  in the pipe. Right means: each command typed is taken once, in order, and a
  packet that is read is one that was written.

`PROJECT.json` lists every component with its status, and under "hazards" each
of these points at the line where it bites.

## 2. The modules

```
ByteFifo        <- CircularBuffer <- Emulator -> PacketChannel
                                                       (abstract: a lossy FIFO)
TransferController <- NVirtClient <- NVirtNetwork -> ReliableTransfer
                                  <- NVirtFifo    -> NVirtNetwork, TransferQueue
ChatSockets <- ChatServer, ChatClient <- Chat -> ChatRooms
PacketSender <- PacketReceiver <- PacketTransfer
Race, SerialTerm, Shaper, ChatPipeline <- MCPrograms   (a sum: one program a behaviour)
```

`<-` is EXTENDS or INSTANCE of a part, `->` "implements", checked as a property.

| module | models | state and actions |
|---|---|---|
| `CircularBuffer` | `CircularBuffer.cpp` | the two indices, the size and the array; `Write` and `Read` with both branches of the split copy. `handed` and `moved` are the caller's array and the return value |
| `ByteFifo` | what its callers rely on | a bounded queue of bytes |
| `Emulator` | `NVirt/src/Controller.cpp`, `NoiseController.cpp` | one action for each handler of the select loop, over an instance of `CircularBuffer`; `Arrive` is the network |
| `PacketChannel` | what clients rely on | a FIFO that may lose packets |
| `TransferController` | `TransferController.cpp` | operators on one transfer: `readNextPacket`, `verifyAck`, `Rewind` |
| `NVirtClient` | `Client/src/Controller.cpp`, `CommandController.cpp` | the handlers of every host: `send`, `quit`, `transmit_data`, `recieve_data`, `timeout` |
| `NVirtNetwork` | the hosts over UDP at its worst | what was sent may arrive at any time, any number of times, or never |
| `NVirtFifo` | the hosts on one segment with the emulator | FIFO queues, at most `MaxLoss` losses, prompt delivery |
| `ReliableTransfer` | what `/send` promises | packets reach the receiver; completion only after all of them |
| `TransferQueue` | what the list of `/send`s promises while nothing is lost | the sizes of the transfers still to come, in order; packets arrive for the first of them only, in order, and it leaves when all have |
| `ChatSockets` | TCP connections as both programs use them | two queues of packets, the state of both ends, the reset that precedes SIGPIPE |
| `ChatServer` | `ServerSystemRouter.cpp`, `ChannelSystem.cpp` | one action for each command, pipe item and kind of packet |
| `ChatClient` | `client/src/SystemRouter.cpp` | one action for each step of a join and each command |
| `Chat` | both together | |
| `ChatRooms` | README.txt's promise | members of rooms, posts, what each member was sent |
| `PacketSender` | `ClientMode.cpp` | `item`, the packet being delivered, and `awaiting`; one action for a turn of the loop up to the send, one for the acknowledgement |
| `PacketReceiver` | `ServerMode.cpp` | `SocketInfo`, the number of open save dialogs; the handler of one FD_READ in its four forms (header or data, TCP or UDP) |
| `PacketTransfer` | both with a network | UDP datagrams in any order with losses and doubles, or one TCP stream read in any pieces; ending the sender, initialising the receiver again |
| `Race` | `Race.cpp`, `begin.cpp`, `begin2.cpp` | the window's thread, `car`, the critical section, the events; one action for each message, each step of `startCar` and each message of a start window |
| `SerialTerm` | `serialApp.cpp`, `serialPhys.cpp` | two terminals and their line; the window's steps, the three calls of `endSession` and the three steps of `execRead` are actions |
| `Shaper` | `procs.cpp`, `menu.cpp`, `utility.cpp`, `drawing.cpp` | options with their marks, shapes, both copies of the scroll positions; one action for each message |
| `ChatPipeline` | the client's `InputController.cpp`, `SystemRouter.cpp`, and the packets of both `utils.cpp` | the pipe and the sockets as sequences of words; one action for each line typed, command taken and packet read |
| `*_proofs` | | the TLAPS proofs, section 5 |
| `MC*` | | constants for TLC |

Both NVirt programs and both kinds of chat thread have the same form: a loop
over `select()` that runs the handler of each descriptor reported. `select()`
may report any subset of those that are ready, so each sequence of handlers is
one the loop can run and an action is one whole handler. Definitions named
"slip" in a comment are not part of the models: they are wrong variants of the
definition below them, and replacing that definition by its slip must break the
property `PROJECT.json` names under "mutants".

### What the models leave out

NVirt:
* Sizes are counted in packets, not bytes; the byte product that overflows for
  transfers of 2 GB does not appear. Payload is a packet's number.
* A host's address is the host: `grab_ip` needs an interface `wlan0`, and the
  garbage it leaves without one is not modelled. Hosts do not send to
  themselves. `/setRouterIP` and a failing lookup are `SendMayFail`.
* Undefined behaviour is an explicit choice, `UndefinedOutcomes`: `front()` of
  an empty list crashes or goes on, the bytes in front of a buffer are a packet
  of any type. A packet made of such bytes has no destination the emulator can
  resolve.
* The delay of the emulator shifts handlers in time and changes no state.

Chat:
* A packet is written and read as a whole, a pipe item is its type with its
  payload; sockets and pipes have no limit. Descriptor numbers are not used
  again: a connection keeps its number.
* `FD_ISSET(-1)` reads in front of the set; the bit is taken to be clear.
* `ChatClient` takes a command when it can carry it out; how a line gets there,
  the refused ones and `/log` are in `ChatPipeline`. `/create` beyond
  `MAX_CHANNELS` is excluded by a guard.
* `add_channel` gives a new thread a pointer into its own stack
  (`ServerSystemRouter.cpp:231`), and then calls `pthread_join` on that thread, which
  is detached and is taken to fail at once (line 241), so the thread may copy the
  name after the stack was used again. That copy is only displayed, here and by
  the clients; joins are compared with `channel_name_list`.
* A killed client is replaced by a new process of the same user. Clients are
  followed while the server runs.
* A `write()` to a peer that has gone may raise SIGPIPE at once (a packet is
  several writes) and must once the reset is known.

Packet sender:
* The bytes of a packet. Its number says what it is; that all packets of a file
  are sent from one buffer, and that the receiver overwrites the last byte of
  each, shows in any file and needs no model. Sizes are kept, because the two
  tests that end a transfer count both packets and bytes.
* Sockets are set up and, over TCP, connected. A TCP header is read whole.
  `recvfrom` on the sender's side gets nothing but acknowledgements.
* What the parser makes of a text that is no header is `Garbage`, or a crash; a
  copy past the end of the file buffer goes on or crashes.

Chat client's pipe (`ChatPipeline`):
* Text is a number of words of four bytes. A field that is read as a type is text
  or memory nobody wrote, and is taken to be no command (the types are the
  numbers up to 13; four bytes of printable text are a larger one, and the
  thread frees no packet, so memory nobody wrote is as a rule zero, which is no
  command either). `CommandsInOrder` rests on this: it shows that commands are not
  lost, torn or reordered by such fields, not that a field is never a command.
* The server is any program that reads packets, answers joins either way and
  sends members messages. Pipes have no limit; the input thread goes on typing
  while the main thread waits, up to `MaxLines` lines.

Race:
* Positions, speeds and drawing: a car is somewhere before the finish line or has
  crossed it. A critical section misused in a way that is undefined is "broken",
  and a car that enters a broken one may pass or wait for ever.
* The windows' menus; a message that does nothing but poll is `Message` and
  `StartMessage`.

serialTerm:
* Settings of the line, and drawing. The driver never fails once a port is open;
  opening it may. Characters that reach a port nobody has open are lost.
* A read that succeeds has a character. The code never calls `SetCommTimeouts` and
  ignores `bytesRead` (`serialPhys.cpp:85`): a driver with time limits left over from
  another program could let `ReadFile` return without one, and the character
  before would be shown again. `ShownAsSent` says nothing of such a driver.

Shaper:
* Colours, geometry and the mini party, which only paints. A shape is the scroll
  position it is stored with. An access to nothing (copy without a shape, paste
  of something else) ends the program or does nothing.

Not modelled: the resolver (one blocking library call for each command, nothing
kept in between); the packet sender's windows, menus and file dialogs (their
commands are actions of `PacketTransfer`, the rest is the system's) and the
set-up of its sockets; the unused `Client.cpp` of NVirt, which nothing calls and
which does not compile with this tree.

## 3. The runs

| run | question | bounds, and why they are enough |
|---|---|---|
| `ring` | is the ring a bounded FIFO of bytes, call for call? | capacity 3, calls of 0 to 4 bytes, two byte values: each position of both indices at every fill level, calls that end before, at and past the end of the array, calls larger than the ring |
| `emulator` | is the emulator a lossy FIFO of packets, and does it run empty? | packets of 3 bytes in a ring of 11, like the real one no multiple; four packets, so the ring fills and a packet is split; one packet does not resolve, sends may fail, rates -1, 0, 98, 100 |
| `nvirt_network` | is a host's first transfer reliable whatever UDP does? | two hosts that send to each other at once; 0 or 3 packets, windows 0, 1, 2 so that a window slides and ends in the middle; failures, crashes, timeouts at any time |
| `nvirt_fifo` | do queued transfers work while nothing is lost? | two transfers one way, one the other, window 1, at most one loss and five packets under way when a host transmits: the shortest queue in which one transfer follows another while acknowledgements cross |
| `stale_ack`, `lost_ack` | findings 1 and 2 | two transfers of one host, window 2, one loss |
| `chat` | is the chat the abstract one, and is everybody answered? | two users, two channels (one created twice or closed and created again), two connections, two server commands, clients that leave, exit or are killed at any moment |
| `chat_rejoin` | a user who leaves and joins again while a member stays | three connections to one channel, no kills; two packets under way |
| `cross_talk` | finding 3 | rows of one slot instead of 100, so that the second join of a channel leaves its row |
| `packets` | do both sides stay in step, and does a transfer end with its last piece? | two transfers, each empty, of one packet or of two, file or dummy; headers of 2 bytes and packets of 3, so that a full packet is longer than a header and a last one of 1 byte is shorter; one loss, one double, one ended sender |
| `resend` | finding 4 | one file of two packets, one loss |
| `programs` | the race, the terminals, the drawing program and the chat client's pipe | below |

`CHECK_DEADLOCK FALSE` is set where the system stops: every `/send` used up,
the process quit, or all connections used.

`programs` is a sum: a behaviour picks one of four programs and the others stay
as they begin, so the state space is the sum of theirs, not the product. The
fairness conditions are conjoined; a program that was not picked has nothing to
do that a condition could ask for.
* Race: two cars (the second is the one that must not win), with one start window
  and every click ("race"), or with two start windows, where the order of the
  poll matters, and no click ("starts"). Races, exits and new starts without limit.
* Terminals: two, one port, two characters to tell an order, two characters to
  each opening of the port: one in the reader's hand with one behind it.
* Shaper: the background with two values, one scroll bar with two positions, two
  shapes, one party that is kept no handle of.
* Chat client: four lines, the shortest in which a join, a refused command, a
  command after it and one more follow each other; two connections, one
  broadcast on each; fields of one word, texts of two.

### Properties that carry the weight

* `ImplementsFifo`, `ImplementsChannel`: two counters and an index
  kept separately describe one queue, at every split.
* `CountersAgree`, `FirstAcksSound`, `FirstIsReliable`: what the
  sender believes was received, was received.
* `LosslessIsDelivered`, `LosslessIsQueue`, `LosslessIdleTimer`,
  `LosslessSendsOnce`, `EveryTransferEnds`: while nothing is lost the queue works
  as `/help` says (one transfer after the other, each in order and in full), no
  packet is sent twice and the shared timer never touches an empty list. With a
  loss the first and the last are false: findings 1 and 2. `LosslessIsQueue`
  speaks of every step up to the first loss: such a step is one of
  `TransferQueue`, or changes nothing that is visible there.
* `TakenInOrder`, `CompletedIsReceived`, `EndsWithLast`, `TransferArrives`: with
  nothing on the wire to tell a header from data or one packet from the next,
  what is received is exactly what was sent. They are stated for "clean"
  transfers: begun while the receiver waits for a header and nothing is under
  way, nothing doubled, neither side ended in between; losses are allowed. The
  rest of the state space is there because a clean transfer must work after any
  disturbed one, and because clean is not what users see: a second file begun
  while the save dialog of the first is open, an empty file (or a cancelled file
  dialog) before it, or a second TCP transfer begun early is not clean, and
  dropping the condition makes TLC show each of these.
* `ImplementsRooms`, `JoinedIsMember`, `NoCrossTalk`, `JoinsAnswered`,
  `LeavesEnd`: rooms, with clients that come back or die at any moment.
* `OneWinner`, `RaceEnds`, `NotedIsClosed`: one winner where the race promises
  it, an end to every race that does not change its mind about the section in the
  middle, and the promise of the exit events. Without the section several cars
  win, which is the program's point; a right click in the middle of a race breaks
  it, and the conditions on `mode` say so.
* `SessionHolds`, `ShownAsSent`: at every point of `endSession` and `execRead`
  there is one reader or none, and each character of an open port is shown, in
  the reader's hand or in the driver's buffer.
* `OptionsAgree`, `StoredWhereDrawn`, `DrawingKept`: three copies of an option,
  two of a scroll position, and `lastBG`, agree when they are used. A resized
  window is the exception the second one names.
* `CommandsInOrder`, `ReadAsWritten`, `EveryLineTaken`: nothing typed is lost,
  doubled or taken for something else, though refused commands leave their
  fields behind; each packet is read with exactly the words it was written with.

### Fairness

* Emulator: weak fairness of `recieve_data` and `transmit_data`. The loop polls
  for ever and `select()` reports by level, so a handler whose condition
  persists is run. Arrivals and commands are free.
* NVirt segment: the same for sending, receiving and the emulator's forwarding.
  There is no fairness of the timeout, because the code tests
  `clock() - timer == TIMEOUT` and may step over the one tick at which it holds.
* Packet sender: weak fairness of the sender's loop and of FD_READ, which Windows
  posts again as long as there is something to read. Users are free.
* Chat: weak fairness of the router, of each channel's pipe and of each slot,
  and of a client's join once it connected. Users' choices are free, and a user
  may be killed.
* Race: weak fairness of each car's thread and of the window's thread, which
  takes messages for ever; the user answers a message box, and an open start
  window gets some message now and then (it is drawn over, the mouse crosses it).
  Nobody has to click.
* Chat client's pipe: weak fairness of the main thread, which polls its pipe every
  round whatever the sockets do, and of the server's reading of each connection.
  Neither typing nor broadcasts are fair.

## 4. Findings

1. `stale_ack`: an acknowledgement carries no mark of its transfer. After one
   loss a duplicate is left over, the next transfer of the queue takes it for
   its own, and "Transfer completed." is printed for a transfer whose receiver
   misses a packet.
2. `lost_ack`: an accepted acknowledgement stops the timer although packets
   after it are outstanding. If the last one of the window is lost the transfer
   is never timed out.
3. `cross_talk`: `current_clients` counts joins, never falls and is unchecked, so
   join number `MAX_CLIENTS` of a channel is stored in the next channel's row,
   whose members then hear the first channel.
4. `resend`: the comments say dropped packets are resent, but the sender waits
   in a `recvfrom` without a timeout, and only a datagram that is no
   acknowledgement would make it send again.

Observations that are in the models but stated as no property:
* A broadcast that meets a client's `/exit` ends the chat server by SIGPIPE
  (`server = "killed"`), also without a client that was killed.
* `serialApp.cpp:125` promises that "any keyboard input will be transferred during
  a session", but the port is synchronous: `WriteFile` in the window's thread
  waits behind the reader's pending `ReadFile`. The first character that is typed
  waits until one arrives, and when both users type first neither arrives and
  both windows hang (`HandleFree` in `SerialTerm`).
* "transmission ends, program waits for a new header" (`ServerMode.cpp:157`), but
  with nothing lost there are three ways in which the header of the next transfer
  is taken for data of the last. A received file is saved first, in a modal dialog
  that hands out messages, and a header that arrives meanwhile is stored behind
  the file (line 402). Over TCP a read for data takes what is there, the beginning
  of the next header too; `totalRecv` passes `total_size`, and as the test is for
  equality neither transfer ends (line 303). A transfer of no packet (an empty file,
  a count of zero) has a header only, and the receiver looks for its end after
  reading data (`ClientMode.cpp:193`). The transfer whose header
  it is was begun before the receiver waited for one, so it is not "clean".
* A second party overwrites the handle of the first, which nobody ends any more
  (`strays` in `Shaper`).
* A right click during a race initialises the critical section again around the
  car inside (`mode = "mixed"` in `Race`): the race may then have several winners
  or never end.

## 5. The proofs

| theorem | says, for every value of the constants |
|---|---|
| `CircularBuffer_proofs!IndexCorrect`, `Refinement` | the ring's counters agree; it implements `ByteFifo`, and each call does what the same call of `ByteFifo` does |
| `Emulator_proofs!NoTornPacket`, `EmulatorTypes`, `EmulatorIsChannel` | the ring only holds whole packets; what is stored or sent is made of bytes of packets; the emulator implements `PacketChannel`, a FIFO that loses packets and does nothing else to them |
| `NVirtNetwork_proofs!NetworkTypes`, `Counters`, `FirstTransferSound` | the types; the counters of every transfer agree, and those of a first transfer are sound, over any network |
| `NVirtNetwork_proofs!FirstTransferReliable` | the first transfer of every host implements `ReliableTransfer` |
| `NVirtFifo_proofs!SegmentIsNetwork`, `SegmentReliable`, `SegmentSound` | the segment with the emulator is an instance of the arbitrary network, and the above hold on it, whatever the emulator loses |
| `NVirtFifo_proofs!LosslessDelivery`, `LosslessTimer`, `LosslessOnce` | while nothing is lost, on a segment where no send fails and no host crashes: every transfer that is reported completed was delivered in full, the timer never runs over an empty list, no packet is sent twice |
| `NVirtFifo_proofs!LosslessQueue` | under the same conditions the list of transfers of every host implements `TransferQueue` |
| `PacketTransfer_proofs!DataInOrder`, `CompletionSound`, `EndsInTime`, `PacketTypes` | a clean transfer of the packet sender is taken in order and fits its buffer, ends with its last piece, and is not reported completed before; sizes and counters keep their types |
| `Chat_proofs!ChatTypes`, `ChatJoined`, `ChatNoCrossTalk` | if the connections fit a channel's row: tables, pipes, sockets and clients keep their types; a client that believes it is in a channel is a member of it on the server; what a client displays was said in its room |
| `ChatRooms_proofs!ChatImplementsRooms` | under the same condition the chat implements `ChatRooms` |
| `Programs_proofs!SynchronisedRace` | a race begun with the right button has at most one winner, for any number of cars |
| `Programs_proofs!SessionsHold`, `TextShown` | a session has its port and one reader, and no character of an open port is lost, doubled or reordered, for any number of terminals and lines of any length |
| `Programs_proofs!OptionsShown`, `ShapesStored`, `DrawingSafe` | menu, paint box and the choice in force agree; a shape is stored where it was drawn; a drawing is only cleared by a background that was chosen or the erase button |
| `Programs_proofs!PipelineOrder`, `PipelineReads` | the commands the main thread took are the first that were typed, in order, and the types in the pipe are those of the others; each packet is read with the words it was written with, at either end of a connection, for any number of lines |
| `Programs_proofs!ProgramTypes` | the four programs of `MCPrograms` keep their types |

Assumptions are the named ASSUMEs of the modules: capacities and packet sizes
are positive and a packet fits, settings are numbers. The theorems of the chat
have one hypothesis more, `RowsFit` (`MaxConns <= MAX_CLIENTS`): the connections
opened while the server runs fit one row of its tables. The code never lowers
`current_clients` and never compares it with `MAX_CLIENTS`, so this is not an
assumption it enforces; finding 3 (`cross_talk`) is what happens without it. The
runs `chat` and `chat_rejoin` satisfy it. The lossless theorems of `NVirtFifo` have
the hypothesis `NoFailure` (no `sendto` fails, no host crashes), which the run of
`NVirtFifo` satisfies: a packet that was never sent, or a destination that is
gone, is a loss that `lost` does not count, after which the sender may time out
and send again. Packets lost by the emulator are allowed; the theorems speak
of what happens before the first of them.

The arguments. *Ring*: `IndexInv` (`end_index` is `size` bytes past `beg_index`,
modulo the capacity) with the bounds of `TypeOK` is inductive; it places each
byte of `Contents` at an index, and the refinement compares the array before and
after a copy index by index, in the cases of a copy that wraps and one that
does not. *Emulator*: `WholePackets` is inductive once the amounts moved are
known to be `P_SIZE` or nothing, which is what the two guards are for.
`EmulatorIsChannel` then takes what is proved of the ring (`INSTANCE
CircularBuffer_proofs`): a write appends a string of `P_SIZE` bytes to
`Contents`, a read takes as many off, so cutting `Contents` into packets
(`Cut`, with `CutAppend` and `CutTail`) turns the two into appending a packet and
taking one off; accepting a packet from the socket is a stutter of the channel,
which already has it in transit.
*Transfers*: `FirstAcksSound` is not inductive, as an acknowledgement in the
network says nothing about its packet by itself. The invariant adds what each
packet in the network stands for: data and an EOT of a first transfer carry its
numbers, an acknowledgement n + 1 shows that packet n was delivered, and a packet
of a later transfer shows that the first one has left the queue, of which a
transfer with the identity 1 can only be the head. So while the first transfer
is in the queue an acknowledgement that is accepted is its own, and proves
delivery of the packet it is taken for. That argument ends with the second
transfer, where finding 1 begins. *Segment*: every packet in a queue is in
`net`, the set of packets ever sent; `SegmentReliable` and `SegmentSound` then take
what is proved of the network (`INSTANCE NVirtNetwork_proofs`). *Lossless segment*: the identity of a
transfer is not on the wire, so that an acknowledgement is for the right packet
follows from the order alone. `Undisturbed`, inductive while `lost` is 0, says of
each host's front transfer that its data are in increasing order along the way
from its destination's socket back to the end of the air, its acknowledgements
likewise (`InOrder`), and every acknowledgement comes before all data still under
way (`AcksFirst`); that nothing else of this host is under way (`OfFront`), that for
every number sent and not acknowledged one of the two is (`Covered`), and that an
acknowledgement was earned by a delivery. Hence the acknowledgement that arrives
is always `current_ack + 1` (`AckIsNext`), `check_packet` never rewinds, and an EOT is
sent only when nothing of the transfer is under way, so that nothing of it
meets the next one (`FlightEnded`). The timer runs only while something is under
way (`Timed`), and the timeout needs that nothing is (`NoTimeout`). *Queue of
transfers*: `TransferQueue` numbers the transfers of a host without storing the
numbers, the front one is `begun` less those waiting, plus one; `Numbered` says
that the identities in the list are those numbers (`TurnOfFront`). A packet of
data that arrives belongs to the front transfer of its sender, and every number
below its own was delivered (`DataIsNext`): it was acknowledged, or by `Covered` is
under way, and then as an acknowledgement, since data in front of this packet
would have to arrive before it. An EOT goes out when `current_ack` has reached the
last packet, which by `FrontOK` means that all were delivered. *Packet sender*: neither program numbers
its packets, so all hangs on the two sides being in step. `InStep` says that
what the receiver took last is the item the sender waits for, with at most one
acknowledgement under way, or the item before, with at most that item under way;
`TakenUdp` and `TakenTcp` give the receiver's counters from what it took, and
over TCP what is left in the stream; `Holds` says it waits for more, saves, or
waits for a header. The lemma `Sizes` compares the two tests that end a UDP
transfer: the bytes of the first n packets are those of the transfer only for
the last n. *Race*: `OneWinner` by itself says nothing about the cars. `Owned` says
that the car between entering and leaving is the one the section belongs to,
`OneBox` that the only message box is its own, and `Announced` that a car about
to announce has seen `winner` unset with nobody announced, and that an
announcement not yet marked is the owner's; the message box is inside the
section, so no other car is at the test meanwhile. *Terminals*: `HeldAt` ties
`serialOn`, the handle and the reader to the place of the window's thread, in
particular between `CloseHandle` and `TerminateThread`, where the reader lives
without a port; with it a port that is opened has no reader with an old
character in hand, which is what `AccountedAt` needs, and the rest is that
appending, moving and showing a character keep a concatenation. *Shaper*: `ReadAt`
says that a scroll bar that is not in use and was not moved by sizing is where
`HorzPos` or `VertPos` has it, and `Painted` that a background other than
`lastBG` was chosen since the last `WM_PAINT` that cleared; the paint box's own
toggle is undone by `checkMode` and its siblings because the old choice is
unchecked before the new one is checked. *Chat client's pipe*:
the pipe is a sequence of words, and what it holds is told by offsets, not by
recursion over it: `Stream(s, q, n, o)` says that packet k of the list q, for
every k after the nth, stands in s with all of its words right after `o[k - 1]`
and up to `o[k]`, and nothing behind the last. A write adds an offset
(`StreamWritten`), a read or a skipped word shifts all (`StreamCut`). `Whole` says
that the first packet begins at 0, `Pending` only that no type stands before
it: that is what a refused command leaves behind, whose fields `Noise` skips
(`NoiseSkipped`) before the next type is found (`TypeFound`). `PipelineInv` says
this of the input pipe with the lines typed and not taken, and of both
directions of every open connection with the packets written and not read;
since what is written and what is read of a kind have the same number of
words, a reader that finds a whole packet takes exactly that (`PacketRead`).

*Chat.* None of the three properties says enough about the moments in between:
a connection on its way from the client's `connect` over the backlog, the
router's hand (`router`) and a channel's pipe to a slot. `IInv` follows it.
`AcceptInv`: connections are accepted in the order they were opened, so the
numbers not yet accepted are a tail. `PipeInv`: a channel's pipe holds
connections in increasing order, each above every number of connections the
channel was given, none of them in a slot; hence `current_clients` never passes
the number of connections, and with `RowsFit` a row is never left, which is
what `TableInv` needs (a slot is unused exactly from `current_clients` on, and
a connection is in one slot). `RoomInv`: the connections around one channel, in
its pipe or its slots, were opened for one room, the name the channel has or
had, and no connection is around two channels. `UpInv` and `DownInv` say what is on
the way between a client and the server: a join, then numbered messages, then
quits; an answer, then messages of the same room. `ClientInv` ties a client's
`client_socket`, `in_channel` and its wait for an answer to those. `IInvStep` has a
lemma for each action of `Chat`. The refinement maps a connection to its place
by the slot it is in (`Places`), to the messages said that the server has taken
(`Posted`: said, less those still on the way) and to those sent to it (`Views`:
heard, and on the way to it); only `Enter`, `Leave`, `Post`, `End` and `Stop` move
that, and every other action is shown to leave all four alone.

Only model-checked: every liveness property (`Drains`, `EveryTransferEnds`,
`JoinsAnswered`, `LeavesEnd`, `TransferArrives`, `RaceEnds`, `NotedIsClosed`,
`EveryLineTaken`), which TLAPS does not reach with fairness. Every invariant,
action property and refinement of a passing run is proved. `FirstEotSound`, which
no run lists, is proved with `FirstTransferSound`.

## 6. Plan

1. Done: ring, emulator, NVirt transfers, chat, packet sender, race, serialTerm,
   Shaper, chat client's pipe, the abstract specifications they implement
   (`ByteFifo`, `PacketChannel`, `ReliableTransfer`, `TransferQueue`,
   `ChatRooms`), and the proofs above.
2. Chat with `ChatPipeline` in the place of `ChatClient`, and pipes and sockets
   with a limit, where a member that does not read stops its channel.
