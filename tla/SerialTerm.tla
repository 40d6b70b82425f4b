----------------------------- MODULE SerialTerm -----------------------------
(***************************************************************************)
(* serialTerm: two terminals joined by a cable for each port.  A terminal  *)
(* is a window thread (WndProc) and, during a session, a thread that reads *)
(* characters one by one.  Both use one port handle, opened for            *)
(* synchronous I/O: the system lets one call on it run at a time, so a     *)
(* WriteFile or CloseHandle waits for a ReadFile that waits for a          *)
(* character.  Characters that reach a port nobody has open are lost.      *)
(***************************************************************************)
EXTENDS Integers, Sequences

CONSTANTS
  Terminals,      \* the two terminals
  Ports,          \* com1 and com3
  Keys,           \* characters
  MaxLine         \* bound: characters sent to one opening of a port

ASSUME SerialAssumption == MaxLine \in Nat

VARIABLES
  app,            \* what the window's thread is at
  port,           \* io->port, the port chosen in the menu
  serialOn,
  hdSerial,       \* the port that is open, as a sequence of at most one
  readThrd,       \* where the reading thread is
  charBuff,       \* its character, as a sequence of at most one
  line,           \* characters in the driver's buffer of the open port
  shown,          \* characters shown since the port was opened
  sent            \* history: characters that reached the port since then

serialVars == <<app, port, serialOn, hdSerial, readThrd, charBuff, line, shown, sent>>
reader == <<readThrd, charBuff>>
text == <<line, shown, sent>>

Boxes == {"failed", "connected", "disconnected"}

SerialInit ==
  /\ app = [t \in Terminals |-> "closed"]
  /\ port \in [Terminals -> Ports]
  /\ serialOn = [t \in Terminals |-> FALSE]
  /\ hdSerial = [t \in Terminals |-> <<>>]
  /\ readThrd = [t \in Terminals |-> "none"]
  /\ charBuff = [t \in Terminals |-> <<>>]
  /\ line = charBuff /\ shown = charBuff /\ sent = charBuff

Goes(t, from, to) == app[t] \in from /\ app' = [app EXCEPT ![t] = to]

(* WinMain: com1 is the port until another one is chosen.                  *)
OpenTerminal(t, p) ==
  /\ Goes(t, {"closed"}, "idle")
  /\ port' = [port EXCEPT ![t] = p]
  /\ UNCHANGED <<serialOn, hdSerial, reader, text>>

ChoosePort(t, p) ==
  /\ app[t] \in {"idle", "session"}
  /\ port' = [port EXCEPT ![t] = p]
  /\ UNCHANGED <<app, serialOn, hdSerial, reader, text>>

(* IDM_CONNECT: init opens the port, or fails when another program has it. *)
Connect(t) ==
  /\ app[t] = "idle" /\ ~serialOn[t]
  /\ \/ /\ Goes(t, {"idle"}, "failed")
        /\ UNCHANGED <<hdSerial, text>>
     \/ /\ Goes(t, {"idle"}, "connected")
        /\ hdSerial' = [hdSerial EXCEPT ![t] = <<port[t]>>]
        /\ line' = [line EXCEPT ![t] = <<>>]
        /\ shown' = [shown EXCEPT ![t] = <<>>]
        /\ sent' = [sent EXCEPT ![t] = <<>>]
  /\ UNCHANGED <<port, serialOn, reader>>

(* The user closes the box: nothing, or the session begins.                *)
CloseFailed(t) ==
  /\ Goes(t, {"failed"}, "idle")
  /\ UNCHANGED <<port, serialOn, hdSerial, reader, text>>

BeginSession(t) ==
  /\ Goes(t, {"connected"}, "session")
  /\ serialOn' = [serialOn EXCEPT ![t] = TRUE]
  /\ readThrd' = [readThrd EXCEPT ![t] = "looping"]
  /\ charBuff' = [charBuff EXCEPT ![t] = <<>>]
  /\ UNCHANGED <<port, hdSerial, text>>

(* WM_CHAR: writeOutputBuffer is called, and waits for the handle.         *)
TypeKey(t) ==
  /\ serialOn[t] /\ Goes(t, {"session"}, "writing")
  /\ \A u \in Terminals \ {t} : Len(sent[u]) < MaxLine
  /\ UNCHANGED <<port, serialOn, hdSerial, reader, text>>

HandleFree(t) == readThrd[t] # "reading"

Receives(u, p, k) ==
  IF hdSerial[u] = <<p>>
    THEN /\ line' = [line EXCEPT ![u] = Append(@, k)]
         /\ sent' = [sent EXCEPT ![u] = Append(@, k)]
    ELSE UNCHANGED <<line, sent>>

WriteFile(t) ==
  /\ HandleFree(t)
  /\ Goes(t, {"writing"}, "session")
  /\ \E u \in Terminals \ {t}, k \in Keys : Receives(u, hdSerial[t][1], k)
  /\ UNCHANGED <<port, serialOn, hdSerial, reader, shown>>

(* WM_KEYDOWN of the escape key, up to the message box; the reader goes on *)
(* while that is open.                                                     *)
Escape(t) ==
  /\ serialOn[t] /\ Goes(t, {"session"}, "disconnected")
  /\ serialOn' = [serialOn EXCEPT ![t] = FALSE]
  /\ UNCHANGED <<port, hdSerial, reader, text>>

(* endSession, in its three calls.                                         *)
CancelSynchronousIo(t) ==
  /\ Goes(t, {"disconnected"}, "closing")
  /\ readThrd' = [readThrd EXCEPT ![t] = IF @ = "reading" THEN "looping" ELSE @]
  /\ UNCHANGED <<port, serialOn, hdSerial, charBuff, text>>

CloseHandle(t) ==
  /\ HandleFree(t)
  /\ Goes(t, {"closing"}, "terminating")
  /\ hdSerial' = [hdSerial EXCEPT ![t] = <<>>]
  /\ line' = [line EXCEPT ![t] = <<>>]
  /\ UNCHANGED <<port, serialOn, reader, shown, sent>>

TerminateNot(t) ==               \* slip: the thread is left to end by itself
  /\ Goes(t, {"terminating"}, "idle")
  /\ UNCHANGED <<port, serialOn, hdSerial, reader, text>>

TerminateThread(t) ==
  /\ Goes(t, {"terminating"}, "idle")
  /\ readThrd' = [readThrd EXCEPT ![t] = "none"]
  /\ UNCHANGED <<port, serialOn, hdSerial, charBuff, text>>

(* WM_DESTROY; the process ends and takes the thread and the handle along. *)
CloseTerminal(t) ==
  /\ Goes(t, {"idle", "session"}, "closed")
  /\ serialOn' = [serialOn EXCEPT ![t] = FALSE]
  /\ hdSerial' = [hdSerial EXCEPT ![t] = <<>>]
  /\ readThrd' = [readThrd EXCEPT ![t] = "none"]
  /\ line' = [line EXCEPT ![t] = <<>>]
  /\ UNCHANGED <<port, charBuff, shown, sent>>

-----------------------------------------------------------------------------
(* execRead.                                                               *)

Reads(t, from, to) == readThrd[t] = from /\ readThrd' = [readThrd EXCEPT ![t] = to]

ReadUnchecked(t) ==              \* slip: the result of ReadFile is not tested
  /\ hdSerial[t] # <<>>
  /\ Reads(t, "looping", "reading") \/ Reads(t, "looping", "showing")
  /\ UNCHANGED <<app, port, serialOn, hdSerial, charBuff, text>>

(* ReadFile on a closed handle fails, and the loop goes round.             *)
ReadFile(t) ==
  /\ hdSerial[t] # <<>>
  /\ Reads(t, "looping", "reading")
  /\ UNCHANGED <<app, port, serialOn, hdSerial, charBuff, text>>

CharacterRead(t) ==
  /\ Reads(t, "reading", "showing")
  /\ line[t] # <<>>
  /\ charBuff' = [charBuff EXCEPT ![t] = <<Head(line[t])>>]
  /\ line' = [line EXCEPT ![t] = Tail(@)]
  /\ UNCHANGED <<app, port, serialOn, hdSerial, shown, sent>>

TextOut(t) ==
  /\ Reads(t, "showing", "looping")
  /\ shown' = [shown EXCEPT ![t] = @ \o charBuff[t]]
  /\ UNCHANGED <<app, port, serialOn, hdSerial, charBuff, line, sent>>

ExecRead(t) == ReadFile(t) \/ CharacterRead(t) \/ TextOut(t)

EndSession(t) == CancelSynchronousIo(t) \/ CloseHandle(t) \/ TerminateThread(t)

TerminalWindow(t) ==
  \/ \E p \in Ports : OpenTerminal(t, p) \/ ChoosePort(t, p)
  \/ Connect(t) \/ CloseFailed(t) \/ BeginSession(t)
  \/ TypeKey(t) \/ WriteFile(t) \/ Escape(t) \/ EndSession(t) \/ CloseTerminal(t)

SerialNext == \E t \in Terminals : TerminalWindow(t) \/ ExecRead(t)

SerialSpec == SerialInit /\ [][SerialNext]_serialVars
-----------------------------------------------------------------------------
(* Types.                                                                  *)
SerialTypeOK ==
  /\ app \in [Terminals -> {"closed", "idle", "session", "writing", "closing", "terminating"} \cup Boxes]
  /\ port \in [Terminals -> Ports] /\ serialOn \in [Terminals -> BOOLEAN]
  /\ readThrd \in [Terminals -> {"none", "looping", "reading", "showing"}]
  /\ \A t \in Terminals :
       /\ hdSerial[t] \in Seq(Ports) /\ Len(hdSerial[t]) <= 1
       /\ charBuff[t] \in Seq(Keys) /\ line[t] \in Seq(Keys)
       /\ shown[t] \in Seq(Keys) /\ sent[t] \in Seq(Keys)

(* While serialOn the port is open and a thread reads it; a window that    *)
(* offers to connect has neither, so CreateThread never makes a second     *)
(* reader of io->hdSerial.                                                 *)
SessionHolds ==
  \A t \in Terminals :
    /\ serialOn[t] => hdSerial[t] # <<>> /\ readThrd[t] # "none"
    /\ app[t] \in {"idle", "connected"} => readThrd[t] = "none"
    /\ app[t] = "idle" => hdSerial[t] = <<>>

(* While a port is open, what is shown, in the reader's hand and in the    *)
(* driver's buffer is what arrived, in order and once each: also when      *)
(* CancelSynchronousIo makes a read fail and the loop reads again.         *)
ShownAsSent ==
  \A t \in Terminals :
    hdSerial[t] # <<>> =>
      shown[t] \o (IF readThrd[t] = "showing" THEN charBuff[t] ELSE <<>>) \o line[t] = sent[t]
=============================================================================
