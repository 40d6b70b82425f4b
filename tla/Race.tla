-------------------------------- MODULE Race --------------------------------
(***************************************************************************)
(* Extreme Racing: the race program (Race.cpp), a window whose thread runs *)
(* WndProc for each message and one thread for each car, and the two start *)
(* windows (begin.cpp, begin2.cpp), processes of their own.  They share    *)
(* four named auto-reset events; an event lives as long as some process    *)
(* has it open.                                                            *)
(*                                                                         *)
(* A critical section that is used before it is initialised, initialised   *)
(* again while a car is inside, or left by a car that is not inside, is    *)
(* "broken": from then on a car that enters may pass or wait for ever.     *)
(***************************************************************************)
EXTENDS Integers, Sequences

CONSTANTS
  Cars,
  Windows,        \* numbers of the start windows
  None            \* no car

ASSUME RaceAssumption == Windows \subseteq Int /\ None \notin Cars

VARIABLES
  main,           \* the race's window thread
  GLOBAL, winner,
  cs,             \* the critical section: its state and the car inside
  car,            \* where each car's thread is
  boxes,          \* the cars whose message box is open, the last on top
  wndExit,
  begin, quit,    \* events "start race w" and "race exit w": signaled or not
  window,         \* start window w is open
  mode,           \* history: what the clicks of this race amount to
  said,           \* history: number of winners announced
  owed            \* history: w was noted by a race and has not been closed since

statics == <<GLOBAL, winner, cs>>
events == <<begin, quit, window, wndExit, owed>>
raceVars == <<main, statics, car, boxes, events, mode, said>>

InSection == {"testing", "sending", "announced", "marking", "leaving"}

Unused == [state |-> "none", owner |-> None]
Parked == [c \in Cars |-> "suspended"]
Unset == [w \in Windows |-> FALSE]

RaceInit ==
  /\ main = "waiting"
  /\ GLOBAL = FALSE /\ winner = FALSE /\ cs = Unused
  /\ car = Parked /\ boxes = <<>>
  /\ wndExit = Unset /\ begin = Unset /\ quit = Unset
  /\ mode = "none" /\ said = 0 /\ owed = Unset
  /\ window \in [Windows -> BOOLEAN]

Lowest(S) == CHOOSE w \in S : \A v \in S : w <= v

(* The wait of WinMain, and the one without blocking at the top of         *)
(* WndProc: of the start events that are signaled it takes the first.      *)
Notice ==
  LET signaled == {w \in Windows : begin[w]}
  IN  IF signaled = {} THEN UNCHANGED <<begin, wndExit, owed>>
      ELSE LET w == Lowest(signaled)
           IN  /\ begin' = [begin EXCEPT ![w] = FALSE]
               /\ wndExit' = [wndExit EXCEPT ![w] = TRUE]
               /\ owed' = [owed EXCEPT ![w] = window[w]]

WinMain ==
  /\ main = "waiting" /\ \E w \in Windows : begin[w]
  /\ Notice
  /\ main' = "running"
  /\ UNCHANGED <<statics, car, boxes, quit, window, mode, said>>

(* Any message that does nothing else (WM_SIZE, WM_PAINT, ...).            *)
Message ==
  /\ main = "running" /\ \E w \in Windows : begin[w]
  /\ Notice
  /\ UNCHANGED <<main, statics, car, boxes, quit, window, mode, said>>

(* A message box disables its owner: no clicks, and no closing.            *)
Enabled == main = "running" /\ boxes = <<>>

Resumed == [c \in Cars |-> IF car[c] = "suspended" THEN "driving" ELSE car[c]]

(* A race is "left" or "right" by its first click; a left click changes    *)
(* nothing later on, a right click makes it "mixed".                       *)
Clicked(button) ==
  mode' = IF mode = "none" THEN button
          ELSE IF button = "right" THEN "mixed" ELSE mode

LButtonDown ==
  /\ Enabled
  /\ Notice
  /\ car' = Resumed
  /\ Clicked("left")
  /\ UNCHANGED <<main, statics, boxes, quit, window, said>>

(* WM_RBUTTONDOWN.  Cars of a race already begun run while it is handled.  *)
RButtonDown ==
  /\ Enabled
  /\ Notice
  /\ GLOBAL' = TRUE
  /\ main' = "initialising"
  /\ Clicked("right")
  /\ UNCHANGED <<winner, cs, car, boxes, quit, window, said>>

InitializeCriticalSection ==
  /\ main = "initialising"
  /\ cs' = IF cs.owner = None /\ cs.state # "broken"
             THEN [state |-> "ready", owner |-> None]
             ELSE [cs EXCEPT !.state = "broken"]
  /\ car' = Resumed
  /\ main' = "running"
  /\ UNCHANGED <<GLOBAL, winner, boxes, events, mode, said>>

Moves(c, from, to) == car[c] = from /\ car' = [car EXCEPT ![c] = to]

(* The car's loop up to the finish line, and the test of GLOBAL after it.  *)
Crosses(c) ==
  /\ Moves(c, "driving", IF GLOBAL THEN "entering" ELSE "testing")
  /\ UNCHANGED <<main, statics, boxes, events, mode, said>>

EntersAny(c) ==                  \* slip: nobody waits for the section
  /\ Moves(c, "entering", "testing")
  /\ cs' = IF cs.state = "ready" THEN [cs EXCEPT !.owner = c] ELSE [cs EXCEPT !.state = "broken"]
  /\ UNCHANGED <<main, GLOBAL, winner, boxes, events, mode, said>>

Enters(c) ==
  /\ \/ /\ cs.state = "ready" /\ cs.owner = None
        /\ Moves(c, "entering", "testing")
        /\ cs' = [cs EXCEPT !.owner = c]
     \/ /\ cs.state = "broken"
        /\ Moves(c, "entering", "testing")
        /\ UNCHANGED cs
     \/ /\ cs.state = "none" /\ car[c] = "entering"
        /\ cs' = [cs EXCEPT !.state = "broken"]
        /\ UNCHANGED car
  /\ UNCHANGED <<main, GLOBAL, winner, boxes, events, mode, said>>

(* if(!winner) SendMessage(...).                                           *)
Tests(c) ==
  /\ Moves(c, "testing", IF winner THEN "marking" ELSE "sending")
  /\ UNCHANGED <<main, statics, boxes, events, mode, said>>

(* RACE_CONDITION_TRUE, also delivered while another box is open.          *)
Announce(c) ==
  /\ main = "running"
  /\ Notice
  /\ Moves(c, "sending", "announced")
  /\ boxes' = Append(boxes, c)
  /\ said' = said + 1
  /\ UNCHANGED <<main, statics, quit, window, mode>>

(* The user closes the box on top, MessageBox and then SendMessage return. *)
Answer ==
  /\ main = "running" /\ boxes # <<>>
  /\ car' = [car EXCEPT ![boxes[Len(boxes)]] = "marking"]
  /\ boxes' = SubSeq(boxes, 1, Len(boxes) - 1)
  /\ UNCHANGED <<main, statics, events, mode, said>>

Marks(c) ==
  /\ Moves(c, "marking", "leaving")
  /\ winner' = TRUE
  /\ UNCHANGED <<main, GLOBAL, cs, boxes, events, mode, said>>

LeavesNever(c) ==                \* slip: a return before LeaveCriticalSection
  /\ Moves(c, "leaving", "done")
  /\ UNCHANGED <<main, statics, boxes, events, mode, said>>

Leaves(c) ==
  /\ Moves(c, "leaving", "done")
  /\ cs' = IF ~GLOBAL THEN cs
           ELSE IF cs.owner = c THEN [cs EXCEPT !.owner = None]
           ELSE [cs EXCEPT !.state = "broken"]
  /\ UNCHANGED <<main, GLOBAL, winner, boxes, events, mode, said>>

StartCar(c) == Crosses(c) \/ Enters(c) \/ Tests(c) \/ Marks(c) \/ Leaves(c)

DestroyOne ==                    \* slip: else between the two windows
  /\ Enabled
  /\ Notice
  /\ LET noted == {w \in Windows : wndExit'[w]}
     IN  quit' = [w \in Windows |-> quit[w] \/ (w \in noted /\ w = Lowest(noted))]
  /\ main' = "destroying"
  /\ UNCHANGED <<statics, car, boxes, window, mode, said>>

(* WM_DESTROY.                                                             *)
Destroy ==
  /\ Enabled
  /\ Notice
  /\ quit' = [w \in Windows |-> quit[w] \/ wndExit'[w]]
  /\ main' = "destroying"
  /\ UNCHANGED <<statics, car, boxes, window, mode, said>>

(* WM_NCDESTROY is the last message, whose notice nobody reads.  Then the  *)
(* process ends with its threads.                                          *)
Exits ==
  /\ main = "destroying"
  /\ main' = "exited"
  /\ begin' = [w \in Windows |-> /\ begin[w] /\ window[w]
                                 /\ w # Lowest({v \in Windows : begin[v]})]
  /\ quit' = [w \in Windows |-> quit[w] /\ window[w]]
  /\ GLOBAL' = FALSE /\ winner' = FALSE /\ cs' = Unused
  /\ car' = Parked /\ boxes' = <<>> /\ wndExit' = Unset
  /\ mode' = "none" /\ said' = 0
  /\ UNCHANGED <<window, owed>>

Launch ==
  /\ main = "exited" /\ main' = "waiting"
  /\ UNCHANGED <<statics, car, boxes, events, mode, said>>

-----------------------------------------------------------------------------
(* The start windows.                                                      *)

startVars == <<main, statics, car, boxes, wndExit, mode, said>>

(* With the window its process closes its handles.                         *)
Closes(w) ==
  /\ window' = [window EXCEPT ![w] = FALSE]
  /\ quit' = [quit EXCEPT ![w] = FALSE]
  /\ owed' = [owed EXCEPT ![w] = FALSE]

(* WM_COMMAND of the button.  If the same message finds "race exit", the   *)
(* window closes and start is signaled all the same.                       *)
PressStart(w) ==
  /\ window[w]
  /\ begin' = [begin EXCEPT ![w] = ~quit[w] \/ main # "exited"]
  /\ IF quit[w] THEN Closes(w) ELSE UNCHANGED <<quit, window, owed>>
  /\ UNCHANGED startVars

(* Any other message.                                                      *)
StartMessage(w) ==
  /\ window[w] /\ quit[w]
  /\ Closes(w)
  /\ begin' = [begin EXCEPT ![w] = @ /\ main # "exited"]
  /\ UNCHANGED startVars

CloseStart(w) ==
  /\ window[w]
  /\ Closes(w)
  /\ begin' = [begin EXCEPT ![w] = @ /\ main # "exited"]
  /\ UNCHANGED startVars

OpenStart(w) ==
  /\ ~window[w]
  /\ window' = [window EXCEPT ![w] = TRUE]
  /\ UNCHANGED <<begin, quit, owed, startVars>>

StartWindow(w) == PressStart(w) \/ StartMessage(w) \/ CloseStart(w) \/ OpenStart(w)

RaceWindow ==
  \/ WinMain \/ Message \/ LButtonDown \/ RButtonDown \/ InitializeCriticalSection
  \/ Answer \/ Destroy \/ Exits \/ Launch
  \/ \E c \in Cars : Announce(c)

RaceNext ==
  \/ RaceWindow
  \/ \E c \in Cars : StartCar(c)
  \/ \E w \in Windows : StartWindow(w)

(* The threads run, a waiting car gets the section when it is free, the    *)
(* user answers a message box, and a start window gets a message now and   *)
(* then.                                                                   *)
Handles == InitializeCriticalSection \/ Answer \/ \E c \in Cars : Announce(c)

RaceFairness ==
  /\ WF_raceVars(Handles)
  /\ \A c \in Cars : WF_raceVars(StartCar(c))
  /\ \A w \in Windows : WF_raceVars(StartMessage(w))

RaceSpec == RaceInit /\ [][RaceNext]_raceVars
RaceFairSpec == RaceSpec /\ RaceFairness
-----------------------------------------------------------------------------
(* Types.                                                                  *)
RaceTypeOK ==
  /\ main \in {"waiting", "running", "initialising", "destroying", "exited"}
  /\ GLOBAL \in BOOLEAN /\ winner \in BOOLEAN
  /\ cs \in [state : {"none", "ready", "broken"}, owner : Cars \cup {None}]
  /\ car \in [Cars -> {"suspended", "driving", "entering", "done"} \cup InSection]
  /\ boxes \in Seq(Cars)
  /\ wndExit \in [Windows -> BOOLEAN] /\ begin \in [Windows -> BOOLEAN]
  /\ quit \in [Windows -> BOOLEAN] /\ window \in [Windows -> BOOLEAN]
  /\ mode \in {"none", "left", "right", "mixed"} /\ said \in Nat
  /\ owed \in [Windows -> BOOLEAN]

(* A race begun with the right button and not clicked right again has one  *)
(* winner: startCar tests and sets winner inside the critical section, and *)
(* keeps it while its message box is open.                                 *)
OneWinner == mode = "right" => said <= 1

(* In a race with or without the section, but not one that changes from    *)
(* one to the other, every car that started reaches the end of startCar,   *)
(* unless the window is closed.  The section is held while SendMessage     *)
(* waits for the window's thread.                                          *)
RaceEnds ==
  \A c \in Cars :
    (mode # "mixed" /\ car[c] = "driving") ~>
      (car[c] = "done" \/ mode = "mixed" \/ main \in {"destroying", "exited"})

(* A start window whose button the race took note of is closed by the end  *)
(* of the race, if messages reach it.                                      *)
NotedIsClosed ==
  \A w \in Windows : (main = "destroying" /\ owed[w]) ~> ~window[w]
=============================================================================
