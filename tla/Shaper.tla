------------------------------- MODULE Shaper -------------------------------
(***************************************************************************)
(* Win32_Shaper: a drawing window with scroll bars and a menu, a modeless  *)
(* paint box with the same options, and the party, threads that send the   *)
(* window background commands.  The window's thread handles sent messages  *)
(* also while a scroll bar is dragged or a dialog is open.                 *)
(*                                                                         *)
(* How things are drawn is left out: a shape is the scroll position it is  *)
(* stored with.  Part of the window may be uncovered at any time, so       *)
(* WM_PAINT comes at any time.                                             *)
(***************************************************************************)
EXTENDS Integers, Sequences

CONSTANTS
  Options,        \* "bg" (background), "pen", "shape", "mode"
  Values,         \* the choices of an option
  Default,        \* the one the program starts with (WHITE for "bg")
  Axes,           \* the scroll bars
  MaxPos,         \* their last position
  MaxShapes, MaxParties   \* bounds

ASSUME ShaperAssumption ==
  /\ "bg" \in Options /\ Default \in Values
  /\ MaxPos \in Nat /\ MaxShapes \in Nat /\ MaxParties \in Nat

VARIABLES
  up,             \* the program runs
  current,        \* currentBG, currentPen, currentShape, mode
  menu, paintBox, \* the choices checked in the menu and in the paint box
  lastBG,
  shapes,         \* for each shape the scroll position added to its corners
  clipboard,      \* a copied shape, as a sequence of at most one
  drawShape,
  pos,            \* the scroll bars' positions
  held,           \* WndProc's HorzPos and VertPos
  tracking,       \* the scroll bar in use, as a set
  modal,          \* About or a message box is open, the window is disabled
  active,         \* GetActiveWindow() is the drawing window
  timer,
  party,          \* the thread of pThread runs
  strays,         \* number of party threads no handle is kept of
  chosen,         \* history: a background was chosen since the last change
  sized           \* history: the window was sized since the last scrolling

options == <<current, menu, paintBox>>
view == <<pos, held, tracking, sized>>
parties == <<timer, party, strays>>
focus == <<modal, active>>
drawing == <<lastBG, shapes, chosen>>
shaperVars == <<up, options, drawing, clipboard, drawShape, view, focus, parties>>

AtZero == [a \in Axes |-> 0]
Positions == [Axes -> 0..MaxPos]

(* InitInstance, up to the first WM_PAINT.  The clipboard may hold a shape *)
(* another run copied.                                                     *)
ShaperInit ==
  /\ up = TRUE
  /\ current = [o \in Options |-> Default]
  /\ menu = [o \in Options |-> {Default}] /\ paintBox = menu
  /\ lastBG = Default /\ shapes = <<>> /\ drawShape = FALSE
  /\ clipboard \in {<<>>} \cup {<<p>> : p \in Positions}
  /\ pos = AtZero /\ held = AtZero /\ tracking = {}
  /\ modal = FALSE /\ active = TRUE
  /\ timer = FALSE /\ party = FALSE /\ strays = 0
  /\ chosen = FALSE /\ sized = [a \in Axes |-> FALSE]

(* The process ends with its threads.                                      *)
Ends ==
  /\ up' = FALSE /\ party' = FALSE /\ strays' = 0 /\ timer' = FALSE
  /\ UNCHANGED <<options, drawing, clipboard, drawShape, view, focus>>

(* An exception or a null pointer in WndProc: the program ends, or Windows *)
(* drops it and the message has no further effect.                         *)
Faults ==
  \/ Ends
  \/ active' = TRUE /\ UNCHANGED <<up, options, drawing, clipboard, drawShape, view, modal, parties>>

(* The window takes the mouse; a click makes it the active one.            *)
Clickable == up /\ ~modal /\ tracking = {}
WindowClicked == Clickable /\ active' = TRUE

-----------------------------------------------------------------------------
(* The options: checkMode, checkPen, checkBG, checkShape.                  *)

CheckLate(o, v, marks) ==        \* slip: the old choice is unchecked last
  /\ current' = [current EXCEPT ![o] = v]
  /\ menu' = [menu EXCEPT ![o] = (@ \cup {v}) \ {current[o]}]
  /\ paintBox' = [paintBox EXCEPT ![o] = (marks \cup {v}) \ {current[o]}]
  /\ chosen' = (chosen \/ o = "bg")

Check(o, v, marks) ==
  /\ current' = [current EXCEPT ![o] = v]
  /\ menu' = [menu EXCEPT ![o] = (@ \ {current[o]}) \cup {v}]
  /\ paintBox' = [paintBox EXCEPT ![o] = (marks \ {current[o]}) \cup {v}]
  /\ chosen' = (chosen \/ o = "bg")

ChangeMain(o, v) ==
  /\ WindowClicked
  /\ Check(o, v, paintBox[o])
  /\ UNCHANGED <<up, lastBG, shapes, clipboard, drawShape, view, modal, parties>>

(* The buttons are check boxes that toggle themselves when clicked.        *)
Toggled(S, v) == IF v \in S THEN S \ {v} ELSE S \cup {v}

ChangeDbox(o, v) ==
  /\ up /\ tracking = {}
  /\ active' = FALSE
  /\ Check(o, v, Toggled(paintBox[o], v))
  /\ UNCHANGED <<up, lastBG, shapes, clipboard, drawShape, view, modal, parties>>

Erase ==
  /\ up /\ tracking = {}
  /\ active' = FALSE
  /\ shapes' = <<>>
  /\ UNCHANGED <<up, options, lastBG, chosen, clipboard, drawShape, view, modal, parties>>

-----------------------------------------------------------------------------
(* Drawing.                                                                *)

BeginShape ==
  /\ WindowClicked
  /\ drawShape' = TRUE
  /\ UNCHANGED <<up, options, drawing, clipboard, view, modal, parties>>

(* indexShapes.  A press or a release may be missing, when the other end   *)
(* of the drag is outside the window.                                      *)
IndexShapes ==
  /\ Clickable /\ drawShape
  /\ drawShape' = FALSE
  /\ Len(shapes) < MaxShapes
  /\ shapes' = Append(shapes, held)
  /\ UNCHANGED <<up, options, lastBG, chosen, clipboard, view, focus, parties>>

BackgroundForgotten ==           \* slip: lastBG is not updated
  /\ shapes' = <<>> /\ chosen' = FALSE
  /\ UNCHANGED lastBG

SetBackground ==
  /\ lastBG' = current["bg"]
  /\ shapes' = <<>>
  /\ chosen' = FALSE

(* WM_PAINT: BeginPaint sends WM_ERASEBKGND, OnPaint draws the shapes of   *)
(* the active window, which may not be this one.                           *)
Paint ==
  /\ up
  /\ \/ /\ IF current["bg"] # lastBG THEN SetBackground ELSE UNCHANGED drawing
        /\ UNCHANGED <<up, options, clipboard, drawShape, view, focus, parties>>
     \/ ~active /\ ~drawShape /\ Ends

-----------------------------------------------------------------------------
(* Scrolling.                                                              *)

ScrollPast(a, p) ==              \* slip: one line down from the last position
  /\ up /\ ~modal /\ tracking \subseteq {a}
  /\ tracking' = {a} /\ active' = TRUE
  /\ pos' = [pos EXCEPT ![a] = p + 1]
  /\ held' = [held EXCEPT ![a] = pos[a]]
  /\ UNCHANGED <<up, options, drawing, clipboard, drawShape, sized, modal, parties>>

(* A message of a scroll bar that moves it: HorzPos and VertPos get the    *)
(* position before it.                                                     *)
ScrollBar(a, p) ==
  /\ up /\ ~modal /\ tracking \subseteq {a}
  /\ tracking' = {a} /\ active' = TRUE
  /\ pos' = [pos EXCEPT ![a] = p]
  /\ held' = [held EXCEPT ![a] = pos[a]]
  /\ UNCHANGED <<up, options, drawing, clipboard, drawShape, sized, modal, parties>>

EndUnread(a) ==                  \* slip: SB_ENDSCROLL returns without reading
  /\ tracking = {a}
  /\ tracking' = {}
  /\ sized' = [sized EXCEPT ![a] = FALSE]
  /\ UNCHANGED <<up, options, drawing, clipboard, drawShape, pos, held, focus, parties>>

(* SB_ENDSCROLL, the last message of each use of a scroll bar.             *)
EndScroll(a) ==
  /\ tracking = {a}
  /\ tracking' = {}
  /\ held' = [held EXCEPT ![a] = pos[a]]
  /\ sized' = [sized EXCEPT ![a] = FALSE]
  /\ UNCHANGED <<up, options, drawing, clipboard, drawShape, pos, focus, parties>>

WmSize ==
  /\ Clickable
  /\ pos' = AtZero
  /\ sized' = [a \in Axes |-> TRUE]
  /\ UNCHANGED <<up, options, drawing, clipboard, drawShape, held, tracking, focus, parties>>

-----------------------------------------------------------------------------
(* Copy, paste and dialogs.                                                *)

About ==
  /\ Clickable
  /\ modal' = TRUE /\ active' = FALSE
  /\ UNCHANGED <<up, options, drawing, clipboard, drawShape, view, parties>>

CloseDialog ==
  /\ up /\ modal
  /\ modal' = FALSE /\ active' = TRUE
  /\ UNCHANGED <<up, options, drawing, clipboard, drawShape, view, parties>>

SetClipboard ==
  /\ Clickable
  /\ IF shapes = <<>> THEN Faults
     ELSE /\ clipboard' = <<shapes[Len(shapes)]>>
          /\ modal' = TRUE /\ active' = FALSE
          /\ UNCHANGED <<up, options, drawing, drawShape, view, parties>>

GetClipboard ==
  /\ Clickable /\ Len(shapes) < MaxShapes
  /\ IF clipboard = <<>> THEN Faults
     ELSE /\ shapes' = shapes \o clipboard
          /\ active' = TRUE
          /\ UNCHANGED <<up, options, lastBG, chosen, clipboard, drawShape, view, modal, parties>>

(* Another program copies something else, or takes the focus.              *)
OtherProgram ==
  /\ up /\ tracking = {}
  /\ clipboard' \in {clipboard, <<>>} /\ active' = FALSE
  /\ UNCHANGED <<up, options, drawing, drawShape, view, modal, parties>>

-----------------------------------------------------------------------------
(* The party.                                                              *)

(* ID_PARTY: the handle of a party that still runs is overwritten.         *)
Party ==
  /\ WindowClicked
  /\ timer' = TRUE /\ party' = TRUE
  /\ IF party THEN strays < MaxParties /\ strays' = strays + 1 ELSE UNCHANGED strays
  /\ UNCHANGED <<up, options, drawing, clipboard, drawShape, view, modal>>

(* seizureWindows sends a background command.                              *)
SeizureWindows(v) ==
  /\ party \/ strays > 0
  /\ Check("bg", v, paintBox["bg"])
  /\ UNCHANGED <<up, lastBG, shapes, clipboard, drawShape, view, focus, parties>>

(* WM_TIMER, every four seconds from the first party on; later ones come   *)
(* before the four seconds of a new party are over.                        *)
Timer ==
  /\ timer /\ party
  /\ party' = FALSE
  /\ UNCHANGED <<up, options, drawing, clipboard, drawShape, view, focus, timer, strays>>

Exit == Clickable /\ Ends

ShaperNext ==
  \/ \E o \in Options, v \in Values : ChangeMain(o, v) \/ ChangeDbox(o, v)
  \/ Erase \/ BeginShape \/ IndexShapes \/ Paint
  \/ \E a \in Axes : EndScroll(a) \/ (\E p \in 0..MaxPos : ScrollBar(a, p))
  \/ WmSize \/ About \/ CloseDialog \/ SetClipboard \/ GetClipboard \/ OtherProgram
  \/ Party \/ (\E v \in Values : SeizureWindows(v)) \/ Timer \/ Exit

ShaperSpec == ShaperInit /\ [][ShaperNext]_shaperVars
-----------------------------------------------------------------------------
(* Types.                                                                  *)
ShaperTypeOK ==
  /\ up \in BOOLEAN /\ current \in [Options -> Values]
  /\ menu \in [Options -> SUBSET Values] /\ paintBox \in [Options -> SUBSET Values]
  /\ lastBG \in Values /\ drawShape \in BOOLEAN /\ modal \in BOOLEAN /\ active \in BOOLEAN
  /\ shapes \in Seq(Positions) /\ clipboard \in Seq(Positions)
  /\ pos \in Positions /\ held \in Positions /\ tracking \subseteq Axes
  /\ timer \in BOOLEAN /\ party \in BOOLEAN /\ strays \in Nat
  /\ chosen \in BOOLEAN /\ sized \in [Axes -> BOOLEAN]

(* The menu and the paint box show the one choice that is in force, also   *)
(* when the current choice is clicked, which unchecks its button.          *)
OptionsAgree ==
  \A o \in Options : menu[o] = {current[o]} /\ paintBox[o] = {current[o]}

(* A shape is stored in the position it was drawn in, the corners plus the *)
(* scroll position that is shown, although a scroll message sets HorzPos   *)
(* and VertPos to the position before it: unless the window was sized      *)
(* since the last scrolling, which moves the bars and not the variables.   *)
StoredWhereDrawn ==
  [][(drawShape /\ ~drawShape' /\ up') =>
       \A a \in Axes : sized[a] \/ shapes'[Len(shapes')][a] = pos[a]]_shaperVars

(* Repainting clears the drawing only when a background was chosen since   *)
(* it last did; otherwise only the erase button does.                      *)
DrawingKept ==
  [][Len(shapes') < Len(shapes) => chosen \/ Erase]_shaperVars
=============================================================================
