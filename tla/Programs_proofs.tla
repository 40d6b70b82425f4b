--------------------------- MODULE Programs_proofs ---------------------------
(***************************************************************************)
(* Four programs that have nothing to do with each other, for any values   *)
(* of their constants.  A race begun with the right mouse button has at    *)
(* most one winner, for any number of cars and start windows.  A session   *)
(* of serialTerm has an open port and one reading thread, and loses no     *)
(* character of an open port.  The drawing program's menu and paint box    *)
(* agree, a shape is stored where it was drawn, and a drawing is cleared   *)
(* by nothing but a background that was chosen or the erase button.  The   *)
(* chat client loses no typed line to the fields refused commands leave in *)
(* its pipe, and each side of its connections reads whole packets.         *)
(***************************************************************************)
EXTENDS MCPrograms, SequenceTheorems, TLAPS

-----------------------------------------------------------------------------
(* The race: the critical section and the flag, with the window's thread   *)
(* answering SendMessage in between.                                       *)

(* What the proof needs to know of the types.                              *)
RaceTyped ==
  /\ car \in [Cars -> {"suspended", "driving", "entering", "done"} \cup InSection]
  /\ cs \in [state : {"none", "ready", "broken"}, owner : Cars \cup {None}]
  /\ said \in Nat

AllParked == \A c \in Cars : car[c] = "suspended"

(* Before the section is initialised nobody has started.                   *)
Fresh ==
  /\ cs = Unused /\ AllParked
  /\ boxes = <<>> /\ said = 0 /\ winner = FALSE

(* The car between EnterCriticalSection and LeaveCriticalSection owns the  *)
(* section, whether its message box is open or not.                        *)
Owned == \A c \in Cars : car[c] \in InSection <=> cs.owner = c

(* The only box is the owner's; and once a winner was announced, either    *)
(* winner is set or the owner is about to set it.                          *)
OneBox ==
  \/ boxes = <<>> /\ \A c \in Cars : car[c] # "announced"
  \/ \E c \in Cars : boxes = <<c>> /\ car[c] = "announced"

Announced ==
  /\ said <= 1
  /\ \A c \in Cars : car[c] = "sending" => winner = FALSE /\ said = 0
  /\ said = 1 /\ winner # TRUE => \E c \in Cars : car[c] \in {"announced", "marking"}

Synchronised == cs.state = "ready" /\ Owned /\ OneBox /\ Announced

RaceInv ==
  /\ RaceTyped
  /\ winner \in BOOLEAN
  /\ mode = "none" => Fresh /\ main # "initialising"
  /\ mode = "right" => /\ GLOBAL = TRUE
                       /\ main = "initialising" => Fresh
                       /\ main # "initialising" => Synchronised

LEMMA InitRace == RaceInit => RaceInv
  <1> SUFFICES ASSUME RaceInit PROVE RaceInv
    OBVIOUS
  <1>1. car = Parked /\ cs = Unused /\ said = 0 /\ boxes = <<>> /\ mode = "none" /\ main = "waiting"
    BY DEF RaceInit
  <1>2. winner = FALSE
    BY DEF RaceInit
  <1>3. RaceTyped
    BY <1>1 DEF RaceTyped, Parked, Unused
  <1>4. Fresh
    BY <1>1, <1>2 DEF Fresh, AllParked, Parked
  <1>5. winner \in BOOLEAN
    BY <1>2
  <1> QED BY <1>1, <1>3, <1>4, <1>5 DEF RaceInv

(* Actions that leave the cars, the section and what was said alone.       *)
LEMMA StepQuiet ==
  ASSUME RaceInv, UNCHANGED <<statics, car, boxes, mode, said>>,
         main' = "initialising" <=> main = "initialising"
  PROVE  RaceInv'
  BY DEF RaceInv, RaceTyped, Fresh, AllParked, Synchronised, Owned, OneBox, Announced, statics, InSection, Unused

LEMMA StepLButton == RaceInv /\ LButtonDown => RaceInv'
  <1> SUFFICES ASSUME RaceInv, LButtonDown PROVE RaceInv'
    OBVIOUS
  <1> USE DEF LButtonDown, Enabled, statics, RaceInv
  <1>1. car' = Resumed /\ car \in [Cars -> {"suspended", "driving", "entering", "done"} \cup InSection]
    BY DEF RaceTyped
  <1>2. RaceTyped'
    BY <1>1 DEF Resumed, InSection, RaceTyped
  <1>3. \A c \in Cars : /\ car'[c] \in InSection <=> car[c] \in InSection
                        /\ car[c] \in InSection => car'[c] = car[c]
                        /\ car'[c] \in InSection => car'[c] = car[c]
    BY <1>1 DEF Resumed, InSection
  <1>4. mode' # "none" /\ (mode' = "right" => mode = "right") /\ main' = main /\ main = "running"
    BY DEF Clicked
  <1>5. mode = "right" => Synchronised'
    <2> SUFFICES ASSUME mode = "right" PROVE Synchronised'
      OBVIOUS
    <2>1. Owned' BY <1>3, <1>4 DEF Synchronised, Owned
    <2>2. OneBox' BY <1>3, <1>4 DEF Synchronised, OneBox, InSection
    <2>3. Announced' BY <1>3, <1>4 DEF Synchronised, Announced, InSection
    <2> QED BY <2>1, <2>2, <2>3, <1>4 DEF Synchronised
  <1> QED BY <1>2, <1>4, <1>5

LEMMA StepRButton == RaceInv /\ RButtonDown => RaceInv'
  BY DEF RaceInv, RButtonDown, Enabled, Clicked, RaceTyped, Fresh, AllParked, Unused

LEMMA StepInitialize == RaceInv /\ InitializeCriticalSection => RaceInv'
  <1> SUFFICES ASSUME RaceInv, InitializeCriticalSection PROVE RaceInv'
    OBVIOUS
  <1> USE DEF InitializeCriticalSection, RaceInv
  <1>1. RaceTyped'
    BY DEF RaceTyped, Resumed, InSection
  <1>2. mode # "none" /\ mode' = mode /\ main = "initialising" /\ main' = "running"
    OBVIOUS
  <1>3. mode = "right" => Synchronised'
    <2> SUFFICES ASSUME mode = "right" PROVE Synchronised'
      OBVIOUS
    <2>1. Fresh BY <1>2
    <2>2. \A c \in Cars : car'[c] = "driving"
      BY <2>1 DEF Fresh, AllParked, Resumed
    <2>3. cs' = [state |-> "ready", owner |-> None]
      BY <2>1 DEF Fresh, Unused
    <2>4. Owned' BY <2>2, <2>3, RaceAssumption DEF Owned, InSection
    <2>5. OneBox' BY <2>1, <2>2 DEF Fresh, OneBox
    <2>6. Announced' BY <2>1, <2>2 DEF Fresh, Announced
    <2> QED BY <2>3, <2>4, <2>5, <2>6 DEF Synchronised
  <1> QED BY <1>1, <1>2, <1>3

(* A step of one car's thread that leaves the section, the boxes and what  *)
(* was said alone: from outside the section to outside, or from inside to  *)
(* inside and not to SendMessage.                                          *)
LEMMA StepMoves ==
  ASSUME RaceInv, NEW c \in Cars, NEW from, NEW to, Moves(c, from, to),
         from # "suspended", from # "announced", to # "announced", to # "sending",
         to \in {"suspended", "driving", "entering", "done"} \cup InSection,
         from \in InSection <=> to \in InSection,
         from = "marking" => winner' = TRUE,
         winner' = winner \/ winner' = TRUE,
         winner' # winner => from = "marking",
         UNCHANGED <<main, GLOBAL, cs, boxes, mode, said>>
  PROVE  RaceInv'
  <1> USE DEF RaceInv, Moves
  <1>1. /\ car \in [Cars -> {"suspended", "driving", "entering", "done"} \cup InSection]
        /\ car[c] = from /\ car' = [car EXCEPT ![c] = to]
    BY DEF RaceTyped
  <1>2. RaceTyped'
    BY <1>1 DEF RaceTyped
  <1>3. winner' \in BOOLEAN
    OBVIOUS
  <1>4. mode # "none" /\ ~(mode = "right" /\ main = "initialising")
    BY <1>1 DEF Fresh, AllParked
  <1>5. mode = "right" => Synchronised'
    <2> SUFFICES ASSUME mode = "right", Synchronised PROVE Synchronised'
      BY <1>4
    <2>1. Owned'
      BY <1>1 DEF Owned, Synchronised
    <2>2. OneBox'
      BY <1>1 DEF OneBox, Synchronised
    <2>3. Announced'
      <3>1. said' <= 1
        BY DEF Announced, Synchronised
      <3>2. ASSUME NEW d \in Cars, car'[d] = "sending"
            PROVE  winner' = FALSE /\ said' = 0
        <4>1. d # c /\ car[d] = "sending"
          BY <1>1, <3>2
        <4>2. winner = FALSE /\ said = 0
          BY <4>1 DEF Announced, Synchronised
        <4>3. from # "marking"
          BY <1>1, <4>1 DEF Owned, Synchronised, InSection
        <4> QED BY <4>2, <4>3
      <3>3. ASSUME said' = 1, winner' # TRUE
            PROVE  \E d \in Cars : car'[d] \in {"announced", "marking"}
        <4>1. PICK d \in Cars : car[d] \in {"announced", "marking"}
          BY <3>3 DEF Announced, Synchronised
        <4>2. d # c
          BY <4>1, <3>3, <1>1
        <4> QED BY <4>1, <4>2, <1>1
      <3> QED BY <3>1, <3>2, <3>3 DEF Announced
    <2> QED BY <2>1, <2>2, <2>3 DEF Synchronised
  <1> QED BY <1>2, <1>3, <1>4, <1>5

(* Once a car has been started, a race of the right button is one with its *)
(* section initialised; in any other the invariant says little.            *)
LEMMA Begun ==
  ASSUME RaceInv, NEW c \in Cars, car[c] # "suspended"
  PROVE  mode # "none" /\ (mode = "right" => GLOBAL = TRUE /\ main # "initialising" /\ Synchronised)
  BY DEF RaceInv, Fresh, AllParked

LEMMA StepCrosses == \A c \in Cars : RaceInv /\ Crosses(c) => RaceInv'
  <1> SUFFICES ASSUME NEW c \in Cars, RaceInv, Crosses(c) PROVE RaceInv'
    OBVIOUS
  <1>1. car[c] = "driving"
    BY DEF Crosses, Moves
  <1>2. CASE GLOBAL
    <2>1. Moves(c, "driving", "entering")
      BY <1>2 DEF Crosses
    <2> QED BY <2>1, StepMoves DEF Crosses, statics, InSection
  <1>3. CASE ~GLOBAL
    <2>1. mode # "none" /\ mode # "right"
      BY <1>1, <1>3, Begun
    <2>2. RaceTyped'
      BY DEF RaceInv, RaceTyped, Crosses, Moves, statics, InSection
    <2> QED BY <2>1, <2>2 DEF RaceInv, Crosses, statics
  <1> QED BY <1>2, <1>3

LEMMA StepEnters == \A c \in Cars : RaceInv /\ Enters(c) => RaceInv'
  <1> SUFFICES ASSUME NEW c \in Cars, RaceInv, Enters(c) PROVE RaceInv'
    OBVIOUS
  <1>1. car[c] = "entering" /\ UNCHANGED <<main, GLOBAL, winner, boxes, mode, said>>
    BY DEF Enters, Moves
  <1>2. mode # "none" /\ (mode = "right" => GLOBAL = TRUE /\ main # "initialising" /\ Synchronised)
    BY <1>1, Begun
  <1>3. car' \in [Cars -> {"suspended", "driving", "entering", "done"} \cup InSection]
    BY DEF RaceInv, RaceTyped, Enters, Moves, InSection
  <1>4. cs \in [state : {"none", "ready", "broken"}, owner : Cars \cup {None}]
    BY DEF RaceInv, RaceTyped
  <1>5. cs' \in [state : {"none", "ready", "broken"}, owner : Cars \cup {None}]
    BY <1>4 DEF Enters
  <1>6. RaceTyped' /\ winner' \in BOOLEAN
    BY <1>1, <1>3, <1>5 DEF RaceInv, RaceTyped
  <1>7. mode = "right" => Synchronised'
    <2> SUFFICES ASSUME mode = "right", Synchronised PROVE Synchronised'
      BY <1>2
    <2>1. cs.owner = None /\ car' = [car EXCEPT ![c] = "testing"] /\ cs' = [cs EXCEPT !.owner = c]
      BY DEF Enters, Synchronised, Moves
    <2>2. cs'.state = "ready" /\ cs'.owner = c
      BY <2>1, <1>4 DEF Synchronised
    <2>3. \A d \in Cars : car[d] \notin InSection
      BY <2>1, RaceAssumption DEF Synchronised, Owned
    <2>4. car \in [Cars -> {"suspended", "driving", "entering", "done"} \cup InSection]
      BY DEF RaceInv, RaceTyped
    <2>5. car'[c] = "testing" /\ \A d \in Cars \ {c} : car'[d] = car[d]
      BY <2>1, <2>4
    <2>6. Owned'
      BY <2>2, <2>3, <2>5 DEF Owned, InSection
    <2>7. OneBox'
      BY <1>1, <2>3, <2>5 DEF Synchronised, OneBox, InSection
    <2>8. Announced'
      BY <1>1, <2>3, <2>5 DEF Synchronised, Announced, InSection
    <2> QED BY <2>2, <2>6, <2>7, <2>8 DEF Synchronised
  <1> QED BY <1>1, <1>2, <1>6, <1>7 DEF RaceInv

LEMMA StepTests == \A c \in Cars : RaceInv /\ Tests(c) => RaceInv'
  <1> SUFFICES ASSUME NEW c \in Cars, RaceInv, Tests(c) PROVE RaceInv'
    OBVIOUS
  <1> DEFINE to == IF winner THEN "marking" ELSE "sending"
  <1>1. /\ car[c] = "testing" /\ car' = [car EXCEPT ![c] = to]
        /\ UNCHANGED <<main, GLOBAL, winner, cs, boxes, mode, said>>
    BY DEF Tests, Moves, statics
  <1>2. mode # "none" /\ (mode = "right" => GLOBAL = TRUE /\ main # "initialising" /\ Synchronised)
    BY <1>1, Begun
  <1>3. car \in [Cars -> {"suspended", "driving", "entering", "done"} \cup InSection]
    BY DEF RaceInv, RaceTyped
  <1>4. RaceTyped' /\ winner' \in BOOLEAN
    BY <1>1, <1>3 DEF RaceInv, RaceTyped, InSection
  <1>5. mode = "right" => Synchronised'
    <2> SUFFICES ASSUME mode = "right", Synchronised PROVE Synchronised'
      BY <1>2
    <2>1. \A d \in Cars \ {c} : car'[d] = car[d] /\ car[d] \notin InSection
      BY <1>1, <1>3 DEF Synchronised, Owned, InSection
    <2>2. car'[c] = to
      BY <1>1, <1>3
    <2>3. Owned'
      BY <1>1, <2>1, <2>2 DEF Synchronised, Owned, InSection
    <2>4. OneBox'
      BY <1>1, <2>1, <2>2 DEF Synchronised, OneBox, InSection
    <2>5. said <= 1 /\ (winner # TRUE => said # 1)
      BY <1>1, <2>1 DEF Synchronised, Announced, InSection
    <2>6. said \in Nat
      BY DEF RaceInv, RaceTyped
    <2>7. winner \in BOOLEAN
      BY DEF RaceInv
    <2>8. ASSUME NEW d \in Cars, car'[d] = "sending" PROVE winner' = FALSE /\ said' = 0
      <3>1. d = c
        BY <2>1, <2>8 DEF InSection
      <3>2. ~winner
        BY <2>2, <2>8, <3>1
      <3>3. winner = FALSE
        BY <3>2, <2>7
      <3>4. winner # TRUE
        BY <3>2
      <3>5. said = 0
        BY <3>4, <2>5, <2>6
      <3> QED BY <3>3, <3>5, <1>1
    <2>9. Announced'
      BY <2>5, <2>8, <1>1 DEF Announced
    <2> QED BY <1>1, <2>3, <2>4, <2>9 DEF Synchronised
  <1> QED BY <1>1, <1>2, <1>4, <1>5 DEF RaceInv

LEMMA StepAnnounce == \A c \in Cars : RaceInv /\ Announce(c) => RaceInv'
  <1> SUFFICES ASSUME NEW c \in Cars, RaceInv, Announce(c) PROVE RaceInv'
    OBVIOUS
  <1>1. /\ main = "running" /\ car[c] = "sending" /\ car' = [car EXCEPT ![c] = "announced"]
        /\ boxes' = Append(boxes, c) /\ said' = said + 1
        /\ UNCHANGED <<main, GLOBAL, winner, cs, mode>>
    BY DEF Announce, Moves, statics
  <1>2. mode # "none" /\ (mode = "right" => GLOBAL = TRUE /\ main # "initialising" /\ Synchronised)
    BY <1>1, Begun
  <1>3. car \in [Cars -> {"suspended", "driving", "entering", "done"} \cup InSection] /\ said \in Nat
    BY DEF RaceInv, RaceTyped
  <1>4. RaceTyped' /\ winner' \in BOOLEAN
    BY <1>1, <1>3 DEF RaceInv, RaceTyped, InSection
  <1>5. mode = "right" => Synchronised'
    <2> SUFFICES ASSUME mode = "right", Synchronised PROVE Synchronised'
      BY <1>2
    <2>1. \A d \in Cars \ {c} : car'[d] = car[d] /\ car[d] \notin InSection
      BY <1>1, <1>3 DEF Synchronised, Owned, InSection
    <2>2. car'[c] = "announced"
      BY <1>1, <1>3
    <2>3. Owned'
      BY <1>1, <2>1, <2>2 DEF Synchronised, Owned, InSection
    <2>4. boxes = <<>>
      BY <1>1, <2>1 DEF Synchronised, OneBox, InSection
    <2>5. boxes' = <<c>>
      BY <1>1, <2>4
    <2>6. said = 0
      BY <1>1 DEF Synchronised, Announced
    <2>7. OneBox'
      BY <2>2, <2>5 DEF OneBox
    <2>8. said' <= 1
      BY <1>1, <2>6
    <2>9. \A d \in Cars : car'[d] # "sending"
      BY <2>1, <2>2 DEF InSection
    <2>10. Announced'
      BY <2>2, <2>8, <2>9 DEF Announced
    <2> QED BY <1>1, <2>3, <2>7, <2>10 DEF Synchronised
  <1> QED BY <1>1, <1>2, <1>4, <1>5 DEF RaceInv

LEMMA StepAnswer == RaceInv /\ Answer => RaceInv'
  <1> SUFFICES ASSUME RaceInv, Answer PROVE RaceInv'
    OBVIOUS
  <1> DEFINE top == boxes[Len(boxes)]
  <1>1. /\ main = "running" /\ boxes # <<>> /\ car' = [car EXCEPT ![top] = "marking"]
        /\ boxes' = SubSeq(boxes, 1, Len(boxes) - 1)
        /\ UNCHANGED <<main, GLOBAL, winner, cs, mode, said>>
    BY DEF Answer, statics
  <1>2. car \in [Cars -> {"suspended", "driving", "entering", "done"} \cup InSection] /\ said \in Nat
    BY DEF RaceInv, RaceTyped
  <1>3. RaceTyped' /\ winner' \in BOOLEAN
    BY <1>1, <1>2 DEF RaceInv, RaceTyped, InSection
  <1>4. mode # "none" /\ (mode = "right" => GLOBAL = TRUE /\ main # "initialising" /\ Synchronised)
    BY <1>1 DEF RaceInv, Fresh
  <1>5. mode = "right" => Synchronised'
    <2> SUFFICES ASSUME mode = "right", Synchronised PROVE Synchronised'
      BY <1>4
    <2>1. PICK c \in Cars : boxes = <<c>> /\ car[c] = "announced"
      BY <1>1 DEF Synchronised, OneBox
    <2>2. top = c /\ boxes' = <<>>
      BY <1>1, <2>1
    <2>3. \A d \in Cars \ {c} : car'[d] = car[d] /\ car[d] \notin InSection
      BY <1>1, <1>2, <2>1, <2>2 DEF Synchronised, Owned, InSection
    <2>4. car'[c] = "marking"
      BY <1>1, <1>2, <2>2
    <2>5. Owned'
      BY <1>1, <2>1, <2>3, <2>4 DEF Synchronised, Owned, InSection
    <2>6. OneBox'
      BY <2>2, <2>3, <2>4 DEF OneBox, InSection
    <2>7. Announced'
      BY <1>1, <2>3, <2>4 DEF Synchronised, Announced, InSection
    <2> QED BY <1>1, <2>5, <2>6, <2>7 DEF Synchronised
  <1> QED BY <1>1, <1>3, <1>4, <1>5 DEF RaceInv

LEMMA StepMarks == \A c \in Cars : RaceInv /\ Marks(c) => RaceInv'
  <1> SUFFICES ASSUME NEW c \in Cars, RaceInv, Marks(c) PROVE RaceInv'
    OBVIOUS
  <1>1. Moves(c, "marking", "leaving") /\ winner' = TRUE
        /\ UNCHANGED <<main, GLOBAL, cs, boxes, mode, said>>
    BY DEF Marks
  <1> QED BY <1>1, StepMoves DEF InSection

LEMMA StepLeaves == \A c \in Cars : RaceInv /\ Leaves(c) => RaceInv'
  <1> SUFFICES ASSUME NEW c \in Cars, RaceInv, Leaves(c) PROVE RaceInv'
    OBVIOUS
  <1>1. /\ car[c] = "leaving" /\ car' = [car EXCEPT ![c] = "done"]
        /\ UNCHANGED <<main, GLOBAL, winner, boxes, mode, said>>
    BY DEF Leaves, Moves
  <1>2. mode # "none" /\ (mode = "right" => GLOBAL = TRUE /\ main # "initialising" /\ Synchronised)
    BY <1>1, Begun
  <1>3. /\ car \in [Cars -> {"suspended", "driving", "entering", "done"} \cup InSection] /\ said \in Nat
        /\ cs \in [state : {"none", "ready", "broken"}, owner : Cars \cup {None}]
    BY DEF RaceInv, RaceTyped
  <1>4. cs' \in [state : {"none", "ready", "broken"}, owner : Cars \cup {None}]
    BY <1>3 DEF Leaves
  <1>5. RaceTyped' /\ winner' \in BOOLEAN
    BY <1>1, <1>3, <1>4 DEF RaceInv, RaceTyped, InSection
  <1>6. mode = "right" => Synchronised'
    <2> SUFFICES ASSUME mode = "right", Synchronised PROVE Synchronised'
      BY <1>2
    <2>1. \A d \in Cars \ {c} : car'[d] = car[d] /\ car[d] \notin InSection
      BY <1>1, <1>3 DEF Synchronised, Owned, InSection
    <2>2. cs.owner = c /\ cs.state = "ready"
      BY <1>1 DEF Synchronised, Owned, InSection
    <2>3. cs' = [cs EXCEPT !.owner = None]
      BY <1>2, <2>2 DEF Leaves
    <2>4. cs'.owner = None /\ cs'.state = "ready"
      BY <1>3, <2>2, <2>3
    <2>5. car'[c] = "done"
      BY <1>1, <1>3
    <2>6. Owned'
      BY <2>1, <2>4, <2>5, RaceAssumption DEF Owned, InSection
    <2>7. OneBox'
      BY <1>1, <2>1, <2>5 DEF Synchronised, OneBox, InSection
    <2>8. Announced'
      BY <1>1, <2>1, <2>5 DEF Synchronised, Announced, InSection
    <2> QED BY <2>4, <2>6, <2>7, <2>8 DEF Synchronised
  <1> QED BY <1>1, <1>2, <1>5, <1>6 DEF RaceInv

LEMMA StepExits == RaceInv /\ Exits => RaceInv'
  <1> SUFFICES ASSUME RaceInv, Exits PROVE RaceInv'
    OBVIOUS
  <1>1. /\ main' = "exited" /\ winner' = FALSE /\ cs' = Unused /\ car' = Parked
        /\ boxes' = <<>> /\ mode' = "none" /\ said' = 0
    BY DEF Exits
  <1>2. RaceTyped'
    BY <1>1 DEF RaceTyped, Parked, Unused
  <1>3. Fresh'
    BY <1>1 DEF Fresh, AllParked, Parked
  <1>4. winner' \in BOOLEAN
    BY <1>1
  <1> QED BY <1>1, <1>2, <1>3, <1>4 DEF RaceInv

-----------------------------------------------------------------------------
LEMMA StepRace == RaceInv /\ [RaceNext]_raceVars => RaceInv'
  <1> SUFFICES ASSUME RaceInv, [RaceNext]_raceVars PROVE RaceInv'
    OBVIOUS
  <1>1. ASSUME WinMain \/ Message \/ Destroy \/ Launch PROVE RaceInv'
    BY <1>1, StepQuiet DEF WinMain, Message, Destroy, Launch, Enabled, statics
  <1>2. ASSUME NEW w \in Windows, StartWindow(w) PROVE RaceInv'
    BY <1>2, StepQuiet DEF StartWindow, PressStart, StartMessage, CloseStart, OpenStart, startVars, statics
  <1>3. ASSUME UNCHANGED raceVars PROVE RaceInv'
    BY <1>3, StepQuiet DEF raceVars, statics
  <1>4. ASSUME NEW c \in Cars, StartCar(c) PROVE RaceInv'
    BY <1>4, StepCrosses, StepEnters, StepTests, StepMarks, StepLeaves DEF StartCar
  <1>5. ASSUME RaceWindow PROVE RaceInv'
    BY <1>1, <1>5, StepLButton, StepRButton, StepInitialize, StepAnswer, StepExits, StepAnnounce DEF RaceWindow
  <1> QED BY <1>2, <1>3, <1>4, <1>5 DEF RaceNext

LEMMA Implied == RaceInv => OneWinner
  <1> SUFFICES ASSUME RaceInv, mode = "right" PROVE said <= 1
    BY DEF OneWinner
  <1>1. CASE main = "initialising"
    BY <1>1 DEF RaceInv, Fresh
  <1>2. CASE main # "initialising"
    BY <1>2 DEF RaceInv, Synchronised, Announced
  <1> QED BY <1>1, <1>2

(* A race begun with the right button and not clicked right again has one  *)
(* winner.                                                                 *)
THEOREM SynchronisedRace == RaceSpec => []OneWinner
  <1>1. RaceSpec => []RaceInv
    BY InitRace, StepRace, PTL DEF RaceSpec
  <1> QED BY <1>1, Implied, PTL

-----------------------------------------------------------------------------
(* The terminals.                                                          *)

(* Where the window's thread is says whether the port is open and whether  *)
(* its reader exists; between CloseHandle and TerminateThread the reader   *)
(* exists without a port.                                                  *)
HeldAt(t) ==
  /\ serialOn[t] = TRUE <=> app[t] \in {"session", "writing"}
  /\ hdSerial[t] # <<>> <=> app[t] \in {"connected", "session", "writing", "disconnected", "closing"}
  /\ readThrd[t] # "none" <=> app[t] \in {"session", "writing", "disconnected", "closing", "terminating"}

Held == \A t \in Terminals : HeldAt(t)

Tabled ==
  /\ app = [t \in Terminals |-> app[t]]
  /\ serialOn = [t \in Terminals |-> serialOn[t]]
  /\ hdSerial = [t \in Terminals |-> hdSerial[t]]
  /\ readThrd = [t \in Terminals |-> readThrd[t]]

LEMMA InitHeld == SerialInit => Tabled /\ Held
  BY DEF SerialInit, Tabled, Held, HeldAt

LEMMA StepHeld == Tabled /\ Held /\ [SerialNext]_serialVars => Tabled' /\ Held'
  <1> SUFFICES ASSUME Tabled, Held, [SerialNext]_serialVars PROVE Tabled' /\ Held'
    OBVIOUS
  <1> USE DEF Tabled, Held, HeldAt
  <1>1. CASE UNCHANGED serialVars
    BY <1>1 DEF serialVars, reader, text
  <1>2. ASSUME NEW t \in Terminals, TerminalWindow(t) PROVE Tabled' /\ Held'
    <2> USE DEF Goes, reader, text
    <2>1. CASE \E p \in Ports : OpenTerminal(t, p) \/ ChoosePort(t, p)
      BY <2>1 DEF OpenTerminal, ChoosePort
    <2>2. CASE Connect(t)
      <3>1. <<port[t]>> # <<>>
        OBVIOUS
      <3>2. app[t] = "idle" /\ UNCHANGED <<serialOn, readThrd>>
        BY <2>2 DEF Connect
      <3>3. CASE Goes(t, {"idle"}, "failed") /\ UNCHANGED hdSerial
        BY <3>2, <3>3
      <3>4. CASE Goes(t, {"idle"}, "connected") /\ hdSerial' = [hdSerial EXCEPT ![t] = <<port[t]>>]
        BY <3>1, <3>2, <3>4
      <3> QED BY <2>2, <3>3, <3>4 DEF Connect
    <2>3. CASE CloseFailed(t)
      BY <2>3 DEF CloseFailed
    <2>4. CASE BeginSession(t)
      BY <2>4 DEF BeginSession
    <2>5. CASE TypeKey(t)
      BY <2>5 DEF TypeKey
    <2>6. CASE WriteFile(t)
      BY <2>6 DEF WriteFile
    <2>7. CASE Escape(t)
      BY <2>7 DEF Escape
    <2>8. CASE CancelSynchronousIo(t)
      BY <2>8 DEF CancelSynchronousIo
    <2>9. CASE CloseHandle(t)
      BY <2>9 DEF CloseHandle
    <2>10. CASE TerminateThread(t)
      BY <2>10 DEF TerminateThread
    <2>11. CASE CloseTerminal(t)
      BY <2>11 DEF CloseTerminal
    <2> QED BY <1>2, <2>1, <2>2, <2>3, <2>4, <2>5, <2>6, <2>7, <2>8, <2>9, <2>10, <2>11
            DEF TerminalWindow, EndSession
  <1>3. ASSUME NEW t \in Terminals, ExecRead(t) PROVE Tabled' /\ Held'
    BY <1>3 DEF ExecRead, ReadFile, CharacterRead, TextOut, Reads
  <1> QED BY <1>1, <1>2, <1>3 DEF SerialNext

(* A window that offers to connect has neither a reader nor an open port,  *)
(* and a session has both: no second reader of one handle is ever made.    *)
THEOREM SessionsHold == SerialSpec => []SessionHolds
  <1>1. Held => SessionHolds
    BY DEF Held, HeldAt, SessionHolds
  <1>2. SerialInit => Tabled /\ Held
    BY InitHeld
  <1>3. (Tabled /\ Held) /\ [SerialNext]_serialVars => (Tabled /\ Held)'
    BY StepHeld
  <1> QED BY <1>1, <1>2, <1>3, PTL DEF SerialSpec
-----------------------------------------------------------------------------
(* The characters: everything that arrived at an open port is shown, in    *)
(* the reader's hand, or still in the driver's buffer.                     *)
InHand(t) == IF readThrd[t] = "showing" THEN charBuff[t] ELSE <<>>

Texts == {charBuff, line, shown, sent} \subseteq [Terminals -> Seq(Keys)]

AccountedAt(t) == hdSerial[t] # <<>> => shown[t] \o InHand(t) \o line[t] = sent[t]

SerialInv == Tabled /\ Held /\ Texts /\ \A t \in Terminals : AccountedAt(t)

LEMMA InitSerial == SerialInit => SerialInv
  <1> SUFFICES ASSUME SerialInit PROVE SerialInv
    OBVIOUS
  <1>1. Texts
    BY EmptySeq DEF SerialInit, Texts
  <1>2. \A t \in Terminals : hdSerial[t] = <<>>
    BY DEF SerialInit
  <1> QED BY <1>1, <1>2, InitHeld DEF SerialInv, AccountedAt

(* A character that arrives goes to the end of both.                       *)
LEMMA Arrival ==
  \A a, b, c \in Seq(Keys), k \in Keys : a \o b \o Append(c, k) = Append(a \o b \o c, k)
  <1> TAKE a, b, c \in Seq(Keys), k \in Keys
  <1>1. a \o b \in Seq(Keys) /\ a \o b \o c \in Seq(Keys)
    BY ConcatProperties
  <1>2. <<k>> \in Seq(Keys)
    OBVIOUS
  <1> QED BY <1>1, <1>2, AppendIsConcat, ConcatAssociative

(* A character that is read moves from the buffer to the reader's hand.    *)
LEMMA Reading ==
  ASSUME NEW a \in Seq(Keys), NEW c \in Seq(Keys), c # <<>>
  PROVE  a \o <<Head(c)>> \o Tail(c) = a \o <<>> \o c
  <1>1. Head(c) \in Keys /\ Tail(c) \in Seq(Keys) /\ c = <<Head(c)>> \o Tail(c)
    BY HeadTailProperties
  <1>2. <<Head(c)>> \in Seq(Keys)
    BY <1>1
  <1>3. a \o <<>> = a
    BY ConcatEmptySeq
  <1> QED BY <1>1, <1>2, <1>3, ConcatAssociative

LEMMA StepSerial == SerialInv /\ [SerialNext]_serialVars => SerialInv'
  <1> SUFFICES ASSUME SerialInv, [SerialNext]_serialVars PROVE Texts' /\ \A x \in Terminals : AccountedAt(x)'
    BY StepHeld DEF SerialInv
  <1> USE DEF SerialInv, Texts, AccountedAt, InHand
  <1>1. CASE UNCHANGED serialVars
    BY <1>1 DEF serialVars, reader, text
  <1>2. ASSUME NEW t \in Terminals, TerminalWindow(t)
        PROVE Texts' /\ \A x \in Terminals : AccountedAt(x)'
    <2> USE DEF Goes, reader, text
    <2> HeldAt(t)
      BY DEF Held
    <2>0. <<>> \in Seq(Keys) /\ <<>> \o <<>> \o <<>> = <<>>
      BY EmptySeq, ConcatEmptySeq
    <2>1. CASE \E p \in Ports : OpenTerminal(t, p) \/ ChoosePort(t, p)
      BY <2>1 DEF OpenTerminal, ChoosePort
    <2>2. CASE Connect(t)
      <3>1. readThrd[t] = "none" /\ UNCHANGED <<readThrd, charBuff>>
        BY <2>2 DEF Connect, HeldAt
      <3>2. CASE UNCHANGED <<hdSerial, text>>
        BY <3>1, <3>2
      <3>3. CASE /\ hdSerial' = [hdSerial EXCEPT ![t] = <<port[t]>>]
                 /\ line' = [line EXCEPT ![t] = <<>>]
                 /\ shown' = [shown EXCEPT ![t] = <<>>]
                 /\ sent' = [sent EXCEPT ![t] = <<>>]
        <4>1. Texts'
          BY <2>0, <3>1, <3>3
        <4>2. AccountedAt(t)'
          BY <2>0, <3>1, <3>3
        <4>3. ASSUME NEW x \in Terminals \ {t} PROVE AccountedAt(x)'
          BY <3>1, <3>3 DEF Tabled
        <4> QED BY <4>1, <4>2, <4>3
      <3> QED BY <2>2, <3>2, <3>3 DEF Connect
    <2>3. CASE CloseFailed(t)
      BY <2>3 DEF CloseFailed
    <2>4. CASE BeginSession(t)
      BY <2>0, <2>4 DEF BeginSession, HeldAt, Tabled
    <2>5. CASE TypeKey(t)
      BY <2>5 DEF TypeKey
    <2>6. CASE WriteFile(t)
      <3>1. PICK u \in Terminals \ {t}, k \in Keys : Receives(u, hdSerial[t][1], k)
        BY <2>6 DEF WriteFile
      <3>2. UNCHANGED <<hdSerial, readThrd, charBuff, shown>>
        BY <2>6 DEF WriteFile
      <3>3. CASE UNCHANGED <<line, sent>>
        BY <3>2, <3>3
      <3>4. CASE /\ line' = [line EXCEPT ![u] = Append(line[u], k)]
                 /\ sent' = [sent EXCEPT ![u] = Append(sent[u], k)]
        <4>1. Append(line[u], k) \in Seq(Keys) /\ Append(sent[u], k) \in Seq(Keys)
          BY AppendProperties
        <4>2. Texts'
          BY <3>2, <3>4, <4>1
        <4>3. InHand(u) \in Seq(Keys) /\ shown[u] \in Seq(Keys) /\ line[u] \in Seq(Keys)
          BY <2>0
        <4>4. shown[u] \o InHand(u) \o Append(line[u], k) = Append(shown[u] \o InHand(u) \o line[u], k)
          <5> HIDE DEF InHand, SerialInv, Texts, AccountedAt
          <5> QED BY <4>3, Arrival, Zenon
        <4>5. AccountedAt(u)'
          BY <3>2, <3>4, <4>4
        <4>6. ASSUME NEW x \in Terminals \ {u} PROVE AccountedAt(x)'
          BY <3>2, <3>4
        <4> QED BY <4>2, <4>5, <4>6
      <3> QED BY <3>1, <3>3, <3>4 DEF Receives
    <2>7. CASE Escape(t)
      BY <2>7 DEF Escape
    <2>8. CASE CancelSynchronousIo(t)
      BY <2>8 DEF CancelSynchronousIo, Tabled
    <2>9. CASE CloseHandle(t)
      <3>1. /\ hdSerial' = [hdSerial EXCEPT ![t] = <<>>]
            /\ line' = [line EXCEPT ![t] = <<>>]
            /\ UNCHANGED readThrd
            /\ UNCHANGED <<charBuff, shown, sent>>
        BY <2>9 DEF CloseHandle
      <3>2. Texts'
        BY <2>0, <3>1
      <3>3. AccountedAt(t)'
        BY <3>1 DEF Tabled
      <3>4. ASSUME NEW x \in Terminals \ {t} PROVE AccountedAt(x)'
        BY <3>1 DEF Tabled
      <3> QED BY <3>2, <3>3, <3>4
    <2>10. CASE TerminateThread(t)
      BY <2>10 DEF TerminateThread, HeldAt, Tabled
    <2>11. CASE CloseTerminal(t)
      <3>1. /\ hdSerial' = [hdSerial EXCEPT ![t] = <<>>]
            /\ line' = [line EXCEPT ![t] = <<>>]
            /\ readThrd' = [readThrd EXCEPT ![t] = "none"]
            /\ UNCHANGED <<charBuff, shown, sent>>
        BY <2>11 DEF CloseTerminal
      <3>2. Texts'
        BY <2>0, <3>1
      <3>3. AccountedAt(t)'
        BY <3>1 DEF Tabled
      <3>4. ASSUME NEW x \in Terminals \ {t} PROVE AccountedAt(x)'
        BY <3>1 DEF Tabled
      <3> QED BY <3>2, <3>3, <3>4
    <2> QED BY <1>2, <2>1, <2>2, <2>3, <2>4, <2>5, <2>6, <2>7, <2>8, <2>9, <2>10, <2>11
            DEF TerminalWindow, EndSession
  <1>3. ASSUME NEW t \in Terminals, ExecRead(t)
        PROVE Texts' /\ \A x \in Terminals : AccountedAt(x)'
    <2> USE DEF Reads
    <2>0. <<>> \in Seq(Keys)
      BY EmptySeq
    <2>1. CASE ReadFile(t)
      BY <2>1 DEF ReadFile, text, Tabled
    <2>2. CASE CharacterRead(t)
      <3>1. /\ readThrd[t] = "reading" /\ line[t] # <<>>
            /\ readThrd' = [readThrd EXCEPT ![t] = "showing"]
            /\ charBuff' = [charBuff EXCEPT ![t] = <<Head(line[t])>>]
            /\ line' = [line EXCEPT ![t] = Tail(line[t])]
            /\ UNCHANGED <<hdSerial, shown, sent>>
        BY <2>2 DEF CharacterRead
      <3>2. <<Head(line[t])>> \in Seq(Keys) /\ Tail(line[t]) \in Seq(Keys)
        BY <3>1, HeadTailProperties
      <3>3. Texts'
        BY <3>1, <3>2
      <3>4. shown[t] \in Seq(Keys) /\ line[t] \in Seq(Keys)
        OBVIOUS
      <3>5. shown[t] \o <<Head(line[t])>> \o Tail(line[t]) = shown[t] \o <<>> \o line[t]
        BY <3>1, <3>4, Reading
      <3>6. charBuff'[t] = <<Head(line[t])>> /\ line'[t] = Tail(line[t]) /\ readThrd'[t] = "showing"
        BY <3>1 DEF Tabled
      <3>7. InHand(t) = <<>> /\ InHand(t)' = <<Head(line[t])>>
        BY <3>1, <3>6
      <3>8. AccountedAt(t)'
        <4> HIDE DEF InHand
        <4> QED BY <3>1, <3>5, <3>6, <3>7
      <3>9. ASSUME NEW x \in Terminals \ {t} PROVE AccountedAt(x)'
        BY <3>1 DEF Tabled
      <3> QED BY <3>3, <3>8, <3>9
    <2>3. CASE TextOut(t)
      <3>1. /\ readThrd[t] = "showing"
            /\ readThrd' = [readThrd EXCEPT ![t] = "looping"]
            /\ shown' = [shown EXCEPT ![t] = shown[t] \o charBuff[t]]
            /\ UNCHANGED <<hdSerial, charBuff, line, sent>>
        BY <2>3 DEF TextOut
      <3>2. shown[t] \o charBuff[t] \in Seq(Keys)
        BY ConcatProperties
      <3>3. shown[t] \o charBuff[t] \o <<>> = shown[t] \o charBuff[t]
        BY <3>2, ConcatEmptySeq
      <3>4. Texts'
        BY <3>1, <3>2
      <3>5. AccountedAt(t)'
        BY <3>1, <3>3 DEF Tabled
      <3>6. ASSUME NEW x \in Terminals \ {t} PROVE AccountedAt(x)'
        BY <3>1 DEF Tabled
      <3> QED BY <3>4, <3>5, <3>6
    <2> QED BY <1>3, <2>1, <2>2, <2>3 DEF ExecRead
  <1> QED BY <1>1, <1>2, <1>3 DEF SerialNext

(* An open port loses no character, shows none twice and keeps their       *)
(* order, whatever the other terminal types and whenever the session ends. *)
THEOREM TextShown == SerialSpec => []ShownAsSent
  <1>1. SerialInv => ShownAsSent
    BY DEF SerialInv, AccountedAt, InHand, ShownAsSent
  <1> QED BY InitSerial, StepSerial, <1>1, PTL DEF SerialSpec

-----------------------------------------------------------------------------
(* The drawing program.                                                    *)

(* What holds of one scroll bar: when it is not in use and the window was  *)
(* not sized since it last was, WndProc has its position.                  *)
ReadAt(a) == tracking # {a} /\ ~sized[a] => held[a] = pos[a]

(* WM_PAINT has seen every background but one chosen since.                *)
Painted == current["bg"] # lastBG => chosen

ShaperInv == ShaperTypeOK /\ OptionsAgree /\ Painted /\ \A a \in Axes : ReadAt(a)

LEMMA InitShaper == ShaperInit => ShaperInv
  <1> SUFFICES ASSUME ShaperInit PROVE ShaperInv
    OBVIOUS
  <1> USE ShaperAssumption DEF ShaperInit
  <1>1. AtZero \in Positions
    BY DEF AtZero, Positions
  <1>2. clipboard \in Seq(Positions)
    <2>1. CASE clipboard = <<>>
      BY <2>1
    <2>2. CASE \E p \in Positions : clipboard = <<p>>
      BY <2>2
    <2> QED BY <2>1, <2>2
  <1>3. ShaperTypeOK
    <2>1. /\ current \in [Options -> Values]
          /\ menu \in [Options -> SUBSET Values] /\ paintBox \in [Options -> SUBSET Values]
      OBVIOUS
    <2>2. /\ shapes \in Seq(Positions) /\ sized \in [Axes -> BOOLEAN] /\ strays \in Nat
          /\ pos \in Positions /\ held \in Positions
      BY <1>1
    <2> QED BY <1>2, <2>1, <2>2 DEF ShaperTypeOK
  <1>4. OptionsAgree /\ Painted
    BY DEF OptionsAgree, Painted
  <1>5. \A a \in Axes : ReadAt(a)
    BY DEF ReadAt
  <1> QED BY <1>3, <1>4, <1>5 DEF ShaperInv

(* Choosing a value leaves it alone checked: in the menu and in the paint  *)
(* box, whose button may have toggled itself before.                       *)
LEMMA Choice ==
  ASSUME ShaperInv, NEW o \in Options, NEW v \in Values, NEW marks \in SUBSET Values,
         marks \ {current[o]} \subseteq {v}, Check(o, v, marks)
  PROVE  /\ current' \in [Options -> Values]
         /\ menu' \in [Options -> SUBSET Values] /\ paintBox' \in [Options -> SUBSET Values]
         /\ chosen' \in BOOLEAN
         /\ OptionsAgree'
         /\ lastBG' = lastBG => Painted'
  <1> USE DEF ShaperInv, ShaperTypeOK, Check
  <1>1. /\ current' \in [Options -> Values]
        /\ menu' \in [Options -> SUBSET Values] /\ paintBox' \in [Options -> SUBSET Values]
        /\ chosen' \in BOOLEAN
    OBVIOUS
  <1>2. ASSUME NEW p \in Options
        PROVE  menu'[p] = {current'[p]} /\ paintBox'[p] = {current'[p]}
    <2>1. CASE p = o
      BY <2>1 DEF OptionsAgree
    <2>2. CASE p # o
      BY <2>2 DEF OptionsAgree
    <2> QED BY <2>1, <2>2
  <1>3. lastBG' = lastBG => Painted'
    BY ShaperAssumption DEF Painted
  <1> QED BY <1>1, <1>2, <1>3 DEF OptionsAgree

(* A step that leaves the options, the drawing and the scroll bars alone,  *)
(* or clears the drawing.                                                  *)
LEMMA Aside ==
  ASSUME ShaperInv, UNCHANGED <<options, lastBG, chosen, view>>,
         shapes' \in Seq(Positions), clipboard' \in Seq(Positions),
         up' \in BOOLEAN, drawShape' \in BOOLEAN, modal' \in BOOLEAN, active' \in BOOLEAN,
         timer' \in BOOLEAN, party' \in BOOLEAN, strays' \in Nat
  PROVE  ShaperInv'
  BY DEF ShaperInv, ShaperTypeOK, OptionsAgree, Painted, ReadAt, options, view

LEMMA ChooseMain ==
  ASSUME ShaperInv, NEW o \in Options, NEW v \in Values, ChangeMain(o, v)
  PROVE  ShaperInv'
  <1>1. Check(o, v, paintBox[o]) /\ paintBox[o] = {current[o]}
    BY DEF ChangeMain, ShaperInv, OptionsAgree
  <1>2. paintBox[o] \in SUBSET Values
    BY DEF ShaperInv, ShaperTypeOK
  <1>3. OptionsAgree' /\ (lastBG' = lastBG => Painted') /\ chosen' \in BOOLEAN
        /\ current' \in [Options -> Values]
        /\ menu' \in [Options -> SUBSET Values] /\ paintBox' \in [Options -> SUBSET Values]
    BY <1>1, <1>2, Choice
  <1> QED
    BY <1>3 DEF ChangeMain, WindowClicked, ShaperInv, ShaperTypeOK, ReadAt, view, parties

LEMMA ChooseDbox ==
  ASSUME ShaperInv, NEW o \in Options, NEW v \in Values, ChangeDbox(o, v)
  PROVE  ShaperInv'
  <1>1. Check(o, v, Toggled(paintBox[o], v)) /\ paintBox[o] = {current[o]}
    BY DEF ChangeDbox, ShaperInv, OptionsAgree
  <1>2. Toggled(paintBox[o], v) \in SUBSET Values
    BY DEF ShaperInv, ShaperTypeOK, Toggled
  <1>3. Toggled(paintBox[o], v) \ {current[o]} \subseteq {v}
    BY <1>1 DEF Toggled
  <1>4. OptionsAgree' /\ (lastBG' = lastBG => Painted') /\ chosen' \in BOOLEAN
        /\ current' \in [Options -> Values]
        /\ menu' \in [Options -> SUBSET Values] /\ paintBox' \in [Options -> SUBSET Values]
    BY <1>1, <1>2, <1>3, Choice
  <1> QED
    BY <1>4 DEF ChangeDbox, ShaperInv, ShaperTypeOK, ReadAt, view, parties

LEMMA ChooseParty ==
  ASSUME ShaperInv, NEW v \in Values, SeizureWindows(v)
  PROVE  ShaperInv'
  <1>1. Check("bg", v, paintBox["bg"]) /\ paintBox["bg"] = {current["bg"]} /\ "bg" \in Options
    BY ShaperAssumption DEF SeizureWindows, ShaperInv, OptionsAgree
  <1>2. paintBox["bg"] \in SUBSET Values
    BY <1>1 DEF ShaperInv, ShaperTypeOK
  <1>3. OptionsAgree' /\ (lastBG' = lastBG => Painted') /\ chosen' \in BOOLEAN
        /\ current' \in [Options -> Values]
        /\ menu' \in [Options -> SUBSET Values] /\ paintBox' \in [Options -> SUBSET Values]
    BY <1>1, <1>2, Choice
  <1> QED
    BY <1>3 DEF SeizureWindows, ShaperInv, ShaperTypeOK, ReadAt, view, parties, focus

LEMMA PaintInv == ShaperInv /\ Paint => ShaperInv'
  <1> SUFFICES ASSUME ShaperInv, Paint PROVE ShaperInv'
    OBVIOUS
  <1>1. CASE Ends
    BY <1>1, Aside DEF Ends, ShaperInv, ShaperTypeOK, options, drawing, view, focus
  <1>2. CASE SetBackground /\ UNCHANGED <<up, options, clipboard, drawShape, view, focus, parties>>
    <2>1. <<>> \in Seq(Positions) /\ current["bg"] \in Values
      BY ShaperAssumption DEF ShaperInv, ShaperTypeOK
    <2>2. Painted'
      BY <1>2 DEF SetBackground, Painted, options
    <2> QED
      BY <1>2, <2>1, <2>2
         DEF SetBackground, ShaperInv, ShaperTypeOK, OptionsAgree, ReadAt, options, view, focus, parties
  <1>3. CASE UNCHANGED <<drawing, up, options, clipboard, drawShape, view, focus, parties>>
    BY <1>3, Aside DEF ShaperInv, ShaperTypeOK, options, drawing, view, focus, parties
  <1> QED BY <1>1, <1>2, <1>3 DEF Paint

(* A scroll bar moves; the others are not in use.                          *)
LEMMA ScrollInv ==
  ASSUME ShaperInv, NEW a \in Axes, NEW p \in 0..MaxPos, ScrollBar(a, p)
  PROVE  ShaperInv'
  <1> USE DEF ScrollBar, ShaperInv, ShaperTypeOK
  <1>1. pos' \in Positions /\ held' \in Positions /\ tracking' \subseteq Axes
    BY DEF Positions
  <1>2. ASSUME NEW b \in Axes PROVE ReadAt(b)'
    <2>1. CASE b = a
      BY <2>1 DEF ReadAt
    <2>2. CASE b # a
      <3>1. tracking # {b}
        BY <2>2
      <3>2. pos'[b] = pos[b] /\ held'[b] = held[b] /\ sized' = sized
        BY <2>2 DEF Positions
      <3> QED BY <3>1, <3>2 DEF ReadAt
    <2> QED BY <2>1, <2>2
  <1> QED
    BY <1>1, <1>2 DEF OptionsAgree, Painted, options, drawing, parties

LEMMA EndInv ==
  ASSUME ShaperInv, NEW a \in Axes, EndScroll(a)
  PROVE  ShaperInv'
  <1> USE DEF EndScroll, ShaperInv, ShaperTypeOK
  <1>1. held' \in Positions /\ tracking' \subseteq Axes /\ sized' \in [Axes -> BOOLEAN]
    BY DEF Positions
  <1>2. ASSUME NEW b \in Axes PROVE ReadAt(b)'
    <2>1. CASE b = a
      BY <2>1 DEF ReadAt, Positions
    <2>2. CASE b # a
      <3>1. tracking # {b}
        BY <2>2
      <3>2. pos'[b] = pos[b] /\ held'[b] = held[b] /\ sized'[b] = sized[b]
        BY <2>2 DEF Positions
      <3> QED BY <3>1, <3>2 DEF ReadAt
    <2> QED BY <2>1, <2>2
  <1> QED
    BY <1>1, <1>2 DEF OptionsAgree, Painted, options, drawing, focus, parties

LEMMA SizeInv == ShaperInv /\ WmSize => ShaperInv'
  <1> SUFFICES ASSUME ShaperInv, WmSize PROVE ShaperInv'
    OBVIOUS
  <1>1. AtZero \in Positions
    BY ShaperAssumption DEF AtZero, Positions
  <1> QED
    BY <1>1 DEF WmSize, ShaperInv, ShaperTypeOK, OptionsAgree, Painted, ReadAt,
                options, drawing, focus, parties

LEMMA StepFaults == ShaperInv /\ Faults => ShaperInv'
  <1> SUFFICES ASSUME ShaperInv, Faults PROVE ShaperInv'
    OBVIOUS
  <1>1. CASE Ends
    BY <1>1, Aside DEF Ends, ShaperInv, ShaperTypeOK, options, drawing, view, focus
  <1>2. CASE ~Ends
    <2>1. active' = TRUE /\ UNCHANGED <<up, options, drawing, clipboard, drawShape, view, modal, parties>>
      BY <1>2 DEF Faults
    <2> QED BY <2>1, Aside DEF ShaperInv, ShaperTypeOK, options, drawing, view, parties
  <1> QED BY <1>1, <1>2

(* The copied shape is the last one, and a paste adds what was copied.     *)
LEMMA StepSet == ShaperInv /\ SetClipboard => ShaperInv'
  <1> SUFFICES ASSUME ShaperInv, SetClipboard PROVE ShaperInv'
    OBVIOUS
  <1>1. CASE Faults
    BY <1>1, StepFaults
  <1>2. CASE shapes # <<>> /\ ~Faults
    <2>1. shapes[Len(shapes)] \in Positions
      BY <1>2 DEF ShaperInv, ShaperTypeOK
    <2>2. PICK s \in Positions : s = shapes[Len(shapes)]
      BY <2>1
    <2>3. clipboard' = <<s>> /\ modal' = TRUE /\ active' = FALSE
          /\ UNCHANGED <<up, options, drawing, drawShape, view, parties>>
      BY <1>2, <2>2 DEF SetClipboard
    <2>4. clipboard' \in Seq(Positions)
      BY <2>3
    <2> QED
      BY <2>3, <2>4, Aside DEF ShaperInv, ShaperTypeOK, options, drawing, view, parties
  <1> QED BY <1>1, <1>2 DEF SetClipboard

LEMMA StepGet == ShaperInv /\ GetClipboard => ShaperInv'
  <1> SUFFICES ASSUME ShaperInv, GetClipboard PROVE ShaperInv'
    OBVIOUS
  <1>1. CASE Faults
    BY <1>1, StepFaults
  <1>2. CASE clipboard # <<>> /\ ~Faults
    <2>1. shapes \o clipboard \in Seq(Positions)
      BY DEF ShaperInv, ShaperTypeOK
    <2> QED
      BY <1>2, <2>1, Aside DEF GetClipboard, ShaperInv, ShaperTypeOK, options, view, parties
  <1> QED BY <1>1, <1>2 DEF GetClipboard

LEMMA StepShape == ShaperInv /\ (IndexShapes \/ Erase \/ BeginShape) => ShaperInv'
  <1> SUFFICES ASSUME ShaperInv, IndexShapes \/ Erase \/ BeginShape PROVE ShaperInv'
    OBVIOUS
  <1>1. CASE IndexShapes
    <2>1. Append(shapes, held) \in Seq(Positions)
      BY DEF ShaperInv, ShaperTypeOK
    <2> QED
      BY <1>1, <2>1, Aside DEF IndexShapes, ShaperInv, ShaperTypeOK, options, view, focus, parties
  <1>2. CASE Erase
    <2>1. <<>> \in Seq(Positions)
      OBVIOUS
    <2> QED
      BY <1>2, <2>1, Aside DEF Erase, ShaperInv, ShaperTypeOK, options, view, parties
  <1>3. CASE BeginShape
    BY <1>3, Aside DEF BeginShape, WindowClicked, ShaperInv, ShaperTypeOK, options, drawing, view, parties
  <1> QED BY <1>1, <1>2, <1>3

LEMMA StepOther ==
  ShaperInv /\ (About \/ CloseDialog \/ OtherProgram \/ Party \/ Timer \/ Exit) => ShaperInv'
  <1> SUFFICES ASSUME ShaperInv, About \/ CloseDialog \/ OtherProgram \/ Party \/ Timer \/ Exit
               PROVE  ShaperInv'
    OBVIOUS
  <1> USE Aside DEF ShaperInv, ShaperTypeOK, options, drawing, view, parties, focus
  <1>1. CASE About
    BY <1>1 DEF About
  <1>2. CASE CloseDialog
    BY <1>2 DEF CloseDialog
  <1>3. CASE OtherProgram
    <2>1. <<>> \in Seq(Positions)
      OBVIOUS
    <2> QED BY <1>3, <2>1 DEF OtherProgram
  <1>4. CASE Party
    BY <1>4 DEF Party, WindowClicked
  <1>5. CASE Timer
    BY <1>5 DEF Timer
  <1>6. CASE Exit
    BY <1>6 DEF Exit, Ends
  <1> QED BY <1>1, <1>2, <1>3, <1>4, <1>5, <1>6

LEMMA StepShaper == ShaperInv /\ [ShaperNext]_shaperVars => ShaperInv'
  <1> SUFFICES ASSUME ShaperInv, [ShaperNext]_shaperVars PROVE ShaperInv'
    OBVIOUS
  <1>1. CASE UNCHANGED shaperVars
    BY <1>1, Aside DEF shaperVars, ShaperInv, ShaperTypeOK, options, drawing, view, parties, focus
  <1>2. ASSUME NEW o \in Options, NEW v \in Values, ChangeMain(o, v) \/ ChangeDbox(o, v)
        PROVE  ShaperInv'
    BY <1>2, ChooseMain, ChooseDbox
  <1>3. ASSUME NEW a \in Axes, EndScroll(a) \/ (\E p \in 0..MaxPos : ScrollBar(a, p))
        PROVE  ShaperInv'
    BY <1>3, EndInv, ScrollInv
  <1>4. ASSUME NEW v \in Values, SeizureWindows(v)
        PROVE  ShaperInv'
    BY <1>4, ChooseParty
  <1> QED
    BY <1>1, <1>2, <1>3, <1>4, PaintInv, SizeInv, StepSet, StepGet, StepShape, StepOther
       DEF ShaperNext

LEMMA ShaperInvariance == ShaperSpec => []ShaperInv
  BY InitShaper, StepShaper, PTL DEF ShaperSpec

(* The menu and the paint box show the one choice in force, whichever of   *)
(* the window, the paint box and the party's threads changed it.           *)
THEOREM OptionsShown == ShaperSpec => []OptionsAgree
  <1>1. ShaperInv => OptionsAgree
    BY DEF ShaperInv
  <1> QED BY <1>1, ShaperInvariance, PTL

(* A shape is stored with the scroll position that is shown, unless the    *)
(* window was sized since the last use of the scroll bar.                  *)
THEOREM ShapesStored == ShaperSpec => StoredWhereDrawn
  <1> DEFINE Stores == (drawShape /\ ~drawShape' /\ up') =>
                         \A a \in Axes : sized[a] \/ shapes'[Len(shapes')][a] = pos[a]
  <1>1. ASSUME ShaperInv, ShaperNext PROVE Stores
    <2> SUFFICES ASSUME drawShape, ~drawShape', NEW a \in Axes, ~sized[a]
                 PROVE  shapes'[Len(shapes')][a] = pos[a]
      OBVIOUS
    <2>1. IndexShapes
      BY <1>1 DEF ShaperNext, ChangeMain, ChangeDbox, Erase, BeginShape, Paint, EndScroll, ScrollBar,
                  WmSize, About, CloseDialog, SetClipboard, GetClipboard, Faults, Ends, OtherProgram,
                  Party, SeizureWindows, Timer, Exit
    <2>2. tracking # {a} /\ shapes' = Append(shapes, held) /\ shapes \in Seq(Positions)
      BY <1>1, <2>1 DEF IndexShapes, Clickable, ShaperInv, ShaperTypeOK
    <2>3. shapes'[Len(shapes')] = held
      BY <2>2
    <2> QED BY <1>1, <2>2, <2>3 DEF ShaperInv, ReadAt
  <1>2. ShaperInv /\ [ShaperNext]_shaperVars => [Stores]_shaperVars
    BY <1>1
  <1> QED BY <1>2, ShaperInvariance, PTL DEF ShaperSpec, StoredWhereDrawn

(* The drawing gets shorter only by the erase button, or when WM_PAINT     *)
(* finds a background that was chosen since it last did.                   *)
THEOREM DrawingSafe == ShaperSpec => DrawingKept
  <1> DEFINE Keeps == Len(shapes') < Len(shapes) => chosen \/ Erase
  <1>1. ASSUME ShaperInv, ShaperNext PROVE Keeps
    <2> SUFFICES ASSUME ~chosen, ~Erase PROVE ~(Len(shapes') < Len(shapes))
      OBVIOUS
    <2>1. shapes \in Seq(Positions) /\ clipboard \in Seq(Positions)
      BY <1>1 DEF ShaperInv, ShaperTypeOK
    <2>2. \/ shapes' = shapes
          \/ shapes' = Append(shapes, held)
          \/ shapes' = shapes \o clipboard
      BY <1>1 DEF ShaperInv, Painted, ShaperNext, ChangeMain, ChangeDbox, BeginShape, IndexShapes, Paint,
                  EndScroll, ScrollBar, WmSize, About, CloseDialog, SetClipboard, GetClipboard, Faults,
                  Ends, OtherProgram, Party, SeizureWindows, Timer, Exit, drawing
    <2>3. Len(shapes) \in Nat /\ Len(clipboard) \in Nat
      BY <2>1
    <2> QED BY <2>1, <2>2, <2>3
  <1>2. ShaperInv /\ [ShaperNext]_shaperVars => [Keeps]_shaperVars
    BY <1>1
  <1> QED BY <1>2, ShaperInvariance, PTL DEF ShaperSpec, DrawingKept
-----------------------------------------------------------------------------
(* Sequences put together, and the end of one.                             *)
Joins(S, s, v, t) ==
  /\ t \in Seq(S) /\ Len(t) = Len(s) + Len(v)
  /\ \A j \in 1..Len(s) : t[j] = s[j]
  /\ \A i \in 1..Len(v) : t[Len(s) + i] = v[i]

LEMMA Joined ==
  ASSUME NEW S, NEW s \in Seq(S), NEW v \in Seq(S), NEW t, t = s \o v
  PROVE  Joins(S, s, v, t)
  BY DEF Joins

Cuts(S, s, m, t) ==
  /\ t \in Seq(S) /\ Len(t) = Len(s) - m
  /\ \A j \in 1..Len(s) - m : t[j] = s[m + j]

LEMMA CutOff ==
  ASSUME NEW S, NEW s \in Seq(S), NEW m \in Nat, m <= Len(s),
         NEW t, t = SubSeq(s, m + 1, Len(s))
  PROVE  Cuts(S, s, m, t)
  BY DEF Cuts

LEMMA CutHead ==
  ASSUME NEW S, NEW s \in Seq(S), s # <<>>, NEW t, t = Tail(s)
  PROVE  Cuts(S, s, 1, t)
  BY DEF Cuts

(***************************************************************************)
(* The chat client's pipe and sockets.                                     *)
(***************************************************************************)
Kinds == {"join", "msg", "quit", "leave", "log", "exit", "smsg", "accepted", "rejected"}
Command == [kind : Kinds, n : Nat]
Word == [packet : Command, i : Nat \ {0}]
WordOf(p, k) == [packet |-> p, i |-> k]

(* The words s of a descriptor are some that are no types, left over from  *)
(* packets that were refused, and then the packets q from n + 1 on, whole  *)
(* and in order; packet k ends at o[k].                                    *)
Stream(s, q, n, o) ==
  /\ n \in 0..Len(q) /\ o \in [n..Len(q) -> 0..Len(s)] /\ o[Len(q)] = Len(s)
  /\ \A k, l \in n..Len(q) : k <= l => o[k] <= o[l]
  /\ \A j \in 1..o[n] : s[j].i # 1
  /\ \A k \in n + 1..Len(q) :
       /\ o[k] = o[k - 1] + Written(q[k].kind)
       /\ \A i \in 1..Written(q[k].kind) : s[o[k - 1] + i] = WordOf(q[k], i)
  /\ \A j \in o[n] + 1..Len(s) : \E k \in n + 1..Len(q) : o[k - 1] < j /\ j <= o[k]

Pending(s, q, n) == \E o : Stream(s, q, n, o)
Whole(s, q, n) == \E o : Stream(s, q, n, o) /\ o[n] = 0

LEMMA SizesAgree ==
  \A kind \in Kinds : /\ Written(kind) = Sizes(kind)
                      /\ Written(kind) \in Nat \ {0}
  <1> USE PipelineAssumption
  <1>1. MAX_CLIENTS * MAX_USER_NAME \in Nat
    OBVIOUS
  <1>2. \A kind \in Kinds : Written(kind) = Sizes(kind)
    BY <1>1 DEF Kinds, Written, Sizes
  <1>3. \A kind \in Kinds : Written(kind) \in Nat \ {0}
    BY <1>1 DEF Kinds, Written
  <1> QED BY <1>2, <1>3

LEMMA PacketWords ==
  ASSUME NEW p \in Command
  PROVE  /\ Written(p.kind) \in Nat \ {0} /\ Sizes(p.kind) = Written(p.kind)
         /\ Packet(p) \in Seq(Word) /\ Len(Packet(p)) = Written(p.kind)
         /\ \A i \in 1..Written(p.kind) : Packet(p)[i] = WordOf(p, i)
  <1>1. Written(p.kind) \in Nat \ {0} /\ Sizes(p.kind) = Written(p.kind)
    BY SizesAgree DEF Command
  <1>2. \A i \in 1..Written(p.kind) : WordOf(p, i) \in Word
    BY <1>1 DEF WordOf, Word
  <1>3. PICK w : w = Written(p.kind)
    OBVIOUS
  <1>4. Packet(p) = [i \in 1..w |-> WordOf(p, i)]
    BY <1>3 DEF Packet, WordOf
  <1>5. w \in Nat /\ \A i \in 1..w : WordOf(p, i) \in Word
    BY <1>1, <1>2, <1>3
  <1>6. Packet(p) \in Seq(Word) /\ Len(Packet(p)) = w
        /\ \A i \in 1..w : Packet(p)[i] = WordOf(p, i)
    BY <1>4, <1>5
  <1> QED BY <1>1, <1>3, <1>6

(* Another packet is written.                                              *)
LEMMA StreamWritten ==
  ASSUME NEW s \in Seq(Word), NEW q \in Seq(Command), NEW n, NEW o,
         Stream(s, q, n, o), NEW p \in Command
  PROVE  \E u : Stream(s \o Packet(p), Append(q, p), n, u) /\ u[n] = o[n]
  <1>1. PICK m, k, w, t, r : /\ m = Len(s) /\ k = Len(q) /\ w = Written(p.kind)
                             /\ t = s \o Packet(p) /\ r = Append(q, p)
    OBVIOUS
  <1>2. w \in Nat \ {0} /\ Packet(p) \in Seq(Word) /\ Len(Packet(p)) = w
        /\ \A i \in 1..w : Packet(p)[i] = WordOf(p, i)
    BY <1>1, PacketWords
  <1>3. /\ m \in Nat /\ t \in Seq(Word) /\ Len(t) = m + w
        /\ \A j \in 1..m : t[j] = s[j]
        /\ \A i \in 1..w : t[m + i] = Packet(p)[i]
    <2>1. PICK v : v = Packet(p)
      OBVIOUS
    <2>2. v \in Seq(Word) /\ Len(v) = w /\ t = s \o v /\ m = Len(s) /\ m \in Nat
      BY <1>1, <1>2, <2>1
    <2>3. Joins(Word, s, v, t)
      BY <2>2, Joined
    <2> QED BY <2>1, <2>2, <2>3 DEF Joins
  <1>4. /\ k \in Nat /\ Len(r) = k + 1 /\ r[k + 1] = p
        /\ \A i \in 1..k : r[i] = q[i]
    BY <1>1
  <1>5. /\ n \in 0..k /\ o \in [n..k -> 0..m] /\ o[k] = m
        /\ \A i, l \in n..k : i <= l => o[i] <= o[l]
        /\ \A j \in 1..o[n] : s[j].i # 1
        /\ \A i \in n + 1..k :
             /\ o[i] = o[i - 1] + Written(q[i].kind)
             /\ \A l \in 1..Written(q[i].kind) : s[o[i - 1] + l] = WordOf(q[i], l)
        /\ \A j \in o[n] + 1..m : \E i \in n + 1..k : o[i - 1] < j /\ j <= o[i]
    BY <1>1 DEF Stream
  <1>sizes. m \in Nat /\ w \in Nat \ {0} /\ k \in Nat /\ n \in 0..k
    BY <1>2, <1>3, <1>4, <1>5
  <1>6. PICK u : u = [i \in n..k + 1 |-> IF i = k + 1 THEN m + w ELSE o[i]]
    OBVIOUS
  <1>7. /\ u \in [n..k + 1 -> 0..m + w] /\ u[k + 1] = m + w
        /\ \A i \in n..k : u[i] = o[i] /\ o[i] \in 0..m
    <2>1. \A i \in n..k : o[i] \in 0..m /\ i # k + 1 /\ i \in n..k + 1
      BY <1>4, <1>5
    <2>2. \A i \in n..k + 1 : i \in n..k \/ i = k + 1
      BY <1>4, <1>5
    <2>3. 0..m \subseteq 0..m + w /\ m + w \in 0..m + w
      BY <1>2, <1>3
    <2>5. \A i \in n..k + 1 : (IF i = k + 1 THEN m + w ELSE o[i]) \in 0..m + w
      BY <2>1, <2>2, <2>3
    <2>6. u \in [n..k + 1 -> 0..m + w]
      BY <1>6, <2>5
    <2>7. k + 1 \in n..k + 1
      BY <1>4, <1>5
    <2>8. u[k + 1] = m + w
      BY <1>6, <2>7
    <2> QED BY <1>6, <2>1, <2>6, <2>8
  <1>8. \A i, l \in n..k + 1 : i <= l => u[i] <= u[l]
    <2> SUFFICES ASSUME NEW i \in n..k + 1, NEW l \in n..k + 1, i <= l PROVE u[i] <= u[l]
      OBVIOUS
    <2>1. CASE l = k + 1
      <3>1. u[i] \in 0..m + w
        BY <1>7
      <3> QED BY <1>7, <2>1, <3>1
    <2>2. CASE l # k + 1
      <3>1. l \in n..k /\ i \in n..k
        BY <1>4, <1>5, <2>2
      <3>2. o[i] <= o[l]
        BY <1>5, <3>1
      <3> QED BY <1>7, <3>1, <3>2
    <2> QED BY <2>1, <2>2
  <1>9. \A j \in 1..u[n] : t[j].i # 1
    BY <1>3, <1>4, <1>5, <1>7
  <1>10. \A i \in n + 1..k + 1 :
           /\ u[i] = u[i - 1] + Written(r[i].kind)
           /\ \A l \in 1..Written(r[i].kind) : t[u[i - 1] + l] = WordOf(r[i], l)
    <2>1. ASSUME NEW i \in n + 1..k
          PROVE  /\ u[i] = u[i - 1] + Written(r[i].kind)
                 /\ \A l \in 1..Written(r[i].kind) : t[u[i - 1] + l] = WordOf(r[i], l)
      <3>1. i \in n..k /\ i - 1 \in n..k /\ i \in 1..k
        BY <1>4, <1>5
      <3>2. u[i] = o[i] /\ u[i - 1] = o[i - 1] /\ r[i] = q[i]
        BY <1>4, <1>7, <3>1
      <3>3. ASSUME NEW l \in 1..Written(q[i].kind)
            PROVE  t[o[i - 1] + l] = s[o[i - 1] + l]
        <4>1. q[i].kind \in Kinds
          <5>1. q[i] \in Command
            BY <1>1, <3>1
          <5> QED BY <5>1 DEF Command
        <4>2. Written(q[i].kind) \in Nat
          BY <4>1, SizesAgree
        <4>3. o[i] = o[i - 1] + Written(q[i].kind) /\ o[i] <= m /\ o[i - 1] >= 0
              /\ o[i - 1] \in Int
          BY <1>5, <1>7, <3>1
        <4>4. PICK x, w1 : x = o[i - 1] /\ w1 = Written(q[i].kind)
          OBVIOUS
        <4>5. x \in Nat /\ w1 \in Nat /\ x + w1 <= m /\ l \in 1..w1
          BY <4>2, <4>3, <4>4
        <4>6. x + l \in 1..m
          BY <1>sizes, <4>5
        <4>7. t[x + l] = s[x + l]
          BY <1>3, <4>6
        <4> QED BY <4>4, <4>7
      <3> QED BY <1>5, <3>2, <3>3
    <2>2. /\ u[k + 1] = u[k] + Written(r[k + 1].kind)
          /\ \A l \in 1..Written(r[k + 1].kind) : t[u[k] + l] = WordOf(r[k + 1], l)
      <3>1. u[k] = m
        BY <1>4, <1>5, <1>7
      <3> QED BY <1>1, <1>2, <1>3, <1>4, <1>7, <3>1
    <2>3. (k + 1) - 1 = k /\ \A i \in n + 1..k + 1 : i \in n + 1..k \/ i = k + 1
      BY <1>4, <1>5
    <2> QED BY <2>1, <2>2, <2>3
  <1>11. \A j \in u[n] + 1..m + w : \E i \in n + 1..k + 1 : u[i - 1] < j /\ j <= u[i]
    <2>1. ASSUME NEW j \in o[n] + 1..m PROVE \E i \in n + 1..k + 1 : u[i - 1] < j /\ j <= u[i]
      <3>1. PICK i \in n + 1..k : o[i - 1] < j /\ j <= o[i]
        BY <1>5, <2>1
      <3>2. i \in n + 1..k + 1 /\ i \in n..k /\ i - 1 \in n..k
        BY <1>4, <1>5
      <3> QED BY <1>7, <3>1, <3>2
    <2>2. ASSUME NEW j \in m + 1..m + w PROVE \E i \in n + 1..k + 1 : u[i - 1] < j /\ j <= u[i]
      <3>1. k + 1 \in n + 1..k + 1 /\ k \in n..k /\ (k + 1) - 1 = k
        BY <1>sizes
      <3>2. u[k] = m /\ u[k + 1] = m + w
        BY <1>5, <1>7, <3>1
      <3>3. u[(k + 1) - 1] < j /\ j <= u[k + 1]
        BY <1>sizes, <2>2, <3>1, <3>2
      <3> QED BY <3>1, <3>3
    <2>3. u[n] = o[n] /\ \A j \in u[n] + 1..m + w : j \in o[n] + 1..m \/ j \in m + 1..m + w
      <3>1. n \in n..k
        BY <1>sizes
      <3>2. u[n] = o[n] /\ o[n] \in 0..m
        BY <1>7, <3>1
      <3> QED BY <1>sizes, <3>2
    <2> QED BY <2>1, <2>2, <2>3
  <1>12. u[n] = o[n] /\ n \in 0..k + 1
    BY <1>4, <1>5, <1>7
  <1>13. Stream(t, r, n, u)
    BY <1>3, <1>4, <1>7, <1>8, <1>9, <1>10, <1>11, <1>12 DEF Stream
  <1> QED BY <1>1, <1>12, <1>13
(* The first packet of a stream that begins with one.                      *)
LEMMA StreamFirst ==
  ASSUME NEW s \in Seq(Word), NEW q \in Seq(Command), NEW n, NEW o,
         Stream(s, q, n, o), s # <<>>, o[n] = 0,
         NEW w, w = Written(q[n + 1].kind)
  PROVE  /\ n + 1 \in 1..Len(q) /\ n + 1 \in n..Len(q) /\ q[n + 1] \in Command
         /\ w \in Nat \ {0} /\ o[n + 1] = w /\ w <= Len(s)
         /\ \A i \in 1..w : s[i] = WordOf(q[n + 1], i)
  <1>names. PICK m, k : m = Len(s) /\ k = Len(q)
    OBVIOUS
  <1>1. m = Len(s) /\ k = Len(q) /\ m \in Nat \ {0} /\ k \in Nat
    BY <1>names
  <1>2. /\ n \in 0..k /\ o \in [n..k -> 0..m]
        /\ \A i \in n + 1..k :
             /\ o[i] = o[i - 1] + Written(q[i].kind)
             /\ \A l \in 1..Written(q[i].kind) : s[o[i - 1] + l] = WordOf(q[i], l)
        /\ \A j \in o[n] + 1..m : \E i \in n + 1..k : o[i - 1] < j /\ j <= o[i]
    BY <1>1 DEF Stream
  <1>3. 1 \in o[n] + 1..m
    BY <1>1
  <1>4. n + 1 \in n + 1..k
    <2>1. PICK i \in n + 1..k : TRUE
      BY <1>2, <1>3
    <2> QED BY <1>1, <1>2, <2>1
  <1>5. n + 1 \in 1..k /\ n + 1 \in n..k /\ (n + 1) - 1 = n
    BY <1>1, <1>2, <1>4
  <1>6. q[n + 1] \in Command
    BY <1>1, <1>5
  <1>7. w \in Nat \ {0}
    BY <1>6, PacketWords
  <1>8. o[n + 1] = o[n] + w /\ \A l \in 1..w : s[o[n] + l] = WordOf(q[n + 1], l)
    BY <1>2, <1>4, <1>5
  <1>9. o[n + 1] = w /\ \A l \in 1..w : s[l] = WordOf(q[n + 1], l)
    BY <1>7, <1>8
  <1>10. w <= m
    <2>1. o[n + 1] \in 0..m
      BY <1>2, <1>5
    <2> QED BY <1>1, <1>9, <2>1
  <1> QED BY <1>1, <1>5, <1>6, <1>7, <1>9, <1>10

(* Words are taken from the stream, up to the end of packet l at most.     *)
Removable(s, e, c) == c \in 0..e /\ \A j \in c + 1..e : s[j].i # 1

LEMMA StreamCut ==
  ASSUME NEW s \in Seq(Word), NEW q \in Seq(Command), NEW n, NEW o,
         Stream(s, q, n, o), NEW l \in n..Len(q), NEW c, NEW t, Cuts(Word, s, c, t),
         Removable(s, o[l], c)
  PROVE  Pending(t, q, l) /\ (c = o[l] => Whole(t, q, l))
  <1>names. PICK m, k, a, b : m = Len(s) /\ k = Len(q) /\ a = o[l] /\ b = o[n]
    OBVIOUS
  <1>1. m = Len(s) /\ k = Len(q) /\ m \in Nat /\ k \in Nat
    BY <1>names
  <1>2. /\ n \in 0..k /\ o \in [n..k -> 0..m] /\ o[k] = m
        /\ \A i, j \in n..k : i <= j => o[i] <= o[j]
        /\ \A i \in n + 1..k :
             /\ o[i] = o[i - 1] + Written(q[i].kind)
             /\ \A j \in 1..Written(q[i].kind) : s[o[i - 1] + j] = WordOf(q[i], j)
        /\ \A j \in o[n] + 1..m : \E i \in n + 1..k : o[i - 1] < j /\ j <= o[i]
    BY <1>1 DEF Stream
  <1>3. n \in Nat /\ l \in Nat /\ n <= l /\ l <= k /\ n \in n..k /\ l \in n..k
    BY <1>1, <1>2
  <1>bounds. /\ a = o[l] /\ b = o[n] /\ a \in Nat /\ b \in Nat /\ c \in Nat
        /\ b <= a /\ c <= a /\ a <= m
    BY <1>names, <1>1, <1>2, <1>3 DEF Removable
  <1>sizes. /\ m \in Nat /\ a \in Nat /\ b \in Nat /\ c \in Nat
           /\ b <= a /\ c <= a /\ a <= m
    BY <1>1, <1>bounds
  <1>4. t \in Seq(Word) /\ Len(t) = m - c /\ \A j \in 1..m - c : t[j] = s[c + j]
    BY <1>1 DEF Cuts
  <1>5. PICK u : u = [i \in l..k |-> o[i] - c]
    OBVIOUS
  <1>6. \A i \in l..k : /\ i \in n..k /\ u[i] = o[i] - c
                        /\ o[i] \in 0..m /\ o[l] <= o[i] /\ c <= o[i]
    <2> SUFFICES ASSUME NEW i \in l..k
                 PROVE  /\ i \in n..k /\ u[i] = o[i] - c
                        /\ o[i] \in 0..m /\ o[l] <= o[i] /\ c <= o[i]
      OBVIOUS
    <2>1. i \in n..k /\ l <= i
      BY <1>1, <1>3
    <2>2. o[l] <= o[i] /\ o[i] \in 0..m
      BY <1>2, <1>3, <2>1
    <2>3. c <= o[i]
      BY <1>bounds, <1>1, <2>2
    <2> QED BY <1>5, <2>1, <2>2, <2>3
  <1>7. u \in [l..k -> 0..m - c]
    <2>1. ASSUME NEW i \in l..k PROVE o[i] - c \in 0..m - c
      <3>1. o[i] \in 0..m /\ c <= o[i]
        BY <1>6
      <3> QED BY <1>sizes, <3>1
    <2> QED BY <1>5, <2>1
  <1>8. u[k] = m - c /\ u[l] = o[l] - c /\ u[l] = a - c
    <2>1. k \in l..k /\ l \in l..k
      BY <1>1, <1>3
    <2> QED BY <1>bounds, <1>2, <1>6, <2>1
  <1>9. \A i, j \in l..k : i <= j => u[i] <= u[j]
    <2> SUFFICES ASSUME NEW i \in l..k, NEW j \in l..k, i <= j PROVE u[i] <= u[j]
      OBVIOUS
    <2>1. o[i] <= o[j]
      BY <1>2, <1>6
    <2> QED BY <1>bounds, <1>6, <2>1
  <1>10. \A j \in 1..u[l] : t[j].i # 1
    <2> SUFFICES ASSUME NEW j \in 1..u[l] PROVE t[j].i # 1
      OBVIOUS
    <2>1. c + j \in c + 1..o[l] /\ j \in 1..m - c
      <3>1. j \in 1..a - c
        BY <1>8
      <3>2. c + j \in c + 1..a /\ j \in 1..m - c
        BY <1>sizes, <3>1
      <3> QED BY <1>bounds, <3>2
    <2> QED BY <1>4, <2>1 DEF Removable
  <1>11. \A i \in l + 1..k :
           /\ u[i] = u[i - 1] + Written(q[i].kind)
           /\ \A j \in 1..Written(q[i].kind) : t[u[i - 1] + j] = WordOf(q[i], j)
    <2> SUFFICES ASSUME NEW i \in l + 1..k
                 PROVE  /\ u[i] = u[i - 1] + Written(q[i].kind)
                        /\ \A j \in 1..Written(q[i].kind) : t[u[i - 1] + j] = WordOf(q[i], j)
      OBVIOUS
    <2>1. i \in n + 1..k /\ i \in l..k /\ i - 1 \in l..k /\ i \in 1..k
      BY <1>1, <1>2, <1>3
    <2>2. u[i] = o[i] - c /\ u[i - 1] = o[i - 1] - c /\ o[i] \in 0..m /\ o[i - 1] \in 0..m
          /\ c <= o[i - 1]
      BY <1>6, <2>1
    <2>3. o[i] = o[i - 1] + Written(q[i].kind)
      BY <1>2, <2>1
    <2>4. q[i] \in Command
      BY <1>1, <2>1
    <2>5. Written(q[i].kind) \in Nat \ {0}
      BY <2>4, PacketWords
    <2>6. u[i] = u[i - 1] + Written(q[i].kind)
      BY <1>bounds, <2>2, <2>3, <2>5
    <2>7. ASSUME NEW j \in 1..Written(q[i].kind) PROVE t[u[i - 1] + j] = WordOf(q[i], j)
      <3>1. u[i - 1] + j \in 1..m - c /\ c + (u[i - 1] + j) = o[i - 1] + j
        <4>1. PICK x, y, w : x = o[i - 1] /\ y = o[i] /\ w = Written(q[i].kind)
          OBVIOUS
        <4>2. x \in Nat /\ y \in Nat /\ w \in Nat /\ y = x + w /\ y <= m /\ c <= x
              /\ u[i - 1] = x - c /\ j \in 1..w
          BY <1>1, <2>2, <2>3, <2>5, <4>1
        <4>3. (x - c) + j \in 1..m - c /\ c + ((x - c) + j) = x + j
          BY <1>sizes, <4>2
        <4> QED BY <4>1, <4>2, <4>3
      <3>2. t[u[i - 1] + j] = s[o[i - 1] + j]
        BY <1>4, <3>1
      <3> QED BY <1>2, <2>1, <3>2
    <2> QED BY <2>6, <2>7
  <1>12. \A j \in u[l] + 1..m - c : \E i \in l + 1..k : u[i - 1] < j /\ j <= u[i]
    <2> SUFFICES ASSUME NEW j \in u[l] + 1..m - c
                 PROVE  \E i \in l + 1..k : u[i - 1] < j /\ j <= u[i]
      OBVIOUS
    <2>1. c + j \in o[n] + 1..m /\ a < c + j /\ c + j \in Nat /\ j \in Nat
      <3>1. j \in (a - c) + 1..m - c
        BY <1>8
      <3>2. c + j \in b + 1..m /\ a < c + j /\ c + j \in Nat /\ j \in Nat
        BY <1>sizes, <3>1
      <3> QED BY <1>bounds, <3>2
    <2>2. PICK i \in n + 1..k : o[i - 1] < c + j /\ c + j <= o[i]
      BY <1>2, <2>1
    <2>3. i \in n..k /\ l < i
      <3>1. i \in n..k
        BY <1>1, <1>3
      <3>2. i <= l => o[i] <= o[l]
        BY <1>2, <1>3, <3>1
      <3>3. o[i] \in 0..m
        BY <1>2, <3>1
      <3>4. a < o[i]
        <4>1. PICK y : y = o[i] /\ y \in Nat /\ c + j <= y
          BY <2>2, <3>3
        <4>2. a < y
          BY <1>sizes, <2>1, <4>1
        <4> QED BY <4>1, <4>2
      <3>5. ~(i <= l)
        BY <1>bounds, <1>1, <3>2, <3>3, <3>4
      <3> QED BY <1>1, <1>3, <3>1, <3>5
    <2>4. i \in l + 1..k /\ i \in l..k /\ i - 1 \in l..k
      BY <1>1, <1>3, <2>3
    <2>5. u[i] = o[i] - c /\ u[i - 1] = o[i - 1] - c /\ o[i] \in 0..m /\ o[i - 1] \in 0..m
      BY <1>6, <2>4
    <2>6. u[i - 1] < j /\ j <= u[i]
      <3>1. PICK x, y : x = o[i - 1] /\ y = o[i]
        OBVIOUS
      <3>2. x \in Nat /\ y \in Nat /\ x < c + j /\ c + j <= y
        BY <2>2, <2>5, <3>1
      <3>3. x - c < j /\ j <= y - c
        BY <1>sizes, <2>1, <3>2
      <3> QED BY <2>5, <3>1, <3>3
    <2> QED BY <2>4, <2>6
  <1>13. Stream(t, q, l, u)
    BY <1>1, <1>3, <1>4, <1>7, <1>8, <1>9, <1>10, <1>11, <1>12 DEF Stream
  <1>14. c = o[l] => u[l] = 0
    BY <1>bounds, <1>8
  <1> QED BY <1>13, <1>14 DEF Pending, Whole

(* What read_packet finds in a stream that begins with a packet.           *)
LEMMA PacketRead ==
  ASSUME NEW s \in Seq(Word), NEW q \in Seq(Command), NEW n,
         Whole(s, q, n), s # <<>>
  PROVE  /\ n + 1 \in 1..Len(q) /\ q[n + 1] \in Command
         /\ Head(s).i = 1 /\ Head(s).packet = q[n + 1] /\ Kind(s) = q[n + 1].kind
         /\ ReadOf(s) = Packet(q[n + 1])
         /\ Unread(s) \in Seq(Word) /\ Whole(Unread(s), q, n + 1)
         /\ Tail(s) \in Seq(Word) /\ Pending(Tail(s), q, n + 1)
  <1>1. PICK o : Stream(s, q, n, o) /\ o[n] = 0
    BY DEF Whole
  <1>2. PICK p, w, m : p = q[n + 1] /\ w = Written(p.kind) /\ m = Len(s)
    OBVIOUS
  <1>3. /\ n + 1 \in 1..Len(q) /\ n + 1 \in n..Len(q) /\ p \in Command
        /\ w \in Nat \ {0} /\ o[n + 1] = w /\ w <= m
        /\ \A i \in 1..w : s[i] = WordOf(p, i)
    BY <1>1, <1>2, StreamFirst
  <1>4. m \in Nat /\ 1 \in 1..w /\ 1 \in Nat
    BY <1>2, <1>3
  <1>5. Head(s).i = 1 /\ Head(s).packet = p /\ Kind(s) = p.kind
    <2>1. Head(s) = s[1]
      OBVIOUS
    <2>2. s[1] = WordOf(p, 1)
      BY <1>3, <1>4
    <2>3. Head(s).i = 1 /\ Head(s).packet = p
      BY <2>1, <2>2 DEF WordOf
    <2> QED BY <2>3 DEF Kind
  <1>6. Sizes(Kind(s)) = w
    BY <1>2, <1>3, <1>5, PacketWords
  <1>7. ReadOf(s) = Packet(p)
    <2>1. ReadOf(s) = SubSeq(s, 1, w)
      BY <1>6 DEF ReadOf
    <2>2. SubSeq(s, 1, w) = [i \in 1..w |-> s[i]]
      BY <1>2, <1>3, <1>4
    <2>3. [i \in 1..w |-> s[i]] = [i \in 1..w |-> WordOf(p, i)]
      BY <1>3
    <2>4. Packet(p) = [i \in 1..w |-> WordOf(p, i)]
      BY <1>2 DEF Packet, WordOf
    <2> QED BY <2>1, <2>2, <2>3, <2>4, Zenon
  <1>8. PICK r : r = Unread(s)
    OBVIOUS
  <1>9. Cuts(Word, s, w, r)
    <2>1. r = SubSeq(s, w + 1, Len(s))
      BY <1>6, <1>8 DEF Unread
    <2> QED BY <1>2, <1>3, <2>1, CutOff
  <1>10. PICK t : t = Tail(s)
    OBVIOUS
  <1>11. Cuts(Word, s, 1, t)
    BY <1>10, CutHead
  <1>12. Whole(r, q, n + 1)
    <2>1. Removable(s, o[n + 1], w)
      BY <1>3 DEF Removable
    <2> QED BY <1>1, <1>3, <1>9, <2>1, StreamCut
  <1>13. Pending(t, q, n + 1)
    <2>1. ASSUME NEW j \in 1 + 1..o[n + 1] PROVE s[j].i # 1
      <3>1. j \in 1..w /\ j # 1
        BY <1>3
      <3>2. s[j] = WordOf(p, j)
        BY <1>3, <3>1
      <3> QED BY <3>1, <3>2 DEF WordOf
    <2>2. Removable(s, o[n + 1], 1)
      BY <1>3, <2>1 DEF Removable
    <2> QED BY <1>1, <1>3, <1>11, <2>2, StreamCut
  <1>14. r \in Seq(Word) /\ t \in Seq(Word)
    BY <1>9, <1>11 DEF Cuts
  <1> QED BY <1>2, <1>3, <1>5, <1>7, <1>8, <1>10, <1>12, <1>13, <1>14, Zenon

(* A word is a type exactly when a packet begins there.                    *)
LEMMA TypeFound ==
  ASSUME NEW s \in Seq(Word), NEW q \in Seq(Command), NEW n,
         Pending(s, q, n), s # <<>>, Head(s).i = 1
  PROVE  Whole(s, q, n)
  <1>1. PICK o : Stream(s, q, n, o)
    BY DEF Pending
  <1>2. n \in n..Len(q) /\ o[n] \in 0..Len(s) /\ \A j \in 1..o[n] : s[j].i # 1
    BY <1>1 DEF Stream
  <1>3. Head(s) = s[1]
    OBVIOUS
  <1>4. o[n] = 0
    BY <1>2, <1>3
  <1> QED BY <1>1, <1>4 DEF Whole

LEMMA NoiseSkipped ==
  ASSUME NEW s \in Seq(Word), NEW q \in Seq(Command), NEW n,
         Pending(s, q, n), s # <<>>, Head(s).i # 1
  PROVE  Tail(s) \in Seq(Word) /\ Pending(Tail(s), q, n)
  <1>1. PICK o : Stream(s, q, n, o)
    BY DEF Pending
  <1>2. n \in n..Len(q) /\ o[n] \in 0..Len(s) /\ \A j \in 1..o[n] : s[j].i # 1
    BY <1>1 DEF Stream
  <1>3. o[n] # 0
    <2> SUFFICES ASSUME o[n] = 0 PROVE FALSE
      OBVIOUS
    <2>1. Whole(s, q, n)
      BY <1>1 DEF Whole
    <2> QED BY <2>1, PacketRead
  <1>4. PICK t : t = Tail(s)
    OBVIOUS
  <1>5. Cuts(Word, s, 1, t)
    BY <1>4, CutHead
  <1>6. Removable(s, o[n], 1)
    BY <1>2, <1>3 DEF Removable
  <1>7. Pending(t, q, n)
    BY <1>1, <1>2, <1>5, <1>6, StreamCut
  <1>8. t \in Seq(Word)
    BY <1>5 DEF Cuts
  <1> QED BY <1>4, <1>7, <1>8, Zenon

(* A packet more at the end, and a stream of one.                          *)
LEMMA PacketWritten ==
  ASSUME NEW s \in Seq(Word), NEW q \in Seq(Command), NEW n, NEW p \in Command
  PROVE  /\ s \o Packet(p) \in Seq(Word)
         /\ Pending(s, q, n) => Pending(s \o Packet(p), Append(q, p), n)
         /\ Whole(s, q, n) => Whole(s \o Packet(p), Append(q, p), n)
  <1>1. PICK t, r, v : t = s \o v /\ v = Packet(p) /\ r = Append(q, p)
    OBVIOUS
  <1>2. v \in Seq(Word)
    BY <1>1, PacketWords
  <1>3. t \in Seq(Word)
    BY <1>1, <1>2
  <1>4. ASSUME NEW o, Stream(s, q, n, o) PROVE \E u : Stream(t, r, n, u) /\ u[n] = o[n]
    BY <1>1, <1>4, StreamWritten
  <1>5. Pending(s, q, n) => Pending(t, r, n)
    BY <1>4 DEF Pending
  <1>6. Whole(s, q, n) => Whole(t, r, n)
    BY <1>4 DEF Whole
  <1> QED BY <1>1, <1>3, <1>5, <1>6

LEMMA NothingWritten == Whole(<<>>, <<>>, 0)
  <1>1. PICK o : o = [k \in 0..0 |-> 0]
    OBVIOUS
  <1>2. Stream(<<>>, <<>>, 0, o) /\ o[0] = 0
    BY <1>1 DEF Stream
  <1> QED BY <1>2 DEF Whole

LEMMA OneWritten ==
  ASSUME NEW p \in Command
  PROVE  Packet(p) \in Seq(Word) /\ Whole(Packet(p), <<p>>, 0)
  <1>1. <<>> \in Seq(Word) /\ <<>> \in Seq(Command)
    OBVIOUS
  <1>2. Whole(<<>> \o Packet(p), Append(<<>>, p), 0)
    BY <1>1, NothingWritten, PacketWritten
  <1>3. PICK v : v = Packet(p)
    OBVIOUS
  <1>4. v \in Seq(Word)
    BY <1>3, PacketWords
  <1>5. <<>> \o v = v /\ Append(<<>>, p) = <<p>>
    BY <1>4
  <1> QED BY <1>2, <1>3, <1>4, <1>5

(* One direction of a connection: the words s on their way, the packets q  *)
(* written, and what was read; nothing is said of the words of a closed    *)
(* one, which nobody reads.                                                *)
Flow(s, q, r, open) ==
  /\ Len(r) <= Len(q) /\ \A i \in DOMAIN r : r[i] = Packet(q[i])
  /\ open => Whole(s, q, Len(r))

Connection ==
  [up : Seq(Word), down : Seq(Word), server : {"open", "closed"}, member : BOOLEAN,
   meant : Seq(Command), served : Seq(Seq(Word)), wrote : Seq(Command), heard : Seq(Seq(Word))]

Carries(l) ==
  /\ Flow(l.up, l.meant, l.served, l.server = "open")
  /\ Flow(l.down, l.wrote, l.heard, TRUE)

Linked(ls) == ls \in Seq(Connection) /\ \A c \in DOMAIN ls : Carries(ls[c])

(* What the input pipe holds is what was typed and not taken.              *)
Piped ==
  /\ typed \in Seq(Command) /\ \A k \in 1..Len(typed) : typed[k].n = k
  /\ Len(taken) \in 0..Len(typed) /\ taken = SubSeq(typed, 1, Len(taken))
  /\ input_pipe \in Seq(Word) /\ Pending(input_pipe, typed, Len(taken))

Handled ==
  /\ cmd \in {"join", "msg", "leave", "log", "exit"}
  /\ at \in {"select", "asking", "left", "ended"}
  /\ in_channel \in BOOLEAN /\ logging \in BOOLEAN /\ client_socket \in 0..Len(link)
  /\ Len(typed) <= MaxLines /\ Len(link) <= MaxConns
  /\ at = "asking" => Len(link) > 0
  /\ in_channel \/ at = "left" => client_socket # 0

PipelineInv == Handled /\ Piped /\ Linked(link)

LEMMA FlowWritten ==
  ASSUME NEW s \in Seq(Word), NEW q \in Seq(Command), NEW r \in Seq(Seq(Word)),
         NEW open \in BOOLEAN, NEW p \in Command, Flow(s, q, r, open)
  PROVE  Flow(IF open THEN s \o Packet(p) ELSE s, Append(q, p), r, open)
  <1>1. PICK m, k, u : m = Len(r) /\ k = Len(q) /\ u = Append(q, p)
    OBVIOUS
  <1>2. m \in Nat /\ k \in Nat /\ DOMAIN r = 1..m /\ m <= k
        /\ \A i \in 1..m : r[i] = Packet(q[i])
    <2>1. m \in Nat /\ k \in Nat /\ DOMAIN r = 1..m
      BY <1>1
    <2>2. m <= k /\ \A i \in DOMAIN r : r[i] = Packet(q[i])
      BY <1>1 DEF Flow
    <2> QED BY <2>1, <2>2
  <1>3. Len(u) = k + 1 /\ \A i \in 1..k : u[i] = q[i]
    BY <1>1
  <1>4. Len(r) <= Len(u) /\ \A i \in DOMAIN r : r[i] = Packet(u[i])
    <2>1. m <= k + 1 /\ \A i \in 1..m : i \in 1..k
      BY <1>2
    <2> QED BY <1>1, <1>2, <1>3, <2>1
  <1>5. open => Whole(s \o Packet(p), u, Len(r))
    BY <1>1, PacketWritten DEF Flow
  <1> QED BY <1>1, <1>4, <1>5 DEF Flow

LEMMA FlowRead ==
  ASSUME NEW s \in Seq(Word), NEW q \in Seq(Command), NEW r \in Seq(Seq(Word)),
         Flow(s, q, r, TRUE), s # <<>>
  PROVE  /\ ReadOf(s) \in Seq(Word) /\ Unread(s) \in Seq(Word)
         /\ Flow(Unread(s), q, Append(r, ReadOf(s)), TRUE)
  <1>1. PICK m, k, a, b : m = Len(r) /\ k = Len(q) /\ a = ReadOf(s) /\ b = Unread(s)
    OBVIOUS
  <1>2. m \in Nat /\ k \in Nat /\ DOMAIN r = 1..m /\ m <= k
        /\ (\A i \in 1..m : r[i] = Packet(q[i])) /\ Whole(s, q, m)
    <2>1. m \in Nat /\ k \in Nat /\ DOMAIN r = 1..m
      BY <1>1
    <2>2. m <= k /\ (\A i \in DOMAIN r : r[i] = Packet(q[i])) /\ Whole(s, q, m)
      BY <1>1 DEF Flow
    <2> QED BY <2>1, <2>2
  <1>3. /\ m + 1 \in 1..k /\ q[m + 1] \in Command
        /\ a = Packet(q[m + 1]) /\ b \in Seq(Word) /\ Whole(b, q, m + 1)
    <2>1. Whole(s, q, m)
      BY <1>2
    <2>2. /\ m + 1 \in 1..Len(q) /\ q[m + 1] \in Command
          /\ ReadOf(s) = Packet(q[m + 1])
          /\ Unread(s) \in Seq(Word) /\ Whole(Unread(s), q, m + 1)
      BY <2>1, PacketRead
    <2> QED BY <1>1, <2>2
  <1>4. a \in Seq(Word)
    BY <1>3, PacketWords
  <1>5. PICK v : v = Append(r, a)
    OBVIOUS
  <1>6. DOMAIN v = 1..m + 1 /\ Len(v) = m + 1
        /\ \A i \in 1..m + 1 : v[i] = IF i = m + 1 THEN a ELSE r[i]
    BY <1>1, <1>4, <1>5
  <1>7. \A i \in 1..m + 1 : v[i] = Packet(q[i])
    <2>1. \A i \in 1..m + 1 : i = m + 1 \/ i \in 1..m
      BY <1>2
    <2> QED BY <1>2, <1>3, <1>6, <2>1
  <1>8. Flow(b, q, v, TRUE)
    BY <1>1, <1>3, <1>6, <1>7 DEF Flow
  <1> QED BY <1>1, <1>3, <1>4, <1>5, <1>8

(* The connections, when one of them changes.                              *)
LEMMA Relinked ==
  ASSUME NEW ls, Linked(ls), NEW c \in DOMAIN ls, NEW l \in Connection, Carries(l),
         NEW ms, ms = [ls EXCEPT ![c] = l]
  PROVE  Linked(ms) /\ Len(ms) = Len(ls)
  BY DEF Linked

LEMMA Replaced ==
  ASSUME NEW ls, Linked(ls), NEW c \in DOMAIN ls, NEW l \in Connection, Carries(l),
         NEW ms, ms = [d \in DOMAIN ls |-> IF d = c THEN l ELSE ls[d]]
  PROVE  Linked(ms) /\ Len(ms) = Len(ls)
  <1>1. PICK n \in Nat : n = Len(ls) /\ DOMAIN ls = 1..n /\ \A d \in 1..n : ls[d] \in Connection
    BY DEF Linked
  <1>2. ms \in Seq(Connection) /\ Len(ms) = n /\ DOMAIN ms = 1..n
    BY <1>1
  <1> QED BY <1>1, <1>2 DEF Linked

LEMMA SentOn ==
  ASSUME NEW l \in Connection, Carries(l), NEW p \in Command, NEW m,
         m = [l EXCEPT !.up = IF l.server = "open" THEN @ \o Packet(p) ELSE @,
                       !.meant = Append(@, p)]
  PROVE  m \in Connection /\ Carries(m)
  <1>1. PICK u, q, open : /\ u = (IF l.server = "open" THEN l.up \o Packet(p) ELSE l.up)
                          /\ q = Append(l.meant, p) /\ open = (l.server = "open")
    OBVIOUS
  <1>2. l.up \in Seq(Word) /\ l.meant \in Seq(Command) /\ l.served \in Seq(Seq(Word))
    BY DEF Connection
  <1>3. Flow(u, q, l.served, open)
    BY <1>1, <1>2, FlowWritten DEF Carries
  <1>4. u \in Seq(Word)
    <2>1. PICK v : v = Packet(p)
      OBVIOUS
    <2>2. v \in Seq(Word)
      BY <2>1, PacketWords
    <2>3. l.up \o v \in Seq(Word)
      BY <1>2, <2>2
    <2> QED BY <1>1, <1>2, <2>1, <2>3
  <1>5. q \in Seq(Command)
    BY <1>1, <1>2
  <1>6. m = [l EXCEPT !.up = u, !.meant = q]
    BY <1>1
  <1>7. m \in Connection
    BY <1>4, <1>5, <1>6 DEF Connection
  <1>8. /\ m.up = u /\ m.meant = q /\ m.served = l.served /\ m.server = l.server
        /\ m.down = l.down /\ m.wrote = l.wrote /\ m.heard = l.heard
    BY <1>6 DEF Connection
  <1> QED BY <1>1, <1>3, <1>7, <1>8 DEF Carries

LEMMA WritesOn ==
  ASSUME NEW l \in Connection, Carries(l), NEW p \in Command, NEW m, m = Writes(l, p)
  PROVE  m \in Connection /\ Carries(m)
  <1>1. PICK u, q : u = l.down \o Packet(p) /\ q = Append(l.wrote, p)
    OBVIOUS
  <1>2. l.down \in Seq(Word) /\ l.wrote \in Seq(Command) /\ l.heard \in Seq(Seq(Word))
    BY DEF Connection
  <1>3. Flow(u, q, l.heard, TRUE)
    BY <1>1, <1>2, FlowWritten DEF Carries
  <1>4. u \in Seq(Word)
    BY <1>1, <1>2, PacketWritten
  <1>5. q \in Seq(Command)
    BY <1>1, <1>2
  <1>6. m = [l EXCEPT !.down = u, !.wrote = q]
    BY <1>1 DEF Writes
  <1>7. m \in Connection
    BY <1>4, <1>5, <1>6 DEF Connection
  <1>8. /\ m.up = l.up /\ m.meant = l.meant /\ m.served = l.served /\ m.server = l.server
        /\ m.down = u /\ m.wrote = q /\ m.heard = l.heard
    BY <1>6 DEF Connection
  <1> QED BY <1>1, <1>3, <1>7, <1>8 DEF Carries

LEMMA HeardOn ==
  ASSUME NEW l \in Connection, Carries(l), l.down # <<>>, NEW m,
         m = [l EXCEPT !.heard = Append(@, ReadOf(l.down)), !.down = Unread(@)]
  PROVE  m \in Connection /\ Carries(m)
  <1>1. PICK u, r : u = Unread(l.down) /\ r = Append(l.heard, ReadOf(l.down))
    OBVIOUS
  <1>2. l.down \in Seq(Word) /\ l.wrote \in Seq(Command) /\ l.heard \in Seq(Seq(Word))
    BY DEF Connection
  <1>3. ReadOf(l.down) \in Seq(Word) /\ u \in Seq(Word) /\ Flow(u, l.wrote, r, TRUE)
    BY <1>1, <1>2, FlowRead DEF Carries
  <1>4. r \in Seq(Seq(Word))
    BY <1>1, <1>2, <1>3
  <1>5. m = [l EXCEPT !.heard = r, !.down = u]
    BY <1>1
  <1>6. m \in Connection
    BY <1>3, <1>4, <1>5 DEF Connection
  <1>7. /\ m.up = l.up /\ m.meant = l.meant /\ m.served = l.served /\ m.server = l.server
        /\ m.down = u /\ m.wrote = l.wrote /\ m.heard = r
    BY <1>5 DEF Connection
  <1> QED BY <1>3, <1>6, <1>7 DEF Carries

LEMMA ServedOn ==
  ASSUME NEW l \in Connection, Carries(l), l.server = "open", l.up # <<>>, NEW m,
         m = [l EXCEPT !.up = Unread(@), !.served = Append(@, ReadOf(l.up))]
  PROVE  m \in Connection /\ Carries(m)
  <1>1. PICK u, r : u = Unread(l.up) /\ r = Append(l.served, ReadOf(l.up))
    OBVIOUS
  <1>2. l.up \in Seq(Word) /\ l.meant \in Seq(Command) /\ l.served \in Seq(Seq(Word))
    BY DEF Connection
  <1>3. ReadOf(l.up) \in Seq(Word) /\ u \in Seq(Word) /\ Flow(u, l.meant, r, TRUE)
    <2>1. Flow(l.up, l.meant, l.served, TRUE)
      BY DEF Carries, Flow
    <2> QED BY <1>1, <1>2, <2>1, FlowRead
  <1>4. r \in Seq(Seq(Word))
    BY <1>1, <1>2, <1>3
  <1>5. m = [l EXCEPT !.up = u, !.served = r]
    BY <1>1
  <1>6. m \in Connection
    BY <1>3, <1>4, <1>5 DEF Connection
  <1>7. /\ m.up = u /\ m.meant = l.meant /\ m.served = r /\ m.server = l.server
        /\ m.down = l.down /\ m.wrote = l.wrote /\ m.heard = l.heard
    BY <1>5 DEF Connection
  <1>8. Flow(u, l.meant, r, m.server = "open")
    BY <1>3 DEF Flow
  <1> QED BY <1>6, <1>7, <1>8 DEF Carries

(* A command is taken: it is the next that was typed, whether its fields   *)
(* are read with it or left behind.                                        *)
LEMMA CommandTaken ==
  ASSUME Piped, NEW kind \in Kinds, Takes(kind), NEW p, p = Head(input_pipe).packet
  PROVE  /\ p \in Command /\ p.kind = kind /\ ReadOf(input_pipe) = Packet(p)
         /\ input_pipe' \in {Tail(input_pipe), Unread(input_pipe)} => Piped'
  <1>1. PICK s, q, n : s = input_pipe /\ q = typed /\ n = Len(taken)
    OBVIOUS
  <1>2. /\ s \in Seq(Word) /\ s # <<>> /\ q \in Seq(Command) /\ Kind(s) = kind
        /\ Pending(s, q, n) /\ n \in 0..Len(q) /\ taken = SubSeq(q, 1, n)
    BY <1>1 DEF Piped, Takes
  <1>3. Head(s).i = 1
    BY <1>2 DEF Kind, Kinds
  <1>4. Whole(s, q, n)
    BY <1>2, <1>3, TypeFound
  <1>5. /\ n + 1 \in 1..Len(q) /\ q[n + 1] \in Command
        /\ Head(s).packet = q[n + 1] /\ Kind(s) = q[n + 1].kind
        /\ ReadOf(s) = Packet(q[n + 1])
        /\ Unread(s) \in Seq(Word) /\ Whole(Unread(s), q, n + 1)
        /\ Tail(s) \in Seq(Word) /\ Pending(Tail(s), q, n + 1)
    BY <1>2, <1>4, PacketRead
  <1>6. Pending(Unread(s), q, n + 1)
    BY <1>5 DEF Whole, Pending
  <1>7. taken' = SubSeq(q, 1, n + 1) /\ Len(taken') = n + 1
    <2>1. taken' = Append(SubSeq(q, 1, n), q[n + 1])
      BY <1>1, <1>2, <1>5 DEF Takes
    <2>2. Append(SubSeq(q, 1, n), q[n + 1]) = SubSeq(q, 1, n + 1)
      <3>1. PICK a, b : a = SubSeq(q, 1, n) /\ b = SubSeq(q, 1, n + 1)
        OBVIOUS
      <3>2. /\ a \in Seq(Command) /\ Len(a) = n /\ \A k \in 1..n : a[k] = q[k]
            /\ b \in Seq(Command) /\ Len(b) = n + 1 /\ \A k \in 1..n + 1 : b[k] = q[k]
        BY <1>2, <1>5, <3>1
      <3>3. Append(a, q[n + 1]) = b
        BY <1>2, <1>5, <3>2
      <3> QED BY <3>1, <3>3
    <2>3. Len(SubSeq(q, 1, n + 1)) = n + 1
      BY <1>2, <1>5
    <2> QED BY <2>1, <2>2, <2>3
  <1>8. ASSUME input_pipe' \in {Tail(input_pipe), Unread(input_pipe)} PROVE Piped'
    <2>1. input_pipe' \in Seq(Word) /\ Pending(input_pipe', q, n + 1)
      BY <1>1, <1>5, <1>6, <1>8
    <2>2. typed' = q
      BY <1>1 DEF Takes
    <2>3. n + 1 \in 0..Len(q)
      BY <1>5
    <2>4. \A k \in 1..Len(q) : q[k].n = k
      BY <1>1 DEF Piped
    <2> QED BY <1>2, <1>7, <2>1, <2>2, <2>3, <2>4 DEF Piped
  <1> QED BY <1>1, <1>2, <1>5, <1>8

LEMMA InitPipeline == PipelineInit => PipelineInv
  <1> SUFFICES ASSUME PipelineInit PROVE PipelineInv
    OBVIOUS
  <1>1. /\ cmd = "msg" /\ input_pipe = <<>> /\ at = "select" /\ in_channel = FALSE
        /\ logging = FALSE /\ client_socket = 0 /\ link = <<>> /\ typed = <<>> /\ taken = <<>>
    BY DEF PipelineInit
  <1>2. Pending(<<>>, <<>>, 0)
    BY NothingWritten DEF Whole, Pending
  <1>3. Handled
    <2>1. Len(<<>>) = 0 /\ MaxLines \in Nat /\ MaxConns \in Nat
      BY PipelineAssumption
    <2>2. client_socket \in 0..Len(link) /\ Len(typed) <= MaxLines /\ Len(link) <= MaxConns
      BY <1>1, <2>1
    <2> QED BY <1>1, <2>2 DEF Handled
  <1>4. Piped
    BY <1>1, <1>2 DEF Piped
  <1>5. Linked(link)
    BY <1>1 DEF Linked
  <1> QED BY <1>3, <1>4, <1>5 DEF PipelineInv

LEMMA StepInputManager ==
  ASSUME PipelineInv, NEW l \in Lines, InputManager(l)
  PROVE  PipelineInv'
  <1>1. Typed(l) \in {"join", "msg", "leave", "log", "exit"}
    BY DEF PipelineInv, Handled, Lines, Typed
  <1>2. PICK p : p = [kind |-> Typed(l), n |-> Len(typed) + 1]
    OBVIOUS
  <1>3. /\ Len(typed) < MaxLines /\ cmd' = Typed(l)
        /\ \/ UNCHANGED <<input_pipe, typed>>
           \/ input_pipe' = input_pipe \o Packet(p) /\ typed' = Append(typed, p)
        /\ UNCHANGED <<at, in_channel, logging, client_socket, link, taken>>
    BY <1>2 DEF InputManager, clientVars
  <1>4. Piped
    BY DEF PipelineInv
  <1>5. p \in Command /\ p.n = Len(typed) + 1
    <2>1. typed \in Seq(Command)
      BY <1>4 DEF Piped
    <2>2. Len(typed) + 1 \in Nat
      BY <2>1
    <2> QED BY <1>1, <1>2, <2>2 DEF Command, Kinds
  <1>6. Piped' /\ Len(typed') <= MaxLines
    <2>1. CASE UNCHANGED <<input_pipe, typed>>
      BY <1>3, <1>4, <2>1 DEF Piped, PipelineInv, Handled
    <2>2. CASE input_pipe' = input_pipe \o Packet(p) /\ typed' = Append(typed, p)
      <3>1. PICK s, q, n, r, t : /\ s = input_pipe /\ q = typed /\ n = Len(taken)
                                 /\ r = s \o Packet(p) /\ t = Append(q, p)
        OBVIOUS
      <3>2. /\ s \in Seq(Word) /\ q \in Seq(Command) /\ n \in 0..Len(q)
            /\ taken = SubSeq(q, 1, n) /\ Pending(s, q, n) /\ \A k \in 1..Len(q) : q[k].n = k
        BY <1>4, <3>1 DEF Piped
      <3>3. r \in Seq(Word) /\ Pending(r, t, n)
        BY <1>5, <3>1, <3>2, PacketWritten
      <3>4. /\ t \in Seq(Command) /\ Len(t) = Len(q) + 1 /\ t[Len(q) + 1] = p
            /\ \A k \in 1..Len(q) : t[k] = q[k]
        BY <1>5, <3>1, <3>2
      <3>5. n \in 0..Len(t) /\ SubSeq(t, 1, n) = SubSeq(q, 1, n)
        <4>1. Len(q) \in Nat /\ n \in 0..Len(q) /\ Len(t) = Len(q) + 1
          BY <3>2, <3>4
        <4>2. n \in 0..Len(t)
          BY <4>1
        <4>3. \A k \in 1..n : t[k] = q[k]
          BY <3>4, <4>1
        <4>4. SubSeq(q, 1, n) = [k \in 1..n |-> q[k]]
          BY <3>2, <4>1
        <4>5. SubSeq(t, 1, n) = [k \in 1..n |-> t[k]]
          BY <3>4, <4>2
        <4> QED BY <4>2, <4>3, <4>4, <4>5, Zenon
      <3>6. \A k \in 1..Len(t) : t[k].n = k
        <4>1. \A k \in 1..Len(t) : k \in 1..Len(q) \/ k = Len(q) + 1
          BY <3>2, <3>4
        <4> QED BY <1>5, <3>1, <3>2, <3>4, <4>1
      <3>7. Piped'
        BY <1>3, <2>2, <3>1, <3>2, <3>3, <3>4, <3>5, <3>6 DEF Piped
      <3>8. Len(t) <= MaxLines
        BY <1>3, <3>1, <3>2, <3>4, PipelineAssumption
      <3> QED BY <2>2, <3>1, <3>7, <3>8
    <2> QED BY <1>3, <2>1, <2>2
  <1>7. Handled'
    BY <1>1, <1>3, <1>6 DEF PipelineInv, Handled
  <1>8. Linked(link)'
    BY <1>3 DEF PipelineInv
  <1> QED BY <1>6, <1>7, <1>8 DEF PipelineInv

LEMMA StepNoise == PipelineInv /\ Noise => PipelineInv'
  <1> SUFFICES ASSUME PipelineInv, Noise PROVE PipelineInv'
    OBVIOUS
  <1>1. /\ input_pipe # <<>> /\ input_pipe' = Tail(input_pipe)
        /\ UNCHANGED <<cmd, at, in_channel, logging, client_socket, link, typed, taken>>
    BY DEF Noise, clientVars
  <1>2. PICK s, q, n : s = input_pipe /\ q = typed /\ n = Len(taken)
    OBVIOUS
  <1>3. s \in Seq(Word) /\ s # <<>> /\ q \in Seq(Command) /\ Pending(s, q, n) /\ Kind(s) = "noise"
    BY <1>1, <1>2 DEF PipelineInv, Piped, Noise
  <1>4. Head(s).i # 1
    <2> SUFFICES ASSUME Head(s).i = 1 PROVE FALSE
      OBVIOUS
    <2>1. Whole(s, q, n)
      BY <1>3, TypeFound
    <2>2. Kind(s) = q[n + 1].kind /\ q[n + 1] \in Command
      BY <1>3, <2>1, PacketRead
    <2> QED BY <1>3, <2>2 DEF Command, Kinds
  <1>5. Tail(s) \in Seq(Word) /\ Pending(Tail(s), q, n)
    BY <1>3, <1>4, NoiseSkipped
  <1>6. Piped'
    BY <1>1, <1>2, <1>5 DEF PipelineInv, Piped
  <1>7. Handled' /\ Linked(link)'
    BY <1>1 DEF PipelineInv, Handled
  <1> QED BY <1>6, <1>7 DEF PipelineInv

(* A command of which the connections hear nothing.                        *)
LEMMA StepRefusedOrLog == PipelineInv /\ (Refused \/ Log) => PipelineInv'
  <1> SUFFICES ASSUME PipelineInv, Refused \/ Log PROVE PipelineInv'
    OBVIOUS
  <1>1. PICK kind \in Kinds : Takes(kind)
    BY DEF Refused, Log, Kinds
  <1>2. /\ input_pipe' = Tail(input_pipe) /\ logging' \in BOOLEAN
        /\ UNCHANGED <<at, in_channel, client_socket, link>>
    BY DEF Refused, Log, clientVars, PipelineInv, Handled
  <1>3. UNCHANGED <<cmd, typed>>
    BY <1>1 DEF Takes
  <1>4. Piped'
    BY <1>1, <1>2, CommandTaken DEF PipelineInv
  <1>5. Handled' /\ Linked(link)'
    BY <1>2, <1>3 DEF PipelineInv, Handled
  <1> QED BY <1>4, <1>5 DEF PipelineInv

(* One end of a connection writes a packet, or reads one.                  *)
LEMMA SentTo ==
  ASSUME Linked(link), NEW c \in DOMAIN link, NEW p \in Command, NEW ls,
         ls = Sent(c, p, Packet(p))
  PROVE  Linked(ls) /\ Len(ls) = Len(link)
  <1>1. link[c] \in Connection /\ Carries(link[c])
    BY DEF Linked
  <1>2. PICK l, m : /\ l = link[c]
                    /\ m = [l EXCEPT !.up = IF l.server = "open" THEN @ \o Packet(p) ELSE @,
                                     !.meant = Append(@, p)]
    OBVIOUS
  <1>3. m \in Connection /\ Carries(m)
    BY <1>1, <1>2, SentOn
  <1>4. ls = [d \in DOMAIN link |-> IF d = c THEN m ELSE link[d]]
    <2>1. PICK u, q : /\ u = (IF l.server = "open" THEN l.up \o Packet(p) ELSE l.up)
                      /\ q = Append(l.meant, p)
      OBVIOUS
    <2>2. [link[c] EXCEPT !.up = u, !.meant = q] = m
      BY <1>2, <2>1
    <2>3. ls = [link EXCEPT ![c].up = u, ![c].meant = q]
      BY <1>2, <2>1 DEF Sent
    <2>4. ls = [d \in DOMAIN link |-> IF d = c THEN [link[c] EXCEPT !.up = u, !.meant = q] ELSE link[d]]
      BY <1>1, <2>3 DEF Linked
    <2> QED BY <2>2, <2>4, Zenon
  <1> QED BY <1>3, <1>4, Replaced

LEMMA HeardFrom ==
  ASSUME Linked(link), NEW c \in DOMAIN link, Complete(link[c].down), NEW ls, ls = Heard(c)
  PROVE  Linked(ls) /\ Len(ls) = Len(link)
  <1>1. link[c] \in Connection /\ Carries(link[c]) /\ link[c].down # <<>>
    BY DEF Linked, Complete
  <1>2. PICK l, m : /\ l = link[c]
                    /\ m = [l EXCEPT !.heard = Append(@, ReadOf(l.down)), !.down = Unread(@)]
    OBVIOUS
  <1>3. m \in Connection /\ Carries(m)
    BY <1>1, <1>2, HeardOn
  <1>4. ls = [d \in DOMAIN link |-> IF d = c THEN m ELSE link[d]]
    <2>1. PICK u, r : u = Unread(l.down) /\ r = Append(l.heard, ReadOf(l.down))
      OBVIOUS
    <2>2. [link[c] EXCEPT !.heard = r, !.down = u] = m
      BY <1>2, <2>1
    <2>3. ls = [link EXCEPT ![c].heard = r, ![c].down = u]
      BY <1>2, <2>1 DEF Heard
    <2>4. ls = [d \in DOMAIN link |-> IF d = c THEN [link[c] EXCEPT !.heard = r, !.down = u] ELSE link[d]]
      BY <1>1, <2>3 DEF Linked
    <2> QED BY <2>2, <2>4, Zenon
  <1> QED BY <1>3, <1>4, Replaced

(* The socket in use is one of the connections, and so is the one that     *)
(* waits for its answer.                                                   *)
LEMMA SocketsInUse ==
  ASSUME Handled, Linked(link)
  PROVE  /\ DOMAIN link = 1..Len(link) /\ Len(link) \in Nat
         /\ client_socket # 0 => client_socket \in DOMAIN link
         /\ at = "asking" => Len(link) \in DOMAIN link
  BY DEF Handled, Linked

LEMMA StepJoinChannel == PipelineInv /\ JoinChannel => PipelineInv'
  <1> SUFFICES ASSUME PipelineInv, JoinChannel PROVE PipelineInv'
    OBVIOUS
  <1>1. Handled /\ Piped /\ Linked(link)
    BY DEF PipelineInv
  <1>2. PICK p, words : p = Head(input_pipe).packet /\ words = ReadOf(input_pipe)
    OBVIOUS
  <1>3. PICK l : l = [Opened EXCEPT !.up = words, !.meant = <<p>>]
    OBVIOUS
  <1>4. /\ Takes("join") /\ Len(link) < MaxConns /\ link' = Append(link, l)
        /\ input_pipe' = Unread(input_pipe) /\ at' = "asking"
        /\ UNCHANGED <<in_channel, logging, client_socket>>
    BY <1>2, <1>3 DEF JoinChannel
  <1>5. p \in Command /\ words = Packet(p) /\ Piped'
    BY <1>1, <1>2, <1>4, CommandTaken DEF Kinds
  <1>6. words \in Seq(Word) /\ Whole(words, <<p>>, 0)
    BY <1>5, OneWritten
  <1>7. /\ l.up = words /\ l.meant = <<p>> /\ l.served = <<>>
        /\ l.down = <<>> /\ l.wrote = <<>> /\ l.heard = <<>>
        /\ l.server = "open" /\ l.member = FALSE
        /\ l = [up |-> words, down |-> <<>>, server |-> "open", member |-> FALSE,
                meant |-> <<p>>, served |-> <<>>, wrote |-> <<>>, heard |-> <<>>]
    BY <1>3 DEF Opened
  <1>8. l \in Connection
    <2>1. <<>> \in Seq(Word) /\ <<>> \in Seq(Command) /\ <<>> \in Seq(Seq(Word)) /\ <<p>> \in Seq(Command)
      BY <1>5
    <2> QED BY <1>6, <1>7, <2>1 DEF Connection
  <1>9. Carries(l)
    <2>1. Flow(words, <<p>>, <<>>, TRUE)
      BY <1>6 DEF Flow
    <2>2. Flow(<<>>, <<>>, <<>>, TRUE)
      BY NothingWritten DEF Flow
    <2> QED BY <1>7, <2>1, <2>2 DEF Carries
  <1>10. Linked(link)' /\ Len(link') = Len(link) + 1 /\ Len(link) \in Nat
    <2>1. /\ Len(link) \in Nat /\ link' \in Seq(Connection) /\ Len(link') = Len(link) + 1
          /\ \A c \in 1..Len(link) + 1 : link'[c] = IF c = Len(link) + 1 THEN l ELSE link[c]
      BY <1>1, <1>4, <1>8 DEF Linked
    <2>2. DOMAIN link' = 1..Len(link) + 1 /\ DOMAIN link = 1..Len(link)
      BY <1>1, <2>1 DEF Linked
    <2>3. \A c \in DOMAIN link' : Carries(link'[c])
      BY <1>1, <1>9, <2>1, <2>2 DEF Linked
    <2> QED BY <2>1, <2>3 DEF Linked
  <1>11. UNCHANGED <<cmd, typed>>
    BY <1>4 DEF Takes
  <1>12. Len(link') <= MaxConns /\ Len(link') > 0 /\ client_socket' \in 0..Len(link')
    <2>1. MaxConns \in Nat
      BY PipelineAssumption
    <2>2. client_socket \in 0..Len(link)
      BY <1>1 DEF Handled
    <2> QED BY <1>4, <1>10, <2>1, <2>2
  <1>13. client_socket # 0 \/ ~in_channel
    BY <1>1 DEF Handled
  <1>14. Handled'
    BY <1>1, <1>4, <1>11, <1>12, <1>13 DEF Handled
  <1> QED BY <1>5, <1>10, <1>14 DEF PipelineInv

LEMMA StepAnsweredOrDisplay == PipelineInv /\ (Answered \/ Display) => PipelineInv'
  <1> SUFFICES ASSUME PipelineInv, Answered \/ Display PROVE PipelineInv'
    OBVIOUS
  <1>1. Handled /\ Piped /\ Linked(link)
    BY DEF PipelineInv
  <1>2. PICK c \in DOMAIN link :
          /\ Complete(link[c].down) /\ link' = Heard(c) /\ at' = "select"
          /\ \/ in_channel' = TRUE /\ client_socket' = c
             \/ UNCHANGED <<in_channel, client_socket>>
          /\ UNCHANGED <<cmd, input_pipe, logging, typed, taken>>
    <2>1. CASE Answered
      BY <1>1, <2>1, SocketsInUse DEF Answered
    <2>2. CASE Display
      <3>1. client_socket \in DOMAIN link
        BY <1>1, <2>2, SocketsInUse DEF Display, Handled
      <3> QED BY <2>2, <3>1 DEF Display
    <2> QED BY <2>1, <2>2
  <1>3. Linked(link') /\ Len(link') = Len(link)
    BY <1>1, <1>2, HeardFrom
  <1>4. Piped'
    BY <1>1, <1>2 DEF Piped
  <1>5. c \in 0..Len(link) /\ c # 0
    BY <1>1, SocketsInUse
  <1>6. Handled'
    <2>1. client_socket' \in 0..Len(link') /\ (in_channel' => client_socket' # 0)
          /\ in_channel' \in BOOLEAN
      <3>1. CASE in_channel' = TRUE /\ client_socket' = c
        BY <1>3, <1>5, <3>1
      <3>2. CASE UNCHANGED <<in_channel, client_socket>>
        BY <1>1, <1>3, <3>2 DEF Handled
      <3> QED BY <1>2, <3>1, <3>2
    <2>2. Len(link') <= MaxConns /\ Len(typed') <= MaxLines /\ cmd' = cmd /\ logging' = logging
          /\ at' = "select"
      BY <1>1, <1>2, <1>3 DEF Handled
    <2> QED BY <1>1, <2>1, <2>2 DEF Handled
  <1> QED BY <1>3, <1>4, <1>6 DEF PipelineInv

LEMMA StepSay == PipelineInv /\ Say => PipelineInv'
  <1> SUFFICES ASSUME PipelineInv, Say PROVE PipelineInv'
    OBVIOUS
  <1>1. Handled /\ Piped /\ Linked(link)
    BY DEF PipelineInv
  <1>2. PICK p : p = Head(input_pipe).packet
    OBVIOUS
  <1>3. /\ Takes("msg") /\ in_channel /\ link' = Sent(client_socket, p, ReadOf(input_pipe))
        /\ input_pipe' = Unread(input_pipe) /\ UNCHANGED <<at, in_channel, logging, client_socket>>
    BY <1>2 DEF Say, clientVars
  <1>4. p \in Command /\ ReadOf(input_pipe) = Packet(p) /\ Piped'
    BY <1>1, <1>2, <1>3, CommandTaken DEF Kinds
  <1>5. client_socket \in DOMAIN link
    BY <1>1, <1>3, SocketsInUse DEF Handled
  <1>6. Linked(link') /\ Len(link') = Len(link)
    BY <1>1, <1>3, <1>4, <1>5, SentTo
  <1>7. UNCHANGED <<cmd, typed>>
    BY <1>3 DEF Takes
  <1>8. Handled'
    BY <1>1, <1>3, <1>6, <1>7 DEF Handled
  <1> QED BY <1>4, <1>6, <1>8 DEF PipelineInv

LEMMA StepLeaveOrExit == PipelineInv /\ (Leave \/ ExitClient) => PipelineInv'
  <1> SUFFICES ASSUME PipelineInv, Leave \/ ExitClient PROVE PipelineInv'
    OBVIOUS
  <1>1. Handled /\ Piped /\ Linked(link)
    BY DEF PipelineInv
  <1>2. PICK p : p = Head(input_pipe).packet
    OBVIOUS
  <1>3. PICK kind \in Kinds : Takes(kind)
    BY DEF Leave, ExitClient, Kinds
  <1>4. /\ link' = Quit(client_socket, p.n) /\ input_pipe' = Tail(input_pipe)
        /\ \/ at' = "left" /\ in_channel
           \/ at' \in {"select", "ended"}
        /\ in_channel' = FALSE /\ UNCHANGED <<logging, client_socket>>
    BY <1>2 DEF Leave, ExitClient
  <1>5. p \in Command /\ Piped'
    BY <1>1, <1>2, <1>3, <1>4, CommandTaken
  <1>6. Linked(link') /\ Len(link') = Len(link)
    <2>1. CASE client_socket = 0
      BY <1>1, <1>4, <2>1 DEF Quit
    <2>2. CASE client_socket # 0
      <3>1. client_socket \in DOMAIN link
        BY <1>1, <2>2, SocketsInUse
      <3>2. PICK r : r = [kind |-> "quit", n |-> p.n]
        OBVIOUS
      <3>3. r \in Command /\ link' = Sent(client_socket, r, Packet(r))
        BY <1>4, <1>5, <2>2, <3>2 DEF Quit, Command, Kinds
      <3> QED BY <1>1, <3>1, <3>3, SentTo
    <2> QED BY <2>1, <2>2
  <1>7. UNCHANGED <<cmd, typed>>
    BY <1>3 DEF Takes
  <1>8. Handled'
    BY <1>1, <1>4, <1>6, <1>7 DEF Handled
  <1> QED BY <1>5, <1>6, <1>8 DEF PipelineInv

LEMMA StepEndRound == PipelineInv /\ EndRound => PipelineInv'
  BY DEF PipelineInv, Handled, Piped, EndRound

(* The server's end changes one connection.                                *)
LEMMA StepServer ==
  ASSUME PipelineInv, NEW c \in DOMAIN link, ServerReads(c) \/ Broadcast(c)
  PROVE  PipelineInv'
  <1>1. Handled /\ Piped /\ Linked(link)
    BY DEF PipelineInv
  <1>2. link[c] \in Connection /\ Carries(link[c]) /\ c \in 1..Len(link) /\ Len(link) \in Nat
    BY <1>1, SocketsInUse DEF Linked
  <1>3. UNCHANGED <<cmd, input_pipe, at, in_channel, logging, client_socket, typed, taken>>
    BY DEF ServerReads, Broadcast, clientVars
  <1>4. PICK m \in Connection : Carries(m) /\ link' = [link EXCEPT ![c] = m]
    <2>1. CASE ServerReads(c)
      <3>1. PICK l : l = [link[c] EXCEPT !.up = Unread(@),
                                         !.served = Append(@, ReadOf(link[c].up))]
        OBVIOUS
      <3>2. link[c].server = "open" /\ link[c].up # <<>>
        BY <2>1 DEF ServerReads, Complete
      <3>3. l \in Connection /\ Carries(l)
        BY <1>2, <3>1, <3>2, ServedOn
      <3>4. \/ \E code \in {"accepted", "rejected"} :
                 link' = [link EXCEPT ![c] = [Writes(l, [kind |-> code, n |-> c])
                                                EXCEPT !.member = (code = "accepted")]]
            \/ link' = [link EXCEPT ![c] = l]
            \/ link' = [link EXCEPT ![c] = [l EXCEPT !.server = "closed"]]
        BY <2>1, <3>1 DEF ServerReads
      <3>5. ASSUME NEW code \in {"accepted", "rejected"}, NEW m,
                   m = [Writes(l, [kind |-> code, n |-> c]) EXCEPT !.member = (code = "accepted")]
            PROVE  m \in Connection /\ Carries(m)
        <4>1. PICK p, w : p = [kind |-> code, n |-> c] /\ w = Writes(l, p)
          OBVIOUS
        <4>2. p \in Command
          BY <1>2, <4>1 DEF Command, Kinds
        <4>3. w \in Connection /\ Carries(w)
          BY <3>3, <4>1, <4>2, WritesOn
        <4>4. m = [w EXCEPT !.member = (code = "accepted")]
          BY <3>5, <4>1
        <4>5. m \in Connection
          BY <4>3, <4>4 DEF Connection
        <4>6. /\ m.up = w.up /\ m.meant = w.meant /\ m.served = w.served /\ m.server = w.server
              /\ m.down = w.down /\ m.wrote = w.wrote /\ m.heard = w.heard
          BY <4>3, <4>4 DEF Connection
        <4> QED BY <4>3, <4>5, <4>6 DEF Carries
      <3>6. ASSUME NEW m, m = [l EXCEPT !.server = "closed"]
            PROVE  m \in Connection /\ Carries(m)
        <4>1. m \in Connection
          BY <3>3, <3>6 DEF Connection
        <4>2. /\ m.up = l.up /\ m.meant = l.meant /\ m.served = l.served /\ m.server = "closed"
              /\ m.down = l.down /\ m.wrote = l.wrote /\ m.heard = l.heard
          BY <3>3, <3>6 DEF Connection
        <4> QED BY <3>3, <4>1, <4>2 DEF Carries, Flow
      <3> QED BY <3>3, <3>4, <3>5, <3>6
    <2>2. CASE Broadcast(c)
      <3>1. PICK p : p = [kind |-> "smsg", n |-> Len(link[c].wrote)]
        OBVIOUS
      <3>2. p \in Command
        <4>1. Len(link[c].wrote) \in Nat
          BY <1>2 DEF Connection
        <4> QED BY <3>1, <4>1 DEF Command, Kinds
      <3>3. link' = [link EXCEPT ![c] = Writes(link[c], p)]
        BY <2>2, <3>1 DEF Broadcast
      <3> QED BY <1>2, <3>2, <3>3, WritesOn
    <2> QED BY <2>1, <2>2
  <1>5. Linked(link') /\ Len(link') = Len(link)
    <2>1. PICK ls : ls = link'
      OBVIOUS
    <2>2. ls = [link EXCEPT ![c] = m]
      BY <1>4, <2>1
    <2>3. Linked(ls) /\ Len(ls) = Len(link)
      BY <1>1, <1>4, <2>2, Relinked
    <2> QED BY <2>1, <2>3
  <1>6. Piped' /\ Handled'
    BY <1>1, <1>3, <1>5 DEF Piped, Handled
  <1> QED BY <1>5, <1>6 DEF PipelineInv

LEMMA PipelineInductive == PipelineInv /\ [PipelineNext]_pipelineVars => PipelineInv'
  <1> SUFFICES ASSUME PipelineInv, [PipelineNext]_pipelineVars PROVE PipelineInv'
    OBVIOUS
  <1>1. CASE \E l \in Lines : InputManager(l)
    BY <1>1, StepInputManager
  <1>2. CASE Router
    BY <1>2, StepNoise, StepRefusedOrLog, StepJoinChannel, StepAnsweredOrDisplay, StepSay,
       StepLeaveOrExit, StepEndRound DEF Router
  <1>3. CASE \E c \in DOMAIN link : ServerReads(c) \/ Broadcast(c)
    BY <1>3, StepServer
  <1>4. CASE UNCHANGED pipelineVars
    BY <1>4 DEF pipelineVars, clientVars, PipelineInv, Handled, Piped
  <1> QED BY <1>1, <1>2, <1>3, <1>4 DEF PipelineNext

(* Where a type stands in a stream.                                        *)
BeginsAt(s, q, n, o, j) == \E k \in n + 1..Len(q) : j = o[k - 1] + 1 /\ s[j].packet = q[k]

LEMMA TypeAt ==
  ASSUME NEW s \in Seq(Word), NEW q \in Seq(Command), NEW n, NEW o, Stream(s, q, n, o),
         NEW j \in 1..Len(s), s[j].i = 1
  PROVE  BeginsAt(s, q, n, o, j)
  <1>names. PICK m, l : m = Len(s) /\ l = Len(q)
    OBVIOUS
  <1>1. m = Len(s) /\ l = Len(q) /\ m \in Nat /\ l \in Nat /\ j \in 1..m
    BY <1>names
  <1>2. /\ n \in 0..l /\ o \in [n..l -> 0..m] /\ \A i \in 1..o[n] : s[i].i # 1
        /\ \A k \in n + 1..l :
             /\ o[k] = o[k - 1] + Written(q[k].kind)
             /\ \A i \in 1..Written(q[k].kind) : s[o[k - 1] + i] = WordOf(q[k], i)
        /\ \A i \in o[n] + 1..m : \E k \in n + 1..l : o[k - 1] < i /\ i <= o[k]
    BY <1>1 DEF Stream
  <1>3. j \in o[n] + 1..m
    <2>1. n \in n..l
      BY <1>1, <1>2
    <2>2. o[n] \in 0..m /\ ~(j \in 1..o[n])
      BY <1>2, <2>1
    <2> QED BY <1>1, <2>2
  <1>4. PICK k \in n + 1..l : o[k - 1] < j /\ j <= o[k]
    BY <1>2, <1>3
  <1>5. k - 1 \in n..l /\ k \in n..l /\ k \in 1..l
    BY <1>1, <1>2
  <1>6. q[k] \in Command
    BY <1>1, <1>5
  <1>7. PICK a, w : a = o[k - 1] /\ w = Written(q[k].kind)
    OBVIOUS
  <1>8. a \in Nat /\ w \in Nat /\ a < j /\ j <= a + w
    <2>1. w \in Nat
      BY <1>6, <1>7, PacketWords
    <2>2. a \in Nat
      <3>1. o \in [n..l -> 0..m]
        BY <1>2
      <3>2. o[k - 1] \in 0..m
        BY <1>5, <3>1
      <3> QED BY <1>7, <3>2
    <2>3. o[k] = a + w
      BY <1>2, <1>7
    <2> QED BY <1>4, <1>7, <2>1, <2>2, <2>3
  <1>9. j - a \in 1..w /\ a + (j - a) = j
    BY <1>1, <1>8
  <1>10. s[j] = WordOf(q[k], j - a)
    <2>1. s[a + (j - a)] = WordOf(q[k], j - a)
      BY <1>2, <1>7, <1>9
    <2> QED BY <1>9, <2>1
  <1>11. j - a = 1 /\ s[j].packet = q[k]
    BY <1>10 DEF WordOf
  <1>12. j = o[k - 1] + 1
    BY <1>1, <1>7, <1>8, <1>11
  <1> QED BY <1>1, <1>11, <1>12 DEF BeginsAt

LEMMA TypeOf ==
  ASSUME NEW s \in Seq(Word), NEW q \in Seq(Command), NEW n, NEW o, Stream(s, q, n, o),
         NEW k \in n + 1..Len(q)
  PROVE  /\ o[k - 1] + 1 \in 1..Len(s)
         /\ s[o[k - 1] + 1].i = 1 /\ s[o[k - 1] + 1].packet = q[k]
  <1>names. PICK m, l, a, w : m = Len(s) /\ l = Len(q) /\ a = o[k - 1] /\ w = Written(q[k].kind)
    OBVIOUS
  <1>1. m = Len(s) /\ l = Len(q) /\ m \in Nat /\ l \in Nat
    BY <1>names
  <1>2. /\ n \in 0..l /\ o \in [n..l -> 0..m]
        /\ o[k] = a + w /\ \A i \in 1..w : s[a + i] = WordOf(q[k], i)
    BY <1>names, <1>1 DEF Stream
  <1>3. k - 1 \in n..l /\ k \in n..l /\ k \in 1..l
    BY <1>1, <1>2
  <1>4. q[k] \in Command
    BY <1>1, <1>3
  <1>5. w \in Nat \ {0}
    BY <1>names, <1>4, PacketWords
  <1>6. a \in Nat /\ a + w <= m
    <2>1. o[k - 1] \in 0..m /\ o[k] \in 0..m
      BY <1>2, <1>3
    <2> QED BY <1>names, <1>1, <1>2, <2>1
  <1>7. a + 1 \in 1..m /\ s[a + 1] = WordOf(q[k], 1)
    BY <1>1, <1>2, <1>5, <1>6
  <1> QED BY <1>names, <1>7 DEF WordOf

(* The types of a stream are those of its packets, in their order.         *)
InOrder(s, q, n) ==
  LET types == {j \in DOMAIN s : s[j].i = 1}
  IN  /\ {s[j].packet : j \in types} = {q[k] : k \in n + 1..Len(q)}
      /\ \A j, k \in types : j < k => s[j].packet.n < s[k].packet.n

LEMMA StreamInOrder ==
  ASSUME NEW s \in Seq(Word), NEW q \in Seq(Command), NEW n, Pending(s, q, n),
         \A k \in 1..Len(q) : q[k].n = k
  PROVE  InOrder(s, q, n)
  <1>1. PICK o : Stream(s, q, n, o)
    BY DEF Pending
  <1>2. PICK l : l = Len(q)
    OBVIOUS
  <1>3. l = Len(q) /\ l \in Nat /\ n \in 0..l /\ \A i, k \in n..l : i <= k => o[i] <= o[k]
    BY <1>1, <1>2 DEF Stream
  <1>4. \A i \in n..l : o[i] \in Nat
    <2>1. o \in [n..l -> 0..Len(s)]
      BY <1>1, <1>2 DEF Stream
    <2> QED BY <2>1
  <1> DEFINE types == {j \in DOMAIN s : s[j].i = 1}
  <1>5. ASSUME NEW j \in types PROVE BeginsAt(s, q, n, o, j)
    BY <1>1, TypeAt
  <1>6. {s[j].packet : j \in types} = {q[k] : k \in n + 1..l}
    <2>1. \A j \in types : \E k \in n + 1..l : s[j].packet = q[k]
      BY <1>3, <1>5 DEF BeginsAt
    <2>2. ASSUME NEW k \in n + 1..l PROVE \E j \in types : s[j].packet = q[k]
      <3>1. k \in n + 1..Len(q)
        BY <1>3
      <3>2. o[k - 1] + 1 \in 1..Len(s) /\ s[o[k - 1] + 1].i = 1 /\ s[o[k - 1] + 1].packet = q[k]
        BY <1>1, <3>1, TypeOf
      <3>3. o[k - 1] + 1 \in types
        BY <3>2
      <3> QED BY <3>2, <3>3
    <2> HIDE DEF types
    <2> QED BY <2>1, <2>2
  <1>7. ASSUME NEW i \in types, NEW j \in types, i < j PROVE s[i].packet.n < s[j].packet.n
    <2>1. PICK x \in n + 1..l : i = o[x - 1] + 1 /\ s[i].packet = q[x]
      BY <1>3, <1>5 DEF BeginsAt
    <2>2. PICK y \in n + 1..l : j = o[y - 1] + 1 /\ s[j].packet = q[y]
      BY <1>3, <1>5 DEF BeginsAt
    <2>3. x - 1 \in n..l /\ y - 1 \in n..l /\ x \in 1..l /\ y \in 1..l
      BY <1>3
    <2>4. o[x - 1] \in Nat /\ o[y - 1] \in Nat
      BY <1>4, <2>3
    <2>5. o[x - 1] < o[y - 1]
      BY <1>7, <2>1, <2>2, <2>4
    <2>6. ~(y - 1 <= x - 1)
      <3>1. y - 1 <= x - 1 => o[y - 1] <= o[x - 1]
        BY <1>3, <2>3
      <3> QED BY <2>4, <2>5, <3>1
    <2>7. q[x].n = x /\ q[y].n = y
      BY <1>3, <2>3
    <2>8. x < y
      BY <2>3, <2>6
    <2> QED BY <2>1, <2>2, <2>7, <2>8
  <1> QED BY <1>3, <1>6, <1>7 DEF InOrder

LEMMA PipedInOrder == Piped => CommandsInOrder
  <1> SUFFICES ASSUME Piped PROVE CommandsInOrder
    OBVIOUS
  <1>1. InOrder(input_pipe, typed, Len(taken))
    BY StreamInOrder DEF Piped
  <1>2. taken = SubSeq(typed, 1, Len(taken))
    BY DEF Piped
  <1> QED BY <1>1, <1>2, Zenon DEF InOrder, CommandsInOrder

LEMMA LinkedAsWritten == Linked(link) => ReadAsWritten
  BY DEF Linked, Carries, Flow, ReadAsWritten

LEMMA HandledTypes == Handled /\ Linked(link) => PipelineTypeOK
  <1> SUFFICES ASSUME Handled, Linked(link) PROVE PipelineTypeOK
    OBVIOUS
  <1>1. \A c \in DOMAIN link : link[c].server \in {"open", "closed"} /\ link[c].member \in BOOLEAN
    <2> SUFFICES ASSUME NEW c \in DOMAIN link
                 PROVE  link[c].server \in {"open", "closed"} /\ link[c].member \in BOOLEAN
      OBVIOUS
    <2>1. link[c] \in Connection
      BY DEF Linked
    <2> QED BY <2>1 DEF Connection
  <1> QED BY <1>1 DEF Handled, Lines, PipelineTypeOK

(* In no behaviour is a typed line lost, or taken for another.             *)
THEOREM PipelineOrder == PipelineSpec => []CommandsInOrder
  <1>1. PipelineInv => CommandsInOrder
    BY PipedInOrder DEF PipelineInv
  <1> QED BY InitPipeline, PipelineInductive, <1>1, PTL DEF PipelineSpec

(* In no behaviour does a side of a connection read a packet with another's*)
(* words, or without some of its own.                                      *)
THEOREM PipelineReads == PipelineSpec => []ReadAsWritten
  <1>1. PipelineInv => ReadAsWritten
    BY LinkedAsWritten DEF PipelineInv
  <1> QED BY InitPipeline, PipelineInductive, <1>1, PTL DEF PipelineSpec

-----------------------------------------------------------------------------
(* Types of the race, the terminals, and all programs together.            *)
Flags == [Windows -> BOOLEAN]

LEMMA Flagged ==
  ASSUME NEW f \in Flags, NEW w, NEW b, w \in Windows => b \in BOOLEAN
  PROVE  [f EXCEPT ![w] = b] \in Flags
  BY DEF Flags

LEMMA NoticeTypes ==
  ASSUME RaceTypeOK, Notice
  PROVE  begin' \in Flags /\ wndExit' \in Flags /\ owed' \in Flags
  <1>1. begin \in Flags /\ wndExit \in Flags /\ owed \in Flags /\ window \in Flags
    BY DEF RaceTypeOK, Flags
  <1>2. CASE UNCHANGED <<begin, wndExit, owed>>
    BY <1>1, <1>2
  <1>3. CASE \E w : /\ begin' = [begin EXCEPT ![w] = FALSE]
                    /\ wndExit' = [wndExit EXCEPT ![w] = TRUE]
                    /\ owed' = [owed EXCEPT ![w] = window[w]]
    <2>1. PICK w : /\ begin' = [begin EXCEPT ![w] = FALSE]
                   /\ wndExit' = [wndExit EXCEPT ![w] = TRUE]
                   /\ owed' = [owed EXCEPT ![w] = window[w]]
      BY <1>3
    <2>2. w \in Windows => window[w] \in BOOLEAN
      BY <1>1 DEF Flags
    <2>3. begin' \in Flags
      BY <1>1, <2>1, Flagged, Zenon
    <2>4. wndExit' \in Flags
      BY <1>1, <2>1, Flagged, Zenon
    <2>5. owed' \in Flags
      BY <1>1, <2>1, <2>2, Flagged, Zenon
    <2> QED BY <2>3, <2>4, <2>5
  <1> QED BY <1>2, <1>3 DEF Notice

(* The conjuncts that the race's own steps change, and the events.         *)
RunTypes ==
  /\ main \in {"waiting", "running", "initialising", "destroying", "exited"}
  /\ GLOBAL \in BOOLEAN /\ winner \in BOOLEAN
  /\ cs \in [state : {"none", "ready", "broken"}, owner : Cars \cup {None}]
  /\ car \in [Cars -> {"suspended", "driving", "entering", "done"} \cup InSection]
  /\ boxes \in Seq(Cars)
  /\ mode \in {"none", "left", "right", "mixed"} /\ said \in Nat

EventTypes ==
  /\ wndExit \in Flags /\ begin \in Flags /\ quit \in Flags /\ window \in Flags /\ owed \in Flags

LEMMA RaceTypesSplit == RaceTypeOK <=> RunTypes /\ EventTypes
  BY DEF RaceTypeOK, RunTypes, EventTypes, Flags

LEMMA InitRaceTypes == RaceInit => RaceTypeOK
  <1> SUFFICES ASSUME RaceInit PROVE RaceTypeOK
    OBVIOUS
  <1>1. RunTypes
    <2>1. cs \in [state : {"none", "ready", "broken"}, owner : Cars \cup {None}]
      BY DEF RaceInit, Unused
    <2>2. car \in [Cars -> {"suspended", "driving", "entering", "done"} \cup InSection]
      BY DEF RaceInit, Parked
    <2>3. boxes \in Seq(Cars) /\ said \in Nat
      BY DEF RaceInit
    <2> QED BY <2>1, <2>2, <2>3 DEF RaceInit, RunTypes
  <1>2. EventTypes
    BY DEF RaceInit, EventTypes, Unset, Flags
  <1> QED BY <1>1, <1>2, RaceTypesSplit

LEMMA StepEventTypes == RaceTypeOK /\ [RaceNext]_raceVars => EventTypes'
  <1> SUFFICES ASSUME RaceTypeOK, [RaceNext]_raceVars PROVE EventTypes'
    OBVIOUS
  <1>1. EventTypes
    BY RaceTypesSplit
  <1>2. CASE UNCHANGED events
    BY <1>1, <1>2 DEF EventTypes, events
  <1>3. CASE Notice /\ UNCHANGED <<quit, window>>
    BY <1>1, <1>3, NoticeTypes DEF EventTypes
  <1>4. CASE Destroy
    <2>1. begin' \in Flags /\ wndExit' \in Flags /\ owed' \in Flags
      BY <1>4, NoticeTypes DEF Destroy
    <2>2. quit' \in Flags
      BY <1>4 DEF Destroy, Flags
    <2> QED BY <1>1, <1>4, <2>1, <2>2 DEF Destroy, EventTypes
  <1>5. CASE Exits
    <2>1. begin' \in Flags /\ quit' \in Flags /\ wndExit' \in Flags
      BY <1>5 DEF Exits, Unset, Flags
    <2> QED BY <1>1, <1>5, <2>1 DEF Exits, EventTypes
  <1>6. ASSUME NEW w \in Windows, StartWindow(w) PROVE EventTypes'
    <2>1. wndExit' = wndExit
      BY <1>6 DEF StartWindow, PressStart, StartMessage, CloseStart, OpenStart, startVars
    <2>2. Closes(w) \/ UNCHANGED <<quit, window, owed>> \/ OpenStart(w)
      BY <1>6 DEF StartWindow, PressStart, StartMessage, CloseStart
    <2>3. begin' \in Flags
      <3>1. PICK b \in BOOLEAN : begin' = begin \/ begin' = [begin EXCEPT ![w] = b]
        <4>1. begin[w] \in BOOLEAN /\ quit[w] \in BOOLEAN
          BY <1>1 DEF EventTypes, Flags
        <4>2. CASE OpenStart(w)
          BY <4>2 DEF OpenStart
        <4>3. CASE PressStart(w)
          <5>1. (~quit[w] \/ main # "exited") \in BOOLEAN
            OBVIOUS
          <5> QED BY <4>3, <5>1, Zenon DEF PressStart
        <4>4. CASE StartMessage(w) \/ CloseStart(w)
          <5>1. (begin[w] /\ main # "exited") \in BOOLEAN
            OBVIOUS
          <5> QED BY <4>4, <5>1, Zenon DEF StartMessage, CloseStart
        <4> QED BY <1>6, <4>2, <4>3, <4>4 DEF StartWindow
      <3>2. begin \in Flags
        BY <1>1 DEF EventTypes
      <3>3. [begin EXCEPT ![w] = b] \in Flags
        BY <3>2, Flagged
      <3> QED BY <3>1, <3>2, <3>3
    <2>4. quit' \in Flags
      <3>1. quit' = quit \/ quit' = [quit EXCEPT ![w] = FALSE]
        BY <2>2 DEF Closes, OpenStart
      <3>2. quit \in Flags
        BY <1>1 DEF EventTypes
      <3>3. [quit EXCEPT ![w] = FALSE] \in Flags
        BY <3>2, Flagged
      <3> QED BY <3>1, <3>2, <3>3
    <2>5. owed' \in Flags
      <3>1. owed' = owed \/ owed' = [owed EXCEPT ![w] = FALSE]
        BY <2>2 DEF Closes, OpenStart
      <3>2. owed \in Flags
        BY <1>1 DEF EventTypes
      <3>3. [owed EXCEPT ![w] = FALSE] \in Flags
        BY <3>2, Flagged
      <3> QED BY <3>1, <3>2, <3>3
    <2>6. window' \in Flags
      <3>1. PICK b \in BOOLEAN : window' = window \/ window' = [window EXCEPT ![w] = b]
        BY <2>2 DEF Closes, OpenStart
      <3>2. window \in Flags
        BY <1>1 DEF EventTypes
      <3>3. [window EXCEPT ![w] = b] \in Flags
        BY <3>2, Flagged
      <3> QED BY <3>1, <3>2, <3>3
    <2> QED BY <1>1, <2>1, <2>3, <2>4, <2>5, <2>6 DEF EventTypes
  <1>7. ASSUME RaceWindow PROVE UNCHANGED events \/ (Notice /\ UNCHANGED <<quit, window>>) \/ Destroy \/ Exits
    BY <1>7 DEF RaceWindow, WinMain, Message, LButtonDown, RButtonDown, InitializeCriticalSection,
       Answer, Launch, Announce, events
  <1>8. ASSUME NEW c \in Cars, StartCar(c) PROVE UNCHANGED events
    BY <1>8 DEF StartCar, Crosses, Enters, Tests, Marks, Leaves
  <1>9. ASSUME UNCHANGED raceVars PROVE UNCHANGED events
    BY <1>9 DEF raceVars
  <1> QED BY <1>2, <1>3, <1>4, <1>5, <1>6, <1>7, <1>8, <1>9 DEF RaceNext

LEMMA StepRunTypes == RaceTypeOK /\ [RaceNext]_raceVars => RunTypes'
  <1> SUFFICES ASSUME RaceTypeOK, [RaceNext]_raceVars PROVE RunTypes'
    OBVIOUS
  <1>1. RunTypes
    BY RaceTypesSplit
  <1>2. CASE UNCHANGED <<statics, car, boxes, mode, said>>
             /\ main' \in {"waiting", "running", "initialising", "destroying", "exited"}
    BY <1>1, <1>2 DEF RunTypes, statics
  <1>3. ASSUME NEW c \in Cars, NEW from,
               NEW to \in {"suspended", "driving", "entering", "done"} \cup InSection,
               Moves(c, from, to)
        PROVE  car' \in [Cars -> {"suspended", "driving", "entering", "done"} \cup InSection]
    BY <1>1, <1>3 DEF Moves, RunTypes
  <1>4. ASSUME LButtonDown \/ RButtonDown PROVE RunTypes'
    <2>1. Resumed \in [Cars -> {"suspended", "driving", "entering", "done"} \cup InSection]
      BY <1>1 DEF RunTypes, Resumed
    <2>2. mode' \in {"none", "left", "right", "mixed"}
      BY <1>1, <1>4 DEF LButtonDown, RButtonDown, Clicked, RunTypes
    <2> QED BY <1>1, <1>4, <2>1, <2>2 DEF LButtonDown, RButtonDown, RunTypes, statics
  <1>5. CASE InitializeCriticalSection
    <2>1. Resumed \in [Cars -> {"suspended", "driving", "entering", "done"} \cup InSection]
      BY <1>1 DEF RunTypes, Resumed
    <2>2. cs' \in [state : {"none", "ready", "broken"}, owner : Cars \cup {None}]
      BY <1>1, <1>5 DEF InitializeCriticalSection, RunTypes
    <2> QED BY <1>1, <1>5, <2>1, <2>2 DEF InitializeCriticalSection, RunTypes
  <1>6. CASE Answer
    <2>1. car' \in [Cars -> {"suspended", "driving", "entering", "done"} \cup InSection]
      BY <1>1, <1>6 DEF Answer, RunTypes, InSection
    <2>2. boxes' \in Seq(Cars)
      BY <1>1, <1>6 DEF Answer, RunTypes
    <2> QED BY <1>1, <1>6, <2>1, <2>2 DEF Answer, RunTypes, statics
  <1>7. CASE Exits
    <2>1. Parked \in [Cars -> {"suspended", "driving", "entering", "done"} \cup InSection]
      BY DEF Parked
    <2>2. Unused \in [state : {"none", "ready", "broken"}, owner : Cars \cup {None}]
      BY DEF Unused
    <2>3. <<>> \in Seq(Cars)
      OBVIOUS
    <2> QED BY <1>7, <2>1, <2>2, <2>3 DEF Exits, RunTypes
  <1>8. ASSUME NEW c \in Cars, Announce(c) PROVE RunTypes'
    <2>1. car' \in [Cars -> {"suspended", "driving", "entering", "done"} \cup InSection]
      BY <1>3, <1>8 DEF Announce, InSection
    <2>2. boxes' \in Seq(Cars) /\ said' \in Nat
      BY <1>1, <1>8 DEF Announce, RunTypes
    <2> QED BY <1>1, <1>8, <2>1, <2>2 DEF Announce, RunTypes, statics
  <1>9. ASSUME NEW c \in Cars, StartCar(c) PROVE RunTypes'
    <2>1. car' \in [Cars -> {"suspended", "driving", "entering", "done"} \cup InSection]
      <3>1. CASE UNCHANGED car
        BY <1>1, <3>1 DEF RunTypes
      <3>2. CASE \E from, to \in {"suspended", "driving", "entering", "done"} \cup InSection :
                   Moves(c, from, to)
        BY <1>3, <3>2
      <3> QED BY <1>9, <3>1, <3>2 DEF StartCar, Crosses, Enters, Tests, Marks, Leaves, InSection
    <2>2. cs' \in [state : {"none", "ready", "broken"}, owner : Cars \cup {None}]
      BY <1>1, <1>9 DEF StartCar, Crosses, Enters, Tests, Marks, Leaves, RunTypes, statics
    <2>3. winner' \in BOOLEAN /\ UNCHANGED <<main, GLOBAL, boxes, mode, said>>
      BY <1>1, <1>9 DEF StartCar, Crosses, Enters, Tests, Marks, Leaves, RunTypes, statics
    <2> QED BY <1>1, <2>1, <2>2, <2>3 DEF RunTypes
  <1>10. ASSUME WinMain \/ Message \/ Destroy \/ Launch PROVE RunTypes'
    BY <1>1, <1>2, <1>10 DEF WinMain, Message, Destroy, Launch, RunTypes
  <1>11. ASSUME NEW w \in Windows, StartWindow(w) PROVE RunTypes'
    <2>1. UNCHANGED <<main, statics, car, boxes, mode, said>>
      BY <1>11 DEF StartWindow, PressStart, StartMessage, CloseStart, OpenStart, startVars
    <2> QED BY <1>1, <1>2, <2>1 DEF RunTypes
  <1>12. ASSUME UNCHANGED raceVars PROVE RunTypes'
    BY <1>1, <1>2, <1>12 DEF raceVars, RunTypes
  <1> QED BY <1>4, <1>5, <1>6, <1>7, <1>8, <1>9, <1>10, <1>11, <1>12 DEF RaceNext, RaceWindow

LEMMA StepRaceTypes == RaceTypeOK /\ [RaceNext]_raceVars => RaceTypeOK'
  <1> SUFFICES ASSUME RaceTypeOK, [RaceNext]_raceVars PROVE RunTypes' /\ EventTypes'
    BY DEF RaceTypeOK, RunTypes, EventTypes, Flags
  <1> QED BY StepRunTypes, StepEventTypes

LEMMA InitSerialTypes == SerialInit => SerialTypeOK
  <1> SUFFICES ASSUME SerialInit PROVE SerialTypeOK
    OBVIOUS
  <1>1. /\ app \in [Terminals -> {"closed", "idle", "session", "writing", "closing", "terminating"} \cup Boxes]
        /\ serialOn \in [Terminals -> BOOLEAN]
        /\ readThrd \in [Terminals -> {"none", "looping", "reading", "showing"}]
    BY DEF SerialInit
  <1>2. <<>> \in Seq(Ports) /\ Len(<<>>) <= 1 /\ <<>> \in Seq(Keys)
    OBVIOUS
  <1>3. \A t \in Terminals : /\ hdSerial[t] = <<>> /\ charBuff[t] = <<>> /\ line[t] = <<>>
                             /\ shown[t] = <<>> /\ sent[t] = <<>>
    BY DEF SerialInit
  <1> QED BY <1>1, <1>2, <1>3 DEF SerialInit, SerialTypeOK

LEMMA StepSerialTypes ==
  SerialInv /\ SerialTypeOK /\ [SerialNext]_serialVars => SerialTypeOK'
  <1> SUFFICES ASSUME SerialInv, SerialTypeOK, [SerialNext]_serialVars PROVE SerialTypeOK'
    OBVIOUS
  <1> DEFINE States == {"closed", "idle", "session", "writing", "closing", "terminating"} \cup Boxes
  <1>1. Texts'
    BY StepSerial DEF SerialInv
  <1>2. app' \in [Terminals -> States] /\ port' \in [Terminals -> Ports]
        /\ serialOn' \in [Terminals -> BOOLEAN]
        /\ readThrd' \in [Terminals -> {"none", "looping", "reading", "showing"}]
    <2> USE DEF Goes, reader, text, Boxes, SerialTypeOK
    <2>1. CASE UNCHANGED serialVars
      BY <2>1 DEF serialVars
    <2>2. ASSUME NEW t \in Terminals, ExecRead(t)
          PROVE  /\ UNCHANGED <<app, port, serialOn>>
                 /\ readThrd' \in [Terminals -> {"none", "looping", "reading", "showing"}]
      BY <2>2 DEF ExecRead, ReadFile, CharacterRead, TextOut, Reads
    <2>3. ASSUME NEW t \in Terminals, TerminalWindow(t)
          PROVE  app' \in [Terminals -> States] /\ port' \in [Terminals -> Ports]
                 /\ serialOn' \in [Terminals -> BOOLEAN]
      <3>1. app' \in [Terminals -> States]
        BY <2>3 DEF TerminalWindow, OpenTerminal, ChoosePort, Connect, CloseFailed, BeginSession,
           TypeKey, WriteFile, Escape, EndSession, CancelSynchronousIo, CloseHandle,
           TerminateThread, CloseTerminal
      <3>2. port' \in [Terminals -> Ports]
        BY <2>3 DEF TerminalWindow, OpenTerminal, ChoosePort, Connect, CloseFailed, BeginSession,
           TypeKey, WriteFile, Escape, EndSession, CancelSynchronousIo, CloseHandle,
           TerminateThread, CloseTerminal
      <3>3. serialOn' \in [Terminals -> BOOLEAN]
        BY <2>3 DEF TerminalWindow, OpenTerminal, ChoosePort, Connect, CloseFailed, BeginSession,
           TypeKey, WriteFile, Escape, EndSession, CancelSynchronousIo, CloseHandle,
           TerminateThread, CloseTerminal
      <3> QED BY <3>1, <3>2, <3>3
    <2>4. ASSUME NEW t \in Terminals, TerminalWindow(t)
          PROVE  readThrd' \in [Terminals -> {"none", "looping", "reading", "showing"}]
      <3>1. \/ readThrd' = readThrd
            \/ \E v \in {"none", "looping", "reading", "showing"} : readThrd' = [readThrd EXCEPT ![t] = v]
        BY <2>4 DEF TerminalWindow, OpenTerminal, ChoosePort, Connect, CloseFailed, BeginSession,
           TypeKey, WriteFile, Escape, EndSession, CancelSynchronousIo, CloseHandle,
           TerminateThread, CloseTerminal
      <3> QED BY <3>1
    <2> QED BY <2>1, <2>2, <2>3, <2>4 DEF SerialNext
  <1>3. ASSUME NEW t \in Terminals PROVE hdSerial'[t] \in Seq(Ports) /\ Len(hdSerial'[t]) <= 1
    <2>1. hdSerial[t] \in Seq(Ports) /\ Len(hdSerial[t]) <= 1
      BY DEF SerialTypeOK
    <2>2. <<>> \in Seq(Ports) /\ Len(<<>>) <= 1
          /\ \A p \in Ports : <<p>> \in Seq(Ports) /\ Len(<<p>>) <= 1
      OBVIOUS
    <2>3. \/ hdSerial'[t] = hdSerial[t] \/ hdSerial'[t] = <<>> \/ hdSerial'[t] = <<port[t]>>
      <3>1. CASE UNCHANGED hdSerial
        BY <3>1
      <3>2. CASE \E u \in Terminals : \/ hdSerial' = [hdSerial EXCEPT ![u] = <<>>]
                                      \/ hdSerial' = [hdSerial EXCEPT ![u] = <<port[u]>>]
        BY <3>2 DEF SerialInv, Tabled
      <3> QED BY <3>1, <3>2 DEF SerialNext, serialVars, ExecRead, ReadFile, CharacterRead, TextOut,
           TerminalWindow, OpenTerminal, ChoosePort, Connect, CloseFailed, BeginSession,
           TypeKey, WriteFile, Escape, EndSession, CancelSynchronousIo, CloseHandle,
           TerminateThread, CloseTerminal
    <2>4. port[t] \in Ports
      BY DEF SerialTypeOK
    <2> QED BY <2>1, <2>2, <2>3, <2>4
  <1> QED BY <1>1, <1>2, <1>3 DEF SerialTypeOK, Texts

(* Whatever program runs, the variables of each have their types.          *)
AllInv == RaceTypeOK /\ SerialInv /\ SerialTypeOK /\ ShaperInv /\ PipelineInv

LEMMA InitAll == Init => AllInv
  BY InitRaceTypes, InitSerial, InitSerialTypes, InitShaper, InitPipeline DEF Init, AllInv

LEMMA StepAll == AllInv /\ [Next]_vars => AllInv'
  <1> SUFFICES ASSUME AllInv, [Next]_vars PROVE AllInv'
    OBVIOUS
  <1>1. [RaceNext]_raceVars /\ [SerialNext]_serialVars /\ [ShaperNext]_shaperVars
        /\ [PipelineNext]_pipelineVars
    BY DEF Next, vars
  <1>2. RaceTypeOK'
    BY <1>1, StepRaceTypes DEF AllInv
  <1>3. SerialInv' /\ SerialTypeOK'
    BY <1>1, StepSerial, StepSerialTypes DEF AllInv
  <1>4. ShaperInv'
    BY <1>1, StepShaper DEF AllInv
  <1>5. PipelineInv'
    BY <1>1, PipelineInductive DEF AllInv
  <1> QED BY <1>2, <1>3, <1>4, <1>5 DEF AllInv

(* Whichever of the four programs a behaviour is of, and whatever its user *)
(* and its threads do, the state of all of them stays in its types.        *)
THEOREM ProgramTypes == Spec => []TypesOK
  <1>1. AllInv => TypesOK
    BY HandledTypes DEF AllInv, ShaperInv, PipelineInv, TypesOK
  <1> QED BY InitAll, StepAll, <1>1, PTL DEF Spec
=============================================================================
