----------------------------- MODULE MCPrograms -----------------------------
(* Four programs that have nothing to do with each other: the race with    *)
(* its start windows, two serial terminals, the drawing program, and the   *)
(* chat client's way from a typed line to the server.  Each behaviour is   *)
(* one of a single program, the others stay as they begin.  The race has   *)
(* two bounds: "race" has one start window, and "starts" has both and no   *)
(* click in the race's window.                                             *)
EXTENDS Race, SerialTerm, Shaper, ChatPipeline

VARIABLE program

Programs == {"race", "starts", "terminals", "shaper", "chat"}

Init ==
  /\ program \in Programs
  /\ RaceInit /\ SerialInit /\ ShaperInit /\ PipelineInit
  /\ program # "shaper" => clipboard = <<>>
  /\ \A w \in Windows : window[w] <=> (program = "starts" \/ (program = "race" /\ w = 1))

Next ==
  /\ UNCHANGED program
  /\ \/ /\ program \in {"race", "starts"} /\ RaceNext
        /\ program = "race" => ~window'[2]
        /\ program = "starts" => mode' = "none"
        /\ UNCHANGED <<serialVars, shaperVars, pipelineVars>>
     \/ program = "terminals" /\ SerialNext /\ UNCHANGED <<raceVars, shaperVars, pipelineVars>>
     \/ program = "shaper" /\ ShaperNext /\ UNCHANGED <<raceVars, serialVars, pipelineVars>>
     \/ program = "chat" /\ PipelineNext /\ UNCHANGED <<raceVars, serialVars, shaperVars>>

vars == <<program, raceVars, serialVars, shaperVars, pipelineVars>>

(* No program is due to do anything before it has begun, so the fairness   *)
(* of one does not constrain the behaviours of another.                    *)
Spec == Init /\ [][Next]_vars /\ RaceFairness /\ PipelineFairness

(* Types.                                                                  *)
TypesOK == RaceTypeOK /\ SerialTypeOK /\ ShaperTypeOK /\ PipelineTypeOK
=============================================================================
