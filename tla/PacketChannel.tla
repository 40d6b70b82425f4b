---------------------------- MODULE PacketChannel ----------------------------
(***************************************************************************)
(* What the network emulator promises to the programs it stands between:   *)
(* a FIFO channel that may lose packets, and that neither invents,         *)
(* duplicates, reorders nor damages one.  A packet is its string of bytes. *)
(***************************************************************************)
EXTENDS Sequences

CONSTANT Frame      \* the byte strings of the packets programs send

VARIABLES
  transit,          \* accepted and not yet sent on, oldest first
  sent              \* sent on to their destinations, in order

vars == <<transit, sent>>

Init == transit = <<>> /\ sent = <<>>

Accept(frame) == transit' = Append(transit, frame) /\ UNCHANGED sent

Lose == /\ transit # <<>>
        /\ transit' = Tail(transit)
        /\ UNCHANGED sent

SendOn == /\ transit # <<>>
          /\ sent' = Append(sent, Head(transit))
          /\ transit' = Tail(transit)

Next == Lose \/ SendOn \/ \E frame \in Frame : Accept(frame)

Spec == Init /\ [][Next]_vars
=============================================================================
