----------------------------- MODULE MCEmulator -----------------------------
(* Four packets of three bytes in a ring of eleven (the real ring, 204856  *)
(* bytes, is no multiple of the packet size 2104 either): at most three    *)
(* packets fit, and the fourth is split at the end of the array.  Packet   *)
(* four has a destination that does not resolve.                           *)
EXTENDS Emulator
CONSTANTS p1, p2, p3, p4
Four == {p1, p2, p3, p4}
Known == {p1, p2, p3}
Settings == {-1, 0, 98, 100}
=============================================================================
