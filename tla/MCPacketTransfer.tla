-------------------------- MODULE MCPacketTransfer --------------------------
(* Headers of two bytes, packets of three: a full packet is longer than a  *)
(* header, a last packet of one byte is shorter, as 50 and 1024 to 60000   *)
(* are.  Empty transfers, and files and dummy packets of one or two.       *)
EXTENDS PacketTransfer
Mixed ==
  {[mode |-> "file", packets |-> 2, last |-> 1], [mode |-> "file", packets |-> 1, last |-> 3],
   [mode |-> "packet", packets |-> 2, last |-> 3], [mode |-> "file", packets |-> 0, last |-> 1]}
OneFile == {[mode |-> "file", packets |-> 2, last |-> 1]}
Misread == {[packets |-> 1, total_size |-> 3, mode |-> "file"]}
=============================================================================
