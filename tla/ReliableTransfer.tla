--------------------------- MODULE ReliableTransfer ---------------------------
(***************************************************************************)
(* What the first transfer of each host promises: packets 1..size reach    *)
(* the receiver, in any order, and the sender calls the transfer completed *)
(* only when all of them have.  A sender that cannot send may give up.     *)
(***************************************************************************)
EXTENDS Integers

CONSTANTS Host, Sizes

VARIABLES
  size,       \* number of packets; 0 until the transfer is opened
  got,        \* packets the receiver has taken in
  phase       \* "idle", "open", "completed" or "abandoned"

vars == <<size, got, phase>>

Init == /\ size = [h \in Host |-> 0]
        /\ got = [h \in Host |-> {}]
        /\ phase = [h \in Host |-> "idle"]

Open(h) == /\ phase[h] = "idle"
           /\ phase' = [phase EXCEPT ![h] = "open"]
           /\ \E n \in Sizes : size' = [size EXCEPT ![h] = n]
           /\ UNCHANGED got

Deliver(h) == /\ phase[h] # "idle"
              /\ \E s \in 1..size[h] : got' = [got EXCEPT ![h] = @ \cup {s}]
              /\ UNCHANGED <<size, phase>>

Complete(h) == /\ phase[h] = "open" /\ got[h] = 1..size[h]
               /\ phase' = [phase EXCEPT ![h] = "completed"]
               /\ UNCHANGED <<size, got>>

Abandon(h) == /\ phase[h] = "open"
              /\ phase' = [phase EXCEPT ![h] = "abandoned"]
              /\ UNCHANGED <<size, got>>

Next == \E h \in Host : Open(h) \/ Deliver(h) \/ Complete(h) \/ Abandon(h)

Spec == Init /\ [][Next]_vars
=============================================================================
