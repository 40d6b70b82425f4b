---------------------------- MODULE TransferQueue ----------------------------
(***************************************************************************)
(* What a host's queue of transfers promises as long as nothing is lost:   *)
(* the transfers of a host take their turns in the order they were begun,  *)
(* the packets of each arrive in order, and a transfer is completed, and   *)
(* the next one's turn comes, only when all of its packets have arrived.   *)
(***************************************************************************)
EXTENDS Integers, Sequences

CONSTANTS Host, Sizes

VARIABLES
  begun,      \* number of transfers of each host so far
  waiting,    \* sizes of those not completed, the one whose turn it is first
  arrived,    \* <<host, transfer, packet>>
  completed   \* <<host, transfer, size>>

vars == <<begun, waiting, arrived, completed>>

Init == /\ begun = [h \in Host |-> 0] /\ waiting = [h \in Host |-> <<>>]
        /\ arrived = {} /\ completed = {}

(* The transfer of h whose turn it is: transfers are numbered from 1.      *)
Turn(h) == begun[h] - Len(waiting[h]) + 1

Begin(h) == \E n \in Sizes :
  /\ begun' = [begun EXCEPT ![h] = @ + 1]
  /\ waiting' = [waiting EXCEPT ![h] = Append(@, n)]
  /\ UNCHANGED <<arrived, completed>>

Arrive(h) ==
  /\ waiting[h] # <<>>
  /\ \E k \in 1..Head(waiting[h]) :
       /\ \A j \in 1..(k - 1) : <<h, Turn(h), j>> \in arrived
       /\ arrived' = arrived \cup {<<h, Turn(h), k>>}
  /\ UNCHANGED <<begun, waiting, completed>>

Complete(h) ==
  /\ waiting[h] # <<>>
  /\ \A k \in 1..Head(waiting[h]) : <<h, Turn(h), k>> \in arrived
  /\ completed' = completed \cup {<<h, Turn(h), Head(waiting[h])>>}
  /\ waiting' = [waiting EXCEPT ![h] = Tail(@)]
  /\ UNCHANGED <<begun, arrived>>

Next == \E h \in Host : Begin(h) \/ Arrive(h) \/ Complete(h)

Spec == Init /\ [][Next]_vars
=============================================================================
