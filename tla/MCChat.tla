------------------------------- MODULE MCChat -------------------------------
(* Two users.  MCChat.cfg: two channels, "red" may be created twice,       *)
(* closed and re-created, every command, two connections, kills.           *)
(* MCChatRejoin.cfg: one channel and three connections, so that one user   *)
(* leaves and joins again while the other one is there.  The other two     *)
(* configurations are the smallest that show what they show.               *)
EXTENDS Chat, TLC
CONSTANTS u1, u2, red, blue
TwoUsers == {u1, u2}
OneName == {red}
TwoNames == {red, blue}
Typed == [cmd : {"create"}, name : {red, blue}] \cup [cmd : {"close", "users"}, name : {red}]
         \cup {[cmd |-> "exit"]}
CreateOne == [cmd : {"create"}, name : {red}]
CreateTwo == [cmd : {"create"}, name : {red, blue}]
Users == Permutations(TwoUsers)
=============================================================================
