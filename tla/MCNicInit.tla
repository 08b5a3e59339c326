---- MODULE MCNicInit ----
(***************************************************************************)
(* Two ports with two queues and two lcores on two memory nodes; a tuple   *)
(* may also name a third lcore, which the EAL has enabled but the arrays   *)
(* have no place for.                                                      *)
(***************************************************************************)
EXTENDS NicInit

Two   == 0 .. 1
Three == 0 .. 2

ThreeEach == [d \in Dirs |-> 3]

TwoNodes == [l \in Two |-> l]
====
