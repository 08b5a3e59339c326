---- MODULE MCLatencyReport ----
(***************************************************************************)
(* A second of 8 nanoseconds, a clock of 4 units per second, and a double  *)
(* of 4 bits: the first stamps have 5 bits and lose one, those of 32 and   *)
(* more lose two, as the stamps of today, which have 58 bits, lose five.   *)
(***************************************************************************)
EXTENDS LatencyReport

MCJumps == {-7, 9}
====
