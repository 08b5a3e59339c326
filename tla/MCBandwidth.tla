---- MODULE MCBandwidth ----
(***************************************************************************)
(* One port with two queues in each direction, after the scripts of the   *)
(* repository: one lcore receives, another one transmits.                  *)
(***************************************************************************)
EXTENDS Bandwidth, TLC

CONSTANTS r, t

Q(n) == [port |-> 0, queue |-> n]

OneRx == (r :> <<Q(0)>>) @@ (t :> <<>>)
BothTx == (r :> <<>>) @@ (t :> <<Q(0), Q(1)>>)
====
