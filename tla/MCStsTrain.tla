---- MODULE MCStsTrain ----
(***************************************************************************)
(* Assignments of queues to lcores, after the scripts of the repository.   *)
(***************************************************************************)
EXTENDS StsTrain, TLC

CONSTANTS r, t, u

Q(p, n) == [port |-> p, queue |-> n]

\* interface01.sh: one lcore receives, another one transmits.
PairTx == (r :> <<>>) @@ (t :> <<Q(0, 0)>>)

\* interface0.40g.sh: two lcores transmit, each on a queue of its own.
TwoTx == (r :> <<>>) @@ (t :> <<Q(0, 0)>>) @@ (u :> <<Q(0, 1)>>)

\* One lcore receives, and transmits on two queues.
SharedTx == (r :> <<Q(0, 0), Q(0, 1)>>)
====
