-------------------------- MODULE TrainMeasurement --------------------------
(***************************************************************************)
(* What a packet-train measurement promises to the operator who reads its  *)
(* report, without the lcores, rings and bursts that produce it.           *)
(*                                                                         *)
(* A table of rows is filled, in order, while the measurement runs; then   *)
(* either the table is frozen and printed, or the program gives up without *)
(* having started to print.  A row says which packet of which transmission *)
(* queue it measures, and of the packets of one queue a later row measures *)
(* a later packet.                                                         *)
(***************************************************************************)
EXTENDS Naturals

CONSTANT Queues   \* the transmission queues

VARIABLES
  phase,   \* "measuring", "printing", "printed" or "gaveUp"
  rows     \* the table: slots filled so far -> [q, no]

vars == <<phase, rows>>

Row == [q : Queues, no : Nat]

\* f with v at k, whether or not k is new.
Store(f, k, v) == [j \in DOMAIN f \cup {k} |-> IF j = k THEN v ELSE f[j]]

Init ==
  /\ phase = "measuring"
  /\ rows = [k \in {} |-> 0]

\* A row is added behind all others.
Measure ==
  /\ phase = "measuring"
  /\ \E k \in DOMAIN rows' \ DOMAIN rows :
       /\ k \in Nat /\ rows'[k] \in Row
       /\ \A j \in DOMAIN rows :
            j < k /\ (rows[j].q = rows'[k].q => rows[j].no < rows'[k].no)
       /\ rows' = Store(rows, k, rows'[k])
  /\ UNCHANGED phase

BeginReport ==
  /\ phase = "measuring"
  /\ phase' = "printing"
  /\ UNCHANGED rows

EndReport ==
  /\ phase = "printing"
  /\ phase' = "printed"
  /\ UNCHANGED rows

GiveUp ==
  /\ phase = "measuring"
  /\ phase' = "gaveUp"
  /\ UNCHANGED rows

Next == Measure \/ BeginReport \/ EndReport \/ GiveUp

\* Nothing obliges the table to be filled; the measurement has to end.
Fairness == WF_vars(BeginReport \/ GiveUp) /\ WF_vars(EndReport)

Safety == Init /\ [][Next]_vars

Spec == Safety /\ Fairness
=============================================================================
