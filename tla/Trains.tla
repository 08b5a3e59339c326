------------------------------- MODULE Trains -------------------------------
(***************************************************************************)
(* What the two train modes of the program share: which lcore owns which   *)
(* queue, the sizes the command line sets, and the table of results.       *)
(***************************************************************************)
EXTENDS PacketFormat, Sequences

CONSTANTS
  Lcores,        \* the I/O lcores
  RxLcore,       \* the one that owns the receive queue
  TxQueues,      \* for each lcore, the sequence of [port, queue] it owns
  TrainLen,      \* --trainLen
  TxRing,        \* frames a transmission ring holds, one less than --rsz
  RxRing,        \* descriptors of the receive ring (--rsz)
  BurstRx,       \* receive burst size (--bsz)
  PoolSize,      \* mbufs of app.pools[1], from which all transmitters
                 \* allocate, that no receive queue holds
  WaitTime,      \* --waitTime, in ticks
  ReportTime     \* ticks that printing the table may take

Queues == UNION {{TxQueues[l][i] : i \in DOMAIN TxQueues[l]} : l \in Lcores}
Ports  == {q.port : q \in Queues}

ASSUME TrainAssumption ==
  /\ IsFiniteSet(Lcores) /\ RxLcore \in Lcores
  /\ TxQueues \in [Lcores -> Seq([port : Nat, queue : Nat])]
  /\ \A l \in Lcores \ {RxLcore} : TxQueues[l] # <<>>
  /\ TrainLen \in Nat \ {0}
  /\ TxRing \in Nat \ {0} /\ RxRing \in Nat \ {0} /\ BurstRx \in Nat \ {0}
  /\ PoolSize \in Nat
  /\ WaitTime \in Nat /\ ReportTime \in Nat

\* The parser refuses a queue that is given twice.
ASSUME ListedOnce ==
  \A l, m \in Lcores : \A i \in DOMAIN TxQueues[l], j \in DOMAIN TxQueues[m] :
    TxQueues[l][i] = TxQueues[m][j] => l = m /\ i = j

OneTxQueue == \A q, r \in Queues : q = r

\* Where the loop of a lcore goes after its transmissions, and after its poll.
AfterTx(l) == IF l = RxLcore THEN "poll" ELSE "tx"
AfterRx    == IF TxQueues[RxLcore] = <<>> THEN "poll" ELSE "tx"

\* The clock when packet no was stamped; only that it moves matters here.
Clock(no) == [i \in 0 .. 3 |-> IF i = 0 THEN no % WordBase ELSE 0]

Lesser(a, b) == IF a < b THEN a ELSE b

\* f with v at k, whether or not k is new.
Store(f, k, v) == [j \in DOMAIN f \cup {k} |-> IF j = k THEN v ELSE f[j]]
=============================================================================
