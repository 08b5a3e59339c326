------------------------------- MODULE StsTrain -------------------------------
(***************************************************************************)
(* The train modes that time only the first packet of a burst: --sts and   *)
(* --trainFriends (runtime.c, app_lcore_io_rx_sts and app_lcore_io_tx_sts).*)
(*                                                                         *)
(* A transmitter allocates a burst, marks its first packet if the queue is *)
(* number 0 and, with --autoInc, numbers it with pktcounter, which all     *)
(* lcores share without a lock; it hands the burst to the card, takes the  *)
(* number back if not one packet was accepted, and insists until all are   *)
(* if some were.  The receiver looks at every packet: the number of a      *)
(* marked one, or the count of marked ones, is its row of the table.       *)
(*                                                                         *)
(* The model starts when the lcores have announced their queues, as in     *)
(* LatencyTrain; the ARP frames are the first ones of the rings.  Every    *)
(* packet counts as one byte.                                              *)
(***************************************************************************)
EXTENDS Trains, FiniteSets

CONSTANTS
  BurstTx,        \* packets of a burst: --bsz, or --trainFriends
  FillFirst,      \* TRUE for --sts, which fills the rings before it starts
  CounterBase,    \* number of values of pktcounter, 2^32 in the program
  MaxDelivered,   \* bound: the wire delivers no more frames then
  MaxMarks        \* bound: marked packets are told apart up to here

TxLcores == {l \in Lcores : TxQueues[l] # <<>>}

ASSUME StsAssumption ==
  /\ tspacketId # 0
  /\ BurstTx \in Nat \ {0}
  /\ FillFirst \in BOOLEAN
  /\ CounterBase \in Nat /\ CounterBase > TrainLen
  /\ PoolSize >= Cardinality(Queues)
  /\ MaxDelivered \in Nat /\ MaxMarks \in Nat

VARIABLES
  pc,            \* what each lcore is doing
  txi,           \* index of the transmission queue it is serving
  timer,         \* ticks left of its wait, or of its printing
  out,           \* its packets that the card has not accepted, mbuf_out[port]
  reg,           \* its copy of pktcounter between the read and the write, else 0
  pktcounter,    \* number of the next marked packet
  free,          \* mbufs left in app.pools[1]
  txring,        \* the frames in each transmission ring
  rxring,        \* the frames in the receive ring
  burst,         \* the frames the receiver has still to look at, mbuf_in
  counter,       \* static counter of app_lcore_io_rx_sts
  bytecounter,   \* bytes since the last packet it recorded
  latencyStats,  \* the slots of the table that have recved = 1
  continueRX,    \* TRUE for 1
  exitCode,      \* "none" while the process runs
  polled,        \* whether the receiver has polled since the last tick
  marks,         \* marked packets the card has accepted so far
  handled        \* frames the receiver has looked at so far

txVars    == <<txi, out, reg, pktcounter>>
nicVars   == <<free, txring, rxring>>
tableVars == <<counter, bytecounter, latencyStats>>
vars      == <<pc, timer, txVars, nicVars, burst, tableVars, continueRX, exitCode,
               polled, marks, handled>>

-----------------------------------------------------------------------------
\* A frame is what its receiver will read in it, and for the properties the
\* number of marked packets accepted before it.

Frame == [q : Queues, marked : BOOLEAN, cntr : Word, no : Nat]

Read(q, h) == [q |-> q, marked |-> IsMarked(h), cntr |-> Counter(h), no |-> marks]

Blank == [o \in Offsets |-> 0]   \* icmppkt

MarkedPacket(q) == Read(q, StampSts(Blank, pktcounter, Clock(marks)))
OtherPacket(q)  == [Read(q, Blank) EXCEPT !.no = 0]

\* n packets for queue q, the first one marked on queue 0.
NewBurst(q, n) ==
  [i \in 1 .. n |-> IF i = 1 /\ q.queue = 0 THEN MarkedPacket(q) ELSE OtherPacket(q)]

Queue(l) == TxQueues[l][txi[l]]
Room(q)  == TxRing - Len(txring[q])

Begin(l) ==
  CASE TxQueues[l] # <<>> /\ FillFirst -> "fill"
    [] OTHER                           -> AfterTx(l)

Init ==
  /\ pc = [l \in Lcores |-> Begin(l)]
  /\ txi = [l \in Lcores |-> 1]
  /\ timer = [l \in Lcores |-> 0]
  /\ out = [l \in Lcores |-> <<>>]
  /\ reg = [l \in Lcores |-> 0]
  /\ pktcounter = 0
  /\ marks = 0
  /\ txring = [q \in Queues |-> <<OtherPacket(q)>>]
  /\ free = PoolSize - Cardinality(Queues)
  /\ rxring = <<>>
  /\ burst = <<>>
  /\ counter = 0
  /\ bytecounter = 0
  /\ latencyStats = [k \in {} |-> 0]
  /\ continueRX = TRUE
  /\ exitCode = "none"
  /\ polled = FALSE
  /\ handled = 0

\* The lcore turns to its next queue, or leaves its transmissions for "then".
NextQueue(l, again, then) ==
  LET more == txi[l] < Len(TxQueues[l])
  IN  /\ txi' = [txi EXCEPT ![l] = IF more THEN @ + 1 ELSE 1]
      /\ pc'  = [pc EXCEPT ![l] = IF more THEN again ELSE then]

\* The card takes the first packets of s, as many as its ring has room for.
Accept(q, s) ==
  txring' = [txring EXCEPT ![q] = @ \o SubSeq(s, 1, Lesser(Len(s), Room(q)))]

-----------------------------------------------------------------------------
\* What is left to send of s when the ring of q has been filled.
Rest(q, s) == SubSeq(s, Room(q) + 1, Len(s))

-----------------------------------------------------------------------------
(***************************************************************************)
(* app_lcore_io_tx_bw, called once with the size of the ring: a ring's     *)
(* worth of packets that are not marked is allocated, as far as the pool   *)
(* has them; the card takes what it has room for, the others are freed.    *)
(***************************************************************************)
FillAlloc(l) ==
  /\ pc[l] = "fill"
  /\ LET n == Lesser(TxRing, free)
     IN  /\ out' = [out EXCEPT ![l] = [i \in 1 .. n |-> OtherPacket(Queue(l))]]
         /\ free' = free - n
  /\ pc' = [pc EXCEPT ![l] = "fillsend"]
  /\ UNCHANGED <<timer, txi, reg, pktcounter, txring, rxring, burst, tableVars, continueRX,
                 exitCode, polled, marks, handled>>

FillSend(l) ==
  /\ pc[l] = "fillsend"
  /\ Accept(Queue(l), out[l])
  /\ out' = [out EXCEPT ![l] = Rest(Queue(l), @)]
  /\ pc' = [pc EXCEPT ![l] = "fillfree"]
  /\ UNCHANGED <<timer, txi, reg, pktcounter, free, rxring, burst, tableVars, continueRX,
                 exitCode, polled, marks, handled>>

FillFree(l) ==
  /\ pc[l] = "fillfree"
  /\ free' = free + Len(out[l])
  /\ out' = [out EXCEPT ![l] = <<>>]
  /\ NextQueue(l, "fill", AfterTx(l))
  /\ UNCHANGED <<timer, reg, pktcounter, txring, rxring, burst, tableVars, continueRX,
                 exitCode, polled, marks, handled>>

-----------------------------------------------------------------------------
\* app_lcore_io_tx_sts.

\* The first packet of the burst is written to whether it exists or not.
NoBuffer(l) ==
  /\ pc[l] = "tx"
  /\ free = 0
  /\ Queue(l).queue = 0 \/ doChecksum
  /\ exitCode' = "crash"
  /\ UNCHANGED <<pc, timer, txVars, nicVars, burst, tableVars, continueRX, polled,
                 marks, handled>>

AllocatedUnchecked == BurstTx   \* mutant: NULL is not noticed

\* Every buffer the pool has, up to the size of a burst.
Allocated == Lesser(BurstTx, free)

Fill(l) ==
  /\ pc[l] = "tx"
  /\ LET q == Queue(l)
         n == Allocated
     IN  /\ n > 0 \/ (q.queue # 0 /\ ~doChecksum)
         /\ out' = [out EXCEPT ![l] = NewBurst(q, n)]
         /\ free' = free - n
         /\ IF q.queue = 0 /\ autoIncNum
              THEN /\ reg' = [reg EXCEPT ![l] = pktcounter]
                   /\ pc' = [pc EXCEPT ![l] = "number"]
              ELSE /\ pc' = [pc EXCEPT ![l] = "send"]
                   /\ UNCHANGED reg
  /\ UNCHANGED <<timer, txi, pktcounter, txring, rxring, burst, tableVars, continueRX,
                 exitCode, polled, marks, handled>>

TrainSent(n) == n > TrainLen

\* pktcounter++, and the end of the train: the burst is never sent.
Number(l) ==
  /\ pc[l] = "number"
  /\ pktcounter' = (reg[l] + 1) % CounterBase
  /\ reg' = [reg EXCEPT ![l] = 0]
  /\ IF TrainSent(pktcounter')
       THEN /\ pc' = [pc EXCEPT ![l] = "wait"]
            /\ timer' = [timer EXCEPT ![l] = WaitTime]
       ELSE /\ pc' = [pc EXCEPT ![l] = "send"]
            /\ UNCHANGED timer
  /\ UNCHANGED <<txi, out, nicVars, burst, tableVars, continueRX, exitCode, polled, marks,
                 handled>>

\* The card takes all of the burst, or a part of it.
Send(l) ==
  /\ pc[l] = "send"
  /\ LET q == Queue(l)
         s == out[l]
     IN  /\ s # <<>> /\ Room(q) > 0
         /\ Accept(q, s)
         /\ out' = [out EXCEPT ![l] = Rest(q, s)]
         /\ marks' = IF s[1].marked THEN Lesser(marks + 1, MaxMarks) ELSE marks
  /\ IF out'[l] = <<>>
       THEN NextQueue(l, "tx", AfterTx(l))
       ELSE pc' = [pc EXCEPT ![l] = "spin"] /\ UNCHANGED txi
  /\ UNCHANGED <<timer, reg, pktcounter, free, rxring, burst, tableVars, continueRX,
                 exitCode, polled, handled>>

\* The rest of the burst, as room is made for it.
Spin(l) ==
  /\ pc[l] = "spin"
  /\ LET q == Queue(l)
     IN  /\ Room(q) > 0
         /\ Accept(q, out[l])
         /\ out' = [out EXCEPT ![l] = Rest(q, out[l])]
  /\ IF out'[l] = <<>>
       THEN NextQueue(l, "tx", AfterTx(l))
       ELSE UNCHANGED <<pc, txi>>
  /\ UNCHANGED <<timer, reg, pktcounter, free, rxring, burst, tableVars, continueRX,
                 exitCode, polled, marks, handled>>

\* No packet was accepted, or there was none: pktcounter-- is read here ...
Refused(l) ==
  /\ pc[l] = "send"
  /\ out[l] = <<>> \/ Room(Queue(l)) = 0
  /\ reg' = [reg EXCEPT ![l] = pktcounter]
  /\ pc' = [pc EXCEPT ![l] = "takeback"]
  /\ UNCHANGED <<timer, txi, out, pktcounter, nicVars, burst, tableVars, continueRX,
                 exitCode, polled, marks, handled>>

TakeBackLeak(l) ==      \* mutant: the refused buffers are not freed
  /\ pc[l] = "takeback"
  /\ pktcounter' = (reg[l] - 1) % CounterBase
  /\ reg' = [reg EXCEPT ![l] = 0]
  /\ out' = [out EXCEPT ![l] = <<>>]
  /\ NextQueue(l, "tx", AfterTx(l))
  /\ UNCHANGED <<timer, nicVars, burst, tableVars, continueRX, exitCode, polled,
                 marks, handled>>

TakeBackNot(l) ==       \* mutant: the number is not taken back
  /\ pc[l] = "takeback"
  /\ reg' = [reg EXCEPT ![l] = 0]
  /\ free' = free + Len(out[l])
  /\ out' = [out EXCEPT ![l] = <<>>]
  /\ NextQueue(l, "tx", AfterTx(l))
  /\ UNCHANGED <<timer, pktcounter, txring, rxring, burst, tableVars, continueRX,
                 exitCode, polled, marks, handled>>

\* ... and written here, whatever the queue; the buffers are freed.
TakeBack(l) ==
  /\ pc[l] = "takeback"
  /\ pktcounter' = (reg[l] - 1) % CounterBase
  /\ reg' = [reg EXCEPT ![l] = 0]
  /\ free' = free + Len(out[l])
  /\ out' = [out EXCEPT ![l] = <<>>]
  /\ NextQueue(l, "tx", AfterTx(l))
  /\ UNCHANGED <<timer, txring, rxring, burst, tableVars, continueRX, exitCode,
                 polled, marks, handled>>

WaitEndNoGrace(l) ==    \* mutant: the second wait is missing
  /\ pc[l] = "wait"
  /\ timer[l] = 0
  /\ continueRX' = FALSE
  /\ pc' = [pc EXCEPT ![l] = "grace"]
  /\ UNCHANGED <<timer, txVars, nicVars, burst, tableVars, exitCode, polled, marks,
                 handled>>

WaitEnd(l) ==
  /\ pc[l] = "wait"
  /\ timer[l] = 0
  /\ continueRX' = FALSE
  /\ pc' = [pc EXCEPT ![l] = "grace"]
  /\ timer' = [timer EXCEPT ![l] = WaitTime]
  /\ UNCHANGED <<txVars, nicVars, burst, tableVars, exitCode, polled, marks, handled>>

GiveUp(l) ==
  /\ pc[l] = "grace"
  /\ timer[l] = 0
  /\ exitCode' = "1"
  /\ UNCHANGED <<pc, timer, txVars, nicVars, burst, tableVars, continueRX, polled,
                 marks, handled>>

-----------------------------------------------------------------------------
\* app_lcore_io_rx_sts.

Poll(n) ==
  /\ pc[RxLcore] = "poll"
  /\ burst' = SubSeq(rxring, 1, n)
  /\ rxring' = SubSeq(rxring, n + 1, Len(rxring))
  /\ polled' = TRUE
  /\ UNCHANGED <<txVars, free, txring, tableVars, continueRX, exitCode, marks, handled>>

StopSeenLate(n) == ~continueRX /\ n > 0     \* mutant: the empty poll is tested first

\* The end of the measurement is tested first, whatever was polled.
StopSeen(n) == ~continueRX

PollStopped ==
  /\ \E n \in 0 .. Lesser(Len(rxring), BurstRx) : StopSeen(n) /\ Poll(n)
  /\ pc' = [pc EXCEPT ![RxLcore] = "report"]
  /\ timer' = [timer EXCEPT ![RxLcore] = ReportTime]

PollEmpty ==
  /\ ~StopSeen(0) /\ Poll(0)
  /\ pc' = [pc EXCEPT ![RxLcore] = AfterRx]
  /\ UNCHANGED timer

PollBurst ==
  /\ \E n \in 1 .. Lesser(Len(rxring), BurstRx) : ~StopSeen(n) /\ Poll(n)
  /\ pc' = [pc EXCEPT ![RxLcore] = "record"]
  /\ UNCHANGED timer

\* One turn of the loop over the burst.
Look ==
  /\ pc[RxLcore] = "record"
  /\ burst' = Tail(burst)
  /\ handled' = handled + 1
  /\ pc' = [pc EXCEPT ![RxLcore] = IF Len(burst) = 1 THEN AfterRx ELSE "record"]
  /\ UNCHANGED <<timer, txVars, nicVars, exitCode, polled, marks>>

LookUnmarked ==
  /\ Look
  /\ ~Head(burst).marked
  /\ bytecounter' = bytecounter + 1
  /\ UNCHANGED <<counter, latencyStats, continueRX>>

OutOfTable(f) == f.cntr >= TrainLen

\* With --autoInc a number that has no row ends the measurement.
LookPastEnd ==
  /\ Look
  /\ Head(burst).marked /\ autoIncNum /\ OutOfTable(Head(burst))
  /\ counter' = Head(burst).cntr
  /\ bytecounter' = bytecounter + 1
  /\ continueRX' = FALSE
  /\ UNCHANGED latencyStats

BytesKept == bytecounter + 1     \* mutant: the counter is not reset

BytesAfterRecord == 0

LastRowNever(k) == FALSE        \* mutant: the end of the table is not noticed

LastRow(k) == k + 1 = TrainLen

LookMarked ==
  /\ Look
  /\ Head(burst).marked
  /\ autoIncNum => ~OutOfTable(Head(burst))
  /\ LET f == Head(burst)
         k == IF autoIncNum THEN f.cntr ELSE counter
     IN  /\ latencyStats' = Store(latencyStats, k,
                                  [q |-> f.q, no |-> f.no, totalBytes |-> bytecounter + 1])
         /\ counter' = k + 1
         /\ continueRX' = (continueRX /\ ~LastRow(k))
  /\ bytecounter' = BytesAfterRecord

ReportDone ==
  /\ pc[RxLcore] = "report"
  /\ exitCode' = "0"
  /\ UNCHANGED <<pc, timer, txVars, nicVars, burst, tableVars, continueRX, polled,
                 marks, handled>>

-----------------------------------------------------------------------------
\* The network card, the wire and time, as in LatencyTrain.

Transmit(q) ==
  /\ txring[q] # <<>>
  /\ LET f == Head(txring[q])
     IN  \/ UNCHANGED rxring
         \/ /\ Len(rxring) < RxRing
            /\ handled + Len(burst) + Len(rxring) < MaxDelivered
            /\ rxring' = Append(rxring, f)
  /\ txring' = [txring EXCEPT ![q] = Tail(@)]
  /\ free' = free + 1
  /\ UNCHANGED <<pc, timer, txVars, burst, tableVars, continueRX, exitCode, polled,
                 marks, handled>>

Tick ==
  /\ \E l \in Lcores : timer[l] > 0
  /\ polled \/ pc[RxLcore] \in {"report", "wait", "grace"}
  /\ pc[RxLcore] = "report" => timer[RxLcore] > 0
  /\ timer' = [l \in Lcores |-> IF timer[l] > 0 THEN timer[l] - 1 ELSE 0]
  /\ polled' = FALSE
  /\ UNCHANGED <<pc, txVars, nicVars, burst, tableVars, continueRX, exitCode, marks, handled>>

-----------------------------------------------------------------------------
RxStep ==
  \/ PollStopped \/ PollEmpty \/ PollBurst
  \/ LookUnmarked \/ LookPastEnd \/ LookMarked
  \/ ReportDone

TxStep(l) ==
  \/ FillAlloc(l) \/ FillSend(l) \/ FillFree(l)
  \/ NoBuffer(l) \/ Fill(l) \/ Number(l) \/ Send(l) \/ Spin(l)
  \/ Refused(l) \/ TakeBack(l) \/ WaitEnd(l) \/ GiveUp(l)

LcoreStep(l) == TxStep(l) \/ (l = RxLcore /\ RxStep)

Running == exitCode = "none"

Ended == ~Running /\ UNCHANGED vars

Next ==
  \/ Running /\ \/ \E l \in Lcores : LcoreStep(l)
                \/ \E q \in Queues : Transmit(q)
                \/ Tick
  \/ Ended

Fairness ==
  /\ \A l \in Lcores : WF_vars(Running /\ LcoreStep(l))
  /\ \A q \in Queues : WF_vars(Running /\ Transmit(q))
  /\ WF_vars(Running /\ Tick)

Spec == Init /\ [][Next]_vars
FairSpec == Spec /\ Fairness

-----------------------------------------------------------------------------
TypeOK ==
  /\ pc \in [Lcores -> {"fill", "fillsend", "fillfree", "tx", "number", "send", "spin",
                        "takeback", "wait", "grace", "poll", "record", "report"}]
  /\ txi \in [Lcores -> Nat \ {0}]
  /\ timer \in [Lcores -> Nat]
  /\ out \in [Lcores -> Seq(Frame)]
  /\ reg \in [Lcores -> 0 .. CounterBase - 1]
  /\ pktcounter \in 0 .. CounterBase - 1
  /\ free \in Nat
  /\ txring \in [Queues -> Seq(Frame)]
  /\ rxring \in Seq(Frame)
  /\ burst \in Seq(Frame)
  /\ counter \in Nat
  /\ bytecounter \in Nat
  /\ DOMAIN latencyStats \subseteq Nat
  /\ latencyStats \in [DOMAIN latencyStats -> [q : Queues, no : Nat, totalBytes : Nat]]
  /\ continueRX \in BOOLEAN
  /\ exitCode \in {"none", "crash", "0", "1"}
  /\ polled \in BOOLEAN
  /\ marks \in Nat
  /\ handled \in Nat

\* Buffers are neither lost nor freed twice: each is in the pool, in the
\* burst a lcore is sending, or in a ring (runtime.c:592-676, 689-743).
MbufsConserved ==
  free + SumFunction([q \in Queues |-> Len(txring[q])])
       + SumFunction([l \in Lcores |-> Len(out[l])]) = PoolSize

(***************************************************************************)
(* A pool that can fill every ring and what every other lcore holds always *)
(* has a buffer left: array[0] (runtime.c:706, 718, 724) is never NULL.    *)
(* An lcore holds a burst, or a ring's worth while it fills its rings      *)
(* (runtime.c:592-599, 670-676).                                           *)
(***************************************************************************)
HandSize == IF FillFirst /\ TxRing > BurstTx THEN TxRing ELSE BurstTx

EnoughBuffers ==
  PoolSize > Cardinality(Queues) * TxRing + (Cardinality(TxLcores) - 1) * HandSize

NeverStarves == EnoughBuffers => exitCode # "crash"

(***************************************************************************)
(* The numbers on the wire are consecutive: a number taken back is the     *)
(* next one given, and none is given twice or skipped (runtime.c:709, 732).*)
(* usage: "--autoInc : Each packet autoincrements the ICMP's sequence      *)
(* number".                                                                *)
(***************************************************************************)
OnTheWay == [q \in Queues |-> {txring[q][i] : i \in DOMAIN txring[q]}]

ConsecutiveNumbers ==
  autoIncNum =>
    \A q \in Queues : \A f \in OnTheWay[q] :
      f.marked /\ f.no < MaxMarks => f.cntr = f.no % WordBase

\* A row is about the packet whose number it has, when one queue transmits
\* and the field is wide enough for the train (runtime.c:497, 505-509).
RowIsPacket ==
  autoIncNum /\ OneTxQueue /\ TrainLen <= WordBase =>
    \A k \in DOMAIN latencyStats : latencyStats[k].no = k

(***************************************************************************)
(* Without --autoInc the loop over a burst goes on after the last row      *)
(* (runtime.c:518 "end if all packets have been recved"): what it records  *)
(* behind the table is at most the rest of that burst, and no later burst  *)
(* is recorded.                                                            *)
(***************************************************************************)
OverrunBounded ==
  ~autoIncNum => \A k \in DOMAIN latencyStats : k <= TrainLen + BurstRx - 2

(***************************************************************************)
(* Every byte received is in exactly one row or still to be accounted for, *)
(* so that the sum of the rows, which Mean-BandWidth divides by the time,  *)
(* is the traffic of the measurement (runtime.c:441, 493, 508-511).        *)
(***************************************************************************)
BytesAccounted ==
  ~autoIncNum \/ (OneTxQueue /\ TrainLen <= WordBase) =>
    bytecounter + SumFunction([k \in DOMAIN latencyStats |-> latencyStats[k].totalBytes])
      = handled

\* As in LatencyTrain.
ReportIsComplete ==
  TxQueues[RxLcore] = <<>> /\ WaitTime >= ReportTime + 2 => exitCode # "1"

\* Once the measurement is over the process ends, even if the receiver has
\* the rest of a burst to send first (runtime.c:518-521, 738-742).
EndsWhenOver == ~continueRX ~> (exitCode # "none")

(***************************************************************************)
(* The measurement as its reader sees it; a crash reads like giving up.    *)
(* The process ends, and the table is filled in order until it is frozen   *)
(* and printed.                                                            *)
(***************************************************************************)
phase ==
  CASE exitCode = "0"              -> "printed"
    [] exitCode \in {"1", "crash"} -> "gaveUp"
    [] OTHER -> IF pc[RxLcore] = "report" THEN "printing" ELSE "measuring"

Measurement ==
  INSTANCE TrainMeasurement WITH
    rows  <- [k \in DOMAIN latencyStats |-> [q |-> latencyStats[k].q, no |-> latencyStats[k].no]],
    phase <- phase
MeasurementSpec == Measurement!Spec
=============================================================================
