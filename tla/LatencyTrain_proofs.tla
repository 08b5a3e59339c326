------------------------ MODULE LatencyTrain_proofs ------------------------
(***************************************************************************)
(* Proofs about LatencyTrain, for every assignment of queues to lcores,    *)
(* every size of rings, pools, bursts and trains and every waiting time.   *)
(***************************************************************************)
EXTENDS LatencyTrain, SequenceTheorems, SumTheorems, TLAPS

\* Where a lcore may be, and where it has a buffer in its hand.
Places  == {"arp", "arpsend", "poll", "record", "report", "tx", "send", "free", "wait", "grace"}
Holding == {"arpsend", "send", "free"}

USE DEF Places, Holding

HeldOK == \A l \in Lcores : held[l] = IF pc[l] \in Holding THEN 1 ELSE 0

\* A lcore that transmits is at one of its queues; the receiver begins its
\* transmissions with the first one.
TxIndexOK ==
  \A l \in Lcores :
    /\ pc[l] \in {"arpsend", "tx", "send", "free"} => txi[l] \in DOMAIN TxQueues[l]
    /\ pc[l] \in {"poll", "record"} => l = RxLcore /\ txi[l] = 1

\* There is a frame to look at.
BurstOK == pc[RxLcore] = "record" => burst # <<>>

TypeInv == TypeOK /\ TxIndexOK /\ BurstOK /\ HeldOK

-----------------------------------------------------------------------------
\* The queues a lcore owns are queues.
LEMMA QueueType ==
  ASSUME NEW l \in Lcores, NEW i \in DOMAIN TxQueues[l]
  PROVE  TxQueues[l][i] \in Queues /\ TxQueues[l][i].port \in Ports
  BY DEF Queues, Ports

\* A lcore with a buffer for its queue is at one of its queues.
LEMMA OwnQueue ==
  ASSUME TypeInv, NEW l \in Lcores, pc[l] \in {"arpsend", "tx", "send", "free"}
  PROVE  Queue(l) \in Queues /\ txi[l] \in DOMAIN TxQueues[l]
  BY QueueType DEF Queue, TypeInv, TxIndexOK

\* A lcore's queues form a sequence; a lcore that does not receive has one.
LEMMA QueueIndex ==
  ASSUME NEW l \in Lcores
  PROVE  /\ Len(TxQueues[l]) \in Nat
         /\ DOMAIN TxQueues[l] = 1 .. Len(TxQueues[l])
         /\ TxQueues[l] # <<>> => 1 \in DOMAIN TxQueues[l]
         /\ l # RxLcore => TxQueues[l] # <<>>
<1>1. TxQueues[l] \in Seq([port : Nat, queue : Nat])
  BY TrainAssumption
<1>2. TxQueues[l] # <<>> => Len(TxQueues[l]) # 0
  BY <1>1, EmptySeq
<1> QED
  BY <1>1, <1>2, LenProperties, TrainAssumption

\* A ring with one more frame.
LEMMA EnqueueType ==
  ASSUME TypeOK, NEW l \in Lcores, NEW q \in Queues, NEW f \in Frame, Enqueue(l, q, f)
  PROVE  txring' \in [Queues -> Seq(Frame)]
<1>1. Append(txring[q], f) \in Seq(Frame)
  BY AppendProperties DEF TypeOK
<1> QED
  BY <1>1 DEF TypeOK, Enqueue

\* A lcore goes from one place to another; it takes a buffer in its hand, or
\* gives it away, or neither.
LEMMA Hand ==
  ASSUME TypeInv, NEW l \in Lcores, NEW s \in Places, pc' = [pc EXCEPT ![l] = s],
         \/ held' = [held EXCEPT ![l] = @ + 1] /\ pc[l] \notin Holding /\ s \in Holding
         \/ held' = [held EXCEPT ![l] = @ - 1] /\ pc[l] \in Holding /\ s \notin Holding
         \/ held' = held /\ (pc[l] \in Holding <=> s \in Holding)
  PROVE  held' \in [Lcores -> {0, 1}] /\ HeldOK'
<1>1. pc \in [Lcores -> Places] /\ held \in [Lcores -> {0, 1}] /\ HeldOK
  BY DEF TypeInv, TypeOK
<1>2. \A k \in Lcores : k # l => pc'[k] = pc[k] /\ held'[k] = held[k]
  BY <1>1
<1>3. pc'[l] = s /\ held'[l] = IF s \in Holding THEN 1 ELSE 0
  BY <1>1 DEF HeldOK
<1>4. HeldOK'
  BY <1>1, <1>2, <1>3 DEF HeldOK
<1>5. held' \in [Lcores -> {0, 1}]
  BY <1>1, <1>2, <1>3
<1> QED
  BY <1>4, <1>5

\* What NextQueue does to the program counter and the index.
LEMMA NextQueueType ==
  ASSUME TypeInv, NEW l \in Lcores, pc[l] \in {"tx", "send", "free"}, NextQueue(l)
  PROVE  /\ \E s \in {"poll", "tx"} : pc' = [pc EXCEPT ![l] = s]
         /\ pc' \in [Lcores -> Places]
         /\ txi' \in [Lcores -> Nat \ {0}]
         /\ TxIndexOK'
         /\ pc'[RxLcore] = "record" => pc[RxLcore] = "record"
<1>0. pc \in [Lcores -> Places] /\ txi \in [Lcores -> Nat \ {0}] /\ TxIndexOK
  BY DEF TypeInv, TypeOK
<1>1. CASE txi[l] < Len(TxQueues[l])
  <2>1. pc' = [pc EXCEPT ![l] = "tx"] /\ txi' = [txi EXCEPT ![l] = txi[l] + 1]
    BY <1>1 DEF NextQueue
  <2>2. txi[l] + 1 \in DOMAIN TxQueues[l]
    BY <1>0, <1>1, QueueIndex
  <2> QED
    BY <1>0, <2>1, <2>2 DEF TxIndexOK
<1>2. CASE ~(txi[l] < Len(TxQueues[l]))
  <2>1. \/ AfterTx(l) = "poll" /\ l = RxLcore
        \/ AfterTx(l) = "tx" /\ 1 \in DOMAIN TxQueues[l]
    BY QueueIndex DEF AfterTx
  <2>2. pc' = [pc EXCEPT ![l] = AfterTx(l)] /\ txi' = [txi EXCEPT ![l] = 1]
    BY <1>2 DEF NextQueue
  <2>3. CASE AfterTx(l) = "poll" /\ l = RxLcore
    BY <1>0, <2>2, <2>3 DEF TxIndexOK
  <2>4. CASE AfterTx(l) = "tx" /\ 1 \in DOMAIN TxQueues[l]
    BY <1>0, <2>2, <2>4 DEF TxIndexOK
  <2> QED
    BY <2>1, <2>3, <2>4
<1> QED
  BY <1>1, <1>2

-----------------------------------------------------------------------------
LEMMA TypeInit == Init => TypeInv
<1> SUFFICES ASSUME Init PROVE TypeInv
  OBVIOUS
<1>1. <<>> \in Seq(Frame)
  OBVIOUS
<1>2. DOMAIN latencyStats = {} /\ latencyStats \in [{} -> Row]
  BY DEF Init
<1>3. n_mbufs \in [Lcores -> [Ports -> Nat]] /\ txring \in [Queues -> Seq(Frame)]
  BY <1>1 DEF Init
<1>4. /\ pc \in [Lcores -> Places]
      /\ txi \in [Lcores -> Nat \ {0}] /\ timer \in [Lcores -> Nat]
      /\ held \in [Lcores -> {0, 1}]
  BY DEF Init
<1>6. TypeOK
  BY <1>1, <1>2, <1>3, <1>4, TrainAssumption DEF Init, TypeOK
<1>5. TxIndexOK /\ BurstOK /\ HeldOK
  BY TrainAssumption DEF Init, TxIndexOK, BurstOK, HeldOK
<1> QED
  BY <1>6, <1>5 DEF TypeInv

\* The announcements.
LEMMA TypeArp ==
  ASSUME TypeInv, NEW l \in Lcores,
         ArpAlloc(l) \/ ArpSend(l) \/ ArpFail(l) \/ ArpDone(l)
  PROVE  TypeInv'
<1>1. CASE ArpSend(l)
  <2> DEFINE q == Queue(l)
  <2>1. q \in Queues /\ Arp(q) \in Frame
    BY <1>1, QueueType DEF ArpSend, Arp, Frame, Queue, TypeInv, TxIndexOK
  <2>2. txring' \in [Queues -> Seq(Frame)]
    BY <1>1, <2>1, EnqueueType DEF ArpSend, TypeInv
  <2>3. txi' \in [Lcores -> Nat \ {0}] /\ strays' \in Nat
    BY <1>1 DEF ArpSend, TypeInv, TypeOK
  <2>4. TxIndexOK' /\ BurstOK' /\ pc' \in [Lcores -> Places]
    BY <1>1 DEF ArpSend, TypeInv, TypeOK, TxIndexOK, BurstOK, rxVars
  <2>5. held' \in [Lcores -> {0, 1}] /\ HeldOK'
    BY <1>1, Hand DEF ArpSend, Enqueue
  <2> QED
    BY <1>1, <2>2, <2>3, <2>4, <2>5 DEF ArpSend, TypeInv, TypeOK, rxVars
<1>2. CASE ArpFail(l)
  BY <1>2
  DEF ArpFail, TypeInv, TypeOK, TxIndexOK, BurstOK, HeldOK, lcoreVars, nicVars, rxVars, envVars
<1>3. CASE ArpDone(l)
  <2>1. \/ AfterTx(l) = "poll" /\ l = RxLcore
        \/ AfterTx(l) = "tx" /\ 1 \in DOMAIN TxQueues[l]
    BY QueueIndex DEF AfterTx
  <2>2. TypeOK'
    BY <1>3, <2>1 DEF ArpDone, TypeInv, TypeOK, nicVars, rxVars, envVars
  <2>3. TxIndexOK' /\ BurstOK'
    BY <1>3, <2>1 DEF ArpDone, TypeInv, TypeOK, TxIndexOK, BurstOK, rxVars
  <2>4. HeldOK'
    BY <1>3, <2>1, Hand DEF ArpDone
  <2> QED
    BY <2>2, <2>3, <2>4 DEF TypeInv
<1>4. CASE ArpAlloc(l)
  <2>1. /\ pc[l] = "arp" /\ pc' = [pc EXCEPT ![l] = "arpsend"]
        /\ txi[l] \in DOMAIN TxQueues[l] /\ free > 0 /\ free' = free - 1
        /\ held' = [held EXCEPT ![l] = @ + 1]
        /\ UNCHANGED <<txi, n_mbufs, timer, txring, rxring, rxVars, exitCode, envVars>>
    BY <1>4 DEF ArpAlloc, Announcing, Alloc
  <2>2. held' \in [Lcores -> {0, 1}] /\ HeldOK'
    BY <2>1, Hand
  <2>3. TypeOK'
    BY <2>1, <2>2 DEF TypeInv, TypeOK, rxVars, envVars
  <2>4. TxIndexOK' /\ BurstOK'
    BY <2>1 DEF TypeInv, TypeOK, TxIndexOK, BurstOK, rxVars
  <2> QED
    BY <2>2, <2>3, <2>4 DEF TypeInv
<1> QED
  BY <1>1, <1>2, <1>3, <1>4

\* A poll takes frames from the front of the receive ring.
LEMMA PollType ==
  ASSUME TypeInv, NEW n \in 0 .. Lesser(Len(rxring), BurstRx), Poll(n)
  PROVE  /\ n \in Nat /\ n <= Len(rxring)
         /\ burst' \in Seq(Frame) /\ Len(burst') = n
         /\ rxring' \in Seq(Frame) /\ Len(rxring') = Len(rxring) - n
         /\ \A i \in 1 .. n : burst'[i] = rxring[i]
         /\ \A i \in 1 .. Len(rxring) - n : rxring'[i] = rxring[n + i]
<1>1. rxring \in Seq(Frame) /\ Len(rxring) \in Nat
  BY LenProperties DEF TypeInv, TypeOK
<1>2. n \in Nat /\ n <= Len(rxring)
  BY <1>1, TrainAssumption DEF Lesser
<1>3. \A i \in 1 .. Len(rxring) : rxring[i] \in Frame
  BY <1>1, ElementOfSeq
<1>4. /\ burst' \in Seq(Frame) /\ Len(burst') = n
      /\ \A i \in 1 .. n : burst'[i] = rxring[i]
  BY <1>1, <1>2, <1>3, SubSeqProperties DEF Poll
<1>5. /\ rxring' \in Seq(Frame) /\ Len(rxring') = Len(rxring) - n
      /\ \A i \in 1 .. Len(rxring) - n : rxring'[i] = rxring[n + i]
  BY <1>1, <1>2, <1>3, SubSeqProperties DEF Poll
<1> QED
  BY <1>2, <1>4, <1>5

\* The receiver.
LEMMA TypeRx ==
  ASSUME TypeInv, RxStep
  PROVE  TypeInv'
<1> USE TrainAssumption
<1>0. /\ pc \in [Lcores -> Places]
      /\ txi \in [Lcores -> Nat \ {0}] /\ timer \in [Lcores -> Nat]
  BY DEF TypeInv, TypeOK
<1>1. \/ AfterRx = "poll"
      \/ AfterRx = "tx" /\ 1 \in DOMAIN TxQueues[RxLcore]
  BY QueueIndex DEF AfterRx
<1>2. ASSUME NEW n \in 0 .. Lesser(Len(rxring), BurstRx), Poll(n),
             NEW s \in {"report", "record", AfterRx}, s = "record" => n # 0,
             pc' = [pc EXCEPT ![RxLcore] = s], timer' \in [Lcores -> Nat]
      PROVE  TypeInv'
  <2>0. HeldOK'
    BY <1>1, <1>2, Hand DEF Poll
  <2>1. burst' \in Seq(Frame) /\ Len(burst') = n /\ rxring' \in Seq(Frame)
    BY <1>2, PollType
  <2>2. TypeOK'
    BY <1>0, <1>1, <1>2, <2>1 DEF Poll, TypeInv, TypeOK
  <2>3. BurstOK'
    BY <1>0, <1>1, <1>2, <2>1 DEF BurstOK
  <2>4. TxIndexOK'
    BY <1>0, <1>1, <1>2 DEF Poll, TypeInv, TxIndexOK
  <2> QED
    BY <2>0, <2>2, <2>3, <2>4 DEF TypeInv
<1>3. CASE PollStopped
  <2>1. PICK n \in 0 .. Lesser(Len(rxring), BurstRx) : Poll(n)
    BY <1>3 DEF PollStopped
  <2> QED
    BY <1>0, <1>2, <1>3, <2>1 DEF PollStopped
<1>4. CASE PollEmpty
  <2>1. 0 \in 0 .. Lesser(Len(rxring), BurstRx)
    BY LenProperties DEF TypeInv, TypeOK, Lesser
  <2> QED
    BY <1>0, <1>1, <1>2, <1>4, <2>1 DEF PollEmpty
<1>5. CASE PollBurst
  <2>1. PICK n \in 1 .. Lesser(Len(rxring), BurstRx) : Poll(n)
    BY <1>5 DEF PollBurst
  <2>2. n \in 0 .. Lesser(Len(rxring), BurstRx)
    BY LenProperties DEF TypeInv, TypeOK, Lesser
  <2> QED
    BY <1>0, <1>2, <1>5, <2>1, <2>2 DEF PollBurst
<1>6. CASE Record
  <2> DEFINE row == [q |-> Last(burst).q, no |-> Last(burst).no]
  <2>1. burst \in Seq(Frame) /\ burst # <<>>
    BY <1>6 DEF TypeInv, TypeOK, BurstOK, Record
  <2>2. Len(burst) \in Nat /\ Len(burst) >= 1
    BY <2>1, LenProperties, EmptySeq
  <2>3. Last(burst) \in Frame
    BY <2>1, <2>2, ElementOfSeq DEF Last
  <2>4. row \in Row
    BY <2>3 DEF Frame, Row
  <2>5. RecordSlot \in Nat /\ NextCounter \in Nat
    <3>1. counter \in Nat
      BY DEF TypeInv, TypeOK
    <3> QED
      BY <2>2, <3>1 DEF RecordSlot, NextCounter
  <2>6. /\ counter' \in Nat /\ continueRX' \in BOOLEAN
        /\ DOMAIN latencyStats' \subseteq Nat
        /\ latencyStats' \in [DOMAIN latencyStats' -> Row]
    <3>1. CASE Recognised(Last(burst))
      <4>1. latencyStats' = Store(latencyStats, RecordSlot, row)
        BY <1>6, <3>1 DEF Record
      <4>2. /\ DOMAIN latencyStats' \subseteq Nat
            /\ latencyStats' \in [DOMAIN latencyStats' -> Row]
        BY <4>1, <2>4, <2>5 DEF Store, TypeInv, TypeOK
      <4> QED
        BY <1>6, <3>1, <4>2, <2>5 DEF Record, TypeInv, TypeOK
    <3>2. CASE ~Recognised(Last(burst))
      BY <1>6, <3>2 DEF Record, TypeInv, TypeOK
    <3> QED
      BY <3>1, <3>2
  <2>7. pc' = [pc EXCEPT ![RxLcore] = AfterRx] /\ burst' = <<>>
    BY <1>6 DEF Record
  <2>8. TypeOK'
    <3>1. pc' \in [Lcores -> Places]
      BY <1>0, <1>1, <2>7
    <3>2. burst' \in Seq(Frame)
      BY <2>7
    <3>3. UNCHANGED <<txi, n_mbufs, timer, held, nicVars, exitCode, envVars>>
      BY <1>6 DEF Record
    <3> QED
      BY <2>6, <3>1, <3>2, <3>3 DEF TypeInv, TypeOK, nicVars, envVars
  <2>9. TxIndexOK' /\ BurstOK'
    BY <1>0, <1>1, <1>6, <2>7 DEF Record, TypeInv, TxIndexOK, BurstOK
  <2>10. HeldOK'
    BY <1>1, <1>6, <2>7, Hand DEF Record
  <2> QED
    BY <2>8, <2>9, <2>10 DEF TypeInv
<1>7. CASE ReportDone
  BY <1>7
  DEF ReportDone, TypeInv, TypeOK, TxIndexOK, BurstOK, HeldOK, lcoreVars, nicVars, rxVars, envVars
<1> QED
  BY <1>3, <1>4, <1>5, <1>6, <1>7 DEF RxStep

\* The transmitters.
LEMMA TypeTx ==
  ASSUME TypeInv, NEW l \in Lcores, TxAlloc(l) \/ TxNoBuffer(l) \/ TxSend(l) \/ TxRefused(l) \/ TxFree(l)
  PROVE  TypeInv'
<1> USE TrainAssumption
<1>0. /\ pc \in [Lcores -> Places]
      /\ txi \in [Lcores -> Nat \ {0}] /\ timer \in [Lcores -> Nat]
  BY DEF TypeInv, TypeOK
<1>1. CASE TxSend(l)
  <2> DEFINE q == Queue(l)
  <2>0. pc[l] = "send" /\ Enqueue(l, q, Packet(q)) /\ held' = [held EXCEPT ![l] = @ - 1]
    BY <1>1 DEF TxSend, Enqueue
  <2>1. q \in Queues /\ q.port \in Ports
    BY <2>0, QueueType DEF TypeInv, TxIndexOK, Queue
  <2>2. Packet(q) \in Frame
    BY <2>1 DEF Packet, Frame, TypeInv, TypeOK
  <2>3. txring' \in [Queues -> Seq(Frame)]
    BY <2>0, <2>1, <2>2, EnqueueType DEF TypeInv
  <2>4. n_mbufs' \in [Lcores -> [Ports -> Nat]]
    <3>1. n_mbufs \in [Lcores -> [Ports -> Nat]]
      BY DEF TypeInv, TypeOK
    <3>2. n_mbufs' = [n_mbufs EXCEPT ![l][q.port] = @ + 1]
      BY <1>1 DEF TxSend
    <3> QED
      BY <2>1, <3>1, <3>2
  <2>5. /\ pc' \in [Lcores -> Places]
        /\ txi' \in [Lcores -> Nat \ {0}] /\ timer' \in [Lcores -> Nat]
        /\ TxIndexOK'
        /\ pc'[RxLcore] = "record" => pc[RxLcore] = "record"
        /\ held' \in [Lcores -> {0, 1}] /\ HeldOK'
    <3>1. CASE n_mbufs[l][q.port] + 1 >= TrainLen
      <4>1. /\ pc' = [pc EXCEPT ![l] = "wait"] /\ txi' = txi
            /\ timer' = [timer EXCEPT ![l] = WaitTime]
        BY <1>1, <3>1 DEF TxSend
      <4>2. held' \in [Lcores -> {0, 1}] /\ HeldOK'
        BY <2>0, <4>1, Hand
      <4> QED
        BY <1>0, <4>1, <4>2 DEF TypeInv, TxIndexOK
    <3>2. CASE ~(n_mbufs[l][q.port] + 1 >= TrainLen)
      <4>1. NextQueue(l) /\ UNCHANGED timer
        BY <1>1, <3>2 DEF TxSend
      <4>2. held' \in [Lcores -> {0, 1}] /\ HeldOK'
        BY <2>0, <4>1, NextQueueType, Hand
      <4> QED
        BY <1>0, <2>0, <4>1, <4>2, NextQueueType
    <3> QED
      BY <3>1, <3>2
  <2>6. sent' \in Nat
    <3>1. sent \in Nat /\ sent' = sent + 1
      BY <1>1 DEF TxSend, TypeInv, TypeOK
    <3> QED
      BY <3>1
  <2>7. UNCHANGED <<free, rxring, rxVars, exitCode, polled, strays>>
    BY <1>1 DEF TxSend
  <2>8. TypeOK'
    BY <2>3, <2>4, <2>5, <2>6, <2>7 DEF TypeInv, TypeOK, rxVars
  <2>9. BurstOK'
    BY <2>5, <2>7 DEF TypeInv, BurstOK, rxVars
  <2> QED
    BY <2>5, <2>8, <2>9 DEF TypeInv
<1>2. ASSUME pc[l] \in {"tx", "free"}, NextQueue(l), free' \in Nat,
             held' = IF pc[l] = "free" THEN [held EXCEPT ![l] = @ - 1] ELSE held,
             UNCHANGED <<n_mbufs, timer, txring, rxring, rxVars, exitCode, envVars>>
      PROVE  TypeInv'
  <2>1. /\ pc' \in [Lcores -> Places]
        /\ txi' \in [Lcores -> Nat \ {0}]
        /\ TxIndexOK'
        /\ pc'[RxLcore] = "record" => pc[RxLcore] = "record"
    BY <1>2, NextQueueType
  <2>2. held' \in [Lcores -> {0, 1}] /\ HeldOK'
    BY <1>2, NextQueueType, Hand
  <2>3. TypeOK'
    BY <1>2, <2>1, <2>2 DEF TypeInv, TypeOK, rxVars, envVars
  <2> QED
    BY <1>2, <2>1, <2>2, <2>3 DEF TypeInv, BurstOK, rxVars
<1>3. CASE TxNoBuffer(l)
  BY <1>2, <1>3 DEF TxNoBuffer, nicVars, TypeInv, TypeOK
<1>4. CASE TxFree(l)
  <2>1. /\ pc[l] = "free" /\ NextQueue(l) /\ held' = [held EXCEPT ![l] = @ - 1]
        /\ UNCHANGED <<n_mbufs, timer, txring, rxring, rxVars, exitCode, envVars>>
    BY <1>4 DEF TxFree
  <2>2. free' \in Nat
    <3>1. free \in Nat /\ free' = free + 1
      BY <1>4 DEF TxFree, TypeInv, TypeOK
    <3> QED
      BY <3>1
  <2> QED
    BY <1>2, <2>1, <2>2
<1>5. ASSUME NEW s \in {"send", "free"}, pc[l] \in {"tx", "send"}, pc' = [pc EXCEPT ![l] = s],
             free' \in Nat, held' \in [Lcores -> {0, 1}], HeldOK',
             UNCHANGED <<txi, n_mbufs, timer, txring, rxring, rxVars, exitCode, envVars>>
      PROVE  TypeInv'
  <2>1. TypeOK'
    BY <1>0, <1>5 DEF TypeInv, TypeOK, rxVars, envVars
  <2>2. TxIndexOK' /\ BurstOK'
    BY <1>0, <1>5 DEF TypeInv, TxIndexOK, BurstOK, rxVars
  <2> QED
    BY <1>5, <2>1, <2>2 DEF TypeInv
<1>6. CASE TxAlloc(l)
  <2>1. held' \in [Lcores -> {0, 1}] /\ HeldOK'
    BY <1>6, Hand DEF TxAlloc, Alloc
  <2>2. free' \in Nat
    <3>1. free \in Nat /\ free > 0 /\ free' = free - 1
      BY <1>6 DEF TxAlloc, Alloc, TypeInv, TypeOK
    <3> QED
      BY <3>1
  <2>3. /\ pc[l] = "tx" /\ pc' = [pc EXCEPT ![l] = "send"]
        /\ UNCHANGED <<txi, n_mbufs, timer, txring, rxring, rxVars, exitCode, envVars>>
    BY <1>6 DEF TxAlloc
  <2> QED
    BY <1>5, <2>1, <2>2, <2>3
<1>7. CASE TxRefused(l)
  <2>1. held' \in [Lcores -> {0, 1}] /\ HeldOK'
    BY <1>7, Hand DEF TxRefused, TypeInv, TypeOK
  <2> QED
    BY <1>5, <1>7, <2>1 DEF TxRefused, nicVars, TypeInv, TypeOK
<1> QED
  BY <1>1, <1>3, <1>4, <1>6, <1>7

LEMMA TypeWait ==
  ASSUME TypeInv, NEW l \in Lcores, WaitEnd(l) \/ GiveUp(l)
  PROVE  TypeInv'
<1> USE TrainAssumption
<1>0. pc \in [Lcores -> Places] /\ timer \in [Lcores -> Nat]
  BY DEF TypeInv, TypeOK
<1>3. CASE WaitEnd(l)
  <2>1. /\ pc[l] = "wait" /\ pc' = [pc EXCEPT ![l] = "grace"] /\ continueRX' = FALSE
        /\ timer' = [timer EXCEPT ![l] = WaitTime]
        /\ UNCHANGED <<txi, n_mbufs, held, nicVars, burst, counter, latencyStats, exitCode, envVars>>
    BY <1>3 DEF WaitEnd
  <2>2. TypeOK'
    BY <1>0, <2>1 DEF TypeInv, TypeOK, nicVars, envVars
  <2>3. TxIndexOK' /\ BurstOK'
    BY <1>0, <2>1 DEF TypeInv, TxIndexOK, BurstOK
  <2>4. HeldOK'
    BY <2>1, Hand
  <2> QED
    BY <2>2, <2>3, <2>4 DEF TypeInv
<1>4. CASE GiveUp(l)
  BY <1>4
  DEF GiveUp, TypeInv, TypeOK, TxIndexOK, BurstOK, HeldOK, lcoreVars, nicVars, rxVars, envVars
<1> QED
  BY <1>3, <1>4

\* The wire, other hosts and time.
LEMMA DeliveredType ==
  ASSUME TypeInv, NEW f \in Frame, Delivered(f)
  PROVE  rxring' \in Seq(Frame)
  BY AppendProperties DEF Delivered, TypeInv, TypeOK

LEMMA TypeNic ==
  ASSUME TypeInv, (\E q \in Queues : Transmit(q)) \/ Stray \/ Tick
  PROVE  TypeInv'
<1>1. ASSUME NEW q \in Queues, Transmit(q) PROVE TypeInv'
  <2>1. txring[q] \in Seq(Frame) /\ txring[q] # <<>>
    BY <1>1 DEF Transmit, TypeInv, TypeOK
  <2>2. Head(txring[q]) \in Frame /\ Tail(txring[q]) \in Seq(Frame)
    BY <2>1, HeadTailProperties
  <2>3. rxring' \in Seq(Frame)
    BY <1>1, <2>2, DeliveredType DEF Transmit, TypeInv, TypeOK
  <2>4. /\ txring' \in [Queues -> Seq(Frame)] /\ free' \in Nat
        /\ UNCHANGED <<lcoreVars, rxVars, exitCode, envVars>>
    BY <1>1, <2>2 DEF Transmit, TypeInv, TypeOK
  <2>5. TypeOK'
    BY <2>3, <2>4 DEF TypeInv, TypeOK, lcoreVars, rxVars, envVars
  <2> QED
    BY <2>4, <2>5 DEF TypeInv, TxIndexOK, BurstOK, HeldOK, lcoreVars, rxVars
<1>2. CASE Stray
  <2>1. PICK q \in Queues : Delivered(Arp(q))
    BY <1>2 DEF Stray
  <2>2. Arp(q) \in Frame
    BY DEF Arp, Frame
  <2>3. rxring' \in Seq(Frame)
    BY <2>1, <2>2, DeliveredType
  <2>4. /\ strays' \in Nat
        /\ UNCHANGED <<lcoreVars, free, txring, rxVars, exitCode, polled, sent>>
    BY <1>2 DEF Stray, TypeInv, TypeOK
  <2>5. TypeOK'
    BY <2>3, <2>4 DEF TypeInv, TypeOK, lcoreVars, rxVars
  <2> QED
    BY <2>4, <2>5 DEF TypeInv, TxIndexOK, BurstOK, HeldOK, lcoreVars, rxVars
<1>3. CASE Tick
  <2>1. timer' \in [Lcores -> Nat] /\ polled' \in BOOLEAN
    <3>1. timer \in [Lcores -> Nat]
      BY DEF TypeInv, TypeOK
    <3>2. /\ timer' = [l \in Lcores |-> IF timer[l] > 0 THEN timer[l] - 1 ELSE 0]
          /\ polled' = FALSE
      BY <1>3 DEF Tick
    <3>3. \A l \in Lcores : (IF timer[l] > 0 THEN timer[l] - 1 ELSE 0) \in Nat
      BY <3>1
    <3> QED
      BY <3>2, <3>3
  <2>2. UNCHANGED <<pc, txi, n_mbufs, held, nicVars, rxVars, exitCode, sent, strays>>
    BY <1>3 DEF Tick
  <2>3. TypeOK'
    BY <2>1, <2>2 DEF TypeInv, TypeOK, nicVars, rxVars
  <2> QED
    BY <2>2, <2>3 DEF TypeInv, TxIndexOK, BurstOK, HeldOK, rxVars
<1> QED
  BY <1>1, <1>2, <1>3

LEMMA TypeStep == TypeInv /\ [Next]_vars => TypeInv'
<1> SUFFICES ASSUME TypeInv, [Next]_vars PROVE TypeInv'
  OBVIOUS
<1>1. CASE UNCHANGED vars
  BY <1>1
  DEF vars, lcoreVars, nicVars, rxVars, envVars, TypeInv, TypeOK, TxIndexOK, BurstOK, HeldOK
<1>2. ASSUME NEW l \in Lcores, LcoreStep(l) PROVE TypeInv'
  BY <1>2, TypeArp, TypeRx, TypeTx, TypeWait DEF LcoreStep
<1> QED
  BY <1>1, <1>2, TypeNic DEF Next, Ended

\* Every variable keeps its type, and a lcore never looks at a queue it does
\* not own.
THEOREM TypeCorrect == Spec => [](TypeOK /\ TxIndexOK)
<1>1. Spec => []TypeInv
  BY TypeInit, TypeStep, PTL DEF Spec
<1> QED
  BY <1>1, PTL DEF TypeInv

-----------------------------------------------------------------------------
(***************************************************************************)
(* SlotNeverAhead is not inductive: it says nothing of the frames on their *)
(* way.  Each of them has, ahead of it on the one path of the train, the   *)
(* frames already counted and those in the burst and in the rings; SlotInv *)
(* bounds their number by the number of the packet and the strays.         *)
(***************************************************************************)

\* The i-th frame of s, if it is a packet, has no more than its number and m
\* others in front of it, when s has base in front of it.
Covered(s, base, m) ==
  \A i \in 1 .. Len(s) : s[i].kind = "train" => base + i - 1 <= s[i].no + m

RowsCovered == \A k \in DOMAIN latencyStats : k <= latencyStats[k].no + strays

Ahead == counter + Len(burst) + Len(rxring)

SlotInv ==
  /\ RowsCovered
  /\ Covered(burst, counter, strays)
  /\ Covered(rxring, counter + Len(burst), strays)
  /\ \A q \in Queues :
       /\ Covered(txring[q], Ahead, strays)
       /\ Ahead + Len(txring[q]) <= sent + strays

-----------------------------------------------------------------------------
\* Lemmas on Covered.

LEMMA FrameNo ==
  ASSUME NEW s \in Seq(Frame)
  PROVE  Len(s) \in Nat /\ \A i \in 1 .. Len(s) : s[i] \in Frame /\ s[i].no \in Nat
<1>1. \A f \in Frame : f.no \in Nat
  BY DEF Frame
<1> QED
  BY <1>1, LenProperties, ElementOfSeq

\* Fewer frames in front, or more strays.
LEMMA CoveredWeaken ==
  ASSUME NEW s \in Seq(Frame), NEW b \in Nat, NEW c \in Nat, NEW m \in Nat, NEW n \in Nat,
         Covered(s, b, m), c <= b, m <= n
  PROVE  Covered(s, c, n)
<1> SUFFICES ASSUME NEW i \in 1 .. Len(s), s[i].kind = "train"
             PROVE  c + i - 1 <= s[i].no + n
  BY DEF Covered
<1>1. b + i - 1 <= s[i].no + m
  BY DEF Covered
<1>2. i \in Nat /\ s[i].no \in Nat
  BY FrameNo
<1> QED
  BY <1>1, <1>2

LEMMA CoveredAppend ==
  ASSUME NEW s \in Seq(Frame), NEW f \in Frame, NEW b \in Nat, NEW m \in Nat,
         Covered(s, b, m), f.kind = "train" => b + Len(s) <= f.no + m
  PROVE  Covered(Append(s, f), b, m)
<1> DEFINE t == Append(s, f)
<1>1. /\ Len(s) \in Nat /\ Len(t) = Len(s) + 1
      /\ \A i \in 1 .. Len(s) : t[i] = s[i]
      /\ t[Len(s) + 1] = f
  BY LenProperties, AppendProperties
<1>2. f.no \in Nat
  BY DEF Frame
<1> SUFFICES ASSUME NEW i \in 1 .. Len(t), t[i].kind = "train"
             PROVE  b + i - 1 <= t[i].no + m
  BY DEF Covered
<1> HIDE DEF t
<1>3. CASE i \in 1 .. Len(s)
  BY <1>1, <1>3 DEF Covered
<1>4. CASE i = Len(s) + 1
  <2>1. t[i] = f /\ b + i - 1 = b + Len(s)
    BY <1>1, <1>4
  <2> QED
    BY <2>1
<1> QED
  BY <1>1, <1>3, <1>4

\* The frames n + 1, ..., n + Len(t) of s, as a sequence t.
LEMMA CoveredPart ==
  ASSUME NEW s \in Seq(Frame), NEW t \in Seq(Frame), NEW b \in Nat, NEW m \in Nat,
         NEW n \in Nat, Covered(s, b, m), n + Len(t) <= Len(s),
         \A i \in 1 .. Len(t) : t[i] = s[n + i]
  PROVE  Covered(t, b + n, m)
<1> SUFFICES ASSUME NEW i \in 1 .. Len(t), t[i].kind = "train"
             PROVE  b + n + i - 1 <= t[i].no + m
  BY DEF Covered
<1>1. Len(s) \in Nat /\ Len(t) \in Nat /\ i \in Nat
  BY FrameNo
<1>2. n + i \in 1 .. Len(s) /\ t[i] = s[n + i]
  BY <1>1
<1>3. b + (n + i) - 1 <= s[n + i].no + m
  BY <1>2 DEF Covered
<1>4. b + (n + i) - 1 = b + n + i - 1
  BY <1>1
<1> QED
  BY <1>2, <1>3, <1>4

-----------------------------------------------------------------------------
\* What the type invariant says of the sequences and numbers of SlotInv.
LEMMA Numbers ==
  ASSUME TypeInv
  PROVE  /\ counter \in Nat /\ sent \in Nat /\ strays \in Nat
         /\ burst \in Seq(Frame) /\ Len(burst) \in Nat
         /\ rxring \in Seq(Frame) /\ Len(rxring) \in Nat
         /\ \A q \in Queues : txring[q] \in Seq(Frame) /\ Len(txring[q]) \in Nat
         /\ \A k \in DOMAIN latencyStats : k \in Nat /\ latencyStats[k].no \in Nat
<1>1. /\ counter \in Nat /\ sent \in Nat /\ strays \in Nat
      /\ burst \in Seq(Frame) /\ rxring \in Seq(Frame)
      /\ \A q \in Queues : txring[q] \in Seq(Frame)
      /\ \A k \in DOMAIN latencyStats : k \in Nat /\ latencyStats[k] \in Row
  BY DEF TypeInv, TypeOK
<1>2. \A row \in Row : row.no \in Nat
  BY DEF Row
<1> QED
  BY <1>1, <1>2, LenProperties

LEMMA SlotInit == Init => SlotInv
<1> SUFFICES ASSUME Init PROVE SlotInv
  OBVIOUS
<1>1. /\ counter = 0 /\ sent = 0 /\ strays = 0 /\ DOMAIN latencyStats = {}
      /\ Len(burst) = 0 /\ Len(rxring) = 0
      /\ \A q \in Queues : Len(txring[q]) = 0
  BY EmptySeq DEF Init
<1> QED
  BY <1>1 DEF SlotInv, RowsCovered, Covered, Ahead

\* Steps that move no frame.
LEMMA SlotUnmoved ==
  ASSUME SlotInv, UNCHANGED <<txring, rxring, burst, counter, latencyStats, sent, strays>>
  PROVE  SlotInv'
  BY DEF SlotInv, RowsCovered, Covered, Ahead

\* Of the steps of a lcore only a burst, a poll and a record move a frame.
LEMMA QuietStep ==
  ASSUME NEW l \in Lcores, LcoreStep(l), ~ArpSend(l), ~TxSend(l),
         ~Record, ~PollStopped, ~PollEmpty, ~PollBurst
  PROVE  UNCHANGED <<txring, rxring, burst, counter, latencyStats, sent, strays>>
<1>1. CASE ArpAlloc(l) \/ ArpFail(l) \/ ArpDone(l)
  BY <1>1 DEF ArpAlloc, ArpFail, ArpDone, nicVars, rxVars, envVars
<1>2. CASE TxAlloc(l) \/ TxNoBuffer(l) \/ TxRefused(l) \/ TxFree(l)
  BY <1>2 DEF TxAlloc, TxNoBuffer, TxRefused, TxFree, nicVars, rxVars, envVars
<1>3. CASE WaitEnd(l) \/ GiveUp(l) \/ ReportDone
  BY <1>3 DEF WaitEnd, GiveUp, ReportDone, nicVars, rxVars, envVars
<1> QED
  BY <1>1, <1>2, <1>3 DEF LcoreStep, RxStep

\* A frame enters a transmission ring: a packet, numbered sent, or an ARP.
LEMMA SlotEnqueue ==
  ASSUME TypeInv, SlotInv, NEW l \in Lcores, NEW q \in Queues, NEW f \in Frame,
         Enqueue(l, q, f),
         f.kind = "train" => f.no = sent,
         NEW u \in Nat, NEW v \in Nat, sent' = u, strays' = v,
         v >= strays, u + v = sent + strays + 1,
         UNCHANGED <<rxring, burst, counter, latencyStats>>
  PROVE  SlotInv'
<1>0. Ahead \in Nat /\ Ahead' = Ahead /\ counter + Len(burst) \in Nat
  BY Numbers DEF Ahead
<1>1. RowsCovered'
  <2>1. ASSUME NEW k \in DOMAIN latencyStats PROVE k <= latencyStats[k].no + v
    <3>1. /\ k \in Nat /\ latencyStats[k].no \in Nat /\ strays \in Nat
          /\ k <= latencyStats[k].no + strays
      BY Numbers DEF SlotInv, RowsCovered
    <3> QED
      BY <3>1
  <2> QED
    BY <2>1 DEF RowsCovered
<1>2. Covered(burst', counter', strays')
  BY Numbers, CoveredWeaken DEF SlotInv
<1>3. Covered(rxring', counter' + Len(burst'), strays')
  BY <1>0, Numbers, CoveredWeaken DEF SlotInv
<1>4. ASSUME NEW p \in Queues
      PROVE  Covered(txring'[p], Ahead, v) /\ Ahead + Len(txring'[p]) <= u + v
  <2>0. /\ txring[p] \in Seq(Frame) /\ Len(txring[p]) \in Nat
        /\ sent \in Nat /\ strays \in Nat
        /\ Covered(txring[p], Ahead, strays) /\ Ahead + Len(txring[p]) <= sent + strays
    BY Numbers DEF SlotInv
  <2>1. Covered(txring[p], Ahead, v)
    BY <1>0, <2>0, CoveredWeaken
  <2>2. CASE p # q
    <3>1. txring'[p] = txring[p]
      BY <2>2 DEF Enqueue, TypeInv, TypeOK
    <3>2. Ahead + Len(txring[p]) <= u + v
      BY <1>0, <2>0
    <3> QED
      BY <2>1, <3>1, <3>2
  <2>3. CASE p = q
    <3>1. txring'[p] = Append(txring[p], f)
      BY <2>3 DEF Enqueue, TypeInv, TypeOK
    <3>2. f.kind = "train" => Ahead + Len(txring[p]) <= f.no + v
      BY <1>0, <2>0
    <3>3. Covered(txring'[p], Ahead, v)
      BY <1>0, <2>0, <2>1, <3>1, <3>2, CoveredAppend
    <3>4. Len(txring'[p]) = Len(txring[p]) + 1
      BY <2>0, <3>1, AppendProperties
    <3> QED
      BY <1>0, <2>0, <3>3, <3>4
  <2> QED
    BY <2>2, <2>3
<1>5. \A p \in Queues : /\ Covered(txring'[p], Ahead', strays')
                        /\ Ahead' + Len(txring'[p]) <= sent' + strays'
  BY <1>0, <1>4
<1> QED
  BY <1>1, <1>2, <1>3, <1>5 DEF SlotInv

\* A poll moves frames from the receive ring to the burst.
LEMMA SlotPoll ==
  ASSUME TypeInv, SlotInv, NEW n \in 0 .. Lesser(Len(rxring), BurstRx), Poll(n)
  PROVE  SlotInv'
<1>0. /\ UNCHANGED <<txring, counter, latencyStats, sent, strays>>
      /\ n \in Nat /\ n <= Len(rxring)
      /\ burst' \in Seq(Frame) /\ Len(burst') = n
      /\ rxring' \in Seq(Frame) /\ Len(rxring') = Len(rxring) - n
      /\ \A i \in 1 .. n : burst'[i] = rxring[i]
      /\ \A i \in 1 .. Len(rxring) - n : rxring'[i] = rxring[n + i]
  BY PollType DEF Poll
<1> DEFINE b == counter + Len(burst)
<1>1. RowsCovered'
  BY <1>0 DEF SlotInv, RowsCovered
<1>2. b \in Nat /\ b + n \in Nat /\ counter <= b /\ counter + n <= b + n
  BY <1>0, Numbers
<1>3. Covered(rxring, b, strays)
  BY DEF SlotInv
<1> HIDE DEF b
<1>4. Covered(burst', counter', strays')
  <2>1. \A i \in 1 .. Len(burst') : burst'[i] = rxring[0 + i]
    BY <1>0
  <2>2. Covered(burst', b + 0, strays)
    <3>1. 0 + Len(burst') <= Len(rxring) /\ rxring \in Seq(Frame) /\ strays \in Nat
      BY <1>0, Numbers
    <3> QED
      BY <1>0, <1>2, <1>3, <2>1, <3>1, CoveredPart
  <2>3. b + 0 = b
    BY <1>2
  <2> QED
    BY <1>0, <1>2, <2>2, <2>3, Numbers, CoveredWeaken
<1>5. Covered(rxring', counter' + Len(burst'), strays')
  <2>1. Covered(rxring', b + n, strays)
    <3>1. n + Len(rxring') <= Len(rxring) /\ rxring \in Seq(Frame) /\ strays \in Nat
      BY <1>0, Numbers
    <3>2. \A i \in 1 .. Len(rxring') : rxring'[i] = rxring[n + i]
      BY <1>0
    <3> QED
      BY <1>0, <1>2, <1>3, <3>1, <3>2, CoveredPart
  <2> QED
    BY <1>0, <1>2, <2>1, Numbers, CoveredWeaken
<1>6. \A q \in Queues : /\ Covered(txring'[q], Ahead', strays')
                        /\ Ahead' + Len(txring'[q]) <= sent' + strays'
  <2>1. Ahead \in Nat /\ Ahead' \in Nat /\ Ahead' <= Ahead
    BY <1>0, Numbers DEF Ahead
  <2>2. ASSUME NEW q \in Queues
        PROVE  Covered(txring[q], Ahead', strays) /\ Ahead' + Len(txring[q]) <= sent + strays
    <3>1. /\ txring[q] \in Seq(Frame) /\ Len(txring[q]) \in Nat
          /\ sent \in Nat /\ strays \in Nat
          /\ Covered(txring[q], Ahead, strays) /\ Ahead + Len(txring[q]) <= sent + strays
      BY Numbers DEF SlotInv
    <3>2. Covered(txring[q], Ahead', strays)
      BY <2>1, <3>1, CoveredWeaken
    <3> QED
      BY <2>1, <3>1, <3>2
  <2> QED
    BY <1>0, <2>2
<1> QED
  BY <1>1, <1>4, <1>5, <1>6 DEF SlotInv

\* The burst is counted, or thrown away.
LEMMA SlotRecord ==
  ASSUME TypeInv, SlotInv, Record
  PROVE  SlotInv'
<1> DEFINE n == Len(burst)
<1>0. /\ UNCHANGED <<txring, rxring, sent, strays>>
      /\ burst' = <<>> /\ Len(burst') = 0 /\ burst' \in Seq(Frame)
  BY EmptySeq DEF Record, nicVars, envVars
<1>1. n \in Nat /\ n >= 1
  BY EmptySeq DEF Record, TypeInv, TypeOK, BurstOK
<1>2. counter' \in Nat /\ counter <= counter' /\ counter' <= counter + n
  BY <1>1, Numbers DEF Record, RecordSlot, NextCounter
<1>3. RowsCovered'
  <2>1. CASE ~Recognised(Last(burst))
    BY <1>0, <2>1 DEF Record, SlotInv, RowsCovered
  <2>2. CASE Recognised(Last(burst))
    <3>1. latencyStats' = Store(latencyStats, counter + n - 1,
                                [q |-> Last(burst).q, no |-> Last(burst).no])
      BY <2>2 DEF Record, RecordSlot
    <3>2. counter + n - 1 <= Last(burst).no + strays
      BY <1>1, <2>2 DEF SlotInv, Covered, Recognised, Last
    <3> QED
      BY <1>0, <3>1, <3>2 DEF Store, SlotInv, RowsCovered
  <2> QED
    BY <2>1, <2>2
<1>4. Covered(burst', counter', strays')
  BY <1>0 DEF Covered
<1>5. Covered(rxring', counter' + Len(burst'), strays')
  <2>1. PICK c \in Nat : counter' = c /\ c <= counter + n
    BY <1>2
  <2>2. c + 0 \in Nat /\ counter + n \in Nat /\ c + 0 <= counter + n
    BY <1>1, <2>1, Numbers
  <2>3. Covered(rxring, c + 0, strays)
    BY <2>2, Numbers, CoveredWeaken DEF SlotInv
  <2> QED
    BY <1>0, <2>1, <2>3
<1>6. ASSUME NEW q \in Queues
      PROVE  Covered(txring[q], Ahead', strays) /\ Ahead' + Len(txring[q]) <= sent + strays
  <2>1. /\ txring[q] \in Seq(Frame) /\ Len(txring[q]) \in Nat
        /\ sent \in Nat /\ strays \in Nat
        /\ Covered(txring[q], Ahead, strays) /\ Ahead + Len(txring[q]) <= sent + strays
    BY Numbers DEF SlotInv
  <2>2. Ahead \in Nat /\ Ahead' \in Nat /\ Ahead' <= Ahead
    BY <1>0, <1>1, <1>2, Numbers DEF Ahead
  <2>3. Covered(txring[q], Ahead', strays)
    BY <2>1, <2>2, CoveredWeaken
  <2> QED
    BY <2>1, <2>2, <2>3
<1> QED
  BY <1>0, <1>3, <1>4, <1>5, <1>6 DEF SlotInv

\* A frame reaches the receive ring; m is the number of strays then.
LEMMA SlotDelivered ==
  ASSUME TypeInv, SlotInv, NEW f \in Frame, Delivered(f), NEW m \in Nat, strays <= m,
         f.kind = "train" => Ahead <= f.no + m
  PROVE  \E r \in Seq(Frame) : /\ rxring' = r /\ Len(r) = Len(rxring) + 1
                               /\ Covered(r, counter + Len(burst), m)
<1>1. rxring' = Append(rxring, f) /\ rxring \in Seq(Frame) /\ Len(rxring) \in Nat
  BY Numbers DEF Delivered
<1>2. counter + Len(burst) \in Nat /\ counter + Len(burst) + Len(rxring) = Ahead
  BY Numbers DEF Ahead
<1>3. Covered(rxring, counter + Len(burst), m)
  BY <1>1, <1>2, Numbers, CoveredWeaken DEF SlotInv
<1> DEFINE r == Append(rxring, f)
<1>4. f.kind = "train" => counter + Len(burst) + Len(rxring) <= f.no + m
  BY <1>2
<1>5. r \in Seq(Frame) /\ Len(r) = Len(rxring) + 1
  BY <1>1, AppendProperties
<1>6. Covered(r, counter + Len(burst), m)
  BY <1>1, <1>2, <1>3, <1>4, CoveredAppend
<1> QED
  BY <1>1, <1>5, <1>6

\* A frame leaves a transmission ring and is delivered or lost.  With a
\* second queue its delivery would put it in front of that queue's packets.
LEMMA SlotTransmit ==
  ASSUME TypeInv, SlotInv, OneTxQueue, NEW q \in Queues, Transmit(q)
  PROVE  SlotInv'
<1> DEFINE f == Head(txring[q])
           t == Tail(txring[q])
<1>0. /\ UNCHANGED <<burst, counter, latencyStats, sent, strays>>
      /\ \A p \in Queues : p = q
  BY DEF Transmit, rxVars, envVars, OneTxQueue
<1>1. /\ txring[q] \in Seq(Frame) /\ txring[q] # <<>>
      /\ Covered(txring[q], Ahead, strays)
      /\ Ahead + Len(txring[q]) <= sent + strays
      /\ txring'[q] = t
  BY Numbers DEF Transmit, SlotInv, TypeInv, TypeOK
<1>2. /\ Len(txring[q]) \in Nat /\ Len(txring[q]) >= 1
      /\ f \in Frame /\ f = txring[q][1]
      /\ t \in Seq(Frame) /\ Len(t) = Len(txring[q]) - 1
      /\ \A i \in 1 .. Len(t) : t[i] = txring[q][1 + i]
  BY <1>1, HeadTailProperties, EmptySeq
<1>3. Ahead \in Nat /\ sent \in Nat /\ strays \in Nat
  BY Numbers DEF Ahead
<1>4. UNCHANGED rxring \/ Delivered(f)
  BY DEF Transmit
<1> HIDE DEF f, t
<1>5. Covered(t, Ahead + 1, strays)
  <2>1. 1 + Len(t) <= Len(txring[q])
    BY <1>2
  <2> QED
    BY <1>1, <1>2, <1>3, <2>1, CoveredPart
<1>6. Ahead + 1 + Len(t) <= sent + strays
  <2>1. PICK n \in Nat : Len(t) = n - 1 /\ Ahead + n <= sent + strays
    BY <1>1, <1>2
  <2>2. Ahead \in Nat /\ sent \in Nat /\ strays \in Nat
    BY <1>3
  <2> QED
    BY <2>1, <2>2
<1>7. CASE UNCHANGED rxring
  <2>1. Ahead' = Ahead
    BY <1>0, <1>7 DEF Ahead
  <2>2. Covered(t, Ahead, strays)
    <3>1. t \in Seq(Frame) /\ Ahead + 1 \in Nat /\ Ahead \in Nat /\ strays \in Nat
      BY <1>2, <1>3
    <3> QED
      BY <1>5, <3>1, CoveredWeaken
  <2>3. Ahead + Len(t) <= sent + strays
    <3>1. Ahead \in Nat /\ Len(t) \in Nat /\ sent \in Nat /\ strays \in Nat
      BY <1>2, <1>3, LenProperties
    <3> QED
      BY <1>6, <3>1
  <2> QED
    BY <1>0, <1>1, <1>7, <2>1, <2>2, <2>3 DEF SlotInv, RowsCovered, Covered
<1>8. CASE Delivered(f)
  <2>1. f.kind = "train" => Ahead <= f.no + strays
    <3>1. f.kind = "train" => Ahead + 1 - 1 <= f.no + strays
      BY <1>1, <1>2 DEF Covered
    <3> QED
      BY <1>3, <3>1
  <2>2. PICK r \in Seq(Frame) : /\ rxring' = r /\ Len(r) = Len(rxring) + 1
                               /\ Covered(r, counter + Len(burst), strays)
    BY <1>2, <1>3, <1>8, <2>1, SlotDelivered
  <2>3. counter + Len(burst) + Len(r) = Ahead + 1
    BY <2>2, Numbers DEF Ahead
  <2>4. Ahead' = Ahead + 1
    BY <1>0, <2>2, <2>3 DEF Ahead
  <2> QED
    BY <1>0, <1>1, <1>5, <1>6, <2>2, <2>4 DEF SlotInv, RowsCovered
<1> QED
  BY <1>4, <1>7, <1>8

LEMMA SlotStray ==
  ASSUME TypeInv, SlotInv, Stray
  PROVE  SlotInv'
<1>1. PICK q \in Queues : Delivered(Arp(q))
  BY DEF Stray
<1>2. Arp(q) \in Frame /\ Arp(q).kind = "other"
  BY DEF Arp, Frame
<1>3. PICK v \in Nat : /\ strays' = v /\ v = strays + 1 /\ strays <= v
                      /\ UNCHANGED <<txring, burst, counter, latencyStats, sent>>
  BY Numbers DEF Stray, rxVars
<1>4. PICK r \in Seq(Frame) : /\ rxring' = r /\ Len(r) = Len(rxring) + 1
                             /\ Covered(r, counter + Len(burst), v)
  BY <1>1, <1>2, <1>3, SlotDelivered
<1>5. Ahead \in Nat /\ Ahead' = Ahead + 1
  <2>1. /\ Ahead \in Nat
        /\ counter + Len(burst) + Len(r) = Ahead + 1
    <3>1. /\ counter \in Nat /\ Len(burst) \in Nat /\ Len(rxring) \in Nat
          /\ Len(r) = Len(rxring) + 1
      BY <1>4, Numbers
    <3> QED
      BY <3>1 DEF Ahead
  <2> QED
    BY <1>3, <1>4, <2>1 DEF Ahead
<1>6. RowsCovered'
  <2>1. ASSUME NEW k \in DOMAIN latencyStats PROVE k <= latencyStats[k].no + (strays + 1)
    <3>1. /\ k \in Nat /\ latencyStats[k].no \in Nat /\ strays \in Nat
          /\ k <= latencyStats[k].no + strays
      BY Numbers DEF SlotInv, RowsCovered
    <3> QED
      BY <3>1
  <2> QED
    BY <1>3, <2>1 DEF RowsCovered
<1>7. Covered(burst', counter', strays')
  <2>1. Covered(burst, counter, v)
    BY <1>3, Numbers, CoveredWeaken DEF SlotInv
  <2> QED
    BY <1>3, <2>1
<1>8. ASSUME NEW p \in Queues
      PROVE  Covered(txring[p], Ahead + 1, v) /\ Ahead + 1 + Len(txring[p]) <= sent + v
  <2>1. /\ txring[p] \in Seq(Frame) /\ Len(txring[p]) \in Nat
        /\ sent \in Nat /\ strays \in Nat
        /\ Covered(txring[p], Ahead, strays) /\ Ahead + Len(txring[p]) <= sent + strays
    BY Numbers DEF SlotInv
  <2>2. Covered(txring[p], Ahead + 1, strays + 1)
    <3> SUFFICES ASSUME NEW i \in 1 .. Len(txring[p]), txring[p][i].kind = "train"
                 PROVE  Ahead + 1 + i - 1 <= txring[p][i].no + (strays + 1)
      BY DEF Covered
    <3>1. Ahead + i - 1 <= txring[p][i].no + strays
      BY <2>1 DEF Covered
    <3>2. PICK no \in Nat : no = txring[p][i].no
      BY <2>1, FrameNo
    <3>3. PICK a \in Nat : a = Ahead
      BY <1>5
    <3>4. a + i - 1 <= no + strays
      BY <3>1, <3>2, <3>3
    <3>5. a + 1 + i - 1 <= no + (strays + 1)
      BY <2>1, <3>4
    <3> QED
      BY <3>2, <3>3, <3>5
  <2>3. v = strays + 1 /\ Ahead \in Nat /\ sent \in Nat /\ strays \in Nat
    BY <1>3, <1>5, Numbers
  <2>4. PICK n \in Nat : n = Len(txring[p]) /\ Ahead + n <= sent + strays
    BY <2>1
  <2>5. Ahead + 1 + n <= sent + (strays + 1)
    <3>1. Ahead + n <= sent + strays
      BY <2>4
    <3> QED
      BY <2>3, <3>1
  <2> QED
    BY <2>2, <2>3, <2>4, <2>5
<1> QED
  BY <1>3, <1>4, <1>5, <1>6, <1>7, <1>8 DEF SlotInv

LEMMA SlotStep == TypeInv /\ SlotInv /\ OneTxQueue /\ [Next]_vars => SlotInv'
<1> SUFFICES ASSUME TypeInv, SlotInv, OneTxQueue, [Next]_vars PROVE SlotInv'
  OBVIOUS
<1>1. CASE UNCHANGED vars
  BY <1>1, SlotUnmoved DEF vars, nicVars, rxVars, envVars
<1>2. ASSUME NEW l \in Lcores, LcoreStep(l) PROVE SlotInv'
  <2>1. CASE ArpSend(l)
    <3> DEFINE q == Queue(l)
    <3>1. q \in Queues /\ Arp(q) \in Frame /\ Arp(q).kind = "other"
      BY <2>1, OwnQueue DEF ArpSend, Arp, Frame
    <3>2. /\ Enqueue(l, q, Arp(q)) /\ strays' = strays + 1 /\ sent' = sent
          /\ UNCHANGED <<rxring, burst, counter, latencyStats>>
      BY <2>1 DEF ArpSend, rxVars
    <3> HIDE DEF q
    <3>3. /\ strays + 1 \in Nat /\ strays + 1 >= strays
          /\ sent \in Nat /\ sent + (strays + 1) = sent + strays + 1
      BY Numbers
    <3> QED
      BY <3>1, <3>2, <3>3, SlotEnqueue
  <2>2. CASE TxSend(l)
    <3> DEFINE q == Queue(l)
    <3>1. q \in Queues
      BY <2>2, OwnQueue DEF TxSend
    <3>2. /\ Enqueue(l, q, Packet(q)) /\ strays' = strays /\ sent' = sent + 1
          /\ UNCHANGED <<rxring, burst, counter, latencyStats>>
      BY <2>2 DEF TxSend, rxVars
    <3> HIDE DEF q
    <3>3. Packet(q) \in Frame /\ Packet(q).no = sent
      BY <3>1, Numbers DEF Packet, Frame
    <3>4. /\ strays \in Nat /\ strays >= strays
          /\ sent + 1 \in Nat /\ (sent + 1) + strays = sent + strays + 1
      BY Numbers
    <3> QED
      BY <3>1, <3>2, <3>3, <3>4, SlotEnqueue
  <2>3. CASE ~ArpSend(l) /\ ~TxSend(l) /\ ~Record /\ ~PollStopped /\ ~PollEmpty /\ ~PollBurst
    BY <1>2, <2>3, SlotUnmoved, QuietStep
  <2>4. CASE PollStopped \/ PollEmpty \/ PollBurst
    <3>1. \E n \in 0 .. Lesser(Len(rxring), BurstRx) : Poll(n)
      <4>1. Lesser(Len(rxring), BurstRx) \in Nat
        BY Numbers, TrainAssumption DEF Lesser
      <4> QED
        BY <2>4, <4>1 DEF PollStopped, PollEmpty, PollBurst
    <3> QED
      BY <3>1, SlotPoll
  <2>5. CASE Record
    BY <2>5, SlotRecord
  <2> QED
    BY <2>1, <2>2, <2>3, <2>4, <2>5
<1>3. CASE Tick
  BY <1>3, SlotUnmoved DEF Tick, nicVars, rxVars
<1> QED
  BY <1>1, <1>2, <1>3, SlotTransmit, SlotStray DEF Next, Ended

\* runtime.c:281-283.  With one transmission queue no row of the table is
\* ahead of the packet it measures by more than the number of frames that
\* are not packets of the train, whatever the sizes and losses.
THEOREM SlotsCorrect == Spec => []SlotNeverAhead
<1>1. ASSUME OneTxQueue PROVE Spec => []SlotInv
  <2>1. TypeInv /\ SlotInv /\ [Next]_vars => SlotInv'
    BY <1>1, SlotStep
  <2>2. Spec => []TypeInv
    BY TypeInit, TypeStep, PTL DEF Spec
  <2> QED
    BY <2>1, <2>2, SlotInit, PTL DEF Spec
<1>2. CASE OneTxQueue
  <2>1. SlotInv => SlotNeverAhead
    BY DEF SlotInv, RowsCovered, SlotNeverAhead
  <2> QED
    BY <1>1, <1>2, <2>1, PTL
<1>3. CASE ~OneTxQueue
  <2>1. SlotNeverAhead
    BY <1>3 DEF SlotNeverAhead
  <2> QED
    BY <2>1, PTL
<1> QED
  BY <1>2, <1>3

-----------------------------------------------------------------------------
(***************************************************************************)
(* Buffers.  MbufsConserved is inductive beside the types, for those say   *)
(* who has a buffer in its hand: what a ring or a hand gains, another of   *)
(* them or the pool loses.                                                 *)
(***************************************************************************)
Lengths == [q \in Queues |-> Len(txring[q])]

\* Finitely many queues, since each of finitely many lcores lists its own.
LEMMA QueuesFinite == IsFiniteSet(Queues)
  BY ListedFinite, TrainAssumption DEF Queues

LEMMA HeldNumbers ==
  ASSUME TypeInv
  PROVE  /\ IsFiniteSet(Lcores)
         /\ held \in [Lcores -> Nat] /\ held \in [Lcores -> 0 .. 1]
         /\ \A l \in Lcores : held[l] \in Nat
<1>1. held \in [Lcores -> {0, 1}]
  BY DEF TypeInv, TypeOK
<1>2. {0, 1} = 0 .. 1 /\ 0 .. 1 \subseteq Nat
  OBVIOUS
<1>3. held \in [Lcores -> 0 .. 1]
  BY <1>1, <1>2
<1>4. held \in [Lcores -> Nat]
  BY <1>2, <1>3
<1> QED
  BY <1>3, <1>4, TrainAssumption

\* The sums move by as much as the one ring, or the one hand, that changes.
LEMMA RingsChange ==
  ASSUME TypeInv, NEW q \in Queues, NEW n \in Nat
  PROVE  /\ SumFunction([Lengths EXCEPT ![q] = n]) + Lengths[q] = SumFunction(Lengths) + n
         /\ SumFunction([Lengths EXCEPT ![q] = n]) \in Nat /\ SumFunction(Lengths) \in Nat
<1>1. Lengths \in [Queues -> Nat]
  BY Numbers DEF Lengths
<1> QED
  BY <1>1, QueuesFinite, TotalChange

LEMMA HandsChange ==
  ASSUME TypeInv, NEW l \in Lcores, NEW n \in Nat
  PROVE  /\ SumFunction([held EXCEPT ![l] = n]) + held[l] = SumFunction(held) + n
         /\ SumFunction([held EXCEPT ![l] = n]) \in Nat /\ SumFunction(held) \in Nat
  BY HeldNumbers, TotalChange

\* What a ring and a hand have after a step, they and the pool had before.
LEMMA MbufsMoved ==
  ASSUME TypeInv, MbufsConserved, NEW q \in Queues, NEW l \in Lcores,
         NEW s \in Seq(Frame), NEW h \in Nat, NEW g \in Nat,
         txring' = [txring EXCEPT ![q] = s], held' = [held EXCEPT ![l] = h], free' = g,
         g + Len(s) + h = free + Len(txring[q]) + held[l]
  PROVE  MbufsConserved'
<1>1. Lengths \in [Queues -> Nat] /\ Lengths[q] = Len(txring[q])
  BY Numbers DEF Lengths
<1>2. Len(s) \in Nat
  BY LenProperties
<1>3. [p \in Queues |-> Len(txring'[p])] = [Lengths EXCEPT ![q] = Len(s)]
  BY DEF TypeInv, TypeOK, Lengths
<1>4. held \in [Lcores -> Nat] /\ IsFiniteSet(Lcores) /\ held[l] \in Nat
  BY HeldNumbers
<1> DEFINE rings  == SumFunction(Lengths)
           rings2 == SumFunction([Lengths EXCEPT ![q] = Len(s)])
           hands  == SumFunction(held)
           hands2 == SumFunction([held EXCEPT ![l] = h])
<1>5. rings2 + Lengths[q] = rings + Len(s) /\ rings2 \in Nat /\ rings \in Nat
  BY <1>2, RingsChange
<1>6. hands2 + held[l] = hands + h /\ hands2 \in Nat /\ hands \in Nat
  BY HandsChange
<1>7. free + rings + hands = PoolSize /\ free \in Nat /\ PoolSize \in Nat
  BY TrainAssumption DEF MbufsConserved, Lengths, TypeInv, TypeOK
<1>8. SUFFICES g + rings2 + hands2 = PoolSize
  BY <1>3 DEF MbufsConserved
<1> HIDE DEF rings, rings2, hands, hands2
<1>9. PICK a \in Nat, b \in Nat, c \in Nat : a = Len(txring[q]) /\ b = held[l] /\ c = Len(s)
  BY <1>1, <1>2, <1>4
<1>10. rings2 + a = rings + c /\ hands2 + b = hands + h /\ g + c + h = free + a + b
  BY <1>1, <1>5, <1>6, <1>9
<1> QED
  BY <1>5, <1>6, <1>7, <1>10

\* A lcore takes a buffer from the pool, or gives it back.
LEMMA MbufsTaken ==
  ASSUME TypeInv, MbufsConserved, NEW q \in Queues, NEW l \in Lcores, UNCHANGED txring,
         \/ free > 0 /\ Alloc(l)
         \/ held[l] = 1 /\ free' = free + 1 /\ held' = [held EXCEPT ![l] = @ - 1]
  PROVE  MbufsConserved'
<1>1. /\ txring[q] \in Seq(Frame) /\ Len(txring[q]) \in Nat /\ free \in Nat /\ held[l] \in {0, 1}
      /\ txring' = [txring EXCEPT ![q] = txring[q]]
  BY Numbers DEF TypeInv, TypeOK
<1>2. PICK n \in Nat, b \in Nat : n = Len(txring[q]) /\ b = held[l]
  BY <1>1
<1>3. CASE free > 0 /\ Alloc(l)
  <2>1. free - 1 \in Nat /\ b + 1 \in Nat /\ (free - 1) + n + (b + 1) = free + n + b
    BY <1>1, <1>3
  <2>2. free' = free - 1 /\ held' = [held EXCEPT ![l] = b + 1]
    BY <1>2, <1>3 DEF Alloc
  <2> QED
    BY <1>1, <1>2, <2>1, <2>2, MbufsMoved
<1>4. CASE held[l] = 1 /\ free' = free + 1 /\ held' = [held EXCEPT ![l] = @ - 1]
  <2>1. free + 1 \in Nat /\ (free + 1) + n + 0 = free + n + 1
    BY <1>1
  <2>2. held' = [held EXCEPT ![l] = 0] /\ held[l] = 1 /\ free' = free + 1
    BY <1>4
  <2> QED
    BY <1>1, <1>2, <2>1, <2>2, MbufsMoved
<1> QED
  BY <1>3, <1>4

LEMMA MbufsEnqueue ==
  ASSUME TypeInv, MbufsConserved, NEW l \in Lcores, NEW q \in Queues, NEW f \in Frame,
         held[l] = 1, Enqueue(l, q, f), free' = free
  PROVE  MbufsConserved'
<1>1. txring[q] \in Seq(Frame) /\ Len(txring[q]) \in Nat /\ free \in Nat
  BY Numbers DEF TypeInv, TypeOK
<1>2. /\ Append(txring[q], f) \in Seq(Frame)
      /\ Len(Append(txring[q], f)) = Len(txring[q]) + 1
  BY <1>1, AppendProperties
<1>3. PICK n \in Nat : n = Len(txring[q])
  BY <1>1
<1>4. free + (n + 1) + 0 = free + n + 1
  BY <1>1
<1>5. txring' = [txring EXCEPT ![q] = Append(txring[q], f)] /\ held' = [held EXCEPT ![l] = 0]
  BY DEF Enqueue
<1> QED
  BY <1>1, <1>2, <1>3, <1>4, <1>5, MbufsMoved

LEMMA MbufsTransmit ==
  ASSUME TypeInv, MbufsConserved, NEW q \in Queues, Transmit(q)
  PROVE  MbufsConserved'
<1>1. /\ txring[q] \in Seq(Frame) /\ Len(txring[q]) \in Nat /\ free \in Nat /\ txring[q] # <<>>
      /\ RxLcore \in Lcores
  BY Numbers, TrainAssumption DEF TypeInv, TypeOK, Transmit
<1>6. held[RxLcore] \in Nat /\ held' = [held EXCEPT ![RxLcore] = held[RxLcore]]
  BY HeldNumbers, TrainAssumption DEF Transmit, lcoreVars
<1>2. Tail(txring[q]) \in Seq(Frame) /\ Len(Tail(txring[q])) = Len(txring[q]) - 1
  BY <1>1, HeadTailProperties
<1>3. PICK n \in Nat, b \in Nat : n = Len(txring[q]) /\ b = held[RxLcore]
  BY <1>1, <1>6
<1>4. free + 1 \in Nat /\ (free + 1) + (n - 1) + b = free + n + b
  BY <1>1
<1>5. txring' = [txring EXCEPT ![q] = Tail(txring[q])] /\ free' = free + 1
  BY DEF Transmit
<1> QED
  BY <1>1, <1>2, <1>3, <1>4, <1>5, <1>6, MbufsMoved

LEMMA MbufsStep == TypeInv /\ MbufsConserved /\ [Next]_vars => MbufsConserved'
<1> SUFFICES ASSUME TypeInv, MbufsConserved, [Next]_vars PROVE MbufsConserved'
  OBVIOUS
<1>1. CASE UNCHANGED <<free, txring, held>>
  BY <1>1 DEF MbufsConserved
<1>2. ASSUME NEW l \in Lcores, LcoreStep(l) PROVE MbufsConserved'
  <2>1. CASE ArpSend(l)
    <3>1. Queue(l) \in Queues /\ Arp(Queue(l)) \in Frame /\ held[l] = 1
      BY <2>1, OwnQueue DEF ArpSend, Arp, Frame, TypeInv, HeldOK
    <3> QED
      BY <2>1, <3>1, MbufsEnqueue DEF ArpSend
  <2>2. CASE TxSend(l)
    <3>1. Queue(l) \in Queues /\ held[l] = 1
      BY <2>2, OwnQueue DEF TxSend, TypeInv, HeldOK
    <3>2. Packet(Queue(l)) \in Frame
      BY <3>1, Numbers DEF Packet, Frame
    <3> QED
      BY <2>2, <3>1, <3>2, MbufsEnqueue DEF TxSend
  <2>3. CASE ArpAlloc(l) \/ TxAlloc(l)
    <3>1. TxQueues[l][txi[l]] \in Queues
      BY <2>3, QueueType DEF ArpAlloc, Announcing, TxAlloc, TypeInv, TxIndexOK
    <3> QED
      BY <2>3, <3>1, MbufsTaken DEF ArpAlloc, TxAlloc
  <2>4. CASE TxFree(l)
    <3>1. Queue(l) \in Queues /\ held[l] = 1
      BY <2>4, OwnQueue DEF TxFree, TypeInv, HeldOK
    <3> QED
      BY <2>4, <3>1, MbufsTaken DEF TxFree
  <2>5. CASE ArpFail(l) \/ ArpDone(l) \/ TxNoBuffer(l) \/ TxRefused(l) \/ WaitEnd(l) \/ GiveUp(l)
    BY <1>1, <2>5 DEF ArpFail, ArpDone, TxNoBuffer, TxRefused, WaitEnd, GiveUp, lcoreVars, nicVars
  <2>6. CASE RxStep
    BY <1>1, <2>6 DEF RxStep, PollStopped, PollEmpty, PollBurst, Poll, Record, ReportDone,
                      lcoreVars, nicVars
  <2> QED
    BY <1>2, <2>1, <2>2, <2>3, <2>4, <2>5, <2>6 DEF LcoreStep
<1>3. CASE Stray \/ Tick \/ UNCHANGED vars
  BY <1>1, <1>3 DEF Stray, Tick, vars, nicVars, lcoreVars
<1> QED
  BY <1>2, <1>3, MbufsTransmit DEF Next, Ended

LEMMA MbufsInit == Init => MbufsConserved
<1> SUFFICES ASSUME Init PROVE MbufsConserved
  OBVIOUS
<1>1. [q \in Queues |-> Len(txring[q])] = [q \in Queues |-> 0] /\ held = [l \in Lcores |-> 0]
  BY EmptySeq DEF Init
<1>2. SumFunction([q \in Queues |-> Len(txring[q])]) = 0
  BY <1>1, QueuesFinite, TotalZero
<1>3. SumFunction(held) = 0
  BY <1>1, TrainAssumption, TotalZero
<1> QED
  BY <1>2, <1>3, TrainAssumption DEF Init, MbufsConserved

\* runtime.c:542, 564-573, 753, 776.  On every path of every transmitter,
\* whatever the number of lcores and queues and however their allocations,
\* bursts and frees interleave, no buffer is lost and none is freed twice.
THEOREM BuffersKept == Spec => []MbufsConserved
<1>1. Spec => []TypeInv
  BY TypeInit, TypeStep, PTL DEF Spec
<1> QED
  BY <1>1, MbufsInit, MbufsStep, PTL DEF Spec

-----------------------------------------------------------------------------
(***************************************************************************)
(* The end of the process.  ReportIsComplete is not inductive: what keeps  *)
(* the second wait of a transmitter from ending during the report is how   *)
(* much of it is left in every earlier state.  Once a lcore is in its      *)
(* second wait the receiver's next poll is its last; at most one tick can  *)
(* pass before that poll, and the report that follows is shorter than what *)
(* is left then.                                                           *)
(***************************************************************************)
Slack == IF polled THEN 0 ELSE 1

GraceInv ==
  WaitTime >= ReportTime + 2 =>
    /\ pc[RxLcore] = "report" => timer[RxLcore] <= ReportTime
    /\ \A l \in Lcores : pc[l] = "grace" =>
         /\ ~continueRX
         /\ pc[RxLcore] = "report" => timer[RxLcore] < timer[l]
         /\ pc[RxLcore] \notin {"report", "wait", "grace"} => WaitTime <= timer[l] + Slack
    /\ exitCode = "1" => pc[RxLcore] \in {"wait", "grace"}

LEMMA TimeNumbers ==
  ASSUME TypeInv
  PROVE  /\ WaitTime \in Nat /\ ReportTime \in Nat /\ RxLcore \in Lcores
         /\ \A l \in Lcores : timer[l] \in Nat
         /\ Slack \in {0, 1}
  BY TrainAssumption DEF TypeInv, TypeOK, Slack

\* Where a lcore neither waits nor prints.
Busy == {"arp", "arpsend", "poll", "record", "tx", "send", "free"}

\* A lcore other than the receiver, or the receiver itself, goes on within
\* its loop: neither a wait, nor the report, nor the clock is concerned.
LEMMA GraceBusy ==
  ASSUME TypeInv, GraceInv, NEW l \in Lcores, pc[l] \in Busy,
         NEW s \in Busy, pc' = [pc EXCEPT ![l] = s],
         ~continueRX => ~continueRX', timer' = timer,
         continueRX \/ polled' = polled, exitCode' # "1" \/ exitCode' = exitCode
  PROVE  GraceInv'
<1> SUFFICES ASSUME WaitTime >= ReportTime + 2
             PROVE  /\ (pc[RxLcore] = "report" => timer[RxLcore] <= ReportTime)'
                    /\ \A k \in Lcores : (pc[k] = "grace" =>
                         /\ ~continueRX
                         /\ pc[RxLcore] = "report" => timer[RxLcore] < timer[k]
                         /\ pc[RxLcore] \notin {"report", "wait", "grace"} => WaitTime <= timer[k] + Slack)'
                    /\ (exitCode = "1" => pc[RxLcore] \in {"wait", "grace"})'
  BY DEF GraceInv
<1>1. pc \in [Lcores -> Places] /\ RxLcore \in Lcores
  BY TrainAssumption DEF TypeInv, TypeOK
<1>2. \A k \in Lcores : pc'[k] = IF k = l THEN s ELSE pc[k]
  BY <1>1
<1> USE DEF Busy
<1>3. /\ pc'[RxLcore] = "report" => pc[RxLcore] = "report"
      /\ pc'[RxLcore] \notin {"report", "wait", "grace"} => pc[RxLcore] \notin {"report", "wait", "grace"}
      /\ \A k \in Lcores : pc'[k] = "grace" => pc[k] = "grace"
      /\ pc[RxLcore] \in {"wait", "grace"} => pc'[RxLcore] \in {"wait", "grace"}
  BY <1>1, <1>2
<1>4. pc'[RxLcore] = "report" => timer'[RxLcore] <= ReportTime
  BY <1>3 DEF GraceInv
<1>5. ASSUME NEW k \in Lcores, pc'[k] = "grace"
      PROVE  /\ ~continueRX'
             /\ pc'[RxLcore] = "report" => timer'[RxLcore] < timer'[k]
             /\ pc'[RxLcore] \notin {"report", "wait", "grace"} => WaitTime <= timer'[k] + Slack'
  <2>1. pc[k] = "grace" /\ ~continueRX
    BY <1>3, <1>5 DEF GraceInv
  <2>2. Slack' = Slack
    BY <2>1 DEF Slack
  <2> QED
    BY <1>3, <2>1, <2>2 DEF GraceInv
<1>6. exitCode' = "1" => pc'[RxLcore] \in {"wait", "grace"}
  BY <1>3 DEF GraceInv
<1> QED
  BY <1>4, <1>5, <1>6

LEMMA GraceInit == Init => GraceInv
  BY TrainAssumption DEF Init, GraceInv

\* The announcements.
LEMMA GraceArp ==
  ASSUME TypeInv, GraceInv, NEW l \in Lcores,
         ArpAlloc(l) \/ ArpSend(l) \/ ArpFail(l) \/ ArpDone(l)
  PROVE  GraceInv'
<1>1. CASE ArpAlloc(l)
  BY <1>1, GraceBusy DEF ArpAlloc, Announcing, Busy, rxVars, envVars
<1>2. CASE ArpSend(l)
  BY <1>2, GraceBusy DEF ArpSend, Busy, rxVars
<1>3. CASE ArpFail(l)
  BY <1>3 DEF ArpFail, GraceInv, Slack, lcoreVars, rxVars, envVars
<1>4. CASE ArpDone(l)
  BY <1>4, GraceBusy DEF ArpDone, AfterTx, Busy, rxVars, envVars
<1> QED
  BY <1>1, <1>2, <1>3, <1>4

\* The receiver.  Its last poll begins the report.
LEMMA GraceRx ==
  ASSUME TypeInv, GraceInv, RxStep, exitCode = "none"
  PROVE  GraceInv'
<1>0. /\ pc \in [Lcores -> Places]
      /\ timer \in [Lcores -> Nat] /\ RxLcore \in Lcores
  BY TrainAssumption DEF TypeInv, TypeOK
<1>1. CASE PollStopped
  <2>1. /\ pc[RxLcore] = "poll" /\ polled' = TRUE /\ exitCode' = exitCode
        /\ continueRX' = continueRX
        /\ pc' = [pc EXCEPT ![RxLcore] = "report"]
        /\ timer' = [timer EXCEPT ![RxLcore] = ReportTime]
    BY <1>1 DEF PollStopped, Poll
  <2>2. pc'[RxLcore] = "report" /\ timer'[RxLcore] = ReportTime
    BY <1>0, <2>1
  <2> SUFFICES ASSUME WaitTime >= ReportTime + 2, NEW k \in Lcores, pc'[k] = "grace"
               PROVE  ~continueRX' /\ ReportTime < timer'[k]
    BY <1>0, <2>1, <2>2, TimeNumbers DEF GraceInv
  <2>3. k # RxLcore /\ pc[k] = "grace" /\ timer'[k] = timer[k]
    BY <1>0, <2>1, <2>2
  <2>4. ~continueRX /\ WaitTime <= timer[k] + Slack
    BY <2>1, <2>3 DEF GraceInv
  <2>5. PICK m \in Nat : m = timer[k]
    BY TimeNumbers
  <2>6. ReportTime < m
    BY <2>4, <2>5, TimeNumbers
  <2> QED
    BY <2>1, <2>3, <2>4, <2>5, <2>6
<1>2. CASE PollEmpty
  BY <1>0, <1>2, GraceBusy DEF PollEmpty, Poll, AfterRx, Busy
<1>3. CASE PollBurst
  BY <1>0, <1>3, GraceBusy DEF PollBurst, Poll, Busy
<1>4. CASE Record
  <2>1. /\ pc[RxLcore] = "record" /\ pc' = [pc EXCEPT ![RxLcore] = AfterRx]
        /\ UNCHANGED <<timer, exitCode, polled>>
    BY <1>4 DEF Record, envVars
  <2>2. ~continueRX => ~continueRX'
    BY <1>4 DEF Record
  <2>3. AfterRx \in {"poll", "tx"}
    BY DEF AfterRx
  <2> QED
    BY <1>0, <2>1, <2>2, <2>3, GraceBusy DEF Busy
<1>5. CASE ReportDone
  BY <1>5 DEF ReportDone, GraceInv, Slack, lcoreVars, rxVars, envVars
<1> QED
  BY <1>1, <1>2, <1>3, <1>4, <1>5 DEF RxStep

\* The transmitters.
LEMMA GraceTx ==
  ASSUME TypeInv, GraceInv, NEW l \in Lcores, exitCode = "none",
         \/ TxAlloc(l) \/ TxNoBuffer(l) \/ TxSend(l) \/ TxRefused(l) \/ TxFree(l)
         \/ WaitEnd(l) \/ GiveUp(l)
  PROVE  GraceInv'
<1>0. /\ pc \in [Lcores -> Places]
      /\ timer \in [Lcores -> Nat] /\ RxLcore \in Lcores
  BY TrainAssumption DEF TypeInv, TypeOK
<1>1. ASSUME pc[l] \in {"tx", "send", "free"}, NextQueue(l), timer' = timer,
             continueRX' = continueRX, polled' = polled, exitCode' = exitCode
      PROVE  GraceInv'
  BY <1>1, NextQueueType, GraceBusy DEF Busy
<1>2. CASE TxSend(l) /\ timer' = [timer EXCEPT ![l] = WaitTime] /\ pc' = [pc EXCEPT ![l] = "wait"]
  <2>1. continueRX' = continueRX /\ polled' = polled /\ exitCode' = exitCode /\ pc[l] = "send"
    BY <1>2 DEF TxSend, rxVars
  <2>2. \A k \in Lcores : k # l => pc'[k] = pc[k] /\ timer'[k] = timer[k]
    BY <1>0, <1>2
  <2>3. pc'[l] = "wait"
    BY <1>0, <1>2
  <2>4. pc'[RxLcore] = "report" => l # RxLcore
    BY <2>3
  <2> QED
    BY <1>0, <2>1, <2>2, <2>3, <2>4 DEF GraceInv, Slack
<1>3. CASE TxSend(l)
  BY <1>1, <1>2, <1>3 DEF TxSend, rxVars
<1>4. CASE TxNoBuffer(l) \/ TxFree(l)
  BY <1>1, <1>4 DEF TxNoBuffer, TxFree, rxVars, envVars
<1>7. CASE TxAlloc(l) \/ TxRefused(l)
  BY <1>7, GraceBusy DEF TxAlloc, TxRefused, Busy, rxVars, envVars
<1>5. CASE WaitEnd(l)
  <2>1. /\ pc' = [pc EXCEPT ![l] = "grace"] /\ timer' = [timer EXCEPT ![l] = WaitTime]
        /\ ~continueRX' /\ polled' = polled /\ exitCode' = exitCode /\ pc[l] = "wait"
    BY <1>5 DEF WaitEnd, envVars
  <2>2. /\ \A k \in Lcores : k # l => pc'[k] = pc[k] /\ timer'[k] = timer[k]
        /\ pc'[l] = "grace" /\ timer'[l] = WaitTime
    BY <1>0, <2>1
  <2>3. WaitTime <= WaitTime + Slack
    BY TimeNumbers
  <2>4. ASSUME WaitTime >= ReportTime + 2, pc[RxLcore] = "report"
        PROVE  timer[RxLcore] < WaitTime
    <3>1. timer[RxLcore] <= ReportTime /\ timer[RxLcore] \in Nat
      BY <2>4, TimeNumbers DEF GraceInv
    <3> QED
      BY <2>4, <3>1, TimeNumbers
  <2>5. pc'[RxLcore] = "report" => RxLcore # l /\ pc[RxLcore] = "report"
    BY <1>0, <2>2
  <2> SUFFICES ASSUME WaitTime >= ReportTime + 2
               PROVE  /\ pc'[RxLcore] = "report" => timer'[RxLcore] <= ReportTime
                      /\ \A k \in Lcores : pc'[k] = "grace" =>
                           /\ ~continueRX'
                           /\ pc'[RxLcore] = "report" => timer'[RxLcore] < timer'[k]
                           /\ pc'[RxLcore] \notin {"report", "wait", "grace"} => WaitTime <= timer'[k] + Slack'
                      /\ exitCode' = "1" => pc'[RxLcore] \in {"wait", "grace"}
    BY DEF GraceInv
  <2>6. ASSUME NEW k \in Lcores, pc'[k] = "grace"
        PROVE  /\ ~continueRX'
               /\ pc'[RxLcore] = "report" => timer'[RxLcore] < timer'[k]
               /\ pc'[RxLcore] \notin {"report", "wait", "grace"} => WaitTime <= timer'[k] + Slack'
    <3>1. CASE k = l
      BY <1>0, <2>1, <2>2, <2>3, <2>4, <2>5, <3>1 DEF Slack
    <3>2. CASE k # l
      BY <1>0, <2>1, <2>2, <2>5, <2>6, <3>2 DEF GraceInv, Slack
    <3> QED
      BY <3>1, <3>2
  <2> QED
    BY <1>0, <2>1, <2>2, <2>5, <2>6 DEF GraceInv
<1>6. CASE GiveUp(l)
  <2>1. pc[l] = "grace" /\ timer[l] = 0 /\ UNCHANGED <<pc, timer, continueRX, polled>>
    BY <1>6 DEF GiveUp, lcoreVars, rxVars, envVars
  <2>2. ASSUME WaitTime >= ReportTime + 2 PROVE pc[RxLcore] \in {"wait", "grace"}
    <3>1. ~(timer[RxLcore] < timer[l]) /\ ~(WaitTime <= timer[l] + Slack)
      BY <2>1, <2>2, TimeNumbers
    <3> QED
      BY <2>1, <2>2, <3>1 DEF GraceInv
  <2> QED
    BY <2>1, <2>2 DEF GraceInv, Slack
<1> QED
  BY <1>3, <1>4, <1>5, <1>6, <1>7

\* A tick.  It is the last one before the receiver polls, or sleeps, or
\* brings the end of the report as near as that of the wait.
LEMMA GraceTick ==
  ASSUME TypeInv, GraceInv, Tick
  PROVE  GraceInv'
<1>1. /\ polled \/ pc[RxLcore] \in {"report", "wait", "grace"}
      /\ pc[RxLcore] = "report" => timer[RxLcore] > 0
      /\ polled' = FALSE /\ UNCHANGED <<pc, continueRX, exitCode>>
  BY DEF Tick, rxVars
<1>2. \A k \in Lcores : timer'[k] = IF timer[k] > 0 THEN timer[k] - 1 ELSE 0
  BY DEF Tick
<1> SUFFICES ASSUME WaitTime >= ReportTime + 2
             PROVE  /\ pc[RxLcore] = "report" => timer'[RxLcore] <= ReportTime
                    /\ \A k \in Lcores : pc[k] = "grace" =>
                         /\ ~continueRX
                         /\ pc[RxLcore] = "report" => timer'[RxLcore] < timer'[k]
                         /\ pc[RxLcore] \notin {"report", "wait", "grace"} => WaitTime <= timer'[k] + 1
                    /\ exitCode = "1" => pc[RxLcore] \in {"wait", "grace"}
  BY <1>1 DEF GraceInv, Slack
<1>3. ASSUME pc[RxLcore] = "report"
      PROVE  timer'[RxLcore] <= ReportTime
  <2>1. timer[RxLcore] <= ReportTime
    BY <1>3 DEF GraceInv
  <2> QED
    BY <1>2, <2>1, TimeNumbers
<1>4. ASSUME NEW k \in Lcores, pc[k] = "grace", pc[RxLcore] = "report"
      PROVE  timer'[RxLcore] < timer'[k]
  <2>1. timer[RxLcore] < timer[k] /\ timer[RxLcore] > 0
    BY <1>1, <1>4 DEF GraceInv
  <2> QED
    BY <1>2, <2>1, TimeNumbers
<1>5. ASSUME NEW k \in Lcores, pc[k] = "grace", pc[RxLcore] \notin {"report", "wait", "grace"}
      PROVE  WaitTime <= timer'[k] + 1
  <2>1. WaitTime <= timer[k]
    BY <1>1, <1>5, TimeNumbers DEF GraceInv, Slack
  <2> QED
    BY <1>2, <2>1, TimeNumbers
<1> QED
  BY <1>3, <1>4, <1>5 DEF GraceInv

LEMMA GraceStep == TypeInv /\ GraceInv /\ [Next]_vars => GraceInv'
<1> SUFFICES ASSUME TypeInv, GraceInv, [Next]_vars PROVE GraceInv'
  OBVIOUS
<1>1. CASE UNCHANGED <<lcoreVars, continueRX, exitCode, polled>>
  BY <1>1 DEF GraceInv, Slack, lcoreVars
<1>2. ASSUME Running, NEW l \in Lcores, LcoreStep(l) PROVE GraceInv'
  BY <1>2, GraceArp, GraceRx, GraceTx DEF LcoreStep, Running
<1>3. CASE (\E q \in Queues : Transmit(q)) \/ Stray \/ UNCHANGED vars
  BY <1>1, <1>3 DEF Transmit, Stray, vars, rxVars, envVars
<1> QED
  BY <1>2, <1>3, GraceTick DEF Next, Ended

\* runtime.c:574-579.  When the waiting time is longer than the printing,
\* the process ends with code 1 only if the receiver itself has sent a train
\* and waits; in particular never in the middle of the report.
THEOREM ReportsComplete == Spec => []ReportIsComplete
<1>1. Spec => []TypeInv
  BY TypeInit, TypeStep, PTL DEF Spec
<1>2. Spec => []GraceInv
  BY <1>1, GraceInit, GraceStep, PTL DEF Spec
<1>3. GraceInv => ReportIsComplete
  BY DEF GraceInv, ReportIsComplete
<1> QED
  BY <1>2, <1>3, PTL

-----------------------------------------------------------------------------
(***************************************************************************)
(* Order.  The train travels through the transmission rings, the receive   *)
(* ring and the burst into the table; frames may leave it anywhere but     *)
(* never overtake a packet of their own queue.                             *)
(***************************************************************************)
SameQueue(f, g) == f.kind = "train" /\ g.kind = "train" /\ f.q = g.q

\* Of the packets of one queue, those further back in s have greater numbers.
Sorted(s) ==
  \A i, j \in 1 .. Len(s) : i < j /\ SameQueue(s[i], s[j]) => s[i].no < s[j].no

\* The packets of t are behind those of s.
Precede(s, t) ==
  \A i \in 1 .. Len(s), j \in 1 .. Len(t) : SameQueue(s[i], t[j]) => s[i].no < t[j].no

\* The packets of s are behind those of the table.
RowsPrecede(s) ==
  \A k \in DOMAIN latencyStats, i \in 1 .. Len(s) :
    s[i].kind = "train" /\ s[i].q = latencyStats[k].q => latencyStats[k].no < s[i].no

\* The packets of s have been sent.
Numbered(s) == \A i \in 1 .. Len(s) : s[i].kind = "train" => s[i].no < sent

OrderInv ==
  /\ \A k \in DOMAIN latencyStats : k < counter /\ latencyStats[k].no < sent
  /\ Sorted(burst) /\ RowsPrecede(burst) /\ Numbered(burst)
  /\ Sorted(rxring) /\ RowsPrecede(rxring) /\ Numbered(rxring)
  /\ Precede(burst, rxring)
  /\ \A q \in Queues :
       /\ Sorted(txring[q]) /\ RowsPrecede(txring[q]) /\ Numbered(txring[q])
       /\ Precede(burst, txring[q]) /\ Precede(rxring, txring[q])
       /\ \A i \in 1 .. Len(txring[q]) : txring[q][i].q = q

\* The elements of a sequence with one more frame.
LEMMA Appended ==
  ASSUME NEW s \in Seq(Frame), NEW f \in Frame
  PROVE  \A i \in 1 .. Len(Append(s, f)) :
           \/ i \in 1 .. Len(s) /\ Append(s, f)[i] = s[i]
           \/ i = Len(s) + 1 /\ Append(s, f)[i] = f
  BY LenProperties, AppendProperties

LEMMA SortedAppend ==
  ASSUME NEW s \in Seq(Frame), NEW f \in Frame, Sorted(s),
         \A i \in 1 .. Len(s) : SameQueue(s[i], f) => s[i].no < f.no
  PROVE  Sorted(Append(s, f))
<1> DEFINE t == Append(s, f)
<1>1. /\ \A i \in 1 .. Len(t) : \/ i \in 1 .. Len(s) /\ t[i] = s[i]
                                \/ i = Len(s) + 1 /\ t[i] = f
      /\ Len(s) \in Nat
  BY Appended, LenProperties
<1> SUFFICES ASSUME NEW i \in 1 .. Len(t), NEW j \in 1 .. Len(t), i < j, SameQueue(t[i], t[j])
             PROVE  t[i].no < t[j].no
  BY DEF Sorted
<1> HIDE DEF t
<1>2. i \in 1 .. Len(s) /\ t[i] = s[i]
  BY <1>1
<1> QED
  BY <1>1, <1>2 DEF Sorted

LEMMA PrecedeAppend ==
  ASSUME NEW s \in Seq(Frame), NEW f \in Frame, NEW t
  PROVE  /\ Precede(s, t) /\ (\A j \in 1 .. Len(t) : SameQueue(f, t[j]) => f.no < t[j].no)
              => Precede(Append(s, f), t)
         /\ Precede(t, s) /\ (\A j \in 1 .. Len(t) : SameQueue(t[j], f) => t[j].no < f.no)
              => Precede(t, Append(s, f))
<1> DEFINE u == Append(s, f)
<1>1. \A i \in 1 .. Len(u) : \/ i \in 1 .. Len(s) /\ u[i] = s[i]
                             \/ u[i] = f
  BY Appended
<1> HIDE DEF u
<1>2. Precede(s, t) /\ (\A j \in 1 .. Len(t) : SameQueue(f, t[j]) => f.no < t[j].no)
        => Precede(u, t)
  BY <1>1 DEF Precede
<1>3. Precede(t, s) /\ (\A j \in 1 .. Len(t) : SameQueue(t[j], f) => t[j].no < f.no)
        => Precede(t, u)
  BY <1>1 DEF Precede
<1> QED
  BY <1>2, <1>3 DEF u

LEMMA NumberedAppend ==
  ASSUME NEW s \in Seq(Frame), NEW f \in Frame
  PROVE  /\ RowsPrecede(s) /\ (\A k \in DOMAIN latencyStats :
                  f.kind = "train" /\ f.q = latencyStats[k].q => latencyStats[k].no < f.no)
              => RowsPrecede(Append(s, f))
         /\ Numbered(s) /\ (f.kind = "train" => f.no < sent) => Numbered(Append(s, f))
<1> DEFINE u == Append(s, f)
<1>1. \A i \in 1 .. Len(u) : \/ i \in 1 .. Len(s) /\ u[i] = s[i]
                             \/ u[i] = f
  BY Appended
<1> HIDE DEF u
<1>2. RowsPrecede(s) /\ (\A k \in DOMAIN latencyStats :
                  f.kind = "train" /\ f.q = latencyStats[k].q => latencyStats[k].no < f.no)
        => RowsPrecede(u)
  BY <1>1 DEF RowsPrecede
<1>3. Numbered(s) /\ (f.kind = "train" => f.no < sent) => Numbered(u)
  BY <1>1 DEF Numbered
<1> QED
  BY <1>2, <1>3 DEF u

\* t is a part of s, from its (n + 1)-th frame on.
PartOf(t, s, n) == n + Len(t) <= Len(s) /\ \A i \in 1 .. Len(t) : t[i] = s[n + i]

LEMMA OrderPart ==
  ASSUME NEW s \in Seq(Frame), NEW t \in Seq(Frame), NEW n \in Nat, PartOf(t, s, n)
  PROVE  /\ Sorted(s) => Sorted(t)
         /\ RowsPrecede(s) => RowsPrecede(t)
         /\ Numbered(s) => Numbered(t)
         /\ \A u : Precede(s, u) => Precede(t, u)
         /\ \A u : Precede(u, s) => Precede(u, t)
<1>1. /\ Len(s) \in Nat /\ Len(t) \in Nat
      /\ \A i \in 1 .. Len(t) : n + i \in 1 .. Len(s) /\ t[i] = s[n + i]
  BY LenProperties DEF PartOf
<1>2. Sorted(s) => Sorted(t)
  <2> SUFFICES ASSUME Sorted(s), NEW i \in 1 .. Len(t), NEW j \in 1 .. Len(t), i < j,
                      SameQueue(t[i], t[j])
               PROVE  t[i].no < t[j].no
    BY DEF Sorted
  <2>1. n + i < n + j
    BY <1>1
  <2> QED
    BY <1>1, <2>1 DEF Sorted
<1>3. RowsPrecede(s) => RowsPrecede(t)
  BY <1>1 DEF RowsPrecede
<1>4. Numbered(s) => Numbered(t)
  BY <1>1 DEF Numbered
<1>5. \A u : Precede(s, u) => Precede(t, u)
  BY <1>1 DEF Precede
<1>6. \A u : Precede(u, s) => Precede(u, t)
  BY <1>1 DEF Precede
<1> QED
  BY <1>2, <1>3, <1>4, <1>5, <1>6

LEMMA OrderInit == Init => OrderInv
<1> SUFFICES ASSUME Init PROVE OrderInv
  OBVIOUS
<1>1. /\ DOMAIN latencyStats = {} /\ burst = <<>> /\ rxring = <<>>
      /\ \A q \in Queues : txring[q] = <<>>
  BY DEF Init
<1>2. Len(<<>>) = 0
  BY EmptySeq
<1> QED
  BY <1>1, <1>2 DEF OrderInv, Sorted, RowsPrecede, Numbered, Precede

\* A frame enters a transmission ring.
LEMMA OrderEnqueue ==
  ASSUME TypeInv, OrderInv, NEW l \in Lcores, NEW q \in Queues, NEW f \in Frame, f.q = q,
         Enqueue(l, q, f),
         f.kind = "train" => f.no = sent, NEW u \in Nat, sent' = u, sent <= u,
         f.kind = "train" => f.no < u,
         UNCHANGED <<rxring, burst, counter, latencyStats>>
  PROVE  OrderInv'
<1>0. \A n \in Nat : n < sent => n < u
  BY Numbers
<1>1. ASSUME NEW s \in Seq(Frame), Numbered(s)
      PROVE  \A i \in 1 .. Len(s) : /\ s[i].kind = "train" => s[i].no < u
                                    /\ SameQueue(s[i], f) => s[i].no < f.no
  BY <1>0, <1>1, FrameNo DEF Numbered, SameQueue
<1>2. \A k \in DOMAIN latencyStats :
         /\ k < counter /\ latencyStats[k].no < u
         /\ f.kind = "train" => latencyStats[k].no < f.no
  BY <1>0, Numbers DEF OrderInv
<1>3. /\ burst \in Seq(Frame) /\ Numbered(burst)
      /\ rxring \in Seq(Frame) /\ Numbered(rxring)
      /\ \A p \in Queues : txring[p] \in Seq(Frame) /\ Numbered(txring[p])
  BY Numbers DEF OrderInv
<1>4. ASSUME NEW p \in Queues
      PROVE  /\ Sorted(txring'[p]) /\ RowsPrecede(txring'[p])
             /\ \A i \in 1 .. Len(txring'[p]) : txring'[p][i].kind = "train" => txring'[p][i].no < u
             /\ Precede(burst, txring'[p]) /\ Precede(rxring, txring'[p])
             /\ \A i \in 1 .. Len(txring'[p]) : txring'[p][i].q = p
  <2>1. CASE p # q
    <3>1. txring'[p] = txring[p]
      BY <2>1 DEF Enqueue, TypeInv, TypeOK
    <3> QED
      BY <1>1, <1>3, <3>1 DEF OrderInv
  <2>2. CASE p = q
    <3>1. txring'[p] = Append(txring[p], f)
      BY <2>2 DEF Enqueue, TypeInv, TypeOK
    <3>2. Sorted(Append(txring[p], f))
      BY <1>1, <1>3, SortedAppend DEF OrderInv
    <3>3. RowsPrecede(Append(txring[p], f))
      BY <1>2, <1>3, NumberedAppend DEF OrderInv
    <3>4. Precede(burst, Append(txring[p], f)) /\ Precede(rxring, Append(txring[p], f))
      <4>1. /\ \A i \in 1 .. Len(burst) : SameQueue(burst[i], f) => burst[i].no < f.no
            /\ \A i \in 1 .. Len(rxring) : SameQueue(rxring[i], f) => rxring[i].no < f.no
        BY <1>1, <1>3
      <4> QED
        BY <1>3, <4>1, PrecedeAppend DEF OrderInv
    <3>5. \A i \in 1 .. Len(Append(txring[p], f)) :
             /\ Append(txring[p], f)[i].kind = "train" => Append(txring[p], f)[i].no < u
             /\ Append(txring[p], f)[i].q = p
      BY <1>1, <1>3, <2>2, Appended DEF OrderInv
    <3> QED
      BY <3>1, <3>2, <3>3, <3>4, <3>5
  <2> QED
    BY <2>1, <2>2
<1>5. Numbered(burst)' /\ Numbered(rxring)'
  BY <1>1, <1>3 DEF Numbered
<1>6. \A p \in Queues : /\ (Sorted(txring[p]))' /\ (RowsPrecede(txring[p]))'
                        /\ (Numbered(txring[p]))'
                        /\ (Precede(burst, txring[p]))' /\ (Precede(rxring, txring[p]))'
                        /\ (\A i \in 1 .. Len(txring[p]) : txring[p][i].q = p)'
  BY <1>4 DEF Sorted, RowsPrecede, Numbered, Precede
<1>7. /\ (Sorted(burst) /\ RowsPrecede(burst))'
      /\ (Sorted(rxring) /\ RowsPrecede(rxring))' /\ Precede(burst, rxring)'
  BY DEF OrderInv, Sorted, RowsPrecede, Precede
<1> QED
  BY <1>2, <1>5, <1>6, <1>7 DEF OrderInv

LEMMA OrderUnmoved ==
  ASSUME OrderInv, UNCHANGED <<txring, rxring, burst, counter, latencyStats, sent>>
  PROVE  OrderInv'
  BY DEF OrderInv, Sorted, RowsPrecede, Numbered, Precede

\* A poll cuts the receive ring in two.
LEMMA OrderPoll ==
  ASSUME TypeInv, OrderInv, NEW n \in 0 .. Lesser(Len(rxring), BurstRx), Poll(n)
  PROVE  OrderInv'
<1>0. UNCHANGED <<txring, counter, latencyStats, sent>>
  BY DEF Poll
<1>1. /\ n \in Nat /\ n <= Len(rxring) /\ rxring \in Seq(Frame) /\ Len(rxring) \in Nat
      /\ burst' \in Seq(Frame) /\ Len(burst') = n
      /\ rxring' \in Seq(Frame) /\ Len(rxring') = Len(rxring) - n
      /\ \A i \in 1 .. n : burst'[i] = rxring[i]
      /\ \A i \in 1 .. Len(rxring) - n : rxring'[i] = rxring[n + i]
  BY Numbers, PollType
<1>2. PICK b \in Seq(Frame), r \in Seq(Frame) : b = burst' /\ r = rxring'
  BY <1>1
<1>3. /\ Len(b) = n /\ Len(r) = Len(rxring) - n
      /\ \A i \in 1 .. n : b[i] = rxring[i]
      /\ \A i \in 1 .. Len(r) : r[i] = rxring[n + i]
  BY <1>1, <1>2
<1>4. PartOf(b, rxring, 0) /\ PartOf(r, rxring, n)
  <2>1. 0 + Len(b) <= Len(rxring) /\ \A i \in 1 .. Len(b) : b[i] = rxring[0 + i]
    BY <1>1, <1>3
  <2>2. n + Len(r) <= Len(rxring)
    BY <1>1, <1>3
  <2> QED
    BY <1>3, <2>1, <2>2 DEF PartOf
<1>5. ASSUME NEW t \in {b, r}
      PROVE  /\ Sorted(t) /\ RowsPrecede(t) /\ Numbered(t)
             /\ \A q \in Queues : Precede(t, txring[q])
  <2>1. PICK m \in Nat : PartOf(t, rxring, m)
    BY <1>1, <1>4
  <2> QED
    BY <1>1, <1>2, <2>1, OrderPart DEF OrderInv
<1>6. Precede(b, r)
  <2> SUFFICES ASSUME NEW i \in 1 .. Len(b), NEW j \in 1 .. Len(r), SameQueue(b[i], r[j])
               PROVE  b[i].no < r[j].no
    BY DEF Precede
  <2>1. /\ i \in 1 .. Len(rxring) /\ n + j \in 1 .. Len(rxring) /\ i < n + j
        /\ b[i] = rxring[i] /\ r[j] = rxring[n + j]
    BY <1>1, <1>3
  <2> QED
    BY <2>1 DEF OrderInv, Sorted
<1>7. \A q \in Queues : /\ Sorted(txring[q]) /\ RowsPrecede(txring[q]) /\ Numbered(txring[q])
                        /\ \A i \in 1 .. Len(txring[q]) : txring[q][i].q = q
  BY DEF OrderInv
<1>8. \A k \in DOMAIN latencyStats : k < counter /\ latencyStats[k].no < sent
  BY DEF OrderInv
<1> QED
  BY <1>0, <1>2, <1>5, <1>6, <1>7, <1>8 DEF OrderInv, Sorted, RowsPrecede, Numbered, Precede

\* What Record writes: the burst is not empty, so its slot is a new one.
LEMMA RecordRow ==
  ASSUME TypeInv, OrderInv, Record
  PROVE  \/ UNCHANGED <<latencyStats, counter>>
         \/ /\ Last(burst).kind = "train" /\ burst # <<>>
            /\ RecordSlot \in Nat /\ counter <= RecordSlot /\ counter' = RecordSlot + 1
            /\ Last(burst) = burst[Len(burst)] /\ Len(burst) \in 1 .. Len(burst)
            /\ latencyStats' = Store(latencyStats, RecordSlot,
                                     [q |-> Last(burst).q, no |-> Last(burst).no])
<1>1. Len(burst) \in Nat /\ Len(burst) >= 1 /\ counter \in Nat /\ burst # <<>>
  BY Numbers, EmptySeq DEF Record, TypeInv, BurstOK
<1>2. RecordSlot \in Nat /\ counter <= RecordSlot
  BY <1>1 DEF RecordSlot
<1> QED
  BY <1>1, <1>2 DEF Record, Recognised, NextCounter, Last

LEMMA OrderRecord ==
  ASSUME TypeInv, OrderInv, Record
  PROVE  OrderInv'
<1>0. UNCHANGED <<txring, rxring, sent>> /\ burst' = <<>> /\ Len(<<>>) = 0
  BY EmptySeq DEF Record, nicVars, envVars
<1>1. /\ (Sorted(burst) /\ RowsPrecede(burst) /\ Numbered(burst))'
      /\ Precede(burst, rxring)' /\ \A q \in Queues : Precede(burst, txring[q])'
  BY <1>0 DEF Sorted, RowsPrecede, Numbered, Precede
<1>2. CASE UNCHANGED <<latencyStats, counter>>
  BY <1>0, <1>1, <1>2 DEF OrderInv, Sorted, RowsPrecede, Numbered, Precede
<1>3. CASE ~UNCHANGED <<latencyStats, counter>>
  <2> DEFINE row == [q |-> Last(burst).q, no |-> Last(burst).no]
             n   == Len(burst)
  <2>1. /\ Last(burst).kind = "train" /\ Last(burst) = burst[n] /\ n \in 1 .. n
        /\ counter' = RecordSlot + 1
        /\ latencyStats' = Store(latencyStats, RecordSlot, row)
        /\ RecordSlot \in Nat /\ counter <= RecordSlot /\ counter \in Nat
    BY <1>3, RecordRow, Numbers
  <2>2. /\ DOMAIN latencyStats' = DOMAIN latencyStats \cup {RecordSlot}
        /\ \A k \in DOMAIN latencyStats' :
             latencyStats'[k] = IF k = RecordSlot THEN row ELSE latencyStats[k]
    BY <2>1 DEF Store
  <2>3. row.no < sent /\ row.q = burst[n].q /\ row.no = burst[n].no
    BY <2>1 DEF OrderInv, Numbered
  <2>4. \A k \in DOMAIN latencyStats' : k < counter' /\ latencyStats'[k].no < sent
    <3>1. \A k \in DOMAIN latencyStats : k \in Nat /\ k < counter /\ latencyStats[k].no < sent
      BY Numbers DEF OrderInv
    <3>2. PICK s \in Nat, c \in Nat : s = RecordSlot /\ c = counter
      BY <2>1
    <3>3. \A k \in Nat : k < c => k < s + 1
      BY <2>1, <3>2
    <3>4. s < s + 1
      OBVIOUS
    <3> QED
      BY <2>1, <2>2, <2>3, <3>1, <3>2, <3>3, <3>4
  <2>5. ASSUME NEW s, RowsPrecede(s), Precede(burst, s)
        PROVE  \A k \in DOMAIN latencyStats', i \in 1 .. Len(s) :
                 s[i].kind = "train" /\ s[i].q = latencyStats'[k].q
                    => latencyStats'[k].no < s[i].no
    <3>1. \A i \in 1 .. Len(s) : s[i].kind = "train" /\ s[i].q = row.q => row.no < s[i].no
      BY <2>1, <2>3, <2>5 DEF Precede, SameQueue
    <3> HIDE DEF row
    <3> QED
      BY <2>2, <2>5, <3>1 DEF RowsPrecede
  <2>6. RowsPrecede(rxring)' /\ \A q \in Queues : RowsPrecede(txring[q])'
    BY <1>0, <2>5 DEF OrderInv, RowsPrecede
  <2>7. /\ (Sorted(rxring) /\ Numbered(rxring))'
        /\ \A q \in Queues : /\ (Sorted(txring[q]) /\ Numbered(txring[q]))'
                             /\ Precede(rxring, txring[q])'
                             /\ (\A i \in 1 .. Len(txring[q]) : txring[q][i].q = q)'
    BY <1>0 DEF OrderInv, Sorted, Numbered, Precede
  <2> QED
    BY <1>0, <1>1, <2>4, <2>6, <2>7 DEF OrderInv
<1> QED
  BY <1>2, <1>3

\* A frame arrives in the receive ring: the first of its transmission ring,
\* or one that is not a packet.
LEMMA OrderDelivered ==
  ASSUME TypeInv, OrderInv, NEW f \in Frame, Delivered(f),
         \/ f.kind = "other"
         \/ f.q \in Queues /\ txring[f.q] # <<>> /\ f = Head(txring[f.q])
  PROVE  \E r \in Seq(Frame) :
           /\ r = rxring' /\ Sorted(r) /\ RowsPrecede(r) /\ Numbered(r) /\ Precede(burst, r)
           /\ \A q \in Queues : q # f.q \/ f.kind = "other" => Precede(r, txring[q])
           /\ \A t : Precede(rxring, t) /\ (\A j \in 1 .. Len(t) : SameQueue(f, t[j]) => f.no < t[j].no)
                       => Precede(r, t)
<1>1. rxring \in Seq(Frame) /\ rxring' = Append(rxring, f) /\ Append(rxring, f) \in Seq(Frame)
  BY Numbers, AppendProperties DEF Delivered
<1>2. ASSUME f.kind = "train"
      PROVE  /\ \A i \in 1 .. Len(rxring) : SameQueue(rxring[i], f) => rxring[i].no < f.no
             /\ \A i \in 1 .. Len(burst) : SameQueue(burst[i], f) => burst[i].no < f.no
             /\ \A k \in DOMAIN latencyStats : f.q = latencyStats[k].q => latencyStats[k].no < f.no
             /\ f.no < sent
  <2>1. /\ f.q \in Queues /\ txring[f.q] \in Seq(Frame) /\ txring[f.q] # <<>>
        /\ f = Head(txring[f.q])
    BY <1>2, Numbers
  <2>2. 1 \in 1 .. Len(txring[f.q]) /\ f = txring[f.q][1]
    BY <2>1, HeadTailProperties, EmptySeq
  <2>3. /\ Precede(rxring, txring[f.q]) /\ Precede(burst, txring[f.q])
        /\ RowsPrecede(txring[f.q]) /\ Numbered(txring[f.q])
    BY <2>1 DEF OrderInv
  <2> QED
    BY <1>2, <2>2, <2>3 DEF Precede, RowsPrecede, Numbered
<1>3. /\ \A i \in 1 .. Len(rxring) : SameQueue(rxring[i], f) => rxring[i].no < f.no
      /\ \A i \in 1 .. Len(burst) : SameQueue(burst[i], f) => burst[i].no < f.no
      /\ \A k \in DOMAIN latencyStats :
           f.kind = "train" /\ f.q = latencyStats[k].q => latencyStats[k].no < f.no
      /\ f.kind = "train" => f.no < sent
  BY <1>2 DEF SameQueue
<1>4. Sorted(Append(rxring, f))
  BY <1>1, <1>3, SortedAppend DEF OrderInv
<1>5. RowsPrecede(Append(rxring, f)) /\ Numbered(Append(rxring, f))
  BY <1>1, <1>3, NumberedAppend DEF OrderInv
<1>6. Precede(burst, Append(rxring, f))
  BY <1>1, <1>3, PrecedeAppend DEF OrderInv
<1>7. \A t : Precede(rxring, t) /\ (\A j \in 1 .. Len(t) : SameQueue(f, t[j]) => f.no < t[j].no)
                => Precede(Append(rxring, f), t)
  BY <1>1, PrecedeAppend
<1>8. ASSUME NEW q \in Queues, q # f.q \/ f.kind = "other"
      PROVE  Precede(Append(rxring, f), txring[q])
  <2>1. \A j \in 1 .. Len(txring[q]) : ~SameQueue(f, txring[q][j])
    BY <1>8 DEF OrderInv, SameQueue
  <2> QED
    BY <1>7, <2>1 DEF OrderInv
<1> QED
  BY <1>1, <1>4, <1>5, <1>6, <1>7, <1>8

LEMMA OrderStray ==
  ASSUME TypeInv, OrderInv, Stray
  PROVE  OrderInv'
<1>1. PICK q \in Queues : Delivered(Arp(q))
  BY DEF Stray
<1>2. Arp(q) \in Frame /\ Arp(q).kind = "other"
  BY DEF Arp, Frame
<1>3. UNCHANGED <<txring, burst, counter, latencyStats, sent>>
  BY DEF Stray, rxVars
<1>4. PICK r \in Seq(Frame) : /\ r = rxring' /\ Sorted(r) /\ RowsPrecede(r) /\ Numbered(r)
                              /\ Precede(burst, r)
                              /\ \A p \in Queues : Precede(r, txring[p])
  BY <1>1, <1>2, OrderDelivered
<1> QED
  BY <1>3, <1>4 DEF OrderInv, Sorted, RowsPrecede, Numbered, Precede

LEMMA OrderTransmit ==
  ASSUME TypeInv, OrderInv, NEW q \in Queues, Transmit(q)
  PROVE  OrderInv'
<1> DEFINE f == Head(txring[q])
<1>0. UNCHANGED <<burst, counter, latencyStats, sent>>
  BY DEF Transmit, rxVars, envVars
<1>1. /\ txring[q] \in Seq(Frame) /\ txring[q] # <<>> /\ Len(txring[q]) \in Nat
      /\ \A p \in Queues : txring'[p] = IF p = q THEN Tail(txring[q]) ELSE txring[p]
      /\ UNCHANGED rxring \/ Delivered(f)
  BY Numbers DEF Transmit, TypeInv, TypeOK
<1>2. PICK t \in Seq(Frame) : t = Tail(txring[q])
  BY <1>1, HeadTailProperties
<1>3. /\ f \in Frame /\ f = txring[q][1] /\ Len(txring[q]) >= 1 /\ Len(t) = Len(txring[q]) - 1
      /\ \A i \in 1 .. Len(t) : t[i] = txring[q][i + 1]
  BY <1>1, <1>2, HeadTailProperties, EmptySeq
<1>4. PartOf(t, txring[q], 1)
  BY <1>1, <1>3 DEF PartOf
<1>5. f.q = q
  BY <1>1, <1>3 DEF OrderInv
<1>6. /\ Sorted(t) /\ RowsPrecede(t) /\ Numbered(t) /\ Precede(burst, t) /\ Precede(rxring, t)
      /\ \A i \in 1 .. Len(t) : t[i].q = q
  <2>1. \A i \in 1 .. Len(t) : t[i].q = q
    BY <1>1, <1>3 DEF OrderInv
  <2> QED
    BY <1>1, <1>4, <2>1, OrderPart DEF OrderInv
<1>7. \A j \in 1 .. Len(t) : SameQueue(f, t[j]) => f.no < t[j].no
  <2> SUFFICES ASSUME NEW j \in 1 .. Len(t), SameQueue(f, t[j]) PROVE f.no < t[j].no
    OBVIOUS
  <2>1. Sorted(txring[q])
    BY DEF OrderInv
  <2>2. 1 \in 1 .. Len(txring[q]) /\ j + 1 \in 1 .. Len(txring[q]) /\ 1 < j + 1
    BY <1>1, <1>3
  <2> QED
    BY <1>3, <2>1, <2>2 DEF Sorted
<1> HIDE DEF f
<1>8. PICK r : /\ r = rxring' /\ Sorted(r) /\ RowsPrecede(r) /\ Numbered(r) /\ Precede(burst, r)
               /\ \A p \in Queues : p # q => Precede(r, txring[p])
               /\ Precede(r, t)
  <2>1. CASE UNCHANGED rxring
    BY <1>6, <2>1 DEF OrderInv
  <2>2. CASE Delivered(f)
    BY <1>1, <1>3, <1>5, <1>6, <1>7, <2>2, OrderDelivered DEF f
  <2> QED
    BY <1>1, <2>1, <2>2
<1>9. ASSUME NEW p \in Queues
      PROVE  \E s : /\ s = txring'[p] /\ Sorted(s) /\ RowsPrecede(s) /\ Numbered(s)
                    /\ Precede(burst, s) /\ Precede(r, s)
                    /\ \A i \in 1 .. Len(s) : s[i].q = p
  <2>1. CASE p = q
    BY <1>1, <1>2, <1>6, <1>8, <2>1
  <2>2. CASE p # q
    BY <1>1, <1>8, <2>2 DEF OrderInv
  <2> QED
    BY <2>1, <2>2
<1>10. /\ (Sorted(rxring) /\ RowsPrecede(rxring) /\ Numbered(rxring) /\ Precede(burst, rxring))'
       /\ (Sorted(burst) /\ RowsPrecede(burst) /\ Numbered(burst))'
       /\ (\A k \in DOMAIN latencyStats : k < counter /\ latencyStats[k].no < sent)'
  BY <1>0, <1>8 DEF OrderInv, Sorted, RowsPrecede, Numbered, Precede
<1>11. ASSUME NEW p \in Queues
       PROVE  /\ (Sorted(txring[p]) /\ RowsPrecede(txring[p]) /\ Numbered(txring[p]))'
              /\ (Precede(burst, txring[p]) /\ Precede(rxring, txring[p]))'
              /\ (\A i \in 1 .. Len(txring[p]) : txring[p][i].q = p)'
  <2>1. PICK s : /\ s = txring'[p] /\ Sorted(s) /\ RowsPrecede(s) /\ Numbered(s)
                 /\ Precede(burst, s) /\ Precede(r, s)
                 /\ \A i \in 1 .. Len(s) : s[i].q = p
    BY <1>9
  <2>2. (Sorted(txring[p]) /\ RowsPrecede(txring[p]) /\ Numbered(txring[p]))'
    BY <1>0, <2>1 DEF Sorted, RowsPrecede, Numbered
  <2>3. (Precede(burst, txring[p]) /\ Precede(rxring, txring[p]))'
    BY <1>0, <1>8, <2>1 DEF Precede
  <2> QED
    BY <2>1, <2>2, <2>3
<1> QED
  BY <1>10, <1>11 DEF OrderInv

LEMMA OrderStep == TypeInv /\ OrderInv /\ [Next]_vars => OrderInv'
<1> SUFFICES ASSUME TypeInv, OrderInv, [Next]_vars PROVE OrderInv'
  OBVIOUS
<1>1. CASE UNCHANGED <<nicVars, burst, counter, latencyStats, sent>>
  BY <1>1, OrderUnmoved DEF nicVars
<1>2. ASSUME NEW l \in Lcores, LcoreStep(l) PROVE OrderInv'
  <2>1. CASE ArpSend(l)
    <3> DEFINE q == Queue(l)
    <3>1. q \in Queues /\ Arp(q) \in Frame /\ Arp(q).kind = "other" /\ Arp(q).q = q
      BY <2>1, OwnQueue DEF ArpSend, Arp, Frame
    <3>2. /\ Enqueue(l, q, Arp(q)) /\ sent' = sent /\ sent \in Nat /\ sent <= sent
          /\ UNCHANGED <<rxring, burst, counter, latencyStats>>
      BY <2>1, Numbers DEF ArpSend, rxVars
    <3> HIDE DEF q
    <3> QED
      BY <3>1, <3>2, OrderEnqueue
  <2>2. CASE TxSend(l)
    <3> DEFINE q == Queue(l)
    <3>1. q \in Queues
      BY <2>2, OwnQueue DEF TxSend
    <3>2. /\ Enqueue(l, q, Packet(q)) /\ sent' = sent + 1
          /\ UNCHANGED <<rxring, burst, counter, latencyStats>>
      BY <2>2 DEF TxSend, rxVars
    <3> HIDE DEF q
    <3>3. Packet(q) \in Frame /\ Packet(q).no = sent /\ Packet(q).q = q
      BY <3>1, Numbers DEF Packet, Frame
    <3>4. sent + 1 \in Nat /\ sent <= sent + 1 /\ sent < sent + 1
      BY Numbers
    <3> QED
      BY <3>1, <3>2, <3>3, <3>4, OrderEnqueue
  <2>3. CASE ~ArpSend(l) /\ ~TxSend(l) /\ ~Record /\ ~PollStopped /\ ~PollEmpty /\ ~PollBurst
    BY <1>2, <2>3, OrderUnmoved, QuietStep
  <2>4. CASE PollStopped \/ PollEmpty \/ PollBurst
    <3>1. \E n \in 0 .. Lesser(Len(rxring), BurstRx) : Poll(n)
      <4>1. Lesser(Len(rxring), BurstRx) \in Nat
        BY Numbers, TrainAssumption DEF Lesser
      <4> QED
        BY <2>4, <4>1 DEF PollStopped, PollEmpty, PollBurst
    <3> QED
      BY <3>1, OrderPoll
  <2>5. CASE Record
    BY <2>5, OrderRecord
  <2> QED
    BY <2>1, <2>2, <2>3, <2>4, <2>5
<1>3. CASE Tick \/ UNCHANGED vars
  BY <1>1, <1>3 DEF Tick, vars, rxVars, envVars
<1> QED
  BY <1>2, <1>3, OrderTransmit, OrderStray DEF Next, Ended

-----------------------------------------------------------------------------
(***************************************************************************)
(* Enough buffers.  An announcement fails, and ends the process, only when *)
(* no buffer is left or its ring is full.                                  *)
(***************************************************************************)

\* The lcores that transmit.
TxLcores == {l \in Lcores : TxQueues[l] # <<>>}

\* A buffer is left when all rings but one are full and every other lcore
\* that transmits has one in its hand.
EnoughBuffers == Cardinality(Queues) * TxRing + Cardinality(TxLcores) <= PoolSize + TxRing

\* A ring holds no more than its size; that of a queue not yet announced is
\* empty.
RingInv ==
  /\ \A q \in Queues : Len(txring[q]) <= TxRing
  /\ \A l \in Lcores : pc[l] \in {"arp", "arpsend"} =>
       \A i \in DOMAIN TxQueues[l] : txi[l] <= i => txring[TxQueues[l][i]] = <<>>

LEMMA RingInit == Init => RingInv
<1> SUFFICES ASSUME Init PROVE RingInv
  OBVIOUS
<1>1. \A q \in Queues : txring[q] = <<>>
  BY DEF Init
<1>2. Len(<<>>) = 0 /\ 0 <= TxRing
  BY EmptySeq, TrainAssumption
<1> QED
  BY <1>1, <1>2, QueueType DEF RingInv

\* A lcore that announces or transmits puts a frame in a ring of its own.
LEMMA RingEnqueue ==
  ASSUME TypeInv, RingInv, NEW l \in Lcores, txi[l] \in DOMAIN TxQueues[l],
         NEW f \in Frame, Enqueue(l, Queue(l), f),
         \A k \in Lcores : k # l => pc'[k] = pc[k] /\ txi'[k] = txi[k],
         pc'[l] \in {"arp", "arpsend"} => pc[l] = "arpsend" /\ txi'[l] = txi[l] + 1
  PROVE  RingInv'
<1> DEFINE q == TxQueues[l][txi[l]]
<1>1. q \in Queues /\ txi[l] \in Nat
  BY QueueType DEF TypeInv, TypeOK
<1>2. \A p \in Queues : txring'[p] = IF p = q THEN Append(txring[q], f) ELSE txring[p]
  BY <1>1 DEF Enqueue, Queue, TypeInv, TypeOK
<1>3. ASSUME NEW p \in Queues PROVE Len(txring'[p]) <= TxRing
  <2>1. CASE p # q
    BY <1>2, <2>1 DEF RingInv
  <2>2. CASE p = q
    <3>1. txring[q] \in Seq(Frame) /\ Len(txring[q]) \in Nat /\ Len(txring[q]) < TxRing
      BY <1>1, Numbers DEF Enqueue, HasRoom, Queue
    <3>2. Len(Append(txring[q], f)) = Len(txring[q]) + 1
      BY <3>1, AppendProperties
    <3>3. Len(txring[q]) + 1 <= TxRing
      BY <3>1, TrainAssumption
    <3> QED
      BY <1>2, <2>2, <3>2, <3>3
  <2> QED
    BY <2>1, <2>2
<1>4. ASSUME NEW k \in Lcores, pc'[k] \in {"arp", "arpsend"}, NEW i \in DOMAIN TxQueues[k],
             txi'[k] <= i
      PROVE  txring'[TxQueues[k][i]] = <<>>
  <2>1. TxQueues[k][i] \in Queues
    BY QueueType
  <2>2. i \in Nat /\ txi[k] \in Nat /\ pc[k] \in {"arp", "arpsend"}
    <3>1. txi \in [Lcores -> Nat \ {0}]
      BY DEF TypeInv, TypeOK
    <3>2. i \in 1 .. Len(TxQueues[k]) /\ Len(TxQueues[k]) \in Nat
      BY QueueIndex
    <3>3. pc[k] \in {"arp", "arpsend"}
      BY <1>4
    <3> QED
      BY <3>1, <3>2, <3>3
  <2>3. txi[k] <= i /\ (k = l => txi[l] # i)
    BY <1>4, <2>2
  <2>4. txring[TxQueues[k][i]] = <<>>
    BY <1>4, <2>2, <2>3 DEF RingInv
  <2>5. TxQueues[k][i] # q
    BY <2>3, ListedOnce
  <2> QED
    BY <1>2, <2>1, <2>4, <2>5
<1> QED
  BY <1>3, <1>4 DEF RingInv

\* Steps that put no frame in a transmission ring.
LEMMA RingKept ==
  ASSUME RingInv, UNCHANGED txring,
         \A k \in Lcores : pc'[k] \in {"arp", "arpsend"} =>
            pc[k] \in {"arp", "arpsend"} /\ txi'[k] = txi[k]
  PROVE  RingInv'
  BY DEF RingInv

LEMMA RingTransmit ==
  ASSUME TypeInv, RingInv, NEW q \in Queues, Transmit(q)
  PROVE  RingInv'
<1>1. /\ txring[q] \in Seq(Frame) /\ txring[q] # <<>> /\ Len(txring[q]) \in Nat
      /\ Len(Tail(txring[q])) = Len(txring[q]) - 1
  BY Numbers, HeadTailProperties DEF Transmit
<1>2. \A p \in Queues : txring'[p] = IF p = q THEN Tail(txring[q]) ELSE txring[p]
  BY DEF Transmit, TypeInv, TypeOK
<1>3. Len(Tail(txring[q])) <= TxRing
  BY <1>1, TrainAssumption DEF RingInv
<1>4. UNCHANGED <<pc, txi>>
  BY DEF Transmit, lcoreVars
<1>5. \A l \in Lcores : \A i \in DOMAIN TxQueues[l] : TxQueues[l][i] \in Queues
  BY QueueType
<1> QED
  BY <1>1, <1>2, <1>3, <1>4, <1>5 DEF RingInv

LEMMA RingStep == TypeInv /\ RingInv /\ [Next]_vars => RingInv'
<1> SUFFICES ASSUME TypeInv, RingInv, [Next]_vars PROVE RingInv'
  OBVIOUS
<1>0. pc \in [Lcores -> Places]
      /\ txi \in [Lcores -> Nat \ {0}] /\ RxLcore \in Lcores
  BY TrainAssumption DEF TypeInv, TypeOK
<1>1. ASSUME NEW l \in Lcores, ArpSend(l) PROVE RingInv'
  <2>1. Arp(Queue(l)) \in Frame /\ txi[l] \in DOMAIN TxQueues[l] /\ Enqueue(l, Queue(l), Arp(Queue(l)))
    BY <1>1, OwnQueue DEF ArpSend, Arp, Frame
  <2>2. /\ pc[l] = "arpsend" /\ pc' = [pc EXCEPT ![l] = "arp"]
        /\ txi' = [txi EXCEPT ![l] = txi[l] + 1]
    BY <1>1 DEF ArpSend
  <2> QED
    BY <1>0, <2>1, <2>2, RingEnqueue
<1>2. ASSUME NEW l \in Lcores, TxSend(l) PROVE RingInv'
  <2>1. Queue(l) \in Queues /\ txi[l] \in DOMAIN TxQueues[l] /\ Enqueue(l, Queue(l), Packet(Queue(l)))
    BY <1>2, OwnQueue DEF TxSend
  <2>2. Packet(Queue(l)) \in Frame
    BY <2>1, Numbers DEF Packet, Frame
  <2>3. /\ \A k \in Lcores : k # l => pc'[k] = pc[k] /\ txi'[k] = txi[k]
        /\ pc'[l] \notin {"arp", "arpsend"}
    BY <1>0, <1>2 DEF TxSend, NextQueue, AfterTx
  <2> QED
    BY <2>1, <2>2, <2>3, RingEnqueue
<1>3. ASSUME NEW l \in Lcores, LcoreStep(l), ~ArpSend(l), ~TxSend(l)
      PROVE  /\ UNCHANGED txring
             /\ \A k \in Lcores : pc'[k] \in {"arp", "arpsend"} =>
                  pc[k] \in {"arp", "arpsend"} /\ txi'[k] = txi[k]
  <2>1. CASE ArpFail(l) \/ ReportDone \/ GiveUp(l)
    BY <2>1 DEF ArpFail, ReportDone, GiveUp, lcoreVars, nicVars
  <2>2. CASE ArpDone(l) \/ TxNoBuffer(l) \/ TxFree(l) \/ WaitEnd(l)
    BY <1>0, <2>2 DEF ArpDone, TxNoBuffer, TxFree, NextQueue, AfterTx, WaitEnd, nicVars
  <2>3. CASE PollStopped \/ PollEmpty \/ PollBurst
    BY <1>0, <2>3 DEF PollStopped, PollEmpty, PollBurst, Poll, AfterRx
  <2>4. CASE Record
    BY <1>0, <2>4 DEF Record, AfterRx, nicVars
  <2>5. CASE ArpAlloc(l) \/ TxAlloc(l) \/ TxRefused(l)
    BY <1>0, <2>5 DEF ArpAlloc, Announcing, TxAlloc, TxRefused, nicVars
  <2> QED
    BY <1>3, <2>1, <2>2, <2>3, <2>4, <2>5 DEF LcoreStep, RxStep
<1>4. CASE Stray \/ Tick \/ UNCHANGED vars
  BY <1>4, RingKept DEF Stray, Tick, vars, lcoreVars, nicVars
<1> QED
  BY <1>1, <1>2, <1>3, <1>4, RingKept, RingTransmit DEF Next, Ended

\* A lcore with nothing in its hand and an empty ring finds a buffer.
LEMMA BufferLeft ==
  ASSUME TypeInv, MbufsConserved, RingInv, EnoughBuffers, NEW q \in Queues, txring[q] = <<>>,
         NEW l \in TxLcores, held[l] = 0
  PROVE  free > 0
<1> DEFINE full  == [Lengths EXCEPT ![q] = TxRing]
           rings == SumFunction(Lengths)
           after == SumFunction(full)
           hands == SumFunction(held)
           most  == Cardinality(Queues) * TxRing
           many  == Cardinality(TxLcores)
<1>1. Lengths \in [Queues -> Nat] /\ Lengths[q] = 0 /\ TxRing \in Nat /\ TxRing > 0
  BY Numbers, EmptySeq, TrainAssumption DEF Lengths
<1>2. after + 0 = rings + TxRing /\ after \in Nat /\ rings \in Nat
  <2>1. /\ SumFunction(full) + Lengths[q] = SumFunction(Lengths) + TxRing
        /\ SumFunction(full) \in Nat /\ SumFunction(Lengths) \in Nat
    BY <1>1, QueuesFinite, TotalChange
  <2> QED
    BY <1>1, <2>1
<1>3. full \in [Queues -> 0 .. TxRing]
  BY <1>1, Numbers DEF Lengths, RingInv
<1>4. after <= most
  BY <1>1, <1>3, QueuesFinite, TotalBound
<1>5. Cardinality(Queues) \in Nat
  BY QueuesFinite, FS_CardinalityType
<1>6. many \in Nat /\ hands \in Nat /\ hands + 1 <= many
  <2> DEFINE T == TxLcores \ {l}
  <2>1. IsFiniteSet(Lcores) /\ T \subseteq Lcores /\ held \in [Lcores -> 0 .. 1] /\ held \in [Lcores -> Nat]
    BY HeldNumbers DEF TxLcores
  <2>2. \A k \in Lcores \ T : held[k] = 0
    <3>1. ASSUME NEW k \in Lcores, TxQueues[k] = <<>> PROVE held[k] = 0
      <4>1. DOMAIN TxQueues[k] = {}
        BY <3>1, QueueIndex, EmptySeq
      <4>2. pc[k] \notin Holding
        BY <4>1 DEF TypeInv, TxIndexOK
      <4> QED
        BY <4>2 DEF TypeInv, HeldOK
    <3> QED
      BY <3>1 DEF TxLcores
  <2>3. hands <= Cardinality(T) * 1 /\ hands \in Nat
    BY <2>1, <2>2, TotalBoundOn, TotalType
  <2>4. many \in Nat /\ Cardinality(T) = many - 1
    BY <2>1, FS_Subset, FS_RemoveElement, FS_CardinalityType DEF TxLcores
  <2> HIDE DEF T, hands, many
  <2> QED
    BY <2>3, <2>4
<1>7. free + rings + hands = PoolSize /\ free \in Nat /\ PoolSize \in Nat
  BY TrainAssumption DEF MbufsConserved, Lengths, TypeInv, TypeOK
<1>8. most + many <= PoolSize + TxRing /\ most \in Nat
  BY <1>1, <1>5 DEF EnoughBuffers
<1> HIDE DEF full, rings, after, hands, most, many
<1> QED
  BY <1>1, <1>2, <1>4, <1>6, <1>7, <1>8

LEMMA AnnouncementSucceeds ==
  ASSUME TypeInv, MbufsConserved, RingInv, EnoughBuffers, exitCode # "-1", [Next]_vars
  PROVE  exitCode' # "-1"
<1>1. ASSUME NEW l \in Lcores, ArpFail(l) PROVE FALSE
  <2>1. /\ pc[l] \in {"arp", "arpsend"} /\ txi[l] \in DOMAIN TxQueues[l] /\ txi[l] \in Nat
        /\ Queue(l) \in Queues
    BY <1>1, OwnQueue, QueueType DEF ArpFail, Announcing, Queue, TypeInv, TypeOK
  <2>2. txring[Queue(l)] = <<>>
    BY <2>1 DEF RingInv, Queue
  <2>3. ~(pc[l] = "arp" /\ free = 0)
    <3> SUFFICES ASSUME pc[l] = "arp" PROVE free # 0
      OBVIOUS
    <3>1. held[l] = 0
      BY DEF TypeInv, HeldOK
    <3>2. l \in TxLcores
      BY <2>1, QueueIndex, EmptySeq DEF TxLcores
    <3>3. free > 0
      BY <2>1, <2>2, <3>1, <3>2, BufferLeft
    <3> QED
      BY <3>3
  <2>4. HasRoom(Queue(l))
    BY <2>2, EmptySeq, TrainAssumption DEF HasRoom
  <2> QED
    BY <1>1, <2>3, <2>4 DEF ArpFail, Announcing
<1>2. ASSUME NEW l \in Lcores, LcoreStep(l), ~ArpFail(l)
      PROVE  exitCode' \in {exitCode, "0", "1"}
  BY <1>2 DEF LcoreStep, ArpAlloc, ArpSend, ArpDone, RxStep, PollStopped, PollEmpty, PollBurst,
              Poll, Record, ReportDone, TxAlloc, TxNoBuffer, TxSend, TxRefused, TxFree, WaitEnd,
              GiveUp, envVars
<1>3. CASE (\E q \in Queues : Transmit(q)) \/ Stray \/ Tick \/ UNCHANGED vars
  BY <1>3 DEF Transmit, Stray, Tick, vars
<1> QED
  BY <1>1, <1>2, <1>3 DEF Next, Ended

\* runtime.c:747-781.  With a pool as large as that, the program never ends
\* because an announcement fails, even when every other transmitter has
\* filled its rings and stands between an allocation and its burst.
THEOREM AnnouncementsSucceed == EnoughBuffers => (Spec => [](exitCode # "-1"))
<1> SUFFICES ASSUME EnoughBuffers PROVE Spec => [](exitCode # "-1")
  OBVIOUS
<1>1. Spec => []TypeInv
  BY TypeInit, TypeStep, PTL DEF Spec
<1>2. Spec => []MbufsConserved
  BY BuffersKept
<1>3. Spec => []RingInv
  BY <1>1, RingInit, RingStep, PTL DEF Spec
<1>4. Init => exitCode # "-1"
  BY DEF Init
<1>5. TypeInv /\ MbufsConserved /\ RingInv /\ exitCode # "-1" /\ [Next]_vars => (exitCode # "-1")'
  BY AnnouncementSucceeds
<1> QED
  BY <1>1, <1>2, <1>3, <1>4, <1>5, PTL DEF Spec

-----------------------------------------------------------------------------
(***************************************************************************)
(* The program refines TrainMeasurement.                                   *)
(***************************************************************************)
LEMMA MeasuringInit == Init => Measurement!Init
  BY TrainAssumption DEF Init, Measurement!Init, phase

\* The phases a running program is in.
LEMMA PhaseIs ==
  ASSUME TypeInv, exitCode # "-1"
  PROVE  /\ exitCode = "none" => phase = IF pc[RxLcore] = "report" THEN "printing" ELSE "measuring"
         /\ exitCode = "0" => phase = "printed"
         /\ exitCode = "1" => phase = "gaveUp"
  BY DEF phase

\* Record fills a slot behind all others, with a later packet of its queue.
LEMMA MeasureStep ==
  ASSUME TypeInv, OrderInv, TypeInv', Record, exitCode = "none"
  PROVE  Measurement!Measure \/ UNCHANGED Measurement!vars
<1>1. UNCHANGED exitCode
  BY DEF Record
<1>2. phase = "measuring" /\ phase' = "measuring"
  <2>1. pc[RxLcore] = "record" /\ pc'[RxLcore] # "report"
    BY TrainAssumption DEF Record, AfterRx, TypeInv, TypeOK
  <2> QED
    BY <1>1, <2>1 DEF phase
<1>3. CASE UNCHANGED latencyStats
  BY <1>2, <1>3 DEF Measurement!vars
<1>4. CASE ~UNCHANGED latencyStats
  <2> DEFINE row == [q |-> Last(burst).q, no |-> Last(burst).no]
             n   == Len(burst)
             k   == RecordSlot
  <2>1. /\ Last(burst).kind = "train" /\ Last(burst) = burst[n] /\ n \in 1 .. n
        /\ latencyStats' = Store(latencyStats, k, row)
        /\ k \in Nat /\ counter <= k /\ counter \in Nat
    BY <1>4, RecordRow, Numbers
  <2>2. \A j \in DOMAIN latencyStats : j < k
    <3>1. \A j \in DOMAIN latencyStats : j \in Nat /\ j < counter
      BY Numbers DEF OrderInv
    <3> HIDE DEF k
    <3> QED
      BY <2>1, <3>1
  <2>3. k \in DOMAIN latencyStats' \ DOMAIN latencyStats /\ latencyStats'[k] = row
    <3>1. k \notin DOMAIN latencyStats
      BY <2>1, <2>2
    <3> QED
      BY <2>1, <3>1 DEF Store
  <2>4. row \in Measurement!Row
    <3>1. latencyStats'[k] \in Row
      BY <2>3 DEF TypeInv, TypeOK
    <3> QED
      BY <2>3, <3>1 DEF Row, Measurement!Row
  <2>5. \A j \in DOMAIN latencyStats :
           latencyStats[j].q = row.q => latencyStats[j].no < row.no
    BY <2>1 DEF OrderInv, RowsPrecede
  <2>6. latencyStats' = Measurement!Store(latencyStats, k, row)
    BY <2>1 DEF Store, Measurement!Store
  <2> HIDE DEF row, k, n
  <2> QED
    BY <1>2, <2>1, <2>2, <2>3, <2>4, <2>5, <2>6 DEF Measurement!Measure
<1> QED
  BY <1>3, <1>4

LEMMA MeasurementStep ==
  ASSUME TypeInv, GraceInv, OrderInv, TypeInv', GraceInv', WaitTime >= ReportTime + 2,
         exitCode' # "-1", [Next]_vars
  PROVE  [Measurement!Next]_(Measurement!vars)
<1>0. /\ pc \in [Lcores -> Places]
      /\ RxLcore \in Lcores
  BY TrainAssumption DEF TypeInv, TypeOK
<1>1. CASE UNCHANGED <<latencyStats, exitCode, pc>>
  BY <1>1 DEF Measurement!vars, phase
<1>2. ASSUME UNCHANGED <<latencyStats, exitCode>>, pc[RxLcore] # "report", pc'[RxLcore] # "report"
      PROVE  UNCHANGED Measurement!vars
  BY <1>2 DEF Measurement!vars, phase
<1>3. ASSUME Running, NEW l \in Lcores, LcoreStep(l) PROVE [Measurement!Next]_(Measurement!vars)
  <2>1. CASE ArpFail(l)
    BY <1>1, <1>3, <2>1 DEF ArpFail
  <2>2. CASE \/ ArpAlloc(l) \/ ArpSend(l) \/ ArpDone(l) \/ TxAlloc(l) \/ TxNoBuffer(l)
             \/ TxSend(l) \/ TxRefused(l) \/ TxFree(l) \/ WaitEnd(l)
    <3>1. UNCHANGED <<latencyStats, exitCode>>
      BY <2>2 DEF ArpAlloc, ArpSend, ArpDone, TxAlloc, TxNoBuffer, TxSend, TxRefused, TxFree,
                  WaitEnd, rxVars
    <3>2. /\ pc[l] # "report"
          /\ \E s \in Places \ {"report"} : pc' = [pc EXCEPT ![l] = s]
      BY <2>2, NextQueueType
      DEF ArpAlloc, ArpSend, ArpDone, Announcing, TxAlloc, TxNoBuffer, TxSend, TxRefused, TxFree,
          WaitEnd, AfterTx
    <3>3. pc'[RxLcore] = "report" <=> pc[RxLcore] = "report"
      BY <1>0, <3>2
    <3> QED
      BY <3>1, <3>3 DEF Measurement!vars, phase
  <2>3. CASE PollStopped
    <3>1. /\ pc[RxLcore] = "poll" /\ pc'[RxLcore] = "report"
          /\ UNCHANGED <<latencyStats, exitCode>>
      BY <1>0, <2>3 DEF PollStopped, Poll
    <3> QED
      BY <1>3, <3>1 DEF Running, phase, Measurement!Next, Measurement!BeginReport
  <2>4. CASE PollEmpty \/ PollBurst
    <3>1. /\ pc[RxLcore] = "poll" /\ pc'[RxLcore] # "report"
          /\ UNCHANGED <<latencyStats, exitCode>>
      BY <1>0, <2>4 DEF PollEmpty, PollBurst, Poll, AfterRx
    <3> QED
      BY <1>2, <3>1
  <2>5. CASE Record
    BY <1>3, <2>5, MeasureStep DEF Running, Measurement!Next
  <2>6. CASE ReportDone
    <3>1. pc[RxLcore] = "report" /\ exitCode' = "0" /\ UNCHANGED latencyStats
      BY <2>6 DEF ReportDone, rxVars
    <3> QED
      BY <1>3, <3>1 DEF Running, phase, Measurement!Next, Measurement!EndReport
  <2>7. CASE GiveUp(l)
    <3>1. exitCode' = "1" /\ UNCHANGED <<latencyStats, pc>>
      BY <2>7 DEF GiveUp, lcoreVars, rxVars
    <3>2. pc[RxLcore] # "report"
      BY <3>1 DEF GraceInv
    <3> QED
      BY <1>3, <3>1, <3>2 DEF Running, phase, Measurement!Next, Measurement!GiveUp
  <2> QED
    BY <1>3, <2>1, <2>2, <2>3, <2>4, <2>5, <2>6, <2>7 DEF LcoreStep, RxStep
<1>4. CASE (\E q \in Queues : Transmit(q)) \/ Stray \/ Tick \/ UNCHANGED vars
  BY <1>1, <1>4 DEF Transmit, Stray, Tick, vars, lcoreVars, rxVars
<1> QED
  BY <1>3, <1>4 DEF Next, Ended

\* runtime.c:209, 279, 577.  When the waiting time is longer than the
\* printing and no announcement fails, what the program does is a
\* measurement: rows are added in order, to a table that is frozen before it
\* is printed and is printed whole.
THEOREM MeasurementSafe ==
  WaitTime >= ReportTime + 2 => (Spec /\ [](exitCode # "-1") => Measurement!Safety)
<1> SUFFICES ASSUME WaitTime >= ReportTime + 2
             PROVE  Spec /\ [](exitCode # "-1") => Measurement!Safety
  OBVIOUS
<1>1. Spec => []TypeInv
  BY TypeInit, TypeStep, PTL DEF Spec
<1>2. Spec => []GraceInv
  BY <1>1, GraceInit, GraceStep, PTL DEF Spec
<1>3. Spec => []OrderInv
  BY <1>1, OrderInit, OrderStep, PTL DEF Spec
<1>4. /\ TypeInv /\ GraceInv /\ OrderInv /\ TypeInv' /\ GraceInv' /\ (exitCode # "-1")' /\ [Next]_vars
      => [Measurement!Next]_(Measurement!vars)
  BY MeasurementStep
<1> QED
  BY <1>1, <1>2, <1>3, <1>4, MeasuringInit, PTL DEF Spec, Measurement!Safety

\* The same from the sizes of the pool and the rings alone.
COROLLARY MeasurementSafeWithBuffers ==
  WaitTime >= ReportTime + 2 /\ EnoughBuffers => (Spec => Measurement!Safety)
  BY MeasurementSafe, AnnouncementsSucceed, PTL
=============================================================================
