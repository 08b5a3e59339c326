---------------------------- MODULE LatencyTrain ----------------------------
(***************************************************************************)
(* The default mode of the program: measuring the latency of a train of    *)
(* packets (runtime.c, the last branch of app_lcore_main_loop_io).         *)
(*                                                                         *)
(* Logical cores run app_lcore_main_loop_io.  Each announces its           *)
(* transmission queues with a gratuitous ARP; then it polls the receive    *)
(* queue if it owns it (app_lcore_io_rx) and sends one stamped packet on   *)
(* each transmission queue it owns (app_lcore_io_tx), for ever.  The lcore *)
(* that has sent TrainLen packets through a port waits, sets continueRX to *)
(* 0, waits again and ends the process with code 1.  The receiver, when it *)
(* polls and finds continueRX at 0, prints the table and ends the process  *)
(* with code 0.                                                            *)
(*                                                                         *)
(* The network card and the wire are not part of the program: Transmit     *)
(* takes a frame from a transmission ring and delivers or loses it, Stray  *)
(* delivers a frame that another host sent.                                *)
(***************************************************************************)
EXTENDS Trains

CONSTANTS
  MaxStray,      \* bound: no stray frame once there are so many other frames
  ArpForwarded   \* whether the broadcast ARP reaches the receive port

ASSUME StrayAssumption ==
  /\ MaxStray \in Nat
  /\ ArpForwarded \in BOOLEAN

VARIABLES
  pc,            \* what each lcore is doing
  txi,           \* index of the transmission queue it is serving
  n_mbufs,       \* packets it has sent through each port, mbuf_out[port].n_mbufs
  timer,         \* ticks left of its wait, or of its printing
  held,          \* mbufs it has in its hand, tmpbuf
  free,          \* mbufs left in app.pools[1]
  txring,        \* the frames in each transmission ring
  rxring,        \* the frames in the receive ring
  burst,         \* the frames the receiver is looking at, mbuf_in
  counter,       \* static counter of app_lcore_io_rx
  latencyStats,  \* the slots of the table that have recved = 1
  continueRX,    \* TRUE for 1
  exitCode,      \* "none" while the process runs
  polled,        \* whether the receiver has polled since the last tick
  sent,          \* number of packets sent so far
  strays         \* number of frames that are not packets of the train

lcoreVars  == <<pc, txi, n_mbufs, timer, held>>
nicVars    == <<free, txring, rxring>>
rxVars     == <<burst, counter, latencyStats, continueRX>>
envVars    == <<polled, sent, strays>>
vars       == <<lcoreVars, nicVars, rxVars, exitCode, envVars>>

-----------------------------------------------------------------------------
\* Frames, and how the receiver tells them apart.  A packet is numbered when
\* the card accepts it; the packets of a queue are stamped in that order too.

Frame == [kind : {"train", "other"}, q : Queues, no : Nat]
Row   == [q : Queues, no : Nat]

Packet(q) == [kind |-> "train", q |-> q, no |-> sent]
Arp(q)    == [kind |-> "other", q |-> q, no |-> 0]

\* icmppkt once the main loop has marked it.
Template == [o \in Offsets |-> IF o = idoffset THEN tspacketId ELSE 0]

\* The word at idoffset is the template's.  In an ARP it is part of the
\* target address.
Recognised(f) ==
  f.kind = "train" /\ StampTrain(Template, Clock(f.no))[idoffset] = Template[idoffset]

Last(s) == s[Len(s)]

-----------------------------------------------------------------------------
Init ==
  /\ pc = [l \in Lcores |-> "arp"]
  /\ txi = [l \in Lcores |-> 1]
  /\ n_mbufs = [l \in Lcores |-> [p \in Ports |-> 0]]
  /\ timer = [l \in Lcores |-> 0]
  /\ held = [l \in Lcores |-> 0]
  /\ free = PoolSize
  /\ txring = [q \in Queues |-> <<>>]
  /\ rxring = <<>>
  /\ burst = <<>>
  /\ counter = 0
  /\ latencyStats = [k \in {} |-> 0]
  /\ continueRX = TRUE
  /\ exitCode = "none"
  /\ polled = FALSE
  /\ sent = 0
  /\ strays = 0

Queue(l) == TxQueues[l][txi[l]]
HasRoom(q) == Len(txring[q]) < TxRing

\* rte_ctrlmbuf_alloc.
Alloc(l) ==
  /\ free' = free - 1
  /\ held' = [held EXCEPT ![l] = @ + 1]

\* tx_burst of the frame f in the lcore's buffer: the ring has it now.
Enqueue(l, q, f) ==
  /\ HasRoom(q)
  /\ txring' = [txring EXCEPT ![q] = Append(@, f)]
  /\ held' = [held EXCEPT ![l] = @ - 1]

(***************************************************************************)
(* app_lcore_arp_tx_gratuitous: one ARP per transmission queue.  No buffer *)
(* or no room in the ring ends the process.  Between the allocation and    *)
(* the burst the buffer is in the lcore's hand, and other lcores run.      *)
(***************************************************************************)
Announcing(l) == pc[l] = "arp" /\ txi[l] \in DOMAIN TxQueues[l]

ArpAlloc(l) ==
  /\ Announcing(l)
  /\ free > 0
  /\ Alloc(l)
  /\ pc' = [pc EXCEPT ![l] = "arpsend"]
  /\ UNCHANGED <<txi, n_mbufs, timer, txring, rxring, rxVars, exitCode, envVars>>

ArpSend(l) ==
  /\ pc[l] = "arpsend"
  /\ Enqueue(l, Queue(l), Arp(Queue(l)))
  /\ strays' = strays + 1
  /\ txi' = [txi EXCEPT ![l] = @ + 1]
  /\ pc' = [pc EXCEPT ![l] = "arp"]
  /\ UNCHANGED <<n_mbufs, timer, free, rxring, rxVars, exitCode, polled, sent>>

ArpFail(l) ==
  /\ \/ Announcing(l) /\ free = 0
     \/ pc[l] = "arpsend" /\ ~HasRoom(Queue(l))
  /\ exitCode' = "-1"
  /\ UNCHANGED <<lcoreVars, nicVars, rxVars, envVars>>

ArpDone(l) ==
  /\ pc[l] = "arp"
  /\ txi[l] \notin DOMAIN TxQueues[l]
  /\ pc' = [pc EXCEPT ![l] = AfterTx(l)]
  /\ txi' = [txi EXCEPT ![l] = 1]
  /\ UNCHANGED <<n_mbufs, timer, held, nicVars, rxVars, exitCode, envVars>>

-----------------------------------------------------------------------------
\* app_lcore_io_rx.

Poll(n) ==
  /\ pc[RxLcore] = "poll"
  /\ burst' = SubSeq(rxring, 1, n)
  /\ rxring' = SubSeq(rxring, n + 1, Len(rxring))
  /\ polled' = TRUE
  /\ UNCHANGED <<txi, n_mbufs, held, free, txring, counter, latencyStats, continueRX,
                 exitCode, sent, strays>>

\* The burst is thrown away when the measurement is over.
PollStopped ==
  /\ ~continueRX
  /\ \E n \in 0 .. Lesser(Len(rxring), BurstRx) : Poll(n)
  /\ pc' = [pc EXCEPT ![RxLcore] = "report"]
  /\ timer' = [timer EXCEPT ![RxLcore] = ReportTime]

PollEmpty ==
  /\ continueRX
  /\ Poll(0)
  /\ pc' = [pc EXCEPT ![RxLcore] = AfterRx]
  /\ UNCHANGED timer

PollBurst ==
  /\ continueRX
  /\ \E n \in 1 .. Lesser(Len(rxring), BurstRx) : Poll(n)
  /\ pc' = [pc EXCEPT ![RxLcore] = "record"]
  /\ UNCHANGED timer

\* The slot of the last packet of the burst.
RecordSlotPast == counter + Len(burst)            \* mutant: off by one

RecordSlot == counter + Len(burst) - 1

NextCounterStuck == RecordSlot                    \* mutant: counter++ is missing

NextCounter == RecordSlot + 1

(***************************************************************************)
(* Only the last frame of the burst is looked at.  If it is a packet of    *)
(* the train, the slot of the table is the number of frames received       *)
(* before it, as far as they were counted; the measurement is over when    *)
(* the count is exactly TrainLen.                                          *)
(***************************************************************************)
Record ==
  /\ pc[RxLcore] = "record"
  /\ IF Recognised(Last(burst))
       THEN /\ latencyStats' = Store(latencyStats, RecordSlot,
                                     [q |-> Last(burst).q, no |-> Last(burst).no])
            /\ counter' = NextCounter
            /\ continueRX' = (continueRX /\ NextCounter # TrainLen)
       ELSE UNCHANGED <<latencyStats, counter, continueRX>>
  /\ burst' = <<>>
  /\ pc' = [pc EXCEPT ![RxLcore] = AfterRx]
  /\ UNCHANGED <<txi, n_mbufs, timer, held, nicVars, exitCode, envVars>>

\* The table has been printed: exit(0).
ReportDone ==
  /\ pc[RxLcore] = "report"
  /\ exitCode' = "0"
  /\ UNCHANGED <<lcoreVars, nicVars, rxVars, envVars>>

-----------------------------------------------------------------------------
\* app_lcore_io_tx: one packet on the queue txi; the lcore then turns to its
\* next queue, or to the other half of its loop.

NextQueue(l) ==
  LET more == txi[l] < Len(TxQueues[l])
  IN  /\ txi' = [txi EXCEPT ![l] = IF more THEN @ + 1 ELSE 1]
      /\ pc'  = [pc EXCEPT ![l] = IF more THEN "tx" ELSE AfterTx(l)]

TxAllocUnchecked(l) ==   \* mutant: NULL is not noticed
  /\ pc[l] = "tx"
  /\ Alloc(l)
  /\ pc' = [pc EXCEPT ![l] = "send"]
  /\ UNCHANGED <<txi, n_mbufs, timer, txring, rxring, rxVars, exitCode, envVars>>

TxAlloc(l) ==
  /\ pc[l] = "tx"
  /\ free > 0
  /\ Alloc(l)
  /\ pc' = [pc EXCEPT ![l] = "send"]
  /\ UNCHANGED <<txi, n_mbufs, timer, txring, rxring, rxVars, exitCode, envVars>>

\* No buffer: nothing is sent on this queue.
TxNoBuffer(l) ==
  /\ pc[l] = "tx"
  /\ free = 0
  /\ NextQueue(l)
  /\ UNCHANGED <<n_mbufs, timer, held, nicVars, rxVars, exitCode, envVars>>

\* The packet is accepted and counted; the lcore that has sent the train
\* starts to wait and never transmits again.
TxSend(l) ==
  /\ pc[l] = "send"
  /\ LET q == Queue(l)
     IN  /\ Enqueue(l, q, Packet(q))
         /\ n_mbufs' = [n_mbufs EXCEPT ![l][q.port] = @ + 1]
         /\ IF n_mbufs[l][q.port] + 1 >= TrainLen
              THEN /\ pc' = [pc EXCEPT ![l] = "wait"]
                   /\ timer' = [timer EXCEPT ![l] = WaitTime]
                   /\ UNCHANGED txi
              ELSE NextQueue(l) /\ UNCHANGED timer
  /\ sent' = sent + 1
  /\ UNCHANGED <<free, rxring, rxVars, exitCode, polled, strays>>

\* No room in the ring: the packet stays in the lcore's hand ...
TxRefused(l) ==
  /\ pc[l] = "send"
  /\ ~HasRoom(Queue(l))
  /\ pc' = [pc EXCEPT ![l] = "free"]
  /\ UNCHANGED <<txi, n_mbufs, timer, held, nicVars, rxVars, exitCode, envVars>>

TxFreeLeak(l) ==         \* mutant: the refused buffer is not freed
  /\ pc[l] = "free"
  /\ held' = [held EXCEPT ![l] = @ - 1]
  /\ NextQueue(l)
  /\ UNCHANGED <<n_mbufs, timer, nicVars, rxVars, exitCode, envVars>>

\* ... and goes back to the pool.
TxFree(l) ==
  /\ pc[l] = "free"
  /\ held' = [held EXCEPT ![l] = @ - 1]
  /\ free' = free + 1
  /\ NextQueue(l)
  /\ UNCHANGED <<n_mbufs, timer, txring, rxring, rxVars, exitCode, envVars>>

WaitEndNoGrace(l) ==     \* mutant: the second wait is missing
  /\ pc[l] = "wait"
  /\ timer[l] = 0
  /\ continueRX' = FALSE
  /\ pc' = [pc EXCEPT ![l] = "grace"]
  /\ UNCHANGED <<txi, n_mbufs, timer, held, nicVars, burst, counter, latencyStats, exitCode, envVars>>

WaitEndAgain(l) ==       \* mutant: the wait starts again
  /\ pc[l] = "wait"
  /\ timer[l] = 0
  /\ timer' = [timer EXCEPT ![l] = WaitTime]
  /\ UNCHANGED <<pc, txi, n_mbufs, held, nicVars, rxVars, exitCode, envVars>>

WaitEnd(l) ==
  /\ pc[l] = "wait"
  /\ timer[l] = 0
  /\ continueRX' = FALSE
  /\ pc' = [pc EXCEPT ![l] = "grace"]
  /\ timer' = [timer EXCEPT ![l] = WaitTime]
  /\ UNCHANGED <<txi, n_mbufs, held, nicVars, burst, counter, latencyStats, exitCode, envVars>>

GiveUp(l) ==
  /\ pc[l] = "grace"
  /\ timer[l] = 0
  /\ exitCode' = "1"
  /\ UNCHANGED <<lcoreVars, nicVars, rxVars, envVars>>

-----------------------------------------------------------------------------
\* The network card and the wire.

Delivered(f) ==
  /\ Len(rxring) < RxRing
  /\ rxring' = Append(rxring, f)

\* A frame leaves its ring and its buffer goes back to the pool.
Transmit(q) ==
  /\ txring[q] # <<>>
  /\ LET f == Head(txring[q])
     IN  \/ UNCHANGED rxring
         \/ (f.kind = "other" => ArpForwarded) /\ Delivered(f)
  /\ txring' = [txring EXCEPT ![q] = Tail(@)]
  /\ free' = free + 1
  /\ UNCHANGED <<lcoreVars, rxVars, exitCode, envVars>>

Stray ==
  /\ strays < MaxStray
  /\ \E q \in Queues : Delivered(Arp(q))
  /\ strays' = strays + 1
  /\ UNCHANGED <<lcoreVars, free, txring, rxVars, exitCode, polled, sent>>

(***************************************************************************)
(* Time.  A tick is long against a turn of the polling loop: the lcores    *)
(* have announced their queues before the first one, and the receiver      *)
(* polls at least once in each, unless it sleeps or prints; and printing   *)
(* the table takes at most ReportTime ticks.                               *)
(***************************************************************************)
Tick ==
  /\ \E l \in Lcores : timer[l] > 0
  /\ \A l \in Lcores : pc[l] \notin {"arp", "arpsend"}
  /\ polled \/ pc[RxLcore] \in {"report", "wait", "grace"}
  /\ pc[RxLcore] = "report" => timer[RxLcore] > 0
  /\ timer' = [l \in Lcores |-> IF timer[l] > 0 THEN timer[l] - 1 ELSE 0]
  /\ polled' = FALSE
  /\ UNCHANGED <<pc, txi, n_mbufs, held, nicVars, rxVars, exitCode, sent, strays>>

-----------------------------------------------------------------------------
RxStep == PollStopped \/ PollEmpty \/ PollBurst \/ Record \/ ReportDone

LcoreStep(l) ==
  \/ ArpAlloc(l) \/ ArpSend(l) \/ ArpFail(l) \/ ArpDone(l)
  \/ l = RxLcore /\ RxStep
  \/ TxAlloc(l) \/ TxNoBuffer(l) \/ TxSend(l) \/ TxRefused(l) \/ TxFree(l)
  \/ WaitEnd(l) \/ GiveUp(l)

Running == exitCode = "none"

\* The process has ended.
Ended == ~Running /\ UNCHANGED vars

Next ==
  \/ Running /\ \/ \E l \in Lcores : LcoreStep(l)
                \/ \E q \in Queues : Transmit(q)
                \/ Stray
                \/ Tick
  \/ Ended

(***************************************************************************)
(* Every lcore has a processor of its own and never blocks, the link stays *)
(* up, and time passes.                                                    *)
(***************************************************************************)
Fairness ==
  /\ \A l \in Lcores : WF_vars(Running /\ LcoreStep(l))
  /\ \A q \in Queues : WF_vars(Running /\ Transmit(q))
  /\ WF_vars(Running /\ Tick)

Spec == Init /\ [][Next]_vars
FairSpec == Spec /\ Fairness

-----------------------------------------------------------------------------
TypeOK ==
  /\ pc \in [Lcores -> {"arp", "arpsend", "poll", "record", "report", "tx", "send", "free",
                      "wait", "grace"}]
  /\ txi \in [Lcores -> Nat \ {0}]
  /\ n_mbufs \in [Lcores -> [Ports -> Nat]]
  /\ timer \in [Lcores -> Nat]
  /\ held \in [Lcores -> {0, 1}]
  /\ free \in Nat
  /\ txring \in [Queues -> Seq(Frame)]
  /\ rxring \in Seq(Frame)
  /\ burst \in Seq(Frame)
  /\ counter \in Nat
  /\ DOMAIN latencyStats \subseteq Nat
  /\ latencyStats \in [DOMAIN latencyStats -> Row]
  /\ continueRX \in BOOLEAN
  /\ exitCode \in {"none", "-1", "0", "1"}
  /\ polled \in BOOLEAN
  /\ sent \in Nat
  /\ strays \in Nat

(***************************************************************************)
(* Buffers are neither lost nor freed twice on any path of a transmitter,  *)
(* the refused burst included: each is in the pool, in a ring, or in the   *)
(* hand of one lcore (runtime.c:542, 564-573, 753, 776).                   *)
(***************************************************************************)
MbufsConserved ==
  free + SumFunction([q \in Queues |-> Len(txring[q])]) + SumFunction(held) = PoolSize

(***************************************************************************)
(* runtime.c:281 counts the whole burst and records its last packet.  With *)
(* one transmission queue a row is never ahead of the packet it measures,  *)
(* whatever is lost and however the packets are cut into bursts, except    *)
(* for the frames that are not packets of the train.                       *)
(***************************************************************************)
SlotNeverAhead ==
  OneTxQueue => \A k \in DOMAIN latencyStats : k <= latencyStats[k].no + strays

\* "end if all packets have been recved" (runtime.c:298): once the table has
\* its last row, the receiver knows that it has to stop.
StopsWhenFull ==
  (pc[RxLcore] = "poll" /\ \E k \in DOMAIN latencyStats : k >= TrainLen - 1) => ~continueRX

\* When the waiting time is longer than the printing, the process never ends
\* in the middle of the report, and ends without one only if the lcore that
\* receives has itself sent a train and waits (runtime.c:574-579).
ReportIsComplete ==
  WaitTime >= ReportTime + 2 /\ exitCode = "1" => pc[RxLcore] \in {"wait", "grace"}

(***************************************************************************)
(* The measurement as its reader sees it: the process ends, for nothing it *)
(* waits for depends on a packet's arrival, and the table is filled in     *)
(* order until it is frozen and printed (runtime.c:209, 279, 577).         *)
(***************************************************************************)
phase ==
  CASE exitCode = "0"           -> "printed"
    [] exitCode \in {"1", "-1"} -> "gaveUp"
    [] OTHER                    -> IF pc[RxLcore] = "report" THEN "printing" ELSE "measuring"

Measurement == INSTANCE TrainMeasurement WITH rows <- latencyStats, phase <- phase
MeasurementSpec == Measurement!Spec
=============================================================================
