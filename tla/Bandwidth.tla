----------------------------- MODULE Bandwidth -----------------------------
(***************************************************************************)
(* The bandwidth modes (runtime.c): --bw sends and receives as fast as it  *)
(* can, --bwp only listens.  app_lcore_io_rx_bw and app_lcore_io_tx_bw     *)
(* print, every so many bursts of queue 0, what the card has counted since *)
(* the last time, and reset the counters of the card.                      *)
(*                                                                         *)
(* The card counts the packets of a port in both directions in one record, *)
(* which all lcores read and which rte_eth_stats_reset clears as a whole.  *)
(* Reading the counters, reading the time and clearing the counters are    *)
(* three steps, between which packets come and go and other lcores run.    *)
(*                                                                         *)
(* A packet is only counted: a ring is the number of frames in it.  The    *)
(* buffers of received packets are not those of app.pools[1].              *)
(***************************************************************************)
EXTENDS Naturals, Sequences, FiniteSets, FiniteSetsExt, Functions

CONSTANTS
  Lcores,
  RxQueues, TxQueues,  \* the queues of each lcore, in order
  Ports,
  RxStats,       \* APP_STATS, bursts of a window of the receiver
  TxStats,       \* APP_STATS / 10, bursts of a window of the transmitter
  ArpEvery,      \* APP_STATS * 1000, turns of the passive loop between two ARPs
  Limit,         \* 25 * 1000 * 10005, packets after which a transmitter sleeps
  BurstTx, BurstRx,  \* burst_size_io_tx_write, burst_size_io_rx_read
  TxRing, RxRing,    \* sizes of the rings
  PoolSize,      \* buffers in app.pools[1]
  MaxCount       \* bound: counters of packets stay at this value

Queues(lists) == UNION {Range(lists[l]) : l \in Lcores}
TxQs == Queues(TxQueues)
RxQs == Queues(RxQueues)

First(queues) == {q \in queues : q.queue = 0}

ASSUME BandwidthAssumption ==
  /\ IsFiniteSet(Lcores)
  /\ TxQs \cup RxQs \subseteq [port : Ports, queue : Nat]
  /\ \A lists \in {RxQueues, TxQueues} :
       /\ lists \in [Lcores -> Seq(TxQs \cup RxQs)]
       \* The parser refuses a queue that is given twice.
       /\ \A l, m \in Lcores : \A i \in DOMAIN lists[l], j \in DOMAIN lists[m] :
            lists[l][i] = lists[m][j] => l = m /\ i = j
  \* Only a queue makes an lcore one of these.
  /\ \A l \in Lcores : RxQueues[l] # <<>> \/ TxQueues[l] # <<>>
  /\ {RxStats, TxStats, ArpEvery, Limit, BurstTx, BurstRx, TxRing, RxRing} \subseteq Nat \ {0}
  /\ PoolSize \in Nat /\ MaxCount \in Nat

VARIABLES
  mode,          \* "active" for --bw, "passive" for --bwp
  pc,            \* what each lcore is doing
  qi,            \* index of the queue it is serving
  turn,          \* i of app_lcore_main_loop_io
  held,          \* buffers of the burst it is sending
  nic_mbufs_count,  \* packets it has sent
  rxiters, txiters, \* nic_queues_iters of each queue 0: those of the others decide nothing
  rxStart,       \* whether rx.start_ewr.tv_sec is not 0
  got,           \* packets of the statistics it has read
  free,          \* buffers left in the pool
  txring, rxring,   \* number of frames in each ring
  stats,         \* ipackets and opackets of each port
  exitCode,
  \* For the properties only:
  since,         \* packets through each port since its windows of the lcore began
  bursts,        \* bursts of queue 0 since then
  printed,       \* what it has printed so far: nothing, a first window, later ones
  window         \* the window it is printing

lcoreVars   == <<pc, qi, turn, held, nic_mbufs_count>>
windowVars  == <<rxiters, txiters, rxStart, got>>
nicVars     == <<free, txring, rxring, stats>>
historyVars == <<since, bursts, printed, window>>
vars == <<mode, lcoreVars, windowVars, nicVars, exitCode, historyVars>>

Dirs == {"rx", "tx"}

NoWindow == [dir |-> "none", nth |-> "none", counted |-> 0, passed |-> 0, bursts |-> 0]

-----------------------------------------------------------------------------
Lesser(m, n) == IF m < n THEN m ELSE n

OneMore(n) == Lesser(n + 1, MaxCount)

\* Mutant: only lcores that receive transmit.
TopNested(l) == IF RxQueues[l] # <<>> THEN "rx" ELSE "turn"

\* Where the loop of a lcore begins.
Top(l) ==
  IF RxQueues[l] # <<>> THEN "rx" ELSE IF mode = "active" THEN "tx" ELSE "turn"

\* Where it goes when it has looked at its receive queues.
AfterRx(l) ==
  IF mode = "passive" THEN "turn" ELSE IF TxQueues[l] # <<>> THEN "tx" ELSE "rx"

\* Only an lcore with queue 0 of a port prints its statistics.
Reports(l, d, p) ==
  [port |-> p, queue |-> 0] \in Range(IF d = "rx" THEN RxQueues[l] ELSE TxQueues[l])

RxQueue(l) == RxQueues[l][qi[l]]
TxQueue(l) == TxQueues[l][qi[l]]

GoTo(l, place) == pc' = [pc EXCEPT ![l] = place]

NextRx(l) ==
  IF qi[l] < Len(RxQueues[l])
    THEN GoTo(l, "rx") /\ qi' = [qi EXCEPT ![l] = @ + 1]
    ELSE GoTo(l, AfterRx(l)) /\ qi' = [qi EXCEPT ![l] = 1]

NextTx(l) ==
  IF qi[l] < Len(TxQueues[l])
    THEN GoTo(l, "tx") /\ qi' = [qi EXCEPT ![l] = @ + 1]
    ELSE GoTo(l, Top(l)) /\ qi' = [qi EXCEPT ![l] = 1]

Init ==
  /\ mode \in {"active", "passive"}
  /\ pc = [l \in Lcores |-> "arp"]
  /\ qi = [l \in Lcores |-> 1]
  /\ turn = [l \in Lcores |-> 0]
  /\ held = [l \in Lcores |-> 0]
  /\ nic_mbufs_count = [l \in Lcores |-> 0]
  /\ rxiters = [q \in First(RxQs) |-> 0]
  /\ txiters = [q \in First(TxQs) |-> 0]
  /\ rxStart = [l \in Lcores |-> FALSE]
  /\ got = [l \in Lcores |-> 0]
  /\ free = PoolSize
  /\ txring = [q \in TxQs |-> 0]
  /\ rxring = [q \in RxQs |-> 0]
  /\ stats = [p \in Ports |-> [d \in Dirs |-> 0]]
  /\ exitCode = "none"
  /\ since = [l \in Lcores |-> [d \in Dirs |-> [p \in Ports |-> 0]]]
  /\ bursts = [l \in Lcores |-> [d \in Dirs |-> 0]]
  /\ printed = [l \in Lcores |-> [d \in Dirs |-> "none"]]
  /\ window = [l \in Lcores |-> NoWindow]

-----------------------------------------------------------------------------
\* app_lcore_arp_tx_gratuitous, before the loop and, in the passive mode, from
\* time to time.

Announcing(l) == pc[l] \in {"arp", "rearp"} /\ qi[l] \in DOMAIN TxQueues[l]

ArpAlloc(l) ==
  /\ Announcing(l)
  /\ held[l] = 0 /\ free > 0
  /\ held' = [held EXCEPT ![l] = 1]
  /\ free' = free - 1
  /\ UNCHANGED <<mode, pc, qi, turn, nic_mbufs_count, windowVars, txring, rxring, stats,
                 exitCode, historyVars>>

ArpSend(l) ==
  /\ Announcing(l)
  /\ held[l] = 1 /\ txring[TxQueue(l)] < TxRing
  /\ held' = [held EXCEPT ![l] = 0]
  /\ txring' = [txring EXCEPT ![TxQueue(l)] = @ + 1]
  /\ qi' = [qi EXCEPT ![l] = @ + 1]
  /\ UNCHANGED <<mode, pc, turn, nic_mbufs_count, windowVars, free, rxring, stats,
                 exitCode, historyVars>>

ArpFail(l) ==
  /\ Announcing(l)
  /\ IF held[l] = 0 THEN free = 0 ELSE txring[TxQueue(l)] = TxRing
  /\ exitCode' = "-1"
  /\ UNCHANGED <<mode, lcoreVars, windowVars, nicVars, historyVars>>

\* The first time, start_ewr is set, to 0 for the receiver.
ArpDone(l) ==
  /\ pc[l] \in {"arp", "rearp"}
  /\ qi[l] \notin DOMAIN TxQueues[l]
  /\ GoTo(l, Top(l))
  /\ qi' = [qi EXCEPT ![l] = 1]
  /\ turn' = [turn EXCEPT ![l] = IF pc[l] = "arp" THEN 0 ELSE 1]
  /\ since' = IF pc[l] = "arp"
                THEN [since EXCEPT ![l]["tx"] = [p \in Ports |-> 0]]
                ELSE since
  /\ UNCHANGED <<mode, held, nic_mbufs_count, windowVars, nicVars, exitCode, bursts, printed, window>>

\* The end of a turn of the passive loop.
Turn(l) ==
  /\ pc[l] = "turn"
  /\ IF turn[l] > ArpEvery
       THEN GoTo(l, "rearp") /\ UNCHANGED turn
       ELSE GoTo(l, Top(l)) /\ turn' = [turn EXCEPT ![l] = @ + 1]
  /\ UNCHANGED <<mode, qi, held, nic_mbufs_count, windowVars, nicVars, exitCode, historyVars>>

-----------------------------------------------------------------------------
\* app_lcore_io_rx_bw.

\* rte_eth_rx_burst.
RxPoll(l) ==
  /\ pc[l] = "rx"
  /\ rxring' = [rxring EXCEPT ![RxQueue(l)] = @ - Lesser(@, BurstRx)]
  /\ UNCHANGED <<mode, turn, held, nic_mbufs_count, txiters, rxStart, got, free, txring,
                 stats, exitCode, since, printed, window>>

RxEmpty(l) ==
  /\ RxPoll(l)
  /\ rxring[RxQueue(l)] = 0
  /\ NextRx(l)
  /\ UNCHANGED <<rxiters, bursts>>

\* Only queue 0 ends a window.  Its counter stays at RxStats, which is as good as
\* more, until a window is printed.
RxBurst(l) ==
  /\ RxPoll(l)
  /\ rxring[RxQueue(l)] > 0
  /\ IF RxQueue(l).queue = 0
       THEN /\ rxiters' = [rxiters EXCEPT ![RxQueue(l)] = Lesser(@ + 1, RxStats)]
            /\ bursts' = [bursts EXCEPT ![l]["rx"] = Lesser(@ + 1, RxStats + 1)]
            /\ IF rxiters'[RxQueue(l)] = RxStats
                 THEN GoTo(l, "rxget") /\ UNCHANGED qi
                 ELSE NextRx(l)
       ELSE NextRx(l) /\ UNCHANGED <<rxiters, bursts>>

Port(l) ==
  IF pc[l] \in {"rxget", "rxstamp", "rxfirst", "rxreset"} THEN RxQueue(l).port ELSE TxQueue(l).port

\* rte_eth_stats_get.
Get(l, d) ==
  /\ got' = [got EXCEPT ![l] = stats[Port(l)][d]]
  /\ UNCHANGED <<mode, qi, turn, held, nic_mbufs_count, rxiters, txiters, rxStart, nicVars,
                 exitCode, historyVars>>

RxGet(l) == pc[l] = "rxget" /\ Get(l, "rx") /\ GoTo(l, "rxstamp")

\* gettimeofday: end_ewr, which becomes start_ewr.
NewWindow(l, d) ==
  /\ since' = [since EXCEPT ![l][d] = [p \in Ports |-> 0]]
  /\ bursts' = [bursts EXCEPT ![l][d] = 0]

Report(l, d) ==
  /\ printed' = [printed EXCEPT ![l][d] = IF @ = "none" THEN "first" ELSE "later"]
  /\ window' = [window EXCEPT ![l] =
       [dir |-> d, nth |-> printed'[l][d], counted |-> got[l],
        passed |-> since[l][d][Port(l)], bursts |-> bursts[l][d]]]
  /\ NewWindow(l, d)

\* start_ewr.tv_sec is not 0.
Started(l) == rxStart[l]

ItersKept(l) == rxiters         \* mutant: the window goes on

ItersReset(l) == [rxiters EXCEPT ![RxQueue(l)] = 0]

NotStarted(l) == rxStart        \* mutant: the first window does not begin

StartWindow(l) == [rxStart EXCEPT ![l] = TRUE]

\* The first time, nothing is printed, the bursts go on being counted, and the
\* statistics are reset twice.
RxStamp(l) ==
  /\ pc[l] = "rxstamp"
  /\ IF Started(l)
       THEN /\ Report(l, "rx") /\ rxiters' = ItersReset(l) /\ UNCHANGED rxStart
            /\ GoTo(l, "rxreset")
       ELSE /\ NewWindow(l, "rx") /\ rxStart' = StartWindow(l)
            /\ UNCHANGED <<rxiters, printed, window>>
            /\ GoTo(l, "rxfirst")
  /\ UNCHANGED <<mode, qi, turn, held, nic_mbufs_count, txiters, got, nicVars, exitCode>>

ResetNever(l) == stats          \* mutant: the counters are not cleared

\* rte_eth_stats_reset.
Reset(l) == [stats EXCEPT ![Port(l)] = [d \in Dirs |-> 0]]

\* The statistics that were read are a variable of the block that ends here.
EndWindow(l) ==
  /\ stats' = Reset(l)
  /\ got' = [got EXCEPT ![l] = 0]
  /\ window' = [window EXCEPT ![l] = NoWindow]
  /\ UNCHANGED <<mode, turn, held, nic_mbufs_count, rxiters, txiters, rxStart, free, txring,
                 rxring, exitCode, since, bursts, printed>>

\* The reset before start_ewr.tv_sec is tested, when there is another one after it.
RxResetFirst(l) ==
  /\ pc[l] = "rxfirst"
  /\ stats' = Reset(l)
  /\ GoTo(l, "rxreset")
  /\ UNCHANGED <<mode, qi, turn, held, nic_mbufs_count, windowVars, free, txring, rxring,
                 exitCode, historyVars>>

\* The only reset, or the second one.
RxReset(l) == pc[l] = "rxreset" /\ EndWindow(l) /\ NextRx(l)

-----------------------------------------------------------------------------
\* app_lcore_io_tx_bw.

Allocated == Lesser(BurstTx, free)

TxAlloc(l) ==
  /\ pc[l] = "tx"
  /\ free' = free - Allocated
  /\ held' = [held EXCEPT ![l] = Allocated]
  /\ GoTo(l, "txsend")
  /\ UNCHANGED <<mode, qi, turn, nic_mbufs_count, windowVars, txring, rxring, stats,
                 exitCode, historyVars>>

Sent(l, n) == nic_mbufs_count[l] + n

\* rte_eth_tx_burst.  A lcore that has sent enough sleeps where it is, with the
\* buffers that were not sent.  Only queue 0 prints a window.
TxSend(l) ==
  /\ pc[l] = "txsend"
  /\ LET q == TxQueue(l)
         n == Lesser(held[l], TxRing - txring[q])
     IN  /\ txring' = [txring EXCEPT ![q] = @ + n]
         /\ held' = [held EXCEPT ![l] = @ - n]
         /\ nic_mbufs_count' = [nic_mbufs_count EXCEPT ![l] = Sent(l, n)]
         /\ IF Sent(l, n) >= Limit
              THEN GoTo(l, "asleep") /\ UNCHANGED <<txiters, bursts>>
            ELSE IF q.queue = 0
              THEN /\ txiters' = [txiters EXCEPT ![q] = IF @ + 1 = TxStats THEN 0 ELSE @ + 1]
                   /\ bursts' = [bursts EXCEPT ![l]["tx"] = Lesser(@ + 1, TxStats + 1)]
                   /\ GoTo(l, IF txiters'[q] = 0 THEN "txget" ELSE "txfree")
              ELSE GoTo(l, "txfree") /\ UNCHANGED <<txiters, bursts>>
  /\ UNCHANGED <<mode, qi, turn, rxiters, rxStart, got, free, rxring, stats, exitCode,
                 since, printed, window>>

TxGet(l) == pc[l] = "txget" /\ Get(l, "tx") /\ GoTo(l, "txstamp")

TxStamp(l) ==
  /\ pc[l] = "txstamp"
  /\ Report(l, "tx")
  /\ GoTo(l, "txreset")
  /\ UNCHANGED <<mode, qi, turn, held, nic_mbufs_count, windowVars, nicVars, exitCode>>

TxReset(l) ==
  pc[l] = "txreset" /\ EndWindow(l) /\ GoTo(l, "txfree") /\ UNCHANGED qi

FreedNone(l) == 0                \* mutant: the buffers that were refused leak

Freed(l) == held[l]

TxFree(l) ==
  /\ pc[l] = "txfree"
  /\ free' = free + Freed(l)
  /\ held' = [held EXCEPT ![l] = 0]
  /\ NextTx(l)
  /\ UNCHANGED <<mode, turn, nic_mbufs_count, windowVars, txring, rxring, stats, exitCode,
                 historyVars>>

\* "He terminado, a dormir": while (1).
Sleep(l) == pc[l] = "asleep" /\ UNCHANGED vars

-----------------------------------------------------------------------------
\* The network card and the wire.

Counted(p, d) ==
  /\ stats' = [stats EXCEPT ![p][d] = OneMore(@)]
  /\ since' = [l \in Lcores |->
       IF Reports(l, d, p) THEN [since[l] EXCEPT ![d][p] = OneMore(@)] ELSE since[l]]

Transmit(q) ==
  /\ txring[q] > 0
  /\ txring' = [txring EXCEPT ![q] = @ - 1]
  /\ free' = free + 1
  /\ Counted(q.port, "tx")
  /\ UNCHANGED <<mode, lcoreVars, windowVars, rxring, exitCode, bursts, printed, window>>

Arrive(q) ==
  /\ rxring[q] < RxRing
  /\ rxring' = [rxring EXCEPT ![q] = @ + 1]
  /\ Counted(q.port, "rx")
  /\ UNCHANGED <<mode, lcoreVars, windowVars, free, txring, exitCode, bursts, printed, window>>

-----------------------------------------------------------------------------
RxStep(l) ==
  RxEmpty(l) \/ RxBurst(l) \/ RxGet(l) \/ RxStamp(l) \/ RxResetFirst(l) \/ RxReset(l)

TxStep(l) ==
  TxAlloc(l) \/ TxSend(l) \/ TxGet(l) \/ TxStamp(l) \/ TxReset(l) \/ TxFree(l)

LcoreStep(l) ==
  \/ ArpAlloc(l) \/ ArpSend(l) \/ ArpFail(l) \/ ArpDone(l)
  \/ Turn(l) \/ RxStep(l) \/ TxStep(l)

Running == exitCode = "none"
Ended   == ~Running /\ UNCHANGED vars

Next ==
  \/ Running /\ \/ \E l \in Lcores : LcoreStep(l) \/ Sleep(l)
                \/ \E q \in TxQs : Transmit(q)
                \/ \E q \in RxQs : Arrive(q)
  \/ Ended

\* Every lcore has a processor of its own, and the link stays up.  Nobody has
\* to send anything to the program.
Fairness ==
  /\ \A l \in Lcores : WF_vars(Running /\ LcoreStep(l))
  /\ \A q \in TxQs : WF_vars(Running /\ Transmit(q))

Spec     == Init /\ [][Next]_vars
FairSpec == Spec /\ Fairness
-----------------------------------------------------------------------------
\* The buffers of the pool are never more than there are, and the arrays of an
\* lcore and the counters stay within their bounds.
TypeOK ==
  /\ mode \in {"active", "passive"}
  /\ pc \in [Lcores -> {"arp", "rearp", "turn", "rx", "rxget", "rxstamp", "rxfirst", "rxreset",
                        "tx", "txsend", "txget", "txstamp", "txreset", "txfree", "asleep"}]
  /\ qi \in [Lcores -> Nat \ {0}]
  /\ turn \in [Lcores -> 0 .. ArpEvery + 1]
  /\ held \in [Lcores -> 0 .. BurstTx]
  /\ nic_mbufs_count \in [Lcores -> 0 .. Limit + BurstTx - 1]
  /\ rxiters \in [First(RxQs) -> 0 .. RxStats]
  /\ txiters \in [First(TxQs) -> 0 .. TxStats - 1]
  /\ rxStart \in [Lcores -> BOOLEAN]
  /\ got \in [Lcores -> 0 .. MaxCount]
  /\ free \in 0 .. PoolSize
  /\ txring \in [TxQs -> 0 .. TxRing]
  /\ rxring \in [RxQs -> 0 .. RxRing]
  /\ stats \in [Ports -> [Dirs -> 0 .. MaxCount]]
  /\ exitCode \in {"none", "-1"}

\* Every buffer of the pool is free, in a ring or in the burst of one lcore:
\* whatever a card refuses goes back, also when the pool runs dry in the middle
\* of a burst and when an lcore goes to sleep with a burst in its hands.
MbufsConserved ==
  free + SumFunction(txring) + SumFunction(held) = PoolSize

\* The lcores whose windows of a direction are those of one port.
Single(l, d) == \A p, r \in Ports : Reports(l, d, p) /\ Reports(l, d, r) => p = r

\* The speed that is printed may be too low, because packets are lost between
\* rte_eth_stats_get and rte_eth_stats_reset and because another lcore may
\* clear the counters, but never too high: the packets of a window all passed
\* between its start_ewr and its end_ewr.  The first window of a transmitter is
\* the exception, for nobody clears the counters when it begins.
NeverOverstated ==
  \A l \in Lcores :
    LET w == window[l]
    IN  w.dir # "none" /\ Single(l, w.dir) /\ ~(w.dir = "tx" /\ w.nth = "first")
          => w.counted <= w.passed

\* A transmitter prints every TxStats bursts of queue 0 exactly, whatever its
\* other queues do.  A receiver prints every RxStats bursts that brought
\* something, but its first window is of one burst: the one before it, which
\* only set start_ewr, left the counter where it was.
WindowLength ==
  \A l \in Lcores :
    LET w == window[l]
    IN  /\ w.dir = "tx" /\ Single(l, "tx") => w.bursts = TxStats
        /\ w.dir = "rx" /\ Single(l, "rx") =>
             w.bursts = IF w.nth = "first" THEN 1 ELSE RxStats

\* --bw comes to an end: whatever the rings refuse and however little is left in
\* the pool, every lcore that transmits ends up asleep, or the program exits.
EverybodySleeps ==
  \A l \in {m \in Lcores : TxQueues[m] # <<>>} :
    mode = "active" ~> pc[l] = "asleep" \/ ~Running

\* A receiver keeps printing windows as long as packets keep coming to queue 0,
\* unless it transmits too and has gone to sleep.
WindowsKeepComing ==
  \A l \in Lcores : \A q \in First(Range(RxQueues[l])) :
    []<>(Running /\ pc[l] # "asleep" /\ rxring[q] > 0) => []<>(window[l].dir = "rx")
=============================================================================
