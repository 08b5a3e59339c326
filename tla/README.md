# A verification development of iDPDK-LatencyMeter

iDPDK-LatencyMeter measures the latency and the bandwidth of a network path. It
sends trains of ICMP packets through a DPDK-driven card, stamps some of them
with the time, receives them back (directly, through a loop, or from another
port) and prints a table of latencies. This directory holds TLA+ models of its
core, the TLC runs that check them on small instances and the TLAPS proofs of
what holds for all instances. References such as `runtime.c:283` are to
`src/src/` of the repository.

## 1. Inventory

| part | source | state it keeps | operations |
|---|---|---|---|
| probe packet | `runtime.c:130-168`, the transmitters | the template `icmppkt`, `pktcounter` | mark, number, stamp, checksum, recognise |
| latency train | `app_lcore_io_rx`, `app_lcore_io_tx`, ARP, main loop | `counter`, `latencyStats`, `continueRX`, `n_mbufs`, pool, rings | announce, poll, record, send, wait, report, exit |
| selective stamping, train with friends | `app_lcore_io_rx_sts`, `app_lcore_io_tx_sts` | the same, `pktcounter`, `bytecounter`, the burst being sent | fill a burst, number it, send all of it or take it back, look at every packet |
| bandwidth modes | `app_lcore_io_rx_bw`, `app_lcore_io_tx_bw` | counts per window, the card's statistics | send bursts, read and reset statistics |
| command line | `config.c` | queue masks, queue lists of lcores, sizes, flags | one handler per option, final checks, defaults |
| initialisation | `init.c`, `main.c` | pools, ports, queues | make pools, set up queues, start ports, wait for links |
| clock | `hptl.c`, called through `hptl_deprecated.c` | precision | read, convert, wait; with `HPTL_ONLYLINUXAPI` all on top of `clock_gettime` and `nanosleep` |
| autoconfiguration | `autoconf.c` | two flags | ends the process when one is set |
| DPDK | empty submodule | rings, pools, driver | external |
| scripts | `scripts/`, `interfaces/` | none | command lines, filters of the output |
| not compiled | `hdd.c`, `pcap_jose.h` | | |

**How the parts interact.** `main` parses the options, initialises the card and
starts one endless loop per logical core (lcore). Lcores never lock: they share
the buffer pool (DPDK's lock-free mempool), the flag `continueRX`, the number
`pktcounter`, the template and the table. A transmitter talks to a receiver only
through the wire and through `continueRX`. There is no error recovery: every
problem ends the process, for all lcores at once.

**What is hard in it.**
- *Interleaving.* The end of a measurement is decided by three parties that do
  not wait for each other: the receiver that fills the table, the transmitter
  that has sent its train and waits, and `exit`, which stops everybody wherever
  they are. `pktcounter++` and `pktcounter--` are not atomic.
- *Loss and bursts.* The row of a packet depends on what arrived before it and
  on how the driver cut the arrivals into bursts.
- *Limits.* Rings and the pool fill up; bursts are accepted in part or not at
  all, and each path has to give its buffers back. Counters have 16 bits on the
  wire, 32 in the program.
- *Order of writes.* The fields of a packet overlap with some build options.
- *Order of options.* Options may be repeated and come in any order.
- *Shared statistics.* The card counts the packets of a port, in both directions,
  for all lcores; reading and clearing the counters are two calls, between which
  packets come and go and other lcores clear them.
- *Numbers.* Stamps are truncated to units, subtracted without sign, rounded to
  double; the clock may be set while packets are on their way.

**What makes each part correct.** Packet: the receiver reads what the sender
meant. Trains: the table is filled in order, belongs to the right packets, stays
within its bounds, is frozen when it is printed, is printed in full; no buffer
is lost; every byte is counted once; the process ends. Command line: one owner
per queue, indices within arrays, a table whenever one is needed.
Initialisation: what the loops use has been set up for them. Report: the numbers
printed are the true times, up to a bound that follows from the units. Bandwidth:
no speed is printed that is too high, windows have the same length and keep
coming, no buffer is lost, and `--bw` comes to its end.

## 2. Modules

| module | models | proofs |
|---|---|---|
| `PacketFormat` | the words of the packet and the operators that read and write them | |
| `PacketStamp` | the transmitters as producers of packets, in both stamping modes | `PacketStamp_proofs` |
| `Trains` | constants both train modes share: lcores, queues, sizes | |
| `TrainMeasurement` | abstract: what a measurement promises to the reader of its report | |
| `LatencyTrain` | the default mode; refines `TrainMeasurement` | `LatencyTrain_proofs` |
| `StsTrain` | `--sts` and `--trainFriends`; refines `TrainMeasurement` | `StsTrain_proofs` |
| `LatencyReport` | the clock, the stamps and the loop that prints the table | `LatencyReport_proofs` |
| `Bandwidth` | `--bw` and `--bwp`: the polling and sending loops and the windows of statistics | `Bandwidth_proofs` |
| `QueueConfig` | the command line | `QueueConfig_proofs` |
| `NicInit` | `QueueConfig` followed by initialisation, up to the main loops | `NicInit_proofs` |
| `SumTheorems` | facts about sums over finite sets, for the proofs about buffers, bytes and latencies | itself |
| `MC*` | values of the constants for TLC | |

`LatencyTrain` and `StsTrain` extend `Trains`, which extends `PacketFormat`, so
a change of the packet layout reaches the train models. `NicInit` extends
`QueueConfig`: the parser runs first, then one step per port, queue and round
of the link check.

Operators whose name ends in *mutant* comments (`PutMarkNever`, `TakeBackLeak`,
...) are not used by any specification: they are plausible mistakes against
which the properties were tried, listed in `PROJECT.json`.

### PacketFormat, PacketStamp
A packet is a function from byte offsets to 16-bit words, restricted to the
offsets that any code writes or that the checksum covers, in the order of
`runtime.c`: template, mark, counter, time stamp, checksum. `VLAN_OFFSET` is a
constant because the build chooses it (`main.h:41-46`). `WordBase` stands for
2^16. `LatencyPacket`, `StsMarked` and `StsFriend` are the three kinds of packet
the transmitters make. The variable `out` keeps the last one together with what
its sender meant by it.

### LatencyTrain
One `pc` per lcore: `arp` (app_lcore_arp_tx_gratuitous), then the endless loop of
`poll`/`record` (app_lcore_io_rx) and `tx` (app_lcore_io_tx); `wait` and `grace`
are the two calls of `hptl_waitns(waitTime)` after the last packet, `report` is
the printing of the table. An action is one call into shared state: one
`rte_pktmbuf_alloc`, one `rte_eth_tx_burst`, one `rte_pktmbuf_free`, one
`rte_eth_rx_burst`, one burst recorded. So a packet is `tx` (`TxAlloc`), `send`
(`TxSend` or `TxRefused`) and, if refused, `free` (`TxFree`), an announcement
`ArpAlloc` (or `ArpFail`) and `ArpSend`, and in between its buffer is in the hands of the lcore,
in `held`: others may find the pool empty for it. `n_mbufs` is
`mbuf_out[port].n_mbufs`. A frame carries the queue and the global number of its
packet, which only the properties read. The card and the wire are the actions
`Transmit` (deliver or lose) and `Stray` (a frame of another host).

### StsTrain
A burst is allocated and marked (`Fill`), numbered (`Number`, with the read and
the write of `pktcounter++` in different steps), sent in full, in part (`Send`,
then `Spin`) or refused (`Refused`, `TakeBack`, again with a separate read and
write of `pktcounter--`). `FillAlloc`, `FillSend` and `FillFree` are the one call
of `app_lcore_io_tx_bw` that fills the rings for `--sts`, each of them one of its three loops
or calls. `Look...` is one turn of the receiver's loop
over a burst. A packet counts as one byte. A whole burst is allocated in one
step, and freed in one: with several lcores on an almost empty pool the real split between them
may be finer. The array the burst is built in is not modelled (see section 6).

### TrainMeasurement
Rows are added behind all others while the measurement runs; of the packets of
one queue a later row measures a later packet; then the table is frozen and
printed, or the program gives up before it has begun to print; one of the two
happens. The refinement maps `rows` to the slots of `latencyStats` with
`recved = 1`, and `phase` to `exitCode` and the receiver's `pc`.

### LatencyReport
`hptl_getTime` is translated with the base of the decimal system, the digits of
the precision, the width of a word and the mantissa of a double as constants;
powers are recursive functions (`Power`), as `hptl_initclk` multiplies, since
the provers do not know `^`. Packets are stamped, travel in order, and are
recorded in bursts, while real time goes on (`Tick`) and somebody may set the
clock (`SetClock`); then `PrintRow`, `PrintIgnored` and `PrintMeans` run through
the table with the variables of the loop. What was printed is kept in `printed`
and `means`, next to the real times in the rows. A burst behind the end of the
table, which `TrainSkips` is about, is left out here. `Poll` looks at
`continueRX`, `Receive` does not: the flag may be cleared between the two. The
formulas are those of `app_lcore_io_rx`; `app_lcore_io_rx_sts` has the same, with its estimate
besides.

### Bandwidth
One `pc` per lcore. `rx` is `rte_eth_rx_burst`; at the end of a window of queue 0
`rxget`, `rxstamp`, `rxreset` are `rte_eth_stats_get`, `gettimeofday` and
`rte_eth_stats_reset`, which the first window calls twice (`rxfirst`). `arp` and
`rearp` are the announcements, allocated and sent in two steps. `tx` allocates a burst, `txsend` sends it, `txget`, `txstamp`,
`txreset` are the window, `txfree` gives back what was refused; `asleep` is the
`while (1)` of line 622. A ring is a number of frames. Only the counters of
queue 0 decide anything, so `rxiters` and `txiters` leave out the others. The
buffers of received packets are taken to be others than those of `app.pools[1]`.
`since`, `bursts`, `printed` and `window` are for the properties: what really
passed since the window began. The wait of `--lim` only delays and is left out.

### QueueConfig, NicInit
One action per kind of option, one per tuple of a list of queues; rejected
values end in the stage `usage`, as does `BadValue`, a value that cannot be
read, and `BadTuple`. A handler tests the number of tuples after it has assigned
and counted one (`config.c:241-248`), so that the one too many is in the lists and
in `n_tuples` when the parser ends. `Overrun` is the number of a list that cannot be
read: `num_vals` is unsigned and takes the -1 of `str_to_unsigned_array`, and the
loop of `config.c:185-188` writes on beyond `vals` (stage `crash`, of which
nothing is promised; see section 6). `noMemory` is an `rte_calloc` that returned
NULL, which nobody tests. Options that only store a value no property is about
are left out.

`NicInit` follows `app_init`: `InitPools`, for each port `ConfigurePort`, the
loops over the queues of each direction (`SkipRx`, `SetupRx`, `RefuseRx` and
their `Tx`), `StartPort`, then the rounds of `check_all_ports_link_status`, then
`AutoConf`. The driver refuses a port that does not exist, a queue whose number is
not below the number of queues the port was configured with, and a ring size, of
which it gets the lower 16 bits, that is not in `RingSizes`: the program then
panics (`panic`). The other panics, for want of memory or of a working device, may
happen at any of these calls: `PoolFault` and `PortFault`, which end in `fault`.

## 3. Runs

Passing runs:

| run | question | bounds |
|---|---|---|
| `StampUntagged` | does the receiver read what the sender meant? | words of base 4, all 256 stamps, counter up to 5, beyond its wrap |
| `TrainPair` | one receiver, one transmitter: rows in order and never ahead of their packet, full report, termination | 4 packets, rings of 3, bursts of 2, 3 buffers, all of which the ring may hold, 2 foreign frames |
| `TrainMixed` | one lcore receives and transmits, another transmits on two queues: races for buffers and to the end, refused packets, an ARP that fails, no buffer lost, full report if the receiver is not waiting itself | 2 packets per queue, rings of 1, 2 buffers |
| `StsSingle` | `--sts --autoInc`, one queue: consecutive numbers, rows about their packets, bytes accounted for, no empty pool, full report, termination | train of 3, bursts and rings of 2, 3 buffers |
| `StsTwo` | `--sts --autoInc`, two transmitters with a queue each: none finds the pool empty while the other fills its ring, sends or takes back | train of 1, bursts and rings of 2, 7 buffers, the fewest `EnoughBuffers` allows |
| `StsCount` | `--sts` without `--autoInc`, receiving and transmitting on one lcore, pool exhausted: buffers, bytes, how far the last burst writes behind the table, termination once the table is full | train of 1, bursts of 2, 3 buffers |
| `InitNics` | any options: one owner per queue, array limits, a table for each recording mode; and what follows: right owner and pool, everything set up, links printed, no panic, progress | 2 ports, 2 queues, 2 lcores on 2 nodes and one lcore beyond the arrays, 4 options, lists of 1 tuple and the one too many, ring sizes of which the driver takes one, another only after the cast to 16 bits or not at all, 3 rounds of the link check |
| `Report` | are the printed latencies, intervals and means the true ones? | a second of 8 ns, units of 2 ns, words of 6 bits, a mantissa of 4, 3 rows, 5 ns, one jump of the clock |
| `BwWindows` | printed speeds never too high, length of the windows, no buffer lost, `--bw` ends, windows keep coming | one receiver, one transmitter with 2 queues, windows of 2 bursts, 3 buffers, sleep after 2 packets |

The bounds are the smallest at which the interesting cases happen: a ring that
is full, a burst accepted in part, an empty pool, a counter that wraps, a burst
that spans the end of the table, a queue listed twice, a table full before the
transmitter has finished and the other way round. In `Report` the clock starts
4 ns before a second at which the mantissa loses one more bit, so that stamps fall
on both sides of a unit, of a second and of that step; a clock set back by 7 ns
makes differences wrap.
In `BwWindows` a window is printed, first and later, by both lcores, with packets
between each pair of its three steps; a limit of 2 packets is reached in one
burst or in several, since windows go on with bursts that send nothing. `MaxStray`, `MaxDelivered`,
`MaxMarks`, `MaxCounter` and `MaxOptions` are the only bounds on behaviour:
`MaxTime`, `MaxSets` and `MaxFlying` limit `Report`; `MaxCount` in `Bandwidth` is where
the counters of packets stop, for the card's and for the true ones alike.
`MaxDelivered` makes the wire lose every frame from some point on, which is
something a wire may do; `MaxMarks` stops the history variable that names marked
packets, and `ConsecutiveNumbers` compares packets below it only.

Runs that end in a violation show what a comment or the documentation promises
and the code does not keep:

| run | promise | what happens |
|---|---|---|
| `StampTagged` | marked packets are recognised | in the default build (`VLAN_ID 7`, `main.h:41`) the mark is at offset 40, where the time stamp is written next |
| `TrainSkips` | "end if all packets have been recved" (`runtime.c:298`) | two transmitters and `counter == trainLen`: a burst jumps over the end, and rows behind the table are written |
| `StsNumbers` | `--autoInc` numbers the packets consecutively | a burst refused on queue 1 takes back the number of a packet of queue 0 |

### Assumptions behind the runs
*Time* is counted in ticks. A tick is long against a turn of the polling loop:
all lcores have announced their queues before the first tick, and the receiver
polls at least once per tick unless it waits or prints. Printing takes at most
`ReportTime` ticks. `ReportIsComplete` needs this, and states its condition: no
transmission queue on the receiving lcore, and a `--waitTime` two ticks longer
than the printing. With a transmission queue on the receiving lcore the process
does end with `exit(1)` and no report: the receiver itself is waiting.

*Fairness.* Weak fairness of every lcore's step: lcores are pinned to processors
of their own and every function they call returns. Weak fairness of `Transmit`:
the link is up (a card whose link is down keeps its ring full, and the
transmitter then really never ends). Weak fairness of `Tick`: time passes.
Nothing is assumed about delivery: a fair run may lose every frame. In `NicInit`
only the steps of initialisation are fair; the parser's choices are the
operator's. In `Bandwidth` lcores and `Transmit` are fair, arrivals are not:
`WindowsKeepComing` has packets that keep coming as its premise.

*Deadlock* is checked in all models in which the process runs; `CHECK_DEADLOCK
FALSE` stands in the `Stamp` runs only, whose machine stops at the bound of the
counter.

## 4. Proofs

Every safety property that a passing run checks is also a theorem, for all values
of the constants; so is the safety part of both refinements. `B` below stands for
"for every number of lcores, queues, ring, burst and pool sizes".

| theorem | says |
|---|---|
| **`PacketStamp_proofs`** | for every word size, template, stamp and counter: |
| `StampCorrect`, `MarksSurvive` | without tag and checksums: type correctness, `MarkSurvives`, and the two below |
| `SendTimesSurvive` | `TimeSurvives`, with a tag or with checksums, but not with both |
| `CountersSurvive` | `CounterSurvives`, without a tag |
| **`LatencyTrain_proofs`** | `B`, and for every train length and any losses: |
| `TypeCorrect` | `TypeOK`, and no lcore looks at a queue it does not own |
| `SlotsCorrect` | `SlotNeverAhead` |
| `BuffersKept` | `MbufsConserved`: each buffer is in the pool, in one ring or in the hands of one lcore |
| `ReportsComplete` | `ReportIsComplete` |
| `AnnouncementsSucceed` | with `EnoughBuffers`, no ARP fails |
| `MeasurementSafe` | steps of `LatencyTrain` are steps of `TrainMeasurement` or stutter, while no ARP fails |
| `MeasurementSafeWithBuffers` | the same under `EnoughBuffers` alone |
| **`StsTrain_proofs`** | `B`, and for every train length and any losses: |
| `StsTypeCorrect`, `StsBuffersKept` | `TypeOK`, `MbufsConserved` |
| `StsNeverStarves` | `NeverStarves` |
| `StsOverrunBounded` | `OverrunBounded` |
| `StsReportsComplete` | `ReportIsComplete` |
| `StsConsecutiveNumbers` | `ConsecutiveNumbers`, under `Numbering` |
| `StsRowIsPacket` | `RowIsPacket`, under `Numbering` |
| `StsBytesAccounted` | `BytesAccounted`, under `Numbering` if packets are numbered at all |
| `StsMeasurementSafe` | steps of `StsTrain` are steps of `TrainMeasurement` or stutter, under `Numbering` and `EnoughBuffers` |
| **`LatencyReport_proofs`** | for every base, precision, word, mantissa, table and burst: |
| `LatenciesWithinUnit` | `LatencyWithinUnit`, under `LongWord` |
| `LatenciesWrapBackwards` | `WrapsOnlyBackwards`, under `HalfWord(b)` |
| `MeanLatencyWithinUnit` | `MeanWithinUnit`, under `LongTable` |
| `IntervalsSum`, `IntervalsWithinUlp` | `IntervalsAddUp`, `IntervalWithinUlp`, under `SetWithin(b)` |
| **`Bandwidth_proofs`** | `B`, and for any ports and windows: |
| `BandwidthTypeCorrect`, `BandwidthBuffersKept` | `TypeOK` (which no run lists), `MbufsConserved` |
| `SpeedNotOverstated` | `NeverOverstated` |
| `WindowsHaveTheirLength` | `WindowLength` |
| **`QueueConfig_proofs`** | for any sequence of options of any length: |
| `ConfigTypeCorrect` | `ConfigTypeOK`: as long as numbers can be read, the lists stay within their arrays; the count of tuples is one past its limit at most, and then the parser ends |
| `QueuesOwned` | `QueueOwned`: enabled queues and owners correspond one to one |
| `TableThere` | `ModeHasTable`: a mode that records has a train, and a table unless `rte_calloc` returned NULL |
| **`NicInit_proofs`** | for any ports, nodes, options and link states: |
| `ProgramParses` | `NicInit` implements `QueueConfig`, so that the theorems above hold of it |
| `InitTypeCorrect`, `OwnersSetUp` | `TypeOK`, `SetupForOwner` |
| `AllSetUp`, `LinksReported` | `AllReady`, `LinksPrinted` |
| `StartsWithoutGaps` | `NoPanic`: an accepted command line without gaps and with ring sizes of the driver is refused by nobody; memory and devices may still fail |
| **`SumTheorems`** | how sums over finite sets change, grow and are bounded |

They rest on the assumptions named in the modules (`FormatAssumption`,
`TrainAssumption`, `ListedOnce`, `StrayAssumption`, `StampAssumption`,
`ConfigAssumption`, `ReportAssumption`, ...), which TLC evaluates in every run, and
on the library's facts about sequences and finite sets. The code justifies them:
there are finitely many lcores, the receiving one among them, and `ListedOnce` is
what `QueuesOwned` proves of the parser.

### Hypotheses
Some theorems have a condition, which is what the code needs:

- *`VLAN_OFFSET`, `doChecksum`.* Each theorem about packets has the weakest
  condition on the build under which it is true: the time stamp is lost only with
  tag *and* checksums, the number with a tag, the mark with either.
- *`WaitTime >= ReportTime + 2`* is a part of `ReportIsComplete`, and explained in
  section 3.
- *`EnoughBuffers`* of `LatencyTrain`: a buffer is left when all rings but one are
  full and every other transmitter has one in its hands, which it may be about to
  have refused. An announcement that fails ends the process with -1, also while
  another lcore prints, and `TrainMeasurement` does not allow that; hence the
  condition `[](exitCode # "-1")` of `MeasurementSafe`. `EnoughBuffers` of `StsTrain`,
  which `NeverStarves` contains, is for all rings full, and the hands of each other
  lcore hold a burst, or a whole ring if rings are filled first and that is more:
  without it the first buffer of a burst may be NULL, and that is a crash.
- *`Numbering`*: numbered, untagged packets, one transmission queue (a second one
  takes back numbers that are not its own, as `StsNumbers` shows), and a 32-bit
  counter that does not wrap before the end of the train. `MaxMarks`, the bound of
  a history variable, must not bite. Rows are numbered by a 16-bit field, so
  `StsRowIsPacket` and what follows from it also want `TrainLen <= WordBase`.
- *`LongWord`*, *`LongTable`*: a word holds the latency of one packet, or the sum
  of those of a table: 5800 years in the program. *`HalfWord(b)`*: half a word
  holds a latency and all by which the clock is set forward, `b` at most each time.
  *`SetWithin(b)`*: each time the clock is set by `b` at most, never so far back
  that a stamp is 0 (the loop takes a time of 0 for "no row yet"), that is to 1970,
  nor forward until stamps wrap.

The constants of `TrainPair`, `StsSingle`, `StampUntagged` and, with `b = 9`, of
`Report` satisfy all of those that belong to their module: no theorem is empty, and
TLC has seen on them what the theorem says.

### Arguments
*Sums.* Buffers, bytes, latencies and intervals are summed with `SumFunction` of
the community modules, which is defined by recursion. What a recursion computes
is shown in `SumTheorems` without induction: two solutions of the recursion differ
at some subset, a smallest such subset exists (the library proves that strict
inclusion is well-founded on a finite set), and the recursion refutes it. The same
argument with numbers shows that `Power` of `LatencyReport` has its recursion, and
that exponents add up.

*Type correctness* is not inductive alone: that a buffer is there when one is taken
comes from the guards, but that `Record` has a last frame needs `BurstOK` (a burst
being recorded is not empty), and that the ring `TxQueues[l][txi[l]]` exists needs
`TxIndexOK` or `PlaceInv`. `TypeInv` is their conjunction. `HandInv` of each train
mode and of `Bandwidth` says where in the loop buffers may be in the hands of an lcore,
so that the sum over pool, rings and hands counts each of them once. In `NicInit` the index of a queue's owner is right because
`QueueOwned` is, which comes from `ProgramParses`.

*`SlotNeverAhead`* compares the slot of a packet with its number, and says
nothing of packets that are still on their way. `SlotInv` does: a packet in the
transmission ring, in the receive ring or in the burst has in front of it, on
the one path of the train, at most as many frames, counted ones included, as its
number and the foreign frames together. Each lemma of the module moves the
frames of one step: `SlotEnqueue`, `SlotTransmit`, `SlotStray`, `SlotPoll`,
`SlotRecord`. A second transmission queue breaks the argument at `SlotTransmit`,
where its frame would overtake, and `SlotNeverAhead` is stated for one queue.

*`ReportIsComplete`*: `GraceInv` relates the timers of the transmitters to the
receiver. When a transmitter is in its second wait, `continueRX` is 0, so the next
poll of the receiver is its last, and at most one tick passes before it (`Slack`);
when the receiver prints, every second wait has more in front of it than the
printing. The tick before the poll and the strict order are the 2 of the condition. In `StsTrain`
`QuietInv` adds that a receiver without queues never waits.

*The measurement.* Rows are added in order because frames of one queue are in the
order of their numbers wherever they are (`OrderInv`: each place is sorted, and
precedes the places behind it). `RingInv` bounds the rings, and says that those not
yet announced are empty, for `EnoughBuffers`.
In `StsTrain` the row is the number itself, so `RowsInv` needs `NumberInv` and
`RowIsPacket`; without `--autoInc` it needs `CountInv`, that all rows are below
the count.

*Numbers.* `NumberInv` follows `pktcounter` through the steps of one transmitter:
between the read and the write of `++` and `--` the lcore has a copy, and a burst
that is about to be sent is `Fresh`: its first packet has the next number.

*Bytes.* `BytesInv`: what the rows and `bytecounter` hold is what has been received.
Its step is a change of one value of a sum, and needs that a row is written once
(`RowsInv`).

*Bandwidth.* `SinceInv`: once a window is open (`Begun`) the card's counter is at
most what really passed, except between the stamp and the reset. It holds since a
reset by any lcore only makes the counter smaller. `RxLengthInv` and `TxLengthInv`
relate the counter of a window, which wraps, to the bursts really counted; the
first window of a receiver begins one behind.

*Initialisation.* `ProgressInv` says which queues of which ports have been set up
at each place of the loops; `LinksInv` that the round which prints is entered with
a round to spare, whatever the links did before; `FiniteMask` that the queues of a
port can be counted: without a gap there are more of them than the number of any,
so that the driver accepts all if it has rings of that size (`RingsFit`).

*The report.* `MeasureInv`: every stamp is `hptl_getTime` of what the clock showed,
and rows are in the order of arrival; it knows nothing of printing. `PrintedInv`:
line `i` is the row of slot `i`. `StampIs` writes a time as units and a remainder,
and `StampsDiffer` shows that remainders cost less than a unit, before any modulus;
`ModDifference` brings the modulus back. `JumpInv` and `OffsetInv` bound what the
clock was set by. For the mean, `SumNear` says after `c` rows that the sum has not
wrapped and is off by less than `c` units (`SumOneMore` is its arithmetic). For the
intervals, `TimesInv` says that `lastTime` is the time of the last row printed, that
each row is measured from the one before, and that intervals telescope: their sum
is `Double(lastTime) - Double(firstTime)`. `DoubleNear` bounds the rounding of one
stamp by half of its last bit, `UlpGrows` compares the bits of two.

*`QueueOwned`*: `AssignOwned` shows that a free queue given to an lcore keeps the
correspondence; a rejected tuple leaves the stage `usage`, in which enabled queues may
be in no list, and nothing happens after it (`OnlyParsing`).

*`ModeHasTable`* is about the end of the parser, while its options may come in any
order: `TableInv` says that the table is allocated for the train length that has
been read so far, and that once the last check has passed there is a train or a
flag that measures bandwidth. Nothing changes after that (`OnlyParsing`).

### Only model-checked
Liveness, which depends on fairness and is outside the prover: the fairness part
of `MeasurementSpec`, `EndsWhenOver`, `Starts`, `EverybodySleeps` and
`WindowsKeepComing`. The three violations are counterexamples and have nothing to
prove; that they vanish under the hypotheses above is proved
(`StsConsecutiveNumbers`, `MarksSurvive`).

## 5. What is not modelled

Hardware time stamps; the constant bytes of packets and the addresses and lengths
that options write into them; the estimate `--sts` prints beside a latency;
`--trainSleep` and `--lim`, which only delay; worker lcores, which nothing
configures; more than one receive queue of the train modes; the second and
further receive queues of a receiver in `BwWindows` (they are in `Bandwidth`, and
only take frames). Of the clock the branches on the cycle counter, which the
build leaves out, and the conversions nothing calls. Parts that are not compiled
are left out, and so are the scripts and the texts of usage.

Two things are modelled as an end and no further: a pool or a port that fails
(`fault`), and the parser's overrun (`crash`), after which the program may do
anything until it ends.

## 6. Divergences read in the code, without a run

- `--chksum` (README.md:68) sums over the old content of the checksum field, which
  is the mark, and overwrites the mark (`runtime.c:560`, `:724`).
- `--autoInc` (README.md:69) in the latency mode increments a word that the time
  stamp then covers (`runtime.c:552`, `:556`).
- Without `--autoInc` the transmitter of `--sts` never stops (`runtime.c:708`), and
  marked packets behind the last one of a burst are recorded behind the table;
  `OverrunBounded` says how far.
- A frame that is not a packet of the train, in the same burst as one, shifts all
  later rows (`runtime.c:283`); `SlotNeverAhead` says by how much.
- The burst that fills the rings for `--sts` is `nic_tx_ring_size - 1`, by default
  1023 packets in an array of 512 (`runtime.c:828`, `main.h:182`); `--trainFriends` is
  not compared with the array either.
- Transmitters allocate from `app.pools[1]` whatever memory nodes have a pool
  (`runtime.c:542`, `:595`, `:690`, `:753`).
- `--etho` is overwritten by the port's address (`init.c:406`).
- With precision 8 (`init.c:472`) a unit of the clock is 10 ns; the report prints
  differences of such units as "ns" (`runtime.c:221`), and divides by them as if
  they were, so that the bandwidths it prints are ten times too high (`:242`,
  `:260`). `LatencyWithinUnit` and its like are in units.
- The mean bandwidth counts the bytes of all rows over the time from the first row
  to the last, that is one row too many (`runtime.c:252`, `:260`). With one row or
  none it divides by zero, as the mean latency does with none (`:261`).
- The latency that `--sts` estimates may be negative before it is converted to an
  unsigned number (`runtime.c:408`).
- `--bw` stops sending after a fixed number of packets (`runtime.c:619`), where
  README.md:52 says "non-stop"; an lcore that also receives stops that too.
- `--bwp` sends gratuitous ARPs, at the start and from time to time
  (`runtime.c:794`, `:819`), where README.md:71 says that no packet is sent.
- The first window of a receiver covers one burst (`runtime.c:343` leaves the count
  of bursts as it is), the first window of a transmitter counts the packets, such
  as the ARPs of other lcores, that were sent before it began (`:795`).
- The window of a receiver clears the sent packets of its port too, and the other
  way round (`runtime.c:342`, `:657`), so what is printed may be too low; an lcore
  with queue 0 of two ports has one `start_ewr` for both.
- `--calibrate` and `--calibration` call `fopen` with its arguments swapped
  (`config.c:513`, `:520`).
- `--lim` above 10000 yields a negative wait, which is converted to unsigned
  (`config.c:751`).
- `rte_calloc` is not tested (`config.c:475`): with a train too long for the memory
  the receiver writes through NULL. `TrainLength` has that outcome, and
  `ModeHasTable` promises a table only when it has not happened.
- A number of `--rx`, `--tx`, `--rsz` or `--bsz` that cannot be read is -1 in an unsigned
  `num_vals` (`config.c:182`), and the loop behind it writes beyond `vals` (`Overrun`).
- usage names options the parser does not know (`--lo`).

## 7. Plan

Done: the packet, the three train modes that record latencies, their abstract
specification, the report and the clock, the bandwidth modes, the command line,
initialisation and autoconfiguration; theorems for all safety properties and for
the safety part of both refinements.

Next, in this order:
1. for two transmission queues: how far numbers can be taken back, as an invariant
   in place of `ConsecutiveNumbers`, and its proof;
2. for trains longer than the 16-bit field: in which rows packets of `--autoInc` end;
3. several receiving lcores, which share the counter of `app_lcore_io_rx`.
