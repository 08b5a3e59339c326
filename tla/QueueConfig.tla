---------------------------- MODULE QueueConfig ----------------------------
(***************************************************************************)
(* The command line (config.c): options come in any order and any number   *)
(* of times; --rx and --tx give queues of the network ports to lcores, one *)
(* tuple (port, queue, lcore) after another; the others set the sizes and  *)
(* the flags from which app_lcore_main_loop_io chooses what to measure.    *)
(*                                                                         *)
(* The texts are left out: a tuple is three numbers.  What cannot be read  *)
(* ends the parser (BadValue, BadTuple), except a number of --rx, --tx,    *)
(* --rsz and --bsz, which makes it run out of its arrays (Overrun).        *)
(***************************************************************************)
EXTENDS Naturals, Sequences, FiniteSets

CONSTANTS
  Lcores,        \* 0 .. APP_MAX_LCORES - 1
  Enabled,       \* the lcores the EAL was given (-c)
  NicPorts,      \* 0 .. APP_MAX_NIC_PORTS - 1
  QueueIds,      \* 0 .. APP_MAX_RX_QUEUES_PER_NIC_PORT - 1, the same for TX
  QueuesPerLcore,  \* APP_MAX_NIC_RX_QUEUES_PER_IO_LCORE, the same for TX
  MaxTuples,     \* APP_ARG_RX_MAX_TUPLES, the same for TX
  ArraySize,     \* APP_MBUF_ARRAY_SIZE
  DefaultRing,   \* APP_DEFAULT_NIC_RX_RING_SIZE and _TX_
  DefaultBurst,  \* APP_DEFAULT_BURST_SIZE_IO_TX_WRITE
  PortArgs, QueueArgs, LcoreArgs,  \* the numbers a tuple may hold
  Numbers,       \* the numbers --rsz, --bsz, --trainLen and --trainFriends may have
  Flags,         \* the other options that may be given
  MaxOptions     \* bound: number of options of a command line

Dirs == {"rx", "tx"}

ASSUME ConfigAssumption ==
  /\ \A S \in {Lcores, NicPorts, QueueIds} :
       S \subseteq Nat /\ 0 \in S /\ \A n \in S : 0 .. n \subseteq S
  /\ PortArgs \subseteq Nat /\ QueueArgs \subseteq Nat /\ LcoreArgs \subseteq Nat
  /\ Enabled \subseteq Nat
  /\ QueuesPerLcore \in Nat /\ MaxTuples \in Nat /\ MaxOptions \in Nat
  /\ ArraySize \in Nat /\ Numbers \subseteq Nat
  /\ DefaultRing \in [Dirs -> Nat \ {0}] /\ DefaultBurst \in Nat \ {0}
  /\ DefaultBurst <= ArraySize    \* main.h:195

VARIABLES
  stage,        \* "parse", then "configured"; "usage" when the parser gave up,
                \* "crash" when it ran out of its arrays
  opt,          \* "rx" or "tx" while a list of tuples is being read, else "none"
  n_tuples,     \* tuples of that list read so far
  options,      \* options read so far
  given,        \* which of the options with a default have been given
  mask,         \* the queues in nic_rx_queue_mask and nic_tx_queue_mask
  io,           \* the lcores of type e_APP_LCORE_IO; the others are disabled
  nic_queues,   \* for each direction and lcore, its queues in order
  ring,         \* for each direction, nic_rx_ring_size and nic_tx_ring_size
  burstTx,      \* burst_size_io_tx_write
  trainLen, trainFriends,
  rows,         \* number of rows latencyStats has been allocated with
  noMemory,     \* whether the last allocation of latencyStats returned NULL
  flags         \* the flags that are set

trainVars  == <<trainLen, trainFriends, rows, noMemory>>
sizeVars   == <<ring, burstTx, trainVars>>
queueVars  == <<mask, io, nic_queues>>
configVars == <<stage, opt, n_tuples, options, given, queueVars, sizeVars, flags>>

Queue == [port : NicPorts, queue : QueueIds]

ConfigInit ==
  /\ stage = "parse"
  /\ opt = "none" /\ n_tuples = 0 /\ options = 0 /\ given = {}
  /\ mask = [d \in Dirs |-> {}]
  /\ io = {}
  /\ nic_queues = [d \in Dirs |-> [l \in Lcores |-> <<>>]]
  /\ ring = [d \in Dirs |-> 0] /\ burstTx = 0
  /\ trainLen = 0 /\ trainFriends = 0 /\ rows = 0 /\ noMemory = FALSE
  /\ flags = {}

-----------------------------------------------------------------------------
\* parse_arg_rx and parse_arg_tx.

BeginList(d) ==
  /\ stage = "parse" /\ opt = "none" /\ options < MaxOptions
  /\ opt' = d
  /\ n_tuples' = 0
  /\ options' = options + 1
  /\ given' = given \cup {d}
  /\ UNCHANGED <<stage, queueVars, sizeVars, flags>>

FreeQueueAny(d, q) == q.port \in NicPorts /\ q.queue \in QueueIds   \* mutant: -4 is missing

\* Errors -3 and -4, which come before the mask is set.
FreeQueue(d, q) == q.port \in NicPorts /\ q.queue \in QueueIds /\ q \notin mask[d]

\* Errors -5 and -6, which come after it.  No lcore is a worker (-7).
AnLcore(l) == l \in Enabled /\ l \in Lcores

LcoreTakesAny(d, l) == AnLcore(l)     \* mutant: -9 is missing

\* Error -9, before which the lcore becomes one for I/O; -8 is subsumed by -4.
LcoreTakes(d, l) == AnLcore(l) /\ Len(nic_queues[d][l]) < QueuesPerLcore

Assign(d, q, l) ==
  /\ mask' = [mask EXCEPT ![d] = @ \cup {q}]
  /\ io' = io \cup {l}
  /\ nic_queues' = [nic_queues EXCEPT ![d][l] = Append(@, q)]

\* What a tuple that is rejected after all has changed by then.
Leave(d, q, l) ==
  /\ mask' = IF FreeQueue(d, q) THEN [mask EXCEPT ![d] = @ \cup {q}] ELSE mask
  /\ io' = IF FreeQueue(d, q) /\ AnLcore(l) THEN io \cup {l} ELSE io
  /\ UNCHANGED nic_queues

\* One tuple (p, n, l) of the list.  A rejected one ends the parser, and so
\* does the one too many (-10), which is assigned and counted first.
Tuple(d, p, n, l) ==
  LET q == [port |-> p, queue |-> n]
  IN  /\ stage = "parse" /\ opt = d
      /\ IF FreeQueue(d, q) /\ LcoreTakes(d, l)
           THEN /\ Assign(d, q, l)
                /\ n_tuples' = n_tuples + 1
                /\ stage' = IF n_tuples + 1 > MaxTuples THEN "usage" ELSE stage
           ELSE /\ Leave(d, q, l)
                /\ stage' = "usage"
                /\ UNCHANGED n_tuples
      /\ UNCHANGED <<opt, options, given, sizeVars, flags>>

RxTuple(p, n, l) == Tuple("rx", p, n, l)
TxTuple(p, n, l) == Tuple("tx", p, n, l)

\* Not three numbers between parentheses (-2).
BadTuple ==
  /\ stage = "parse" /\ opt # "none"
  /\ stage' = "usage"
  /\ UNCHANGED <<opt, n_tuples, options, given, queueVars, sizeVars, flags>>

\* An empty list is an error for --rx (-11), but not for --tx.
EndList ==
  /\ stage = "parse" /\ opt # "none"
  /\ stage' = IF opt = "rx" /\ n_tuples = 0 THEN "usage" ELSE stage
  /\ opt' = "none"
  /\ UNCHANGED <<n_tuples, options, given, queueVars, sizeVars, flags>>

-----------------------------------------------------------------------------
\* The other options.

Option ==
  /\ stage = "parse" /\ opt = "none" /\ options < MaxOptions
  /\ options' = options + 1
  /\ UNCHANGED <<opt, n_tuples, queueVars>>

\* parse_arg_rsz.  A size is only compared with 0.
RingSize(rx, tx) ==
  /\ Option
  /\ ring' = [d \in Dirs |-> IF d = "rx" THEN rx ELSE tx]
  /\ stage' = IF rx = 0 \/ tx = 0 THEN "usage" ELSE stage
  /\ given' = given \cup {"rsz"}
  /\ UNCHANGED <<burstTx, trainVars, flags>>

\* parse_arg_bsz, for the size of the transmission burst.
BurstSize(n) ==
  /\ Option
  /\ burstTx' = n
  /\ stage' = IF n = 0 \/ n > ArraySize THEN "usage" ELSE stage
  /\ given' = given \cup {"bsz"}
  /\ UNCHANGED <<ring, trainVars, flags>>

\* parse_arg_trainLen: a table there is already is replaced.  The result of
\* rte_calloc is not looked at.
TrainLength(n) ==
  /\ Option
  /\ trainLen' = n
  /\ \/ rows' = n /\ noMemory' = FALSE
     \/ rows' = 0 /\ noMemory' = TRUE
  /\ UNCHANGED <<stage, given, ring, burstTx, trainFriends, flags>>

\* parse_arg_trainFriends.
TrainFriends(n) ==
  /\ Option
  /\ trainFriends' = n
  /\ UNCHANGED <<stage, given, ring, burstTx, trainLen, rows, noMemory, flags>>

\* --bw and --bwp set and clear bandWidthMeasureActive ("active"); the other
\* flags are only set.  --calibrate and --calibration set theirs and open a
\* file; when that fails they end as BadValue does.
Flag(f) ==
  /\ Option
  /\ flags' = CASE f = "bw"  -> flags \cup {"bandWidthMeasure", "active"}
                [] f = "bwp" -> (flags \cup {"bandWidthMeasure"}) \ {"active"}
                [] OTHER     -> flags \cup {f}
  /\ UNCHANGED <<stage, given, sizeVars>>

\* An option that does not exist, a value that cannot be read, too few or too
\* many numbers, or a file that cannot be opened.
BadValue ==
  /\ Option
  /\ stage' = "usage"
  /\ UNCHANGED <<given, sizeVars, flags>>

\* A number of --rx, --tx, --rsz or --bsz that strtoul does not accept:
\* str_to_unsigned_array returns -1, num_vals is unsigned, and the loop over the
\* values goes on beyond vals and the arguments, up to the end of the stack at
\* the latest.  Nothing is known of what it writes there, nor read again.
Overrun ==
  /\ stage = "parse"
  /\ opt # "none" \/ options < MaxOptions
  /\ stage' = "crash"
  /\ UNCHANGED <<opt, n_tuples, options, given, queueVars, sizeVars, flags>>

NoTrainIgnored == {}   \* mutant: the fall-back is missing

\* Without a train the program measures bandwidth.
NoTrain ==
  IF trainLen = 0 /\ "bandWidthMeasure" \notin flags THEN {"bandWidthMeasure", "active"} ELSE {}

\* The end of app_parse_args.
EndOptions ==
  /\ stage = "parse" /\ opt = "none"
  /\ stage' = IF Dirs \subseteq given THEN "configured" ELSE "usage"
  /\ ring' = IF "rsz" \in given THEN ring ELSE DefaultRing
  /\ burstTx' = IF "bsz" \in given THEN burstTx ELSE DefaultBurst
  /\ flags' = flags \cup NoTrain
  /\ UNCHANGED <<opt, n_tuples, options, given, queueVars, trainVars>>

ConfigNext ==
  \/ \E d \in Dirs : BeginList(d)
  \/ \E p \in PortArgs, n \in QueueArgs, l \in LcoreArgs :
       RxTuple(p, n, l) \/ TxTuple(p, n, l)
  \/ BadTuple \/ EndList
  \/ \E n, m \in Numbers : RingSize(n, m)
  \/ \E n \in Numbers : BurstSize(n) \/ TrainLength(n) \/ TrainFriends(n)
  \/ \E f \in Flags : Flag(f)
  \/ BadValue \/ Overrun
  \/ EndOptions

ConfigSpec == ConfigInit /\ [][ConfigNext]_configVars

-----------------------------------------------------------------------------
\* What the main loop measures (runtime.c:799-856).
Mode ==
  IF "active" \in flags THEN "bandwidth"
  ELSE IF "bandWidthMeasure" \in flags THEN "passive"
  ELSE IF "sts" \in flags THEN "sts"
  ELSE IF trainFriends > 0 THEN "friends"
  ELSE "latency"

-----------------------------------------------------------------------------
ConfigTypeOK ==
  /\ stage \in {"parse", "configured", "usage", "crash"}
  /\ opt \in Dirs \cup {"none"}
  /\ n_tuples \in 0 .. MaxTuples + 1
  /\ n_tuples > MaxTuples => stage = "usage"
  /\ options \in Nat
  /\ given \subseteq Dirs \cup {"rsz", "bsz"}
  /\ mask \in [Dirs -> SUBSET Queue]
  /\ io \subseteq Lcores
  /\ nic_queues \in [Dirs -> [Lcores -> Seq(Queue)]]
  /\ \A d \in Dirs, l \in Lcores : Len(nic_queues[d][l]) <= QueuesPerLcore
  /\ ring \in [Dirs -> Nat] /\ burstTx \in Nat
  /\ trainLen \in Nat /\ trainFriends \in Nat /\ rows \in Nat
  /\ noMemory \in BOOLEAN
  /\ flags \subseteq Flags \cup {"bandWidthMeasure", "active"}

(***************************************************************************)
(* A queue that is enabled has one owner, which is an I/O lcore and has it *)
(* once in its list; and what the lists have is enabled, however the       *)
(* tuples are spread over options (config.c:209-243).  Two lcores on one   *)
(* queue would corrupt the rings of the driver.                            *)
(***************************************************************************)
ListedEnabled ==
  \A d \in Dirs, l \in Lcores : \A i \in DOMAIN nic_queues[d][l] :
    nic_queues[d][l][i] \in mask[d] /\ l \in io

OneOwner ==
  \A d \in Dirs, l \in Lcores, m \in Lcores :
    \A i \in DOMAIN nic_queues[d][l], j \in DOMAIN nic_queues[d][m] :
      nic_queues[d][l][i] = nic_queues[d][m][j] => l = m /\ i = j

EnabledListed ==
  stage \in {"parse", "configured"} =>
    \A d \in Dirs : \A q \in mask[d] :
      \E l \in Lcores : \E i \in DOMAIN nic_queues[d][l] : nic_queues[d][l][i] = q

QueueOwned == ListedEnabled /\ OneOwner /\ EnabledListed

(***************************************************************************)
(* A mode that records latencies has a train, and a table with as many     *)
(* rows as the receiver counts up to unless rte_calloc returned NULL for   *)
(* it, whatever the order and the number of --trainLen, --bw, --bwp, --sts *)
(* and --trainFriends (config.c:467-478, 743).                             *)
(***************************************************************************)
ModeHasTable ==
  stage = "configured" /\ Mode \in {"sts", "friends", "latency"} =>
    trainLen > 0 /\ (~noMemory => rows = trainLen)
=============================================================================
