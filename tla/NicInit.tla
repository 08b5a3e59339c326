------------------------------ MODULE NicInit ------------------------------
(***************************************************************************)
(* From the command line to the main loops: main calls app_parse_args      *)
(* (QueueConfig), then app_init makes a pool of buffers for every memory   *)
(* node in use, configures and starts the ports, waits some seconds for    *)
(* their links and starts the clock; then every lcore runs its loop.       *)
(*                                                                         *)
(* The driver is not part of the program.  It refuses a port that does not *)
(* exist, a queue whose number is not below the number of queues the port  *)
(* was configured with, and a ring size that is not one of its own.  It    *)
(* may also fail for reasons the command line does not give, and so may    *)
(* the allocation of a pool: app_init then panics as well (Fault).         *)
(***************************************************************************)
EXTENDS QueueConfig, FiniteSetsExt

CONSTANTS
  Sockets,       \* the memory nodes
  SocketOf,      \* the node of each lcore
  Present,       \* the ports that exist
  RingSizes,     \* the ring sizes the driver accepts
  MaxCheck       \* MAX_CHECK_TIME, rounds of the link check

ASSUME InitAssumption ==
  /\ SocketOf \in [Lcores -> Sockets] /\ Sockets \subseteq Nat
  /\ Present \subseteq NicPorts
  /\ MaxCheck \in Nat \ {0}

VARIABLES
  step,          \* what app_init is doing; "run", "panic" or "exit" at the end, or
                 \* "fault", a panic for want of memory or of a working device
  pools,         \* the nodes with a pool
  lcorePool,     \* for each lcore, the node of its pool, as a set; {} for NULL
  port, queue,   \* where the loops over ports and queues are
  lcore,         \* result of the last successful search for an owner
  setup,         \* for each direction, queue -> [lcore, pool] it was set up with
  started,       \* the ports that run
  count, print_flag,   \* variables of the link check
  printed        \* whether the state of the links has been printed

portVars  == <<port, queue, lcore, setup, started>>
linkVars  == <<count, print_flag, printed>>
initVars  == <<step, pools, lcorePool, portVars, linkVars>>
vars      == <<configVars, initVars>>

Init ==
  /\ ConfigInit
  /\ step = "none"
  /\ pools = {}
  /\ lcorePool = [l \in Lcores |-> {}]
  /\ port = 0 /\ queue = 0 /\ lcore = 0
  /\ setup = [d \in Dirs |-> [q \in {} |-> 0]]
  /\ started = {}
  /\ count = 0 /\ print_flag = FALSE /\ printed = FALSE

\* The options, one after the other.
Parse ==
  /\ ConfigNext
  /\ UNCHANGED <<step, pools, lcorePool, port, queue, lcore, setup, started, linkVars>>

-----------------------------------------------------------------------------
UsedSockets == {SocketOf[l] : l \in io}

\* app_init_mbuf_pools.
InitPools ==
  /\ stage = "configured" /\ step = "none"
  /\ pools' = UsedSockets
  /\ lcorePool' = [l \in Lcores |-> IF l \in io THEN {SocketOf[l]} ELSE {}]
  /\ step' = "port"
  /\ UNCHANGED <<configVars, portVars, linkVars>>

\* One of the pools cannot be had; those of smaller nodes have been made.
PoolFault ==
  /\ stage = "configured" /\ step = "none"
  /\ \E s \in UsedSockets : pools' = {t \in UsedSockets : t < s}
  /\ step' = "fault"
  /\ UNCHANGED <<configVars, lcorePool, portVars, linkVars>>

-----------------------------------------------------------------------------
\* app_init_nics.

QueuesOf(d, p) == {q \in mask[d] : q.port = p}

UsedPortsRx == {p \in NicPorts : QueuesOf("rx", p) # {}}     \* mutant: ports that only send are skipped

UsedPorts == {p \in NicPorts : QueuesOf("rx", p) \cup QueuesOf("tx", p) # {}}

\* app_get_lcore_for_nic_rx and _tx: the first lcore that lists the queue;
\* without one, the variable keeps its value.
Owners(d, q) == {l \in io : \E i \in DOMAIN nic_queues[d][l] : nic_queues[d][l][i] = q}

StaleOwner(d, q, default) == default     \* mutant: the owner is not looked for

OwnerOr(d, q, default) == IF Owners(d, q) = {} THEN default ELSE Min(Owners(d, q))

MorePortsLate == \E p \in NicPorts : p >= port     \* mutant: off by one

MorePorts == \E p \in NicPorts : p > port

\* rte_eth_dev_configure.
ConfigurePort ==
  /\ step = "port"
  /\ port \in UsedPorts
  /\ queue' = 0
  /\ step' = IF port \in Present THEN "rx" ELSE "panic"
  /\ UNCHANGED <<configVars, pools, lcorePool, port, lcore, setup, started, linkVars>>

\* A port without queues, or the end of the loop.
SkipPort ==
  /\ step = "port"
  /\ port \notin UsedPorts
  /\ IF MorePorts
       THEN port' = port + 1 /\ UNCHANGED step
       ELSE step' = "links" /\ UNCHANGED port
  /\ UNCHANGED <<configVars, pools, lcorePool, queue, lcore, setup, started, linkVars>>

ConfiguredRx(d) == Cardinality(QueuesOf("rx", port))     \* mutant: n_rx_queues twice

\* n_rx_queues and n_tx_queues, which the port was configured with.
Configured(d) == Cardinality(QueuesOf(d, port))

\* The driver gets the size as a uint16_t.
Accepted(d) == queue < Configured(d) /\ ring[d] % 2^16 \in RingSizes

ThisQueue == [port |-> port, queue |-> queue]

\* The end of a turn of the loop over the queues of a direction.
NextQueue(next) ==
  IF \E n \in QueueIds : n > queue
    THEN queue' = queue + 1 /\ UNCHANGED step
    ELSE queue' = 0 /\ step' = next

SkipQueue(d, next) ==
  /\ step = d
  /\ ThisQueue \notin mask[d]
  /\ NextQueue(next)
  /\ UNCHANGED <<configVars, pools, lcorePool, port, lcore, setup, started, linkVars>>

\* rte_eth_rx_queue_setup and _tx.
SetupQueue(d, next) ==
  /\ step = d
  /\ ThisQueue \in mask[d]
  /\ Accepted(d)
  /\ lcore' = OwnerOr(d, ThisQueue, lcore)
  /\ setup' = [setup EXCEPT ![d] =
       [r \in DOMAIN @ \cup {ThisQueue} |->
          IF r = ThisQueue THEN [lcore |-> lcore', pool |-> lcorePool[lcore']] ELSE @[r]]]
  /\ NextQueue(next)
  /\ UNCHANGED <<configVars, pools, lcorePool, port, started, linkVars>>

\* The driver has no such queue, or no such size of a ring.
RefuseQueue(d) ==
  /\ step = d
  /\ ThisQueue \in mask[d]
  /\ ~Accepted(d)
  /\ lcore' = OwnerOr(d, ThisQueue, lcore)
  /\ step' = "panic"
  /\ UNCHANGED <<configVars, pools, lcorePool, port, queue, setup, started, linkVars>>

SkipRx == SkipQueue("rx", "tx")
SkipTx == SkipQueue("tx", "start")
SetupRx == SetupQueue("rx", "tx")
SetupTx == SetupQueue("tx", "start")
RefuseRx == RefuseQueue("rx")
RefuseTx == RefuseQueue("tx")

\* The port is started, its address is written into the packets, whatever
\* the options gave, and it is stopped and started again.
StartPort ==
  /\ step = "start"
  /\ started' = started \cup {port}
  /\ IF MorePorts
       THEN port' = port + 1 /\ step' = "port"
       ELSE step' = "links" /\ UNCHANGED port
  /\ UNCHANGED <<configVars, pools, lcorePool, queue, lcore, setup, linkVars>>

\* A call of the driver, rte_eth_dev_configure, _rx_queue_setup, _tx_queue_setup
\* or either rte_eth_dev_start, fails.  The lcore found before is not used again.
PortFault ==
  /\ \/ step = "port" /\ port \in UsedPorts
     \/ step \in Dirs /\ ThisQueue \in mask[step]
     \/ step = "start"
  /\ step' = "fault"
  /\ UNCHANGED <<configVars, pools, lcorePool, portVars, linkVars>>

-----------------------------------------------------------------------------
\* check_all_ports_link_status: the round that prints follows the one that
\* finds all links up, or the last but one.

LastRoundLate == count = MaxCheck       \* mutant: off by one

LastRound == count = MaxCheck - 1

CheckLinksForever ==     \* mutant: no last round, and the count wraps
  /\ step = "links" /\ count <= MaxCheck /\ ~print_flag
  /\ \E up \in SUBSET UsedPorts : print_flag' = (up = UsedPorts)
  /\ count' = (count + 1) % MaxCheck
  /\ UNCHANGED <<configVars, step, pools, lcorePool, portVars, printed>>

CheckLinks ==
  /\ step = "links" /\ count <= MaxCheck /\ ~print_flag
  /\ \E up \in SUBSET UsedPorts : print_flag' = (up = UsedPorts \/ LastRound)
  /\ count' = count + 1
  /\ UNCHANGED <<configVars, step, pools, lcorePool, portVars, printed>>

\* The end of the loop, after a printing round if its last one prints.
EndLinks ==
  /\ step = "links" /\ (print_flag \/ count > MaxCheck)
  /\ printed' = (count <= MaxCheck)
  /\ step' = "autoconf"
  /\ UNCHANGED <<configVars, pools, lcorePool, portVars, count, print_flag>>

-----------------------------------------------------------------------------
\* autoCalibrate and fixMeasurements.
NotImplemented == {"calibrate", "calibration"}

\* app_autoconf_init, after a clock of precision 8, which hptl_initclk accepts.
AutoConf ==
  /\ step = "autoconf"
  /\ step' = IF flags \cap NotImplemented # {} THEN "exit" ELSE "run"
  /\ UNCHANGED <<configVars, pools, lcorePool, portVars, linkVars>>

-----------------------------------------------------------------------------
InitStep ==
  \/ InitPools \/ PoolFault \/ ConfigurePort \/ SkipPort
  \/ SkipRx \/ SetupRx \/ RefuseRx \/ SkipTx \/ SetupTx \/ RefuseTx
  \/ StartPort \/ PortFault \/ CheckLinks \/ EndLinks \/ AutoConf

Ends == {"run", "panic", "fault", "exit"}

Stopped == (stage \in {"usage", "crash"} \/ step \in Ends) /\ UNCHANGED vars

Next == Parse \/ InitStep \/ Stopped

\* main calls one function after the other, and none waits for another host.
Spec == Init /\ [][Next]_vars
FairSpec == Spec /\ WF_vars(InitStep)

-----------------------------------------------------------------------------
TypeOK ==
  /\ step \in {"none", "port", "rx", "tx", "start", "links", "autoconf"} \cup Ends
  /\ pools \subseteq Sockets
  /\ lcorePool \in [Lcores -> SUBSET Sockets]
  /\ port \in NicPorts /\ queue \in QueueIds /\ lcore \in Lcores
  /\ \A d \in Dirs :
       /\ DOMAIN setup[d] \subseteq Queue
       /\ \A q \in DOMAIN setup[d] :
            setup[d][q] \in [lcore : Lcores, pool : SUBSET Sockets]
  /\ started \subseteq NicPorts
  /\ count \in 0 .. MaxCheck + 1
  /\ print_flag \in BOOLEAN /\ printed \in BOOLEAN

(***************************************************************************)
(* A queue is set up for the lcore that polls it, with the pool of that    *)
(* lcore's node, which exists: the result of the search for the owner,     *)
(* which nobody tests, is never the one of an earlier queue                *)
(* (init.c:304-309, 321-325).                                              *)
(***************************************************************************)
SetupForOwner ==
  \A d \in Dirs : \A q \in DOMAIN setup[d] :
    LET s == setup[d][q]
    IN  /\ \E i \in DOMAIN nic_queues[d][s.lcore] : nic_queues[d][s.lcore][i] = q
        /\ s.pool = {SocketOf[s.lcore]} /\ s.pool \subseteq pools

\* When the loops start, all their queues are set up and their ports run
\* (init.c:268-460).
AllReady ==
  step = "run" =>
    /\ \A l \in Lcores, d \in Dirs : \A i \in DOMAIN nic_queues[d][l] :
         nic_queues[d][l][i] \in DOMAIN setup[d] /\ nic_queues[d][l][i].port \in started

\* "Check the link status of all ports in up to 9s, and print them finally"
\* (init.c:192): the printing round is never cut off by the end of the loop.
LinksPrinted == step = "run" => printed

(***************************************************************************)
(* An accepted command line that gives every port, of those there are,     *)
(* queues without a gap, has ring sizes the driver takes as a uint16_t,    *)
(* and asks for no calibration starts the program, unless memory or a      *)
(* device fails (init.c:149-151, 281-335, 456-459): the numbers of queues  *)
(* the ports are configured with are never too small for the queues that   *)
(* are set up.                                                             *)
(***************************************************************************)
NoGaps ==
  \A d \in Dirs : \A q \in mask[d] :
    q.port \in Present /\ \A n \in 0 .. q.queue : [q EXCEPT !.queue = n] \in mask[d]

RingsFit == \A d \in Dirs : mask[d] # {} => ring[d] % 2^16 \in RingSizes

NoPanic ==
  stage = "configured" /\ NoGaps /\ RingsFit /\ flags \cap {"calibrate", "calibration"} = {}
    => step \notin {"panic", "exit"}

\* Once the options are accepted the main loops start, or the program stops
\* with a message; a link that stays down does not delay them for ever.
Starts == (stage = "configured") ~> (step \in Ends)
=============================================================================
