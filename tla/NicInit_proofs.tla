---------------------------- MODULE NicInit_proofs ----------------------------
(***************************************************************************)
(* Proofs about NicInit, for every number of lcores, ports, queues and     *)
(* memory nodes, every assignment of lcores to nodes, and command lines of *)
(* any length.                                                             *)
(***************************************************************************)
EXTENDS NicInit, QueueConfig_proofs, SumTheorems

\* The steps after the parser leave what it has read alone, so that what
\* QueueConfig promises holds of the whole program.
LEMMA InitStepKeepsConfig == InitStep => UNCHANGED configVars
  BY DEF InitStep, InitPools, PoolFault, ConfigurePort, SkipPort, SkipRx, SkipTx, SkipQueue,
         SetupRx, SetupTx, SetupQueue, RefuseRx, RefuseTx, RefuseQueue, StartPort, PortFault,
         CheckLinks, EndLinks, AutoConf

LEMMA NextIsConfigNext == [Next]_vars => [ConfigNext]_configVars
  BY InitStepKeepsConfig DEF Next, Parse, Stopped, vars

\* config.c.  main starts with the parser, and what it sets stays so.
THEOREM ProgramParses == Spec => ConfigSpec
<1>1. Init => ConfigInit
  BY DEF Init
<1> QED
  BY <1>1, NextIsConfigNext, PTL DEF Spec, ConfigSpec

\* The smallest number of a set.
LEMMA MinType ==
  ASSUME NEW S \in SUBSET Nat, S # {}
  PROVE  Min(S) \in S /\ \A n \in S : Min(S) <= n
<1>1. PICK m \in S : TRUE
  OBVIOUS
<1> DEFINE I == 0 .. m
           B == {U \in SUBSET I : \E n \in S : U = 0 .. n}
<1>2. PICK U \in B : \A V \in B : V \subseteq U => V = U
  <2>1. B \in SUBSET SUBSET I
    OBVIOUS
  <2>2. I \in B
    OBVIOUS
  <2>3. IsFiniteSet(I)
    BY FS_Interval
  <2> HIDE DEF B, I
  <2> QED
    BY <2>1, <2>2, <2>3, MinimalSubset
<1>3. PICK k \in S : U = 0 .. k
  BY <1>2
<1>4. ASSUME NEW n \in S PROVE k <= n
  <2>1. SUFFICES ASSUME n < k PROVE FALSE
    OBVIOUS
  <2>2. 0 .. n \subseteq 0 .. k /\ k \notin 0 .. n /\ k \in 0 .. k
    BY <2>1
  <2>3. 0 .. n \in B
    BY <1>2, <1>3, <2>2
  <2> QED
    BY <1>2, <1>3, <2>2, <2>3
<1> QED
  BY <1>4 DEF Min

-----------------------------------------------------------------------------
(***************************************************************************)
(* What the program has done when it reaches each step.                    *)
(***************************************************************************)

\* The pools are those of the nodes in use, and every I/O lcore has its own.
PoolsOK ==
  /\ DOMAIN setup = Dirs
  /\ step = "none" => \A d \in Dirs : DOMAIN setup[d] = {}
  /\ step # "none" => stage = "configured"
  /\ step \notin {"none", "fault"} =>
       /\ pools = UsedSockets
       /\ lcorePool = [l \in Lcores |-> IF l \in io THEN {SocketOf[l]} ELSE {}]

TypeInv == ConfigTypeOK /\ TypeOK /\ PoolsOK

LEMMA TypeInitial == Init => TypeInv
<1> SUFFICES ASSUME Init PROVE TypeInv
  OBVIOUS
<1>1. ConfigTypeOK
  BY ConfigTypeInit DEF Init
<1>2. /\ port \in NicPorts /\ queue \in QueueIds /\ lcore \in Lcores
      /\ count \in 0 .. MaxCheck + 1 /\ step = "none"
  BY ConfigAssumption, InitAssumption DEF Init
<1>3. DOMAIN setup = Dirs /\ \A d \in Dirs : DOMAIN setup[d] = {}
  BY DEF Init
<1> QED
  BY <1>1, <1>2, <1>3 DEF Init, TypeInv, TypeOK, PoolsOK

\* The owner of an enabled queue is found, and is the one that lists it.
LEMMA OwnerFound ==
  ASSUME TypeInv, QueueOwned, step \in Dirs, NEW d \in Dirs, NEW q \in mask[d]
  PROVE  /\ OwnerOr(d, q, lcore) \in io
         /\ io \subseteq Lcores
         /\ \E i \in DOMAIN nic_queues[d][OwnerOr(d, q, lcore)] :
              nic_queues[d][OwnerOr(d, q, lcore)][i] = q
<1>1. stage = "configured" /\ io \subseteq Lcores /\ Lcores \subseteq Nat
  BY ConfigAssumption DEF TypeInv, PoolsOK, ConfigTypeOK, Dirs
<1>2. PICK l \in Lcores : \E i \in DOMAIN nic_queues[d][l] : nic_queues[d][l][i] = q
  BY <1>1 DEF QueueOwned, EnabledListed
<1>3. l \in Owners(d, q)
  BY <1>2 DEF QueueOwned, ListedEnabled, Owners
<1>4. OwnerOr(d, q, lcore) \in Owners(d, q)
  <2>1. Owners(d, q) \in SUBSET Nat
    BY <1>1 DEF Owners
  <2> QED
    BY <1>3, <2>1, MinType DEF OwnerOr
<1> QED
  BY <1>1, <1>4 DEF Owners

\* The next port exists.
LEMMA NextPort == TypeOK /\ MorePorts => port + 1 \in NicPorts
<1> SUFFICES ASSUME TypeOK, MorePorts PROVE port + 1 \in NicPorts
  OBVIOUS
<1>1. PICK p \in NicPorts : p > port
  BY DEF MorePorts
<1>2. /\ NicPorts \subseteq Nat /\ \A n \in NicPorts : 0 .. n \subseteq NicPorts
      /\ port \in NicPorts
  BY ConfigAssumption DEF TypeOK
<1>3. port + 1 \in 0 .. p
  BY <1>1, <1>2
<1> QED
  BY <1>2, <1>3

\* What the set-up of a queue records.
LEMMA SetupStep ==
  ASSUME TypeInv, QueueOwned, NEW d \in Dirs, NEW next, SetupQueue(d, next)
  PROVE  LET q == ThisQueue
             o == OwnerOr(d, q, lcore)
         IN  /\ q \in mask[d]
             /\ o \in io /\ io \subseteq Lcores /\ lcore' = o
             /\ lcorePool[o] = {SocketOf[o]} /\ SocketOf[o] \in pools
             /\ \E i \in DOMAIN nic_queues[d][o] : nic_queues[d][o][i] = q
             /\ \A e \in Dirs : DOMAIN setup'[e] =
                  IF e = d THEN DOMAIN setup[e] \cup {q} ELSE DOMAIN setup[e]
             /\ \A e \in Dirs : \A r \in DOMAIN setup'[e] :
                  setup'[e][r] = IF e = d /\ r = q
                                   THEN [lcore |-> o, pool |-> lcorePool[o]]
                                   ELSE setup[e][r]
<1> DEFINE q == ThisQueue
           o == OwnerOr(d, q, lcore)
<1>1. step = d /\ q \in mask[d]
  BY DEF SetupQueue
<1>2. /\ o \in io /\ io \subseteq Lcores
      /\ \E i \in DOMAIN nic_queues[d][o] : nic_queues[d][o][i] = q
  BY <1>1, OwnerFound
<1>3. lcorePool[o] = {SocketOf[o]} /\ SocketOf[o] \in pools
  BY <1>1, <1>2 DEF TypeInv, PoolsOK, UsedSockets, Dirs
<1>4. /\ lcore' = o
      /\ setup' = [setup EXCEPT ![d] =
           [r \in DOMAIN @ \cup {q} |->
              IF r = q THEN [lcore |-> o, pool |-> lcorePool[o]] ELSE @[r]]]
  BY DEF SetupQueue
<1> HIDE DEF q, o
<1>5. DOMAIN setup = Dirs
  BY DEF TypeInv, PoolsOK
<1>6. \A e \in Dirs : DOMAIN setup'[e] =
        IF e = d THEN DOMAIN setup[e] \cup {q} ELSE DOMAIN setup[e]
  BY <1>4, <1>5
<1>7. \A e \in Dirs : \A r \in DOMAIN setup'[e] :
        setup'[e][r] = IF e = d /\ r = q THEN [lcore |-> o, pool |-> lcorePool[o]]
                                         ELSE setup[e][r]
  BY <1>4, <1>5
<1> QED
  BY <1>1, <1>2, <1>3, <1>4, <1>6, <1>7 DEF q, o

\* The loop over the queues stays within the array.
LEMMA NextQueueType ==
  ASSUME TypeOK, NEW next, NextQueue(next) PROVE queue' \in QueueIds
<1>1. /\ queue \in QueueIds /\ QueueIds \subseteq Nat /\ 0 \in QueueIds
      /\ \A n \in QueueIds : 0 .. n \subseteq QueueIds
  BY ConfigAssumption DEF TypeOK
<1>2. queue' = 0 \/ (queue' = queue + 1 /\ \E n \in QueueIds : n > queue)
  BY DEF NextQueue
<1>3. ASSUME NEW n \in QueueIds, n > queue PROVE queue + 1 \in QueueIds
  <2>1. queue + 1 \in 0 .. n
    BY <1>1, <1>3
  <2> QED
    BY <1>1, <2>1
<1> QED
  BY <1>1, <1>2, <1>3

LEMMA TypeSetup ==
  ASSUME TypeInv, QueueOwned, NEW d \in Dirs, NEW next \in {"tx", "start"}, SetupQueue(d, next)
  PROVE  TypeInv'
<1> DEFINE q == ThisQueue
           o == OwnerOr(d, q, lcore)
<1>1. /\ step = d /\ step' \in {step, next} /\ NextQueue(next)
      /\ UNCHANGED <<configVars, pools, lcorePool, port, started, linkVars>>
  BY DEF SetupQueue, NextQueue
<1>2. queue' \in QueueIds
  BY <1>1, NextQueueType DEF TypeInv
<1>3. /\ q \in Queue
      /\ \A e \in Dirs : /\ DOMAIN setup[e] \subseteq Queue
                          /\ \A r \in DOMAIN setup[e] :
                               setup[e][r] \in [lcore : Lcores, pool : SUBSET Sockets]
  BY DEF TypeInv, TypeOK, Queue, ThisQueue
<1>4. /\ o \in Lcores /\ lcore' = o
      /\ \A e \in Dirs : DOMAIN setup'[e] =
             IF e = d THEN DOMAIN setup[e] \cup {q} ELSE DOMAIN setup[e]
      /\ \A e \in Dirs : \A r \in DOMAIN setup'[e] :
             setup'[e][r] = IF e = d /\ r = q THEN [lcore |-> o, pool |-> lcorePool[o]]
                                             ELSE setup[e][r]
  BY SetupStep
<1>5. [lcore |-> o, pool |-> lcorePool[o]] \in [lcore : Lcores, pool : SUBSET Sockets]
  <2>1. lcorePool[o] \in SUBSET Sockets
    BY <1>4 DEF TypeInv, TypeOK
  <2> QED
    BY <1>4, <2>1
<1>6. ASSUME NEW e \in Dirs
      PROVE  /\ DOMAIN setup'[e] \subseteq Queue
             /\ \A r \in DOMAIN setup'[e] :
                  setup'[e][r] \in [lcore : Lcores, pool : SUBSET Sockets]
  <2> HIDE DEF q, o
  <2>1. \A r \in DOMAIN setup'[e] : r \in DOMAIN setup[e] \/ (e = d /\ r = q)
    BY <1>4
  <2>2. ASSUME NEW r \in DOMAIN setup'[e]
        PROVE  setup'[e][r] \in [lcore : Lcores, pool : SUBSET Sockets]
    <3>1. CASE e = d /\ r = q
      BY <1>4, <1>5, <3>1
    <3>2. CASE ~(e = d /\ r = q)
      BY <1>3, <1>4, <2>1, <3>2
    <3> QED
      BY <3>1, <3>2
  <2> QED
    BY <1>3, <2>1, <2>2
<1>7. TypeOK'
  <2>1. step' \in {"rx", "tx", "start"}
    BY <1>1 DEF Dirs
  <2> QED
    BY <1>1, <1>2, <1>4, <1>6, <2>1 DEF TypeInv, TypeOK, linkVars
<1>8. PoolsOK'
  <2>1. DOMAIN setup' = DOMAIN setup
    BY DEF SetupQueue
  <2>2. step \notin {"none", "fault"} /\ step' \notin {"none", "fault"}
    BY <1>1 DEF Dirs
  <2> QED
    BY <1>1, <2>1, <2>2 DEF TypeInv, PoolsOK, UsedSockets, configVars, queueVars
<1>9. ConfigTypeOK'
  BY <1>1, TypeStep DEF TypeInv
<1> QED
  BY <1>7, <1>8, <1>9 DEF TypeInv

\* A queue that is not set up changes no more than the owner last found.
LEMMA TypeTurn ==
  ASSUME TypeInv, QueueOwned, NEW d \in Dirs, NEW next \in {"tx", "start"},
         SkipQueue(d, next) \/ RefuseQueue(d)
  PROVE  TypeInv'
<1>1. /\ step = d /\ step' \in {step, next, "panic"}
      /\ UNCHANGED <<configVars, pools, lcorePool, port, setup, started, linkVars>>
  BY DEF SkipQueue, RefuseQueue, NextQueue
<1>2. queue' \in QueueIds
  BY NextQueueType DEF SkipQueue, RefuseQueue, TypeInv, TypeOK
<1>3. lcore' \in Lcores
  <2>1. CASE SkipQueue(d, next)
    BY <2>1 DEF SkipQueue, TypeInv, TypeOK
  <2>2. CASE RefuseQueue(d)
    BY <1>1, <2>2, OwnerFound DEF RefuseQueue
  <2> QED
    BY <2>1, <2>2
<1>4. TypeOK'
  <2>1. step' \in {"rx", "tx", "start", "panic"}
    BY <1>1 DEF Dirs
  <2> QED
    BY <1>1, <1>2, <1>3, <2>1 DEF TypeInv, TypeOK, linkVars, Ends
<1>5. PoolsOK'
  <2>1. step \notin {"none", "fault"} /\ step' \notin {"none", "fault"}
    BY <1>1 DEF Dirs
  <2> QED
    BY <1>1, <2>1 DEF TypeInv, PoolsOK, UsedSockets, configVars, queueVars
<1>6. ConfigTypeOK'
  BY <1>1, TypeStep DEF TypeInv
<1> QED
  BY <1>4, <1>5, <1>6 DEF TypeInv

\* The steps outside the loops over the queues.
LoopStep == SkipRx \/ SetupRx \/ RefuseRx \/ SkipTx \/ SetupTx \/ RefuseTx

LEMMA TypeOther ==
  ASSUME TypeInv, InitStep, ~LoopStep
  PROVE  TypeInv'
<1>1. UNCHANGED configVars /\ ConfigTypeOK'
  BY InitStepKeepsConfig, TypeStep DEF TypeInv
<1>2. CASE InitPools
  <2>1. UsedSockets \subseteq Sockets /\ \A l \in io : SocketOf[l] \in Sockets
    BY InitAssumption DEF UsedSockets, TypeInv, ConfigTypeOK
  <2>2. TypeOK'
    BY <1>2, <2>1 DEF InitPools, TypeInv, TypeOK, portVars, linkVars
  <2>3. PoolsOK'
    BY <1>2 DEF InitPools, TypeInv, PoolsOK, UsedSockets, portVars, configVars, queueVars
  <2> QED
    BY <1>1, <2>2, <2>3 DEF TypeInv
<1>5. CASE PoolFault
  <2>1. pools' \subseteq Sockets
    BY <1>5, InitAssumption DEF PoolFault, UsedSockets, TypeInv, ConfigTypeOK
  <2>2. TypeOK'
    BY <1>5, <2>1 DEF PoolFault, TypeInv, TypeOK, portVars, linkVars, Ends
  <2>3. PoolsOK'
    BY <1>5 DEF PoolFault, TypeInv, PoolsOK, portVars, configVars
  <2> QED
    BY <1>1, <2>2, <2>3 DEF TypeInv
<1>6. CASE PortFault
  <2>1. TypeOK'
    BY <1>6 DEF PortFault, TypeInv, TypeOK, portVars, linkVars, Ends
  <2>2. PoolsOK'
    BY <1>6 DEF PortFault, TypeInv, PoolsOK, portVars, configVars, Dirs
  <2> QED
    BY <1>1, <2>1, <2>2 DEF TypeInv
<1>3. CASE ConfigurePort \/ SkipPort \/ StartPort
  <2>1. port' \in NicPorts
    BY <1>3, NextPort DEF ConfigurePort, SkipPort, StartPort, TypeInv, TypeOK
  <2>2. queue' \in QueueIds
    BY <1>3, ConfigAssumption DEF ConfigurePort, SkipPort, StartPort, TypeInv, TypeOK
  <2>3. /\ step \in {"port", "start"} /\ step' \in {"rx", "panic", "port", "links"}
        /\ started' \subseteq started \cup {port}
        /\ UNCHANGED <<configVars, pools, lcorePool, lcore, setup, linkVars>>
    BY <1>3 DEF ConfigurePort, SkipPort, StartPort
  <2>4. TypeOK'
    BY <2>1, <2>2, <2>3 DEF TypeInv, TypeOK, linkVars, Ends
  <2>5. PoolsOK'
    BY <2>3 DEF TypeInv, PoolsOK, UsedSockets, configVars, queueVars
  <2> QED
    BY <1>1, <2>4, <2>5 DEF TypeInv
<1>4. CASE CheckLinks \/ EndLinks \/ AutoConf
  <2>1. count' \in 0 .. MaxCheck + 1 /\ print_flag' \in BOOLEAN /\ printed' \in BOOLEAN
    <3>1. count \in 0 .. MaxCheck + 1 /\ MaxCheck \in Nat
      BY InitAssumption DEF TypeInv, TypeOK
    <3>2. CASE CheckLinks
      BY <3>1, <3>2 DEF CheckLinks, TypeInv, TypeOK
    <3>3. CASE EndLinks
      BY <3>3 DEF EndLinks, TypeInv, TypeOK
    <3>4. CASE AutoConf
      BY <3>4 DEF AutoConf, linkVars, TypeInv, TypeOK
    <3> QED
      BY <1>4, <3>2, <3>3, <3>4
  <2>2. /\ step \in {"links", "autoconf"} /\ step' \in {"links", "autoconf", "exit", "run"}
        /\ UNCHANGED <<configVars, pools, lcorePool, portVars>>
    BY <1>4 DEF CheckLinks, EndLinks, AutoConf
  <2>3. TypeOK'
    BY <2>1, <2>2 DEF TypeInv, TypeOK, portVars, Ends
  <2>4. PoolsOK'
    BY <2>2 DEF TypeInv, PoolsOK, UsedSockets, configVars, queueVars, portVars
  <2> QED
    BY <1>1, <2>3, <2>4 DEF TypeInv
<1> QED
  BY <1>2, <1>3, <1>4, <1>5, <1>6 DEF InitStep, LoopStep

LEMMA ParseStep == TypeInv /\ Parse => TypeInv' /\ step = "none" /\ step' = "none"
<1> SUFFICES ASSUME TypeInv, Parse PROVE TypeInv' /\ step = "none" /\ step' = "none"
  OBVIOUS
<1>1. /\ ConfigNext
      /\ UNCHANGED <<step, pools, lcorePool, port, queue, lcore, setup, started, linkVars>>
  BY DEF Parse
<1>2. step = "none"
  BY <1>1, OnlyParsing DEF TypeInv, PoolsOK
<1>3. ConfigTypeOK'
  BY <1>1, TypeStep DEF TypeInv
<1> QED
  BY <1>1, <1>2, <1>3 DEF TypeInv, TypeOK, PoolsOK, linkVars

LEMMA TypeNext == TypeInv /\ QueueOwned /\ [Next]_vars => TypeInv'
<1> SUFFICES ASSUME TypeInv, QueueOwned, [Next]_vars PROVE TypeInv'
  OBVIOUS
<1>1. CASE UNCHANGED vars
  <2>1. UNCHANGED configVars /\ UNCHANGED initVars
    BY <1>1 DEF vars
  <2>2. ConfigTypeOK'
    BY <2>1, TypeStep DEF TypeInv
  <2>3. TypeOK'
    BY <2>1 DEF TypeInv, TypeOK, initVars, portVars, linkVars
  <2>4. PoolsOK'
    BY <2>1 DEF TypeInv, PoolsOK, UsedSockets, initVars, portVars, configVars, queueVars
  <2> QED
    BY <2>2, <2>3, <2>4 DEF TypeInv
<1>2. CASE LoopStep
  BY <1>2, TypeSetup, TypeTurn
     DEF LoopStep, SkipRx, SetupRx, RefuseRx, SkipTx, SetupTx, RefuseTx, Dirs
<1> QED
  BY <1>1, <1>2, TypeOther, ParseStep DEF Next, Stopped

\* init.c.  The loops stay within the ports, the queues and the rounds there
\* are, and what they record is an lcore and a pool.
THEOREM InitTypeCorrect == Spec => []TypeOK
<1>1. Spec => []QueueOwned
  BY ProgramParses, QueuesOwned, PTL
<1>2. Spec => []TypeInv
  BY <1>1, TypeInitial, TypeNext, PTL DEF Spec
<1>3. TypeInv => TypeOK
  BY DEF TypeInv
<1> QED
  BY <1>2, <1>3, PTL

-----------------------------------------------------------------------------
\* A queue set up has been given to its owner, and keeps it.
LEMMA OwnerStep == TypeInv /\ QueueOwned /\ SetupForOwner /\ [Next]_vars => SetupForOwner'
<1> SUFFICES ASSUME TypeInv, QueueOwned, SetupForOwner, [Next]_vars PROVE SetupForOwner'
  OBVIOUS
<1>1. CASE UNCHANGED <<nic_queues, setup, pools>>
  BY <1>1 DEF SetupForOwner
<1>2. ASSUME NEW d \in Dirs, NEW next, SetupQueue(d, next) PROVE SetupForOwner'
  <2> DEFINE q == ThisQueue
             o == OwnerOr(d, q, lcore)
  <2>1. UNCHANGED <<nic_queues, pools>>
    BY <1>2 DEF SetupQueue, configVars, queueVars
  <2>2. /\ lcorePool[o] = {SocketOf[o]} /\ SocketOf[o] \in pools
        /\ \E i \in DOMAIN nic_queues[d][o] : nic_queues[d][o][i] = q
        /\ \A e \in Dirs : DOMAIN setup'[e] =
             IF e = d THEN DOMAIN setup[e] \cup {q} ELSE DOMAIN setup[e]
        /\ \A e \in Dirs : \A r \in DOMAIN setup'[e] :
             setup'[e][r] = IF e = d /\ r = q
                              THEN [lcore |-> o, pool |-> lcorePool[o]]
                              ELSE setup[e][r]
    BY <1>2, SetupStep
  <2> HIDE DEF q, o
  <2> SUFFICES ASSUME NEW e \in Dirs, NEW r \in DOMAIN setup'[e]
               PROVE  LET s == setup'[e][r]
                      IN  /\ \E i \in DOMAIN nic_queues[e][s.lcore] : nic_queues[e][s.lcore][i] = r
                          /\ s.pool = {SocketOf[s.lcore]} /\ s.pool \subseteq pools
    BY <2>1 DEF SetupForOwner
  <2>3. CASE e = d /\ r = q
    BY <2>2, <2>3
  <2>4. CASE ~(e = d /\ r = q)
    <3>1. r \in DOMAIN setup[e] /\ setup'[e][r] = setup[e][r]
      BY <2>2, <2>4
    <3> QED
      BY <3>1 DEF SetupForOwner
  <2> QED
    BY <2>3, <2>4
<1>3. CASE Parse \/ InitPools \/ PoolFault
  <2>1. UNCHANGED setup /\ step = "none"
    BY <1>3, ParseStep DEF Parse, InitPools, PoolFault, portVars
  <2> QED
    BY <2>1 DEF TypeInv, PoolsOK, SetupForOwner
<1>6. ASSUME NEW d \in Dirs, NEW next, SkipQueue(d, next) \/ RefuseQueue(d)
      PROVE  SetupForOwner'
  BY <1>1, <1>6 DEF SkipQueue, RefuseQueue, configVars, queueVars
<1>4. CASE ConfigurePort \/ SkipPort \/ StartPort \/ PortFault \/ CheckLinks \/ EndLinks \/ AutoConf
  BY <1>1, <1>4 DEF ConfigurePort, SkipPort, StartPort, PortFault, CheckLinks, EndLinks, AutoConf,
                    portVars, configVars, queueVars
<1>5. CASE UNCHANGED vars
  BY <1>1, <1>5 DEF vars, initVars, portVars, configVars, queueVars
<1> QED
  BY <1>2, <1>3, <1>4, <1>5, <1>6
     DEF Next, InitStep, Stopped, SkipRx, SetupRx, RefuseRx, SkipTx, SetupTx, RefuseTx, Dirs

\* init.c:304-309, 321-325.  Each queue is set up for the lcore that polls
\* it, with a pool of that lcore's node that exists.
THEOREM OwnersSetUp == Spec => []SetupForOwner
<1>1. Spec => []QueueOwned
  BY ProgramParses, QueuesOwned, PTL
<1>2. Spec => []TypeInv
  BY <1>1, TypeInitial, TypeNext, PTL DEF Spec
<1>3. Init => SetupForOwner
  BY DEF Init, SetupForOwner
<1> QED
  BY <1>1, <1>2, <1>3, OwnerStep, PTL DEF Spec

-----------------------------------------------------------------------------
(***************************************************************************)
(* How far the loops over ports and queues are: what lies behind them is   *)
(* done.                                                                   *)
(***************************************************************************)
PortDone(d, p) == \A q \in mask[d] : q.port = p => q \in DOMAIN setup[d]

QueuesDone(d) ==
  \A q \in mask[d] : q.port = port /\ q.queue < queue => q \in DOMAIN setup[d]

ProgressInv ==
  /\ step = "none" => port = 0
  /\ step \in {"port", "rx", "tx", "start"} =>
       \A d \in Dirs : \A q \in mask[d] :
         q.port < port => q \in DOMAIN setup[d] /\ q.port \in started
  /\ step = "rx" => QueuesDone("rx")
  /\ step = "tx" => PortDone("rx", port) /\ QueuesDone("tx")
  /\ step = "start" => \A d \in Dirs : PortDone(d, port)
  /\ step \in {"links", "autoconf", "run"} =>
       \A d \in Dirs : \A q \in mask[d] : q \in DOMAIN setup[d] /\ q.port \in started

\* One turn of the loop over queues.
LEMMA QueueTurn ==
  ASSUME TypeInv, QueueOwned, NEW d \in Dirs, NEW next, QueuesDone(d),
         SkipQueue(d, next) \/ SetupQueue(d, next)
  PROVE  /\ \A e \in Dirs : DOMAIN setup[e] \subseteq DOMAIN setup'[e]
         /\ \/ step' = d /\ QueuesDone(d)'
            \/ step' = next /\ PortDone(d, port)' /\ queue' = 0
         /\ UNCHANGED <<mask, port, started>>
<1> DEFINE q == ThisQueue
<1>0. UNCHANGED <<mask, port, started>> /\ step = d /\ NextQueue(next)
  BY DEF SkipQueue, SetupQueue, configVars, queueVars
<1>1. /\ \A e \in Dirs : DOMAIN setup[e] \subseteq DOMAIN setup'[e]
      /\ q \in mask[d] => q \in DOMAIN setup'[d]
  <2>1. CASE SkipQueue(d, next)
    BY <2>1 DEF SkipQueue
  <2>2. CASE SetupQueue(d, next)
    <3>1. \A e \in Dirs : DOMAIN setup'[e] =
            IF e = d THEN DOMAIN setup[e] \cup {q} ELSE DOMAIN setup[e]
      BY <2>2, SetupStep
    <3> HIDE DEF q
    <3> QED
      BY <3>1
  <2> QED
    BY <2>1, <2>2
<1>2. \/ queue' = queue + 1 /\ step' = d
      \/ queue' = 0 /\ step' = next /\ \A n \in QueueIds : ~(n > queue)
  BY <1>0 DEF NextQueue
<1>3. /\ \A r \in mask[d] : r \in Queue /\ r.queue \in Nat /\ r.queue \in QueueIds
      /\ queue \in Nat
  <2>1. mask[d] \subseteq Queue /\ queue \in QueueIds /\ QueueIds \subseteq Nat
    BY ConfigAssumption DEF TypeInv, ConfigTypeOK, TypeOK
  <2> QED
    BY <2>1 DEF Queue
<1>4. ASSUME NEW r \in mask[d], r.port = port, r.queue <= queue
      PROVE  r \in DOMAIN setup'[d]
  <2>1. CASE r.queue = queue
    <3>1. r = q
      BY <1>3, <1>4, <2>1 DEF Queue, ThisQueue
    <3> QED
      BY <1>1, <3>1
  <2>2. CASE r.queue # queue
    <3>1. r.queue < queue
      BY <1>3, <1>4, <2>2
    <3> QED
      BY <1>1, <1>4, <3>1 DEF QueuesDone
  <2> QED
    BY <2>1, <2>2
<1>5. CASE queue' = queue + 1 /\ step' = d
  <2>1. \A r \in mask[d] : r.queue < queue + 1 => r.queue <= queue
    BY <1>3
  <2>2. QueuesDone(d)'
    BY <1>0, <1>4, <1>5, <2>1 DEF QueuesDone
  <2> QED
    BY <1>0, <1>1, <1>5, <2>2
<1>6. CASE queue' = 0 /\ step' = next /\ \A n \in QueueIds : ~(n > queue)
  <2>1. \A r \in mask[d] : r.queue <= queue
    BY <1>3, <1>6
  <2>2. PortDone(d, port)'
    BY <1>0, <1>4, <2>1 DEF PortDone
  <2> QED
    BY <1>0, <1>1, <1>6, <2>2
<1> QED
  BY <1>2, <1>5, <1>6

\* The loop over ports goes on or ends.
LEMMA PortTurn ==
  ASSUME TypeInv, ProgressInv, \A d \in Dirs : PortDone(d, port),
         step \in {"port", "start"}, setup' = setup, UNCHANGED configVars,
         \A d \in Dirs : \A q \in mask[d] : q.port = port => q.port \in started',
         started \subseteq started',
         IF MorePorts THEN port' = port + 1 /\ step' = "port" ELSE step' = "links" /\ port' = port
  PROVE  ProgressInv'
<1>0. UNCHANGED mask
  BY DEF configVars, queueVars
<1>1. \A d \in Dirs : \A q \in mask[d] : q.port \in Nat /\ q.port \in NicPorts
  <2>1. \A d \in Dirs : mask[d] \subseteq Queue
    BY DEF TypeInv, ConfigTypeOK
  <2> QED
    BY <2>1, ConfigAssumption DEF Queue
<1>2. port \in Nat
  BY ConfigAssumption DEF TypeInv, TypeOK
<1>3. ASSUME NEW d \in Dirs, NEW q \in mask[d], q.port <= port
      PROVE  q \in DOMAIN setup'[d] /\ q.port \in started'
  <2>1. CASE q.port = port
    BY <2>1 DEF PortDone
  <2>2. CASE q.port # port
    <3>1. q.port < port
      BY <1>1, <1>2, <1>3, <2>2
    <3> QED
      BY <3>1 DEF ProgressInv
  <2> QED
    BY <2>1, <2>2
<1>4. CASE MorePorts
  <2>1. \A d \in Dirs : \A q \in mask[d] : q.port < port + 1 => q.port <= port
    BY <1>1, <1>2
  <2>2. \A d \in Dirs : \A q \in mask'[d] :
          q.port < port' => q \in DOMAIN setup'[d] /\ q.port \in started'
    BY <1>0, <1>3, <1>4, <2>1
  <2> QED
    BY <1>4, <2>2 DEF ProgressInv
<1>5. CASE ~MorePorts
  <2>1. \A d \in Dirs : \A q \in mask[d] : q.port <= port
    BY <1>1, <1>2, <1>5 DEF MorePorts
  <2>2. \A d \in Dirs : \A q \in mask'[d] : q \in DOMAIN setup'[d] /\ q.port \in started'
    BY <1>0, <1>3, <2>1
  <2> QED
    BY <1>5, <2>2 DEF ProgressInv
<1> QED
  BY <1>4, <1>5

LEMMA ProgressStep == TypeInv /\ QueueOwned /\ ProgressInv /\ [Next]_vars => ProgressInv'
<1> SUFFICES ASSUME TypeInv, QueueOwned, ProgressInv, [Next]_vars PROVE ProgressInv'
  OBVIOUS
<1>1. CASE UNCHANGED vars
  BY <1>1 DEF vars, initVars, portVars, configVars, queueVars, ProgressInv, PortDone, QueuesDone
<1>2. CASE Parse
  <2>1. step = "none" /\ step' = "none" /\ UNCHANGED port
    BY <1>2, ParseStep DEF Parse
  <2> QED
    BY <2>1 DEF ProgressInv
<1>3. CASE InitPools
  <2>1. step = "none" /\ step' = "port" /\ UNCHANGED port /\ UNCHANGED mask
    BY <1>3 DEF InitPools, portVars, configVars, queueVars
  <2>2. \A d \in Dirs : \A q \in mask[d] : ~(q.port < 0)
    <3>1. \A d \in Dirs : mask[d] \subseteq Queue
      BY DEF TypeInv, ConfigTypeOK
    <3> QED
      BY <3>1, ConfigAssumption DEF Queue
  <2> QED
    BY <2>1, <2>2 DEF ProgressInv
<1>4. CASE ConfigurePort
  <2>1. /\ step = "port" /\ step' \in {"rx", "panic"} /\ queue' = 0
        /\ UNCHANGED <<mask, port, setup, started>>
    BY <1>4 DEF ConfigurePort, configVars, queueVars
  <2>2. \A q \in mask["rx"] : ~(q.queue < 0)
    <3>1. mask["rx"] \subseteq Queue
      BY DEF TypeInv, ConfigTypeOK, Dirs
    <3> QED
      BY <3>1, ConfigAssumption DEF Queue
  <2>3. QueuesDone("rx")'
    BY <2>1, <2>2 DEF QueuesDone
  <2> QED
    BY <2>1, <2>3 DEF ProgressInv
<1>5. CASE SkipPort
  <2>1. /\ step = "port" /\ port \notin UsedPorts /\ UNCHANGED configVars /\ UNCHANGED <<setup, started>>
        /\ IF MorePorts THEN port' = port + 1 /\ step' = "port" ELSE step' = "links" /\ port' = port
    BY <1>5 DEF SkipPort
  <2>2. \A d \in Dirs : \A q \in mask[d] : q.port # port
    <3>1. port \in NicPorts
      BY DEF TypeInv, TypeOK
    <3> QED
      BY <2>1, <3>1 DEF UsedPorts, QueuesOf, Dirs
  <2>3. \A d \in Dirs : PortDone(d, port)
    BY <2>2 DEF PortDone
  <2> QED
    BY <2>1, <2>2, <2>3, PortTurn
<1>6. CASE SkipRx \/ SetupRx
  <2>1. /\ SkipQueue("rx", "tx") \/ SetupQueue("rx", "tx")
        /\ "rx" \in Dirs /\ step = "rx" /\ QueuesDone("rx")
    BY <1>6 DEF SkipRx, SetupRx, SkipQueue, SetupQueue, Dirs, ProgressInv
  <2>2. /\ \A e \in Dirs : DOMAIN setup[e] \subseteq DOMAIN setup'[e]
        /\ \/ step' = "rx" /\ QueuesDone("rx")'
           \/ step' = "tx" /\ PortDone("rx", port)' /\ queue' = 0
        /\ UNCHANGED <<mask, port, started>>
    BY <2>1, QueueTurn
  <2>3. \A d \in Dirs : \A q \in mask'[d] :
          q.port < port' => q \in DOMAIN setup'[d] /\ q.port \in started'
    BY <2>1, <2>2 DEF ProgressInv
  <2>4. queue' = 0 => QueuesDone("tx")'
    <3>1. \A q \in mask["tx"] : ~(q.queue < 0)
      <4>1. mask["tx"] \subseteq Queue
        BY DEF TypeInv, ConfigTypeOK, Dirs
      <4> QED
        BY <4>1, ConfigAssumption DEF Queue
    <3> QED
      BY <2>2, <3>1 DEF QueuesDone
  <2> QED
    BY <2>2, <2>3, <2>4 DEF ProgressInv
<1>7. CASE SkipTx \/ SetupTx
  <2>1. /\ SkipQueue("tx", "start") \/ SetupQueue("tx", "start")
        /\ "tx" \in Dirs /\ step = "tx" /\ QueuesDone("tx") /\ PortDone("rx", port)
    BY <1>7 DEF SkipTx, SetupTx, SkipQueue, SetupQueue, Dirs, ProgressInv
  <2>2. /\ \A e \in Dirs : DOMAIN setup[e] \subseteq DOMAIN setup'[e]
        /\ \/ step' = "tx" /\ QueuesDone("tx")'
           \/ step' = "start" /\ PortDone("tx", port)' /\ queue' = 0
        /\ UNCHANGED <<mask, port, started>>
    BY <2>1, QueueTurn
  <2>3. \A d \in Dirs : \A q \in mask'[d] :
          q.port < port' => q \in DOMAIN setup'[d] /\ q.port \in started'
    BY <2>1, <2>2 DEF ProgressInv
  <2>4. PortDone("rx", port)'
    BY <2>1, <2>2 DEF PortDone, Dirs
  <2>5. step' = "start" => (\A d \in Dirs : PortDone(d, port))'
    BY <2>2, <2>4 DEF Dirs
  <2> QED
    BY <2>2, <2>3, <2>4, <2>5 DEF ProgressInv
<1>10. CASE RefuseRx \/ RefuseTx \/ PoolFault \/ PortFault
  BY <1>10 DEF RefuseRx, RefuseTx, RefuseQueue, PoolFault, PortFault, ProgressInv
<1>8. CASE StartPort
  <2>1. /\ step = "start" /\ started' = started \cup {port} /\ UNCHANGED configVars /\ UNCHANGED setup
        /\ IF MorePorts THEN port' = port + 1 /\ step' = "port" ELSE step' = "links" /\ port' = port
    BY <1>8 DEF StartPort
  <2>2. \A d \in Dirs : PortDone(d, port)
    BY <2>1 DEF ProgressInv
  <2> QED
    BY <2>1, <2>2, PortTurn
<1>9. CASE CheckLinks \/ EndLinks \/ AutoConf
  <2>1. /\ step \in {"links", "autoconf"} /\ step' \in {"links", "autoconf", "run", "exit"}
        /\ UNCHANGED <<mask, setup, started>>
    BY <1>9 DEF CheckLinks, EndLinks, AutoConf, portVars, configVars, queueVars
  <2> QED
    BY <2>1 DEF ProgressInv
<1> QED
  BY <1>1, <1>2, <1>3, <1>4, <1>5, <1>6, <1>7, <1>8, <1>9, <1>10 DEF Next, InitStep, Stopped

\* init.c:268-460.  When the main loops start every queue they poll or fill
\* has been set up and its port runs, however the queues are spread over
\* ports and lcores.
THEOREM AllSetUp == Spec => []AllReady
<1>1. Spec => []QueueOwned
  BY ProgramParses, QueuesOwned, PTL
<1>2. Spec => []TypeInv
  BY <1>1, TypeInitial, TypeNext, PTL DEF Spec
<1>3. Init => ProgressInv
  BY DEF Init, ProgressInv
<1>4. Spec => []ProgressInv
  BY <1>1, <1>2, <1>3, ProgressStep, PTL DEF Spec
<1>5. QueueOwned /\ ProgressInv => AllReady
  BY DEF QueueOwned, ListedEnabled, ProgressInv, AllReady
<1> QED
  BY <1>1, <1>4, <1>5, PTL

-----------------------------------------------------------------------------
\* The link check has a round left in which to print, or has printed.
LinksInv ==
  /\ step \in {"none", "port", "rx", "tx", "start", "links"} =>
       count <= MaxCheck /\ (~print_flag => count < MaxCheck)
  /\ step \in {"autoconf", "run"} => printed

LEMMA LinksStep == TypeInv /\ LinksInv /\ [Next]_vars => LinksInv'
<1> SUFFICES ASSUME TypeInv, LinksInv, [Next]_vars PROVE LinksInv'
  OBVIOUS
<1>0. count \in Nat /\ MaxCheck \in Nat /\ MaxCheck > 0
  BY InitAssumption DEF TypeInv, TypeOK
<1>1. CASE UNCHANGED vars
  BY <1>1 DEF vars, initVars, linkVars, LinksInv
<1>2. CASE Parse
  <2>1. UNCHANGED <<step, count, print_flag, printed>>
    BY <1>2 DEF Parse, linkVars
  <2> QED
    BY <2>1 DEF LinksInv
<1>3. CASE InitPools \/ PoolFault \/ ConfigurePort \/ SkipPort \/ LoopStep \/ StartPort \/ PortFault
  <2>1. /\ step \in {"none", "port", "rx", "tx", "start"}
        /\ step' \in {"port", "rx", "tx", "start", "links", "panic", "fault"}
        /\ UNCHANGED <<count, print_flag, printed>>
    BY <1>3 DEF InitPools, PoolFault, ConfigurePort, SkipPort, LoopStep, SkipRx, SkipTx, SkipQueue,
                SetupRx, SetupTx, SetupQueue, RefuseRx, RefuseTx, RefuseQueue, NextQueue,
                StartPort, PortFault, linkVars, Dirs
  <2> QED
    BY <2>1 DEF LinksInv
<1>4. CASE CheckLinks
  <2>1. /\ step = "links" /\ step' = "links" /\ ~print_flag /\ count' = count + 1
        /\ ~print_flag' => count # MaxCheck - 1
    BY <1>4 DEF CheckLinks, LastRound
  <2>2. PICK n \in Nat : n = count
    BY <1>0
  <2>3. n < MaxCheck
    BY <2>1, <2>2 DEF LinksInv
  <2>4. n + 1 <= MaxCheck /\ (n # MaxCheck - 1 => n + 1 < MaxCheck)
    BY <1>0, <2>3
  <2>5. count' = n + 1 /\ (~print_flag' => n # MaxCheck - 1)
    BY <2>1, <2>2
  <2> QED
    BY <2>1, <2>4, <2>5 DEF LinksInv
<1>5. CASE EndLinks
  <2>1. step = "links" /\ step' = "autoconf" /\ printed' = (count <= MaxCheck)
    BY <1>5 DEF EndLinks
  <2> QED
    BY <2>1 DEF LinksInv
<1>6. CASE AutoConf
  <2>1. step = "autoconf" /\ step' \in {"run", "exit"} /\ UNCHANGED printed
    BY <1>6 DEF AutoConf, linkVars
  <2> QED
    BY <2>1 DEF LinksInv
<1> QED
  BY <1>1, <1>2, <1>3, <1>4, <1>5, <1>6 DEF Next, InitStep, LoopStep, Stopped

\* init.c:192-250.  The round of the link check that prints is never cut off,
\* for any number of rounds and whatever the links do.
THEOREM LinksReported == Spec => []LinksPrinted
<1>1. Spec => []QueueOwned
  BY ProgramParses, QueuesOwned, PTL
<1>2. Spec => []TypeInv
  BY <1>1, TypeInitial, TypeNext, PTL DEF Spec
<1>3. Init => LinksInv
  BY InitAssumption DEF Init, LinksInv
<1>4. Spec => []LinksInv
  BY <1>2, <1>3, LinksStep, PTL DEF Spec
<1>5. LinksInv => LinksPrinted
  BY DEF LinksInv, LinksPrinted
<1> QED
  BY <1>4, <1>5, PTL

-----------------------------------------------------------------------------
(***************************************************************************)
(* A queue is refused when its number is not below the number of queues of *)
(* its port, or for the size of its ring.  The queues are counted, which   *)
(* needs that finitely many have been given; without a gap there are then  *)
(* more of them than the number of any.                                    *)
(***************************************************************************)
FiniteMask == \A d \in Dirs : IsFiniteSet(mask[d])

LEMMA FiniteStep == TypeInv /\ FiniteMask /\ [Next]_vars => FiniteMask'
<1> SUFFICES ASSUME TypeInv, FiniteMask, [Next]_vars PROVE FiniteMask'
  OBVIOUS
<1>1. CASE UNCHANGED mask
  BY <1>1 DEF FiniteMask
<1>2. ASSUME NEW d \in Dirs, NEW p, NEW n, NEW l, Tuple(d, p, n, l) PROVE FiniteMask'
  <2> DEFINE q == [port |-> p, queue |-> n]
  <2>1. mask' = mask \/ mask' = [mask EXCEPT ![d] = @ \cup {q}]
    BY <1>2 DEF Tuple, Assign, Leave
  <2>2. CASE mask' = [mask EXCEPT ![d] = @ \cup {q}]
    <3>1. IsFiniteSet(mask[d] \cup {q})
      BY FS_AddElement DEF FiniteMask
    <3> HIDE DEF q
    <3>2. \A e \in Dirs : mask'[e] = IF e = d THEN mask[d] \cup {q} ELSE mask[e]
      BY <2>2 DEF TypeInv, ConfigTypeOK
    <3> QED
      BY <3>1, <3>2 DEF FiniteMask
  <2> QED
    BY <1>1, <2>1, <2>2
<1>3. CASE Parse
  <2>1. CASE \E p \in PortArgs, n \in QueueArgs, l \in LcoreArgs :
               RxTuple(p, n, l) \/ TxTuple(p, n, l)
    BY <1>2, <2>1 DEF RxTuple, TxTuple, Dirs
  <2>2. CASE ~\E p \in PortArgs, n \in QueueArgs, l \in LcoreArgs :
               RxTuple(p, n, l) \/ TxTuple(p, n, l)
    BY <1>1, <1>3, <2>2, OtherType DEF Parse, TypeInv, queueVars
  <2> QED
    BY <2>1, <2>2
<1>4. CASE InitStep \/ UNCHANGED vars
  BY <1>1, <1>4, InitStepKeepsConfig DEF vars, configVars, queueVars
<1> QED
  BY <1>3, <1>4 DEF Next, Stopped

\* Queues 0 .. n of a port are n + 1 queues.
LEMMA QueuesCounted ==
  ASSUME NEW n \in Nat, NEW p, NEW S, IsFiniteSet(S),
         \A k \in 0 .. n : [port |-> p, queue |-> k] \in S
  PROVE  n < Cardinality(S)
<1> DEFINE T == {[port |-> p, queue |-> k] : k \in 0 .. n}
           f == [k \in 0 .. n |-> [port |-> p, queue |-> k]]
<1>1. f \in Bijection(0 .. n, T)
  <2>1. \A k \in 0 .. n, m \in 0 .. n : f[k] = f[m] => k = m
    <3> SUFFICES ASSUME NEW k \in 0 .. n, NEW m \in 0 .. n, f[k] = f[m] PROVE k = m
      OBVIOUS
    <3>1. [port |-> p, queue |-> k].queue = [port |-> p, queue |-> m].queue
      OBVIOUS
    <3> QED
      BY <3>1
  <2>2. f \in [0 .. n -> T]
    OBVIOUS
  <2>3. \A t \in T : \E k \in 0 .. n : f[k] = t
    OBVIOUS
  <2> HIDE DEF f, T
  <2> QED
    BY <2>1, <2>2, <2>3 DEF Bijection, Injection, Surjection, IsInjective
<1>2. IsFiniteSet(0 .. n) /\ Cardinality(0 .. n) = n + 1
  <2>1. 0 \in Int /\ n \in Int /\ ~(0 > n) /\ n - 0 + 1 = n + 1
    OBVIOUS
  <2> QED
    BY <2>1, FS_Interval
<1>3. T \in SUBSET S
  OBVIOUS
<1> HIDE DEF T, f
<1>4. Cardinality(T) = n + 1
  BY <1>1, <1>2, FS_Bijection DEF ExistsBijection
<1>5. Cardinality(T) <= Cardinality(S) /\ Cardinality(S) \in Nat
  BY <1>3, FS_Subset, FS_CardinalityType
<1> QED
  BY <1>4, <1>5

LEMMA PanicStep ==
  TypeInv /\ FiniteMask /\ NoPanic /\ [Next]_vars => NoPanic'
<1> SUFFICES ASSUME TypeInv, FiniteMask, NoPanic, [Next]_vars,
                    stage' = "configured", NoGaps', RingsFit', flags' \cap NotImplemented = {}
             PROVE  step' \notin {"panic", "exit"}
  BY DEF NoPanic, NotImplemented
<1>1. CASE Parse
  BY <1>1, ParseStep
<1>2. CASE UNCHANGED vars \/ InitStep
  <2>1. UNCHANGED configVars
    BY <1>2, InitStepKeepsConfig DEF vars
  <2>2. stage = "configured" /\ NoGaps /\ RingsFit /\ flags \cap NotImplemented = {}
    BY <2>1 DEF configVars, queueVars, sizeVars, NoGaps, RingsFit
  <2>3. step \notin {"panic", "exit"}
    BY <2>2 DEF NoPanic, NotImplemented
  <2>4. CASE UNCHANGED vars
    BY <2>3, <2>4 DEF vars, initVars
  <2>5. CASE ConfigurePort
    <3>1. port \in UsedPorts
      BY <2>5 DEF ConfigurePort
    <3>2. port \in Present
      BY <2>2, <3>1 DEF UsedPorts, QueuesOf, NoGaps, Dirs
    <3> QED
      BY <2>5, <3>2 DEF ConfigurePort
  <2>6. ASSUME NEW d \in Dirs, RefuseQueue(d)
        PROVE  FALSE
    <3>1. ThisQueue \in mask[d] /\ ~Accepted(d)
      BY <2>6 DEF RefuseQueue
    <3>2. ring[d] % 2^16 \in RingSizes
      BY <2>2, <3>1 DEF RingsFit
    <3>3. queue \in Nat /\ IsFiniteSet(QueuesOf(d, port))
      <4>1. QueuesOf(d, port) \in SUBSET mask[d]
        BY DEF QueuesOf
      <4> QED
        BY <4>1, FS_Subset, ConfigAssumption DEF FiniteMask, TypeInv, TypeOK
    <3>4. \A k \in 0 .. queue : [port |-> port, queue |-> k] \in QueuesOf(d, port)
      BY <2>2, <3>1 DEF NoGaps, QueuesOf, ThisQueue
    <3>5. queue < Cardinality(QueuesOf(d, port))
      BY <3>3, <3>4, QueuesCounted
    <3> QED
      BY <3>1, <3>2, <3>5 DEF Accepted, Configured
  <2>7. CASE AutoConf
    BY <2>2, <2>7 DEF AutoConf
  <2>8. CASE \/ InitPools \/ PoolFault \/ SkipPort \/ SkipRx \/ SetupRx \/ SkipTx \/ SetupTx
             \/ StartPort \/ PortFault \/ CheckLinks \/ EndLinks
    BY <2>3, <2>8 DEF InitPools, PoolFault, SkipPort, SkipRx, SetupRx, SkipTx, SetupTx, SkipQueue,
                      SetupQueue, NextQueue, StartPort, PortFault, CheckLinks, EndLinks
  <2> QED
    BY <1>2, <2>4, <2>5, <2>6, <2>7, <2>8 DEF InitStep, RefuseRx, RefuseTx, Dirs
<1> QED
  BY <1>1, <1>2 DEF Next, Stopped

(***************************************************************************)
(* init.c:126-151, 268-335, 456-459, 462-477.  A command line that gives   *)
(* each port its queues without a gap, whose ring sizes fit the driver     *)
(* once they are cut to 16 bits, and that asks for no calibration, ends in *)
(* a panic only when a pool cannot be allocated or a device fails.         *)
(***************************************************************************)
THEOREM StartsWithoutGaps == Spec => []NoPanic
<1>1. Spec => []QueueOwned
  BY ProgramParses, QueuesOwned, PTL
<1>2. Spec => []TypeInv
  BY <1>1, TypeInitial, TypeNext, PTL DEF Spec
<1>3. Init => FiniteMask /\ NoPanic
  BY FS_EmptySet DEF Init, ConfigInit, FiniteMask, NoPanic
<1>4. Spec => []FiniteMask
  BY <1>2, <1>3, FiniteStep, PTL DEF Spec
<1> QED
  BY <1>2, <1>3, <1>4, PanicStep, PTL DEF Spec
=============================================================================
