------------------------- MODULE QueueConfig_proofs -------------------------
(***************************************************************************)
(* Proofs about QueueConfig, for every number of ports, queues and lcores, *)
(* every limit of config.c and main.h, and command lines of any length.    *)
(***************************************************************************)
EXTENDS QueueConfig, SequenceTheorems, TLAPS

\* The lists and masks alone, which only a tuple changes.
QueueTypeOK ==
  /\ mask \in [Dirs -> SUBSET Queue]
  /\ io \subseteq Lcores
  /\ nic_queues \in [Dirs -> [Lcores -> Seq(Queue)]]

LEMMA QueueTypes == ConfigTypeOK => QueueTypeOK
  BY DEF ConfigTypeOK, QueueTypeOK

\* Once queue q has been given to lcore l, its list ends with q.
LEMMA ListOfOwner ==
  ASSUME QueueTypeOK, NEW d \in Dirs, NEW q \in Queue, NEW l \in Lcores, Assign(d, q, l)
  PROVE  nic_queues'[d][l] = Append(nic_queues[d][l], q)
<1>1. nic_queues' = [nic_queues EXCEPT ![d] = [nic_queues[d] EXCEPT ![l] = Append(@, q)]]
  BY DEF QueueTypeOK, Assign
<1>2. nic_queues'[d] = [nic_queues[d] EXCEPT ![l] = Append(@, q)]
  BY <1>1 DEF QueueTypeOK
<1>3. nic_queues[d] \in [Lcores -> Seq(Queue)]
  BY DEF QueueTypeOK
<1> QED
  BY <1>2, <1>3

\* The other lists are as they were.
LEMMA OtherLists ==
  ASSUME QueueTypeOK, NEW d \in Dirs, NEW q \in Queue, NEW l \in Lcores, Assign(d, q, l),
         NEW e \in Dirs, NEW m \in Lcores, ~(e = d /\ m = l)
  PROVE  nic_queues'[e][m] = nic_queues[e][m]
  BY DEF QueueTypeOK, Assign

\* An entry of a list is an old one, at its old place, or the new one at the end.
LEMMA EntriesAfterAssign ==
  ASSUME QueueTypeOK, NEW d \in Dirs, NEW q \in Queue, NEW l \in Lcores, Assign(d, q, l),
         NEW e \in Dirs, NEW m \in Lcores, NEW i \in DOMAIN nic_queues'[e][m]
  PROVE  \/ i \in DOMAIN nic_queues[e][m] /\ nic_queues'[e][m][i] = nic_queues[e][m][i]
         \/ e = d /\ m = l /\ i = Len(nic_queues[d][l]) + 1 /\ nic_queues'[e][m][i] = q
<1>1. nic_queues[e][m] \in Seq(Queue) /\ nic_queues[d][l] \in Seq(Queue)
  BY DEF QueueTypeOK
<1>2. CASE e = d /\ m = l
  <2>1. nic_queues'[e][m] = Append(nic_queues[d][l], q)
    BY <1>2, ListOfOwner
  <2> DEFINE s == nic_queues[d][l]
  <2>2. /\ DOMAIN Append(s, q) = 1 .. Len(s) + 1
        /\ \A j \in 1 .. Len(s) : Append(s, q)[j] = s[j]
        /\ Append(s, q)[Len(s) + 1] = q
        /\ DOMAIN s = 1 .. Len(s) /\ Len(s) \in Nat
    BY <1>1, AppendProperties, LenProperties
  <2>3. i \in 1 .. Len(s) + 1
    BY <2>1, <2>2
  <2>4. CASE i = Len(s) + 1
    BY <2>4, <2>1, <2>2, <1>2
  <2>5. CASE i \in 1 .. Len(s)
    BY <2>5, <2>1, <2>2, <1>2
  <2> HIDE DEF s
  <2>6. i \in 1 .. Len(s) \/ i = Len(s) + 1
    BY <2>2, <2>3
  <2> QED
    BY <2>4, <2>5, <2>6
<1>3. CASE ~(e = d /\ m = l)
  <2>1. nic_queues'[e][m] = nic_queues[e][m]
    BY <1>3, OtherLists
  <2> QED
    BY <2>1
<1> QED
  BY <1>2, <1>3

\* A free queue given to an lcore keeps the assignment one to one.
LEMMA AssignOwned ==
  ASSUME QueueTypeOK, QueueOwned, stage = "parse",
         NEW d \in Dirs, NEW q \in Queue, q \notin mask[d], NEW l \in Lcores,
         Assign(d, q, l)
  PROVE  QueueOwned'
<1>1. \A e \in Dirs : mask'[e] = IF e = d THEN mask[e] \cup {q} ELSE mask[e]
  BY DEF QueueTypeOK, Assign
<1>2. io' = io \cup {l}
  BY DEF Assign
<1>3. ListedEnabled'
  <2>1. SUFFICES ASSUME NEW e \in Dirs, NEW m \in Lcores, NEW i \in DOMAIN nic_queues'[e][m]
                 PROVE  nic_queues'[e][m][i] \in mask'[e] /\ m \in io'
    BY DEF ListedEnabled
  <2>2. CASE i \in DOMAIN nic_queues[e][m] /\ nic_queues'[e][m][i] = nic_queues[e][m][i]
    BY <2>2, <1>1, <1>2 DEF QueueOwned, ListedEnabled
  <2>3. CASE e = d /\ m = l /\ nic_queues'[e][m][i] = q
    BY <2>3, <1>1, <1>2
  <2> QED
    BY <2>2, <2>3, EntriesAfterAssign
<1>4. OneOwner'
  <2>1. SUFFICES ASSUME NEW e \in Dirs, NEW m \in Lcores, NEW n \in Lcores,
                        NEW i \in DOMAIN nic_queues'[e][m], NEW j \in DOMAIN nic_queues'[e][n],
                        nic_queues'[e][m][i] = nic_queues'[e][n][j]
                 PROVE  m = n /\ i = j
    BY DEF OneOwner
  <2> DEFINE Old(k, x) == /\ x \in DOMAIN nic_queues[e][k]
                          /\ nic_queues'[e][k][x] = nic_queues[e][k][x]
             New(k, x) == /\ e = d /\ k = l /\ x = Len(nic_queues[d][l]) + 1
                          /\ nic_queues'[e][k][x] = q
  <2>2. Old(m, i) \/ New(m, i)
    BY EntriesAfterAssign
  <2>3. Old(n, j) \/ New(n, j)
    BY EntriesAfterAssign
  <2>4. ASSUME NEW k \in Lcores, NEW x, Old(k, x), e = d
        PROVE  nic_queues'[e][k][x] # q
    BY <2>4 DEF QueueOwned, ListedEnabled
  <2>5. CASE Old(m, i) /\ Old(n, j)
    <3>1. i \in DOMAIN nic_queues[e][m] /\ j \in DOMAIN nic_queues[e][n]
      BY <2>5
    <3>2. nic_queues[e][m][i] = nic_queues[e][n][j]
      BY <2>1, <2>5
    <3>3. OneOwner
      BY DEF QueueOwned
    <3> QED
      BY <3>1, <3>2, <3>3 DEF OneOwner
  <2>6. CASE New(m, i) /\ New(n, j)
    BY <2>6
  <2>7. CASE Old(m, i) /\ New(n, j)
    BY <2>1, <2>4, <2>7
  <2>8. CASE New(m, i) /\ Old(n, j)
    BY <2>1, <2>4, <2>8
  <2> QED
    BY <2>2, <2>3, <2>5, <2>6, <2>7, <2>8
<1>5. EnabledListed'
  <2>1. SUFFICES ASSUME NEW e \in Dirs, NEW p \in mask'[e]
                 PROVE  \E m \in Lcores : \E i \in DOMAIN nic_queues'[e][m] :
                          nic_queues'[e][m][i] = p
    BY DEF EnabledListed
  <2> DEFINE s == nic_queues[d][l]
  <2>2. /\ s \in Seq(Queue)
        /\ DOMAIN Append(s, q) = 1 .. Len(s) + 1
        /\ \A j \in 1 .. Len(s) : Append(s, q)[j] = s[j]
        /\ Append(s, q)[Len(s) + 1] = q
        /\ DOMAIN s = 1 .. Len(s) /\ Len(s) \in Nat
    BY AppendProperties, LenProperties DEF QueueTypeOK
  <2>3. nic_queues'[d][l] = Append(s, q)
    BY ListOfOwner
  <2>4. CASE e = d /\ p = q
    <3>1. Len(s) + 1 \in 1 .. Len(s) + 1
      <4> HIDE DEF s
      <4> QED BY <2>2
    <3> QED
      BY <2>2, <2>3, <2>4, <3>1
  <2>5. CASE p \in mask[e]
    <3>0. PICK m \in Lcores : \E i \in DOMAIN nic_queues[e][m] : nic_queues[e][m][i] = p
      BY <2>5 DEF QueueOwned, EnabledListed
    <3>1. PICK i \in DOMAIN nic_queues[e][m] : nic_queues[e][m][i] = p
      BY <3>0
    <3>2. CASE e = d /\ m = l
      <4>1. i \in 1 .. Len(s)
        BY <2>2, <3>1, <3>2
      <4>2. i \in 1 .. Len(s) + 1
        <5> HIDE DEF s
        <5> QED BY <2>2, <4>1
      <4> QED
        BY <2>2, <2>3, <3>1, <3>2, <4>1, <4>2
    <3>3. CASE ~(e = d /\ m = l)
      BY <3>1, <3>3, OtherLists
    <3> QED
      BY <3>2, <3>3
  <2> QED
    BY <2>4, <2>5, <1>1
<1> QED
  BY <1>3, <1>4, <1>5 DEF QueueOwned

-----------------------------------------------------------------------------
LEMMA ConfigTypeInit == ConfigInit => ConfigTypeOK
<1> SUFFICES ASSUME ConfigInit PROVE ConfigTypeOK
  OBVIOUS
<1>1. /\ mask \in [Dirs -> SUBSET Queue] /\ io \subseteq Lcores
      /\ nic_queues \in [Dirs -> [Lcores -> Seq(Queue)]]
  BY DEF ConfigInit
<1>2. \A d \in Dirs, l \in Lcores : Len(nic_queues[d][l]) <= QueuesPerLcore
  BY ConfigAssumption DEF ConfigInit
<1>3. ring \in [Dirs -> Nat]
  BY DEF ConfigInit
<1>4. n_tuples = 0 /\ MaxTuples \in Nat
  BY ConfigAssumption DEF ConfigInit
<1>5. n_tuples \in 0 .. MaxTuples + 1 /\ ~(n_tuples > MaxTuples)
  BY <1>4
<1> QED
  BY <1>1, <1>2, <1>3, <1>5 DEF ConfigInit, ConfigTypeOK

\* A tuple keeps the types.
LEMMA TupleType ==
  ASSUME ConfigTypeOK, NEW d \in Dirs, NEW p \in PortArgs, NEW n \in QueueArgs,
         NEW l \in LcoreArgs, Tuple(d, p, n, l)
  PROVE  ConfigTypeOK'
<1> DEFINE q == [port |-> p, queue |-> n]
<1> USE ConfigAssumption
<1>1. CASE FreeQueue(d, q) /\ LcoreTakes(d, l)
  <2>1. q \in Queue /\ l \in Lcores
    BY <1>1 DEF FreeQueue, LcoreTakes, AnLcore, Queue
  <2>2. /\ Assign(d, q, l) /\ n_tuples' = n_tuples + 1
        /\ stage' = IF n_tuples + 1 > MaxTuples THEN "usage" ELSE stage
    BY <1>1 DEF Tuple
  <2>3. /\ mask' \in [Dirs -> SUBSET Queue]
        /\ io' \subseteq Lcores
        /\ nic_queues' \in [Dirs -> [Lcores -> Seq(Queue)]]
    BY <2>1, <2>2 DEF ConfigTypeOK, Assign
  <2>4. ASSUME NEW e \in Dirs, NEW m \in Lcores
        PROVE  Len(nic_queues'[e][m]) <= QueuesPerLcore
    <3>1. CASE e = d /\ m = l
      <4>1. nic_queues'[e][m] = Append(nic_queues[d][l], q)
        BY <3>1, <2>1, <2>2, QueueTypes, ListOfOwner
      <4>2. nic_queues[d][l] \in Seq(Queue)
        BY <2>1 DEF ConfigTypeOK
      <4>3. PICK k \in Nat : k = Len(nic_queues[d][l])
        BY <4>2, LenProperties
      <4>4. Len(nic_queues'[e][m]) = k + 1
        BY <4>1, <4>2, <4>3, <2>1, AppendProperties
      <4>5. k < QueuesPerLcore
        BY <1>1, <4>3 DEF LcoreTakes
      <4>6. k + 1 <= QueuesPerLcore
        BY <4>5
      <4> QED
        BY <4>4, <4>6
    <3>2. CASE ~(e = d /\ m = l)
      <4>1. nic_queues'[e][m] = nic_queues[e][m]
        BY <3>2, <2>1, <2>2, QueueTypes, OtherLists
      <4>2. Len(nic_queues[e][m]) <= QueuesPerLcore
        BY DEF ConfigTypeOK
      <4> QED
        BY <4>1, <4>2
    <3> QED
      BY <3>1, <3>2
  <2>5. /\ n_tuples' \in 0 .. MaxTuples + 1
        /\ n_tuples' > MaxTuples => stage' = "usage"
        /\ stage' \in {"parse", "usage"}
    <3>1. n_tuples \in Nat /\ n_tuples <= MaxTuples /\ MaxTuples \in Nat
      BY DEF ConfigTypeOK, Tuple
    <3> QED
      BY <3>1, <2>2 DEF Tuple
  <2>6. UNCHANGED <<opt, options, given, sizeVars, flags>>
    BY DEF Tuple
  <2> QED
    BY <2>3, <2>4, <2>5, <2>6 DEF ConfigTypeOK, sizeVars, trainVars
<1>2. CASE ~(FreeQueue(d, q) /\ LcoreTakes(d, l))
  <2>1. /\ stage' = "usage" /\ Leave(d, q, l)
        /\ UNCHANGED <<n_tuples, opt, options, given, sizeVars, flags>>
    BY <1>2 DEF Tuple
  <2>2. mask' \in [Dirs -> SUBSET Queue] /\ io' \subseteq Lcores /\ UNCHANGED nic_queues
    BY <2>1 DEF Leave, ConfigTypeOK, FreeQueue, Queue, AnLcore
  <2> QED
    BY <2>1, <2>2 DEF ConfigTypeOK, sizeVars, trainVars
<1> QED
  BY <1>1, <1>2

\* The queues of a lcore keep to their arrays when the lists do not change.
LEMMA OtherType ==
  ASSUME ConfigTypeOK, ConfigNext,
         ~\E p \in PortArgs, n \in QueueArgs, l \in LcoreArgs :
            RxTuple(p, n, l) \/ TxTuple(p, n, l)
  PROVE  ConfigTypeOK' /\ UNCHANGED queueVars
<1> USE ConfigAssumption
<1>1. ASSUME NEW d \in Dirs, BeginList(d)
      PROVE  ConfigTypeOK' /\ UNCHANGED queueVars
  BY <1>1 DEF BeginList, ConfigTypeOK, sizeVars, trainVars, queueVars
<1>2. CASE BadTuple \/ EndList
  BY <1>2 DEF BadTuple, EndList, ConfigTypeOK, sizeVars, trainVars, queueVars
<1>3. ASSUME NEW n \in Numbers, BurstSize(n) \/ TrainLength(n) \/ TrainFriends(n)
      PROVE  ConfigTypeOK' /\ UNCHANGED queueVars
  <2>1. CASE BurstSize(n)
    BY <2>1 DEF BurstSize, Option, ConfigTypeOK, trainVars, queueVars
  <2>2. CASE TrainLength(n)
    <3>1. rows' \in Nat /\ noMemory' \in BOOLEAN /\ trainLen' \in Nat
      BY <2>2 DEF TrainLength
    <3>2. /\ UNCHANGED <<opt, n_tuples, queueVars>> /\ options' = options + 1
          /\ UNCHANGED <<stage, given, ring, burstTx, trainFriends, flags>>
      BY <2>2 DEF TrainLength, Option
    <3> QED
      BY <3>1, <3>2 DEF ConfigTypeOK, queueVars
  <2>3. CASE TrainFriends(n)
    BY <2>3 DEF TrainFriends, Option, ConfigTypeOK, queueVars
  <2> QED
    BY <1>3, <2>1, <2>2, <2>3
<1>7. ASSUME NEW n \in Numbers, NEW m \in Numbers, RingSize(n, m)
      PROVE  ConfigTypeOK' /\ UNCHANGED queueVars
  <2>1. ring' \in [Dirs -> Nat]
    BY <1>7 DEF RingSize
  <2> QED
    BY <1>7, <2>1 DEF RingSize, Option, ConfigTypeOK, trainVars, queueVars
<1>4. ASSUME NEW f \in Flags, Flag(f)
      PROVE  ConfigTypeOK' /\ UNCHANGED queueVars
  <2>1. flags' \subseteq flags \cup {f, "bandWidthMeasure", "active"}
    BY <1>4 DEF Flag
  <2> QED
    BY <1>4, <2>1 DEF Flag, Option, ConfigTypeOK, sizeVars, trainVars, queueVars
<1>5. CASE BadValue \/ Overrun
  BY <1>5 DEF BadValue, Overrun, Option, ConfigTypeOK, sizeVars, trainVars, queueVars
<1>6. CASE EndOptions
  BY <1>6 DEF EndOptions, NoTrain, ConfigTypeOK, trainVars, queueVars
<1> QED
  BY <1>1, <1>2, <1>3, <1>4, <1>5, <1>6, <1>7 DEF ConfigNext

\* Nothing leaves the stages "configured", "usage" and "crash".
LEMMA OnlyParsing == ConfigNext => stage = "parse"
  BY DEF ConfigNext, BeginList, RxTuple, TxTuple, Tuple, BadTuple, EndList, RingSize, BurstSize,
         TrainLength, TrainFriends, Flag, BadValue, Overrun, Option, EndOptions

LEMMA TypeStep == ConfigTypeOK /\ [ConfigNext]_configVars => ConfigTypeOK'
<1>1. CASE UNCHANGED configVars
  BY <1>1 DEF configVars, queueVars, sizeVars, trainVars, ConfigTypeOK
<1>2. ASSUME ConfigTypeOK, NEW p \in PortArgs, NEW n \in QueueArgs, NEW l \in LcoreArgs,
             RxTuple(p, n, l) \/ TxTuple(p, n, l)
      PROVE  ConfigTypeOK'
  BY <1>2, TupleType DEF RxTuple, TxTuple, Dirs
<1> QED
  BY <1>1, <1>2, OtherType

LEMMA TupleOwned ==
  ASSUME ConfigTypeOK, QueueOwned,
         NEW d \in Dirs, NEW p \in PortArgs, NEW n \in QueueArgs, NEW l \in LcoreArgs,
         Tuple(d, p, n, l)
  PROVE  QueueOwned'
<1> DEFINE q == [port |-> p, queue |-> n]
<1>1. CASE FreeQueue(d, q) /\ LcoreTakes(d, l)
  <2>1. q \in Queue /\ q \notin mask[d] /\ l \in Lcores
    BY <1>1 DEF FreeQueue, LcoreTakes, AnLcore, Queue
  <2>2. Assign(d, q, l)
    BY <1>1 DEF Tuple
  <2> QED
    BY <2>1, <2>2, AssignOwned, QueueTypes DEF Tuple
<1>2. CASE ~(FreeQueue(d, q) /\ LcoreTakes(d, l))
  <2>1. stage' = "usage" /\ Leave(d, q, l) /\ UNCHANGED nic_queues
    BY <1>2 DEF Tuple, Leave
  <2>2. io \subseteq io' /\ \A e \in Dirs : mask[e] \subseteq mask'[e]
    BY <2>1 DEF Leave, ConfigTypeOK
  <2>3. ListedEnabled'
    BY <2>1, <2>2 DEF QueueOwned, ListedEnabled
  <2> QED
    BY <2>1, <2>3 DEF QueueOwned, OneOwner, EnabledListed
<1> QED
  BY <1>1, <1>2

LEMMA OwnedStep == ConfigTypeOK /\ QueueOwned /\ [ConfigNext]_configVars => QueueOwned'
<1>1. CASE UNCHANGED configVars
  BY <1>1 DEF configVars, queueVars, QueueOwned, ListedEnabled, OneOwner, EnabledListed
<1>2. ASSUME ConfigTypeOK, QueueOwned, ConfigNext,
             NEW p \in PortArgs, NEW n \in QueueArgs, NEW l \in LcoreArgs,
             RxTuple(p, n, l) \/ TxTuple(p, n, l)
      PROVE  QueueOwned'
  BY <1>2, TupleOwned DEF RxTuple, TxTuple, Dirs
<1>3. ASSUME ConfigTypeOK, QueueOwned, ConfigNext, UNCHANGED queueVars
      PROVE  QueueOwned'
  BY <1>3, OnlyParsing DEF queueVars, QueueOwned, ListedEnabled, OneOwner, EnabledListed
<1> QED
  BY <1>1, <1>2, <1>3, OtherType

(***************************************************************************)
(* The numbers the parser keeps are in the ranges the arrays of main.h     *)
(* need, in particular the queues of a lcore; the tuples of a list exceed  *)
(* their maximum by one at most, and only on the way out.  What a parser   *)
(* that runs out of vals (Overrun) does to them is not claimed.            *)
(***************************************************************************)
THEOREM ConfigTypeCorrect == ConfigSpec => []ConfigTypeOK
  BY ConfigTypeInit, TypeStep, PTL DEF ConfigSpec

(***************************************************************************)
(* Every enabled queue has exactly one owner, and every owned queue is     *)
(* enabled, after any sequence of --rx and --tx options.                   *)
(***************************************************************************)
THEOREM QueuesOwned == ConfigSpec => []QueueOwned
<1>1. ConfigInit => QueueOwned
  BY DEF ConfigInit, QueueOwned, ListedEnabled, OneOwner, EnabledListed, Dirs
<1> QED
  BY <1>1, ConfigTypeCorrect, OwnedStep, PTL DEF ConfigSpec

-----------------------------------------------------------------------------
\* The table has trainLen rows, and without a train the parser ends in one of
\* the bandwidth modes.
TableInv ==
  /\ ~noMemory => rows = trainLen
  /\ stage = "configured" => trainLen > 0 \/ "bandWidthMeasure" \in flags

\* Only EndOptions accepts a command line.
LEMMA AcceptedAtEnd == ConfigNext /\ ~EndOptions => stage' # "configured"
  BY DEF ConfigNext, BeginList, RxTuple, TxTuple, Tuple, BadTuple, EndList, RingSize, BurstSize,
         TrainLength, TrainFriends, Flag, BadValue, Overrun, Option

\* The table and the length of the train change together.
LEMMA RowsFollow ==
  ConfigNext /\ (~noMemory => rows = trainLen) => (~noMemory' => rows' = trainLen')
<1> SUFFICES ASSUME ConfigNext, ~noMemory => rows = trainLen, ~noMemory'
             PROVE  rows' = trainLen'
  OBVIOUS
<1>1. CASE UNCHANGED <<trainLen, rows, noMemory>>
  BY <1>1
<1>2. ASSUME NEW n \in Numbers, TrainLength(n) PROVE rows' = trainLen'
  BY <1>2 DEF TrainLength
<1>3. (~\E n \in Numbers : TrainLength(n)) => UNCHANGED <<trainLen, rows, noMemory>>
  BY DEF ConfigNext, BeginList, RxTuple, TxTuple, Tuple, BadTuple, EndList, RingSize, BurstSize,
         TrainFriends, Flag, BadValue, Overrun, EndOptions, sizeVars, trainVars
<1> QED
  BY <1>1, <1>2, <1>3

LEMMA TableStep == ConfigTypeOK /\ TableInv /\ [ConfigNext]_configVars => TableInv'
<1>1. CASE UNCHANGED configVars
  BY <1>1 DEF configVars, sizeVars, trainVars, TableInv
<1>2. ASSUME ConfigTypeOK, TableInv, EndOptions
      PROVE  trainLen' > 0 \/ "bandWidthMeasure" \in flags'
  <2>1. /\ trainLen' = trainLen /\ trainLen \in Nat
        /\ flags' = flags \cup NoTrain
    BY <1>2 DEF EndOptions, ConfigTypeOK, trainVars
  <2>2. CASE trainLen = 0 /\ "bandWidthMeasure" \notin flags
    BY <2>1, <2>2 DEF NoTrain
  <2> QED
    BY <2>1, <2>2
<1>3. ASSUME ConfigTypeOK, TableInv, ConfigNext
      PROVE  TableInv'
  BY <1>2, <1>3, AcceptedAtEnd, RowsFollow DEF TableInv
<1> QED
  BY <1>1, <1>3

(***************************************************************************)
(* A mode that records latencies has a train, and a table with as many     *)
(* rows as its receiver counts up to when there was memory for it, after   *)
(* any sequence of options.                                                *)
(***************************************************************************)
THEOREM TableThere == ConfigSpec => []ModeHasTable
<1>1. ConfigInit => TableInv
  BY DEF ConfigInit, TableInv
<1>2. ConfigTypeOK /\ TableInv => ModeHasTable
  <2>1. SUFFICES ASSUME ConfigTypeOK, TableInv, stage = "configured",
                        Mode \in {"sts", "friends", "latency"}
                 PROVE  trainLen > 0 /\ (~noMemory => rows = trainLen)
    BY DEF ModeHasTable
  <2>2. "bandWidthMeasure" \notin flags
    BY <2>1 DEF Mode
  <2> QED
    BY <2>1, <2>2 DEF TableInv
<1> QED
  BY <1>1, <1>2, ConfigTypeCorrect, TableStep, PTL DEF ConfigSpec
=============================================================================
