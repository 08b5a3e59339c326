--------------------------- MODULE StsTrain_proofs ---------------------------
(***************************************************************************)
(* Theorems about StsTrain, for every number of lcores, queues, buffers and*)
(* rows.  First the types, with what a lcore has in hand at each place of  *)
(* its loop (TypeInv, HandInv: together BaseInv), which every other proof  *)
(* uses; then the buffers, the table, the end of the process, the numbers, *)
(* the order of the packets and the bytes; last that the program is a      *)
(* TrainMeasurement.                                                       *)
(***************************************************************************)
EXTENDS StsTrain, SequenceTheorems, SumTheorems, TLAPS

\* The numbers among the constants.
LEMMA Numbers ==
  /\ IsFiniteSet(Lcores) /\ RxLcore \in Lcores
  /\ TrainLen \in Nat \ {0} /\ TxRing \in Nat \ {0} /\ RxRing \in Nat \ {0}
  /\ BurstRx \in Nat \ {0} /\ BurstTx \in Nat \ {0}
  /\ PoolSize \in Nat /\ WaitTime \in Nat /\ ReportTime \in Nat
  /\ CounterBase \in Nat /\ CounterBase > TrainLen
  /\ MaxMarks \in Nat /\ MaxDelivered \in Nat
  /\ HandSize \in Nat /\ BurstTx <= HandSize /\ (FillFirst => TxRing <= HandSize)
  BY TrainAssumption, StsAssumption DEF HandSize

LEMMA LesserNat ==
  ASSUME NEW m \in Nat, NEW n \in Nat
  PROVE  /\ Lesser(m, n) \in Nat /\ Lesser(m, n) <= m /\ Lesser(m, n) <= n
         /\ Lesser(m, n) = m \/ Lesser(m, n) = n
  BY DEF Lesser

-----------------------------------------------------------------------------
(***************************************************************************)
(* What a transmitter writes.                                              *)
(***************************************************************************)
LEMMA ChecksumType ==
  ASSUME NEW h \in Header
  PROVE  PutChecksum(h) \in Header
<1> DEFINE part == {o \in Offsets : o >= icmpStart}
           s    == SumFunctionOnSet(h, part)
           c    == RawCksum(h)
<1>1. IsFiniteSet(part)
  <2>1. part \in SUBSET Nat /\ 46 \in Nat /\ \A o \in part : o <= 46
    BY DEF Offsets
  <2> HIDE DEF part
  <2> QED
    BY <2>1, FS_BoundedSetOfNaturals
<1>2. \A o \in part : h[o] \in Nat
  BY FormatAssumption DEF Header, Word
<1>3. s \in Nat
  <2> HIDE DEF part
  <2> QED
    BY <1>1, <1>2, SumType
<1>4. c = IF s = 0 THEN 0 ELSE ((s - 1) % (WordBase - 1)) + 1
  BY DEF RawCksum
<1> HIDE DEF c, s, part
<1>5. c \in 0 .. WordBase - 1
  <2>1. PICK w \in Nat : w = WordBase - 1 /\ w > 0
    BY FormatAssumption
  <2>2. CASE s = 0
    BY <1>4, <2>1, <2>2
  <2>3. CASE s # 0
    <3>1. s - 1 \in Nat /\ c = ((s - 1) % w) + 1
      BY <1>3, <1>4, <2>1, <2>3
    <3>2. (s - 1) % w \in 0 .. w - 1
      BY <2>1, <3>1
    <3> QED
      BY <2>1, <3>1, <3>2
  <2> QED
    BY <2>2, <2>3
<1>6. (IF c = WordBase - 1 THEN c ELSE WordBase - 1 - c) \in Word
  BY <1>5, FormatAssumption DEF Word
<1>7. PutChecksum(h) = [h EXCEPT ![icmpStart + 2] = IF c = WordBase - 1 THEN c ELSE WordBase - 1 - c]
  BY DEF PutChecksum, c
<1> QED
  BY <1>6, <1>7 DEF Header

LEMMA TimeType ==
  ASSUME NEW h \in Header, NEW t \in Time
  PROVE  /\ PutTime(h, t) \in Header
         /\ \A o \in {34, 36, 38} : PutTime(h, t)[o] = h[o]
<1>1. PutTime(h, t) = [o \in Offsets |-> IF o >= 40 THEN t[(o - 40) \div 2] ELSE h[o]]
  BY DEF PutTime, tsoffset
<1>2. ASSUME NEW o \in Offsets, o >= 40 PROVE t[(o - 40) \div 2] \in Word
  <2>1. (o - 40) \div 2 \in 0 .. 3
    <3>1. o = 40 \/ o = 42 \/ o = 44 \/ o = 46
      BY <1>2 DEF Offsets
    <3>2. /\ (40 - 40) \div 2 = 0 /\ (42 - 40) \div 2 = 1
          /\ (44 - 40) \div 2 = 2 /\ (46 - 40) \div 2 = 3
      OBVIOUS
    <3> QED
      BY <3>1, <3>2
  <2> QED
    BY <2>1 DEF Time
<1>3. \A o \in Offsets : h[o] \in Word
  BY DEF Header
<1>4. PutTime(h, t) \in Header
  BY <1>1, <1>2, <1>3 DEF Header
<1>5. \A o \in {34, 36, 38} : PutTime(h, t)[o] = h[o]
  BY <1>1 DEF Offsets
<1> QED
  BY <1>4, <1>5

LEMMA StampedType ==
  ASSUME NEW n \in Nat, NEW m \in Nat
  PROVE  StampSts(Blank, n, Clock(m)) \in Header
<1> DEFINE marked   == PutMark(Blank)
           numbered == IF autoIncNum THEN PutCounter(marked, n) ELSE marked
           timed    == PutTime(numbered, Clock(m))
<1>1. Blank \in Header /\ n % WordBase \in Word /\ m % WordBase \in Word /\ 0 \in Word
  BY FormatAssumption DEF Blank, Header, Word
<1>2. marked \in Header
  BY <1>1, FormatAssumption DEF PutMark, Header
<1> HIDE DEF marked
<1>3. numbered \in Header
  BY <1>1, <1>2 DEF PutCounter, Header
<1>4. Clock(m) \in Time
  BY <1>1 DEF Clock, Time
<1> HIDE DEF numbered
<1>5. timed \in Header
  BY <1>3, <1>4, TimeType
<1>6. StampSts(Blank, n, Clock(m)) = WithChecksum(timed)
  BY DEF StampSts, timed, numbered, marked
<1> HIDE DEF timed
<1> QED
  BY <1>5, <1>6, ChecksumType DEF WithChecksum

\* The offset of the number is that of a word the model keeps.
LEMMA ReadType ==
  ASSUME TypeOK, NEW q \in Queues, NEW h \in Header
  PROVE  Read(q, h) \in Frame
<1>1. cntroffset \in Offsets
  BY FormatAssumption DEF cntroffset, Offsets
<1>2. Counter(h) \in Word
  BY <1>1 DEF Counter, Header
<1>3. marks \in Nat /\ IsMarked(h) \in BOOLEAN
  BY DEF TypeOK, IsMarked
<1> QED
  BY <1>2, <1>3 DEF Read, Frame

LEMMA PacketTypes ==
  ASSUME TypeOK, NEW q \in Queues
  PROVE  MarkedPacket(q) \in Frame /\ OtherPacket(q) \in Frame
<1>1. pktcounter \in Nat /\ marks \in Nat
  BY Numbers DEF TypeOK
<1>2. Blank \in Header
  BY FormatAssumption DEF Blank, Header, Word
<1>3. Read(q, Blank) \in Frame
  BY <1>2, ReadType
<1>4. MarkedPacket(q) \in Frame
  BY <1>1, StampedType, ReadType DEF MarkedPacket
<1>5. OtherPacket(q) \in Frame
  BY <1>3 DEF OtherPacket, Frame
<1> QED
  BY <1>4, <1>5

LEMMA OtherUnmarked ==
  ASSUME NEW q
  PROVE  OtherPacket(q).marked = FALSE /\ OtherPacket(q).q = q
<1>1. idoffset \in Offsets
  BY FormatAssumption DEF idoffset, Offsets
<1>2. Blank[idoffset] # tspacketId
  BY <1>1, StsAssumption DEF Blank
<1> QED
  BY <1>2 DEF OtherPacket, Read, IsMarked

LEMMA BurstType ==
  ASSUME TypeOK, NEW q \in Queues, NEW n \in Nat
  PROVE  /\ NewBurst(q, n) \in Seq(Frame) /\ Len(NewBurst(q, n)) = n
         /\ [i \in 1 .. n |-> OtherPacket(q)] \in Seq(Frame)
         /\ Len([i \in 1 .. n |-> OtherPacket(q)]) = n
<1>1. MarkedPacket(q) \in Frame /\ OtherPacket(q) \in Frame
  BY PacketTypes
<1>2. NewBurst(q, n) \in [1 .. n -> Frame]
  BY <1>1 DEF NewBurst
<1>3. [i \in 1 .. n |-> OtherPacket(q)] \in [1 .. n -> Frame]
  BY <1>1
<1> DEFINE a == NewBurst(q, n)
           b == [i \in 1 .. n |-> OtherPacket(q)]
<1>4. DOMAIN a = 1 .. n /\ DOMAIN b = 1 .. n
  BY <1>2, <1>3
<1> HIDE DEF a, b
<1>5. a \in Seq(Frame) /\ b \in Seq(Frame)
  BY <1>2, <1>3 DEF Seq, a, b
<1>6. Len(a) = n /\ Len(b) = n
  BY <1>4, <1>5, LenProperties
<1> QED
  BY <1>5, <1>6 DEF a, b

-----------------------------------------------------------------------------
Places == {"fill", "fillsend", "fillfree", "tx", "number", "send", "spin", "takeback",
           "wait", "grace", "poll", "record", "report"}

Filling == {"fill", "fillsend", "fillfree"}

\* Where a lcore is tells which queue it serves: one of its own.  Only the
\* receiver receives, and it begins its transmissions with the first queue.
\* The rings are filled only if that was asked for.
Sending == {"fill", "fillsend", "fillfree", "tx", "number", "send", "spin", "takeback"}

AtPlace(l, place, i) ==
  /\ place \in Sending => i \in DOMAIN TxQueues[l]
  /\ place \in {"poll", "record"} => l = RxLcore /\ i = 1
  /\ place \in Filling => FillFirst

PlaceInv == \A l \in Lcores : AtPlace(l, pc[l], txi[l])

\* There is a frame to look at.
BurstOK == pc[RxLcore] = "record" => burst # <<>>

\* A ring holds no more than its size.
RingsBounded == \A q \in Queues : Len(txring[q]) <= TxRing

TypeInv == TypeOK /\ PlaceInv /\ BurstOK /\ RingsBounded

-----------------------------------------------------------------------------
LEMMA QueueIndex ==
  ASSUME NEW l \in Lcores
  PROVE  /\ Len(TxQueues[l]) \in Nat
         /\ DOMAIN TxQueues[l] = 1 .. Len(TxQueues[l])
         /\ TxQueues[l] # <<>> => 1 \in DOMAIN TxQueues[l]
         /\ l # RxLcore => TxQueues[l] # <<>>
         /\ \A i \in DOMAIN TxQueues[l] : TxQueues[l][i] \in Queues
<1>1. TxQueues[l] \in Seq([port : Nat, queue : Nat])
  BY TrainAssumption
<1>2. TxQueues[l] # <<>> => Len(TxQueues[l]) # 0
  BY <1>1, EmptySeq
<1>3. Len(TxQueues[l]) \in Nat /\ DOMAIN TxQueues[l] = 1 .. Len(TxQueues[l])
  BY <1>1, LenProperties
<1>4. \A i \in DOMAIN TxQueues[l] : TxQueues[l][i] \in Queues
  BY DEF Queues
<1> QED
  BY <1>2, <1>3, <1>4, TrainAssumption

LEMMA QueueTypes == \A q \in Queues : q.queue \in Nat
<1>1. ASSUME NEW l \in Lcores, NEW i \in DOMAIN TxQueues[l] PROVE TxQueues[l][i].queue \in Nat
  <2>1. TxQueues[l] \in Seq([port : Nat, queue : Nat])
    BY TrainAssumption
  <2>2. TxQueues[l][i] \in [port : Nat, queue : Nat]
    BY <2>1, QueueIndex, ElementOfSeq
  <2> QED
    BY <2>2
<1> QED
  BY <1>1 DEF Queues

LEMMA QueuesFinite == IsFiniteSet(Queues) /\ IsFiniteSet(Lcores)
  BY TrainAssumption, ListedFinite DEF Queues

\* The types of the variables that say where the lcores are.
LcoreTypes == pc \in [Lcores -> Places] /\ txi \in [Lcores -> Nat \ {0}]

\* Lcore l goes to a place that suits its queue, the others stay.
Moves(l) ==
  /\ pc' \in [Lcores -> Places] /\ txi' \in [Lcores -> Nat \ {0}]
  /\ \A m \in Lcores \ {l} : pc'[m] = pc[m] /\ txi'[m] = txi[m]
  /\ AtPlace(l, pc'[l], txi'[l])

LEMMA MovesPlace ==
  ASSUME PlaceInv, NEW l \in Lcores, Moves(l)
  PROVE  PlaceInv'
<1>1. ASSUME NEW m \in Lcores PROVE AtPlace(m, pc'[m], txi'[m])
  BY DEF PlaceInv, Moves
<1> QED
  BY <1>1 DEF PlaceInv, AtPlace

LEMMA GoToMoves ==
  ASSUME LcoreTypes, NEW l \in Lcores, NEW place \in Places,
         pc' = [pc EXCEPT ![l] = place], txi' = txi, AtPlace(l, place, txi[l])
  PROVE  Moves(l) /\ pc'[l] = place
  BY DEF LcoreTypes, Moves

LEMMA NextQueueMoves ==
  ASSUME LcoreTypes, NEW l \in Lcores, txi[l] \in DOMAIN TxQueues[l],
         NEW again \in {"fill", "tx"}, again = "fill" => FillFirst,
         NextQueue(l, again, AfterTx(l))
  PROVE  Moves(l) /\ pc'[l] \in {again, AfterTx(l)} /\ AfterTx(l) \in {"poll", "tx"}
         /\ (AfterTx(l) = "poll" <=> l = RxLcore)
<1>1. txi[l] \in Nat /\ txi[l] \in 1 .. Len(TxQueues[l]) /\ Len(TxQueues[l]) \in Nat
  BY QueueIndex DEF LcoreTypes
<1>2. AfterTx(l) \in {"poll", "tx"} /\ (AfterTx(l) = "poll" <=> l = RxLcore)
  BY DEF AfterTx
<1>3. CASE txi[l] < Len(TxQueues[l])
  <2>1. txi[l] + 1 \in DOMAIN TxQueues[l] /\ txi[l] + 1 \in Nat \ {0}
    BY <1>1, <1>3, QueueIndex
  <2>2. pc' = [pc EXCEPT ![l] = again] /\ txi' = [txi EXCEPT ![l] = txi[l] + 1]
    BY <1>3 DEF NextQueue
  <2>3. pc'[l] = again /\ txi'[l] = txi[l] + 1
    BY <2>2 DEF LcoreTypes
  <2>4. AtPlace(l, pc'[l], txi'[l])
    BY <2>1, <2>3 DEF AtPlace, Sending, Filling
  <2> QED
    BY <1>2, <2>1, <2>2, <2>3, <2>4 DEF Moves, LcoreTypes, Places
<1>4. CASE ~(txi[l] < Len(TxQueues[l]))
  <2>1. pc' = [pc EXCEPT ![l] = AfterTx(l)] /\ txi' = [txi EXCEPT ![l] = 1]
    BY <1>4 DEF NextQueue
  <2>2. pc'[l] = AfterTx(l) /\ txi'[l] = 1
    BY <2>1 DEF LcoreTypes
  <2>3. 1 \in DOMAIN TxQueues[l]
    BY <1>1, QueueIndex
  <2>4. AtPlace(l, pc'[l], txi'[l])
    BY <1>2, <2>2, <2>3 DEF AtPlace, Sending, Filling
  <2> QED
    BY <1>2, <2>1, <2>2, <2>4 DEF Moves, LcoreTypes, Places
<1> QED
  BY <1>3, <1>4

LEMMA AfterRxPlace ==
  AfterRx \in {"poll", "tx"} /\ AtPlace(RxLcore, AfterRx, 1)
  BY Numbers, QueueIndex DEF AfterRx, AtPlace, Sending, Filling

-----------------------------------------------------------------------------
\* The steps of the program.
LEMMA StepCases ==
  ASSUME [Next]_vars
  PROVE  \/ UNCHANGED vars
         \/ /\ Running
            /\ \/ \E l \in Lcores :
                    \/ FillAlloc(l) \/ FillSend(l) \/ FillFree(l)
                    \/ NoBuffer(l) \/ Fill(l) \/ Number(l) \/ Send(l) \/ Spin(l)
                    \/ Refused(l) \/ TakeBack(l) \/ WaitEnd(l) \/ GiveUp(l)
               \/ PollStopped \/ PollEmpty \/ PollBurst
               \/ LookUnmarked \/ LookPastEnd \/ LookMarked \/ ReportDone
               \/ \E q \in Queues : Transmit(q)
               \/ Tick
  BY DEF Next, Ended, LcoreStep, TxStep, RxStep

LEMMA TypeLcores == TypeInv => LcoreTypes
  BY DEF TypeInv, TypeOK, LcoreTypes, Places

\* Where each step of a transmitter leads.
LEMMA TxMoves ==
  ASSUME TypeInv, NEW l \in Lcores
  PROVE  /\ FillAlloc(l) => Moves(l) /\ pc'[l] = "fillsend"
         /\ FillSend(l) => Moves(l) /\ pc'[l] = "fillfree"
         /\ FillFree(l) => Moves(l) /\ pc'[l] \in {"fill", "tx", "poll"}
         /\ Fill(l) => Moves(l) /\ pc'[l] \in {"number", "send"}
         /\ Number(l) => Moves(l) /\ pc'[l] \in {"wait", "send"}
         /\ Send(l) => Moves(l) /\ pc'[l] \in {"spin", "tx", "poll"}
         /\ Spin(l) => Moves(l) /\ pc'[l] \in {"spin", "tx", "poll"}
         /\ Refused(l) => Moves(l) /\ pc'[l] = "takeback"
         /\ TakeBack(l) => Moves(l) /\ pc'[l] \in {"tx", "poll"}
         /\ WaitEnd(l) => Moves(l) /\ pc'[l] = "grace"
         /\ NoBuffer(l) \/ GiveUp(l) => Moves(l) /\ UNCHANGED <<pc, txi>>
<1> USE DEF Places, Sending, Filling
<1>1. LcoreTypes /\ AtPlace(l, pc[l], txi[l])
  BY TypeLcores DEF TypeInv, PlaceInv
<1>11. ASSUME FillAlloc(l) PROVE Moves(l) /\ pc'[l] = "fillsend"
  <2>1. pc' = [pc EXCEPT ![l] = "fillsend"] /\ txi' = txi /\ AtPlace(l, "fillsend", txi[l])
    BY <1>1, <1>11 DEF FillAlloc, AtPlace
  <2> QED
    BY <1>1, <2>1, GoToMoves
<1>12. ASSUME FillSend(l) PROVE Moves(l) /\ pc'[l] = "fillfree"
  <2>1. pc' = [pc EXCEPT ![l] = "fillfree"] /\ txi' = txi /\ AtPlace(l, "fillfree", txi[l])
    BY <1>1, <1>12 DEF FillSend, AtPlace
  <2> QED
    BY <1>1, <2>1, GoToMoves
<1>2. ASSUME FillFree(l) PROVE Moves(l) /\ pc'[l] \in {"fill", "tx", "poll"}
  <2>1. txi[l] \in DOMAIN TxQueues[l] /\ NextQueue(l, "fill", AfterTx(l)) /\ FillFirst
    BY <1>1, <1>2 DEF FillFree, AtPlace
  <2> QED
    BY <1>1, <2>1, NextQueueMoves
<1>3. ASSUME Fill(l) PROVE Moves(l) /\ pc'[l] \in {"number", "send"}
  <2>1. txi[l] \in DOMAIN TxQueues[l] /\ txi' = txi
    BY <1>1, <1>3 DEF Fill, AtPlace
  <2>2. PICK place \in {"number", "send"} : pc' = [pc EXCEPT ![l] = place]
    BY <1>3 DEF Fill
  <2>3. AtPlace(l, place, txi[l])
    BY <2>1 DEF AtPlace
  <2> QED
    BY <1>1, <2>1, <2>2, <2>3, GoToMoves
<1>4. ASSUME Number(l) PROVE Moves(l) /\ pc'[l] \in {"wait", "send"}
  <2>1. txi[l] \in DOMAIN TxQueues[l] /\ txi' = txi
    BY <1>1, <1>4 DEF Number, AtPlace
  <2>2. PICK place \in {"wait", "send"} : pc' = [pc EXCEPT ![l] = place]
    BY <1>4 DEF Number
  <2>3. AtPlace(l, place, txi[l])
    BY <2>1 DEF AtPlace
  <2> QED
    BY <1>1, <2>1, <2>2, <2>3, GoToMoves
<1>5. ASSUME Send(l) PROVE Moves(l) /\ pc'[l] \in {"spin", "tx", "poll"}
  <2>1. txi[l] \in DOMAIN TxQueues[l]
    BY <1>1, <1>5 DEF Send, AtPlace
  <2>2. CASE NextQueue(l, "tx", AfterTx(l))
    BY <1>1, <2>1, <2>2, NextQueueMoves
  <2>3. CASE pc' = [pc EXCEPT ![l] = "spin"] /\ txi' = txi
    <3>1. AtPlace(l, "spin", txi[l])
      BY <2>1 DEF AtPlace
    <3> QED
      BY <1>1, <2>3, <3>1, GoToMoves
  <2> QED
    BY <1>5, <2>2, <2>3 DEF Send
<1>6. ASSUME Spin(l) PROVE Moves(l) /\ pc'[l] \in {"spin", "tx", "poll"}
  <2>1. txi[l] \in DOMAIN TxQueues[l] /\ pc[l] = "spin"
    BY <1>1, <1>6 DEF Spin, AtPlace
  <2>2. CASE NextQueue(l, "tx", AfterTx(l))
    BY <1>1, <2>1, <2>2, NextQueueMoves
  <2>3. CASE pc' = pc /\ txi' = txi
    BY <1>1, <2>1, <2>3 DEF Moves, LcoreTypes
  <2> QED
    BY <1>6, <2>2, <2>3 DEF Spin
<1>7. ASSUME Refused(l) PROVE Moves(l) /\ pc'[l] = "takeback"
  <2>1. pc' = [pc EXCEPT ![l] = "takeback"] /\ txi' = txi /\ AtPlace(l, "takeback", txi[l])
    BY <1>1, <1>7 DEF Refused, AtPlace
  <2> QED
    BY <1>1, <2>1, GoToMoves
<1>8. ASSUME TakeBack(l) PROVE Moves(l) /\ pc'[l] \in {"tx", "poll"}
  <2>1. txi[l] \in DOMAIN TxQueues[l] /\ NextQueue(l, "tx", AfterTx(l))
    BY <1>1, <1>8 DEF TakeBack, AtPlace
  <2> QED
    BY <1>1, <2>1, NextQueueMoves
<1>9. ASSUME WaitEnd(l) PROVE Moves(l) /\ pc'[l] = "grace"
  <2>1. pc' = [pc EXCEPT ![l] = "grace"] /\ txi' = txi /\ AtPlace(l, "grace", txi[l])
    BY <1>9 DEF WaitEnd, AtPlace, txVars
  <2> QED
    BY <1>1, <2>1, GoToMoves
<1>10. ASSUME NoBuffer(l) \/ GiveUp(l) PROVE Moves(l) /\ UNCHANGED <<pc, txi>>
  BY <1>1, <1>10 DEF NoBuffer, GiveUp, txVars, Moves, LcoreTypes
<1> QED
  BY <1>2, <1>3, <1>4, <1>5, <1>6, <1>7, <1>8, <1>9, <1>10, <1>11, <1>12

\* Where each step of the receiver leads.
RxActions == \/ PollStopped \/ PollEmpty \/ PollBurst
             \/ LookUnmarked \/ LookPastEnd \/ LookMarked \/ ReportDone

LEMMA RxMoves ==
  ASSUME TypeInv
  PROVE  /\ PollStopped => Moves(RxLcore) /\ pc'[RxLcore] = "report"
         /\ PollEmpty => Moves(RxLcore) /\ pc'[RxLcore] = AfterRx
         /\ PollBurst => Moves(RxLcore) /\ pc'[RxLcore] = "record"
         /\ Look => /\ Moves(RxLcore)
                    /\ pc'[RxLcore] = IF Len(burst) = 1 THEN AfterRx ELSE "record"
         /\ ReportDone => Moves(RxLcore) /\ UNCHANGED <<pc, txi>>
<1> USE DEF Places
<1>1. LcoreTypes /\ AtPlace(RxLcore, pc[RxLcore], txi[RxLcore]) /\ RxLcore \in Lcores
  BY TypeLcores, Numbers DEF TypeInv, PlaceInv
<1>2. AfterRx \in Places /\ AtPlace(RxLcore, AfterRx, 1)
  BY AfterRxPlace
<1>3. ASSUME PollStopped PROVE Moves(RxLcore) /\ pc'[RxLcore] = "report"
  <2>1. pc' = [pc EXCEPT ![RxLcore] = "report"] /\ txi' = txi
    BY <1>3 DEF PollStopped, Poll, txVars
  <2>2. AtPlace(RxLcore, "report", txi[RxLcore])
    BY DEF AtPlace, Sending, Filling
  <2> QED
    BY <1>1, <2>1, <2>2, GoToMoves
<1>4. ASSUME PollEmpty PROVE Moves(RxLcore) /\ pc'[RxLcore] = AfterRx
  <2>1. pc' = [pc EXCEPT ![RxLcore] = AfterRx] /\ txi' = txi /\ pc[RxLcore] = "poll"
    BY <1>4 DEF PollEmpty, Poll, txVars
  <2>2. txi[RxLcore] = 1
    BY <1>1, <2>1 DEF AtPlace
  <2> QED
    BY <1>1, <1>2, <2>1, <2>2, GoToMoves
<1>5. ASSUME PollBurst PROVE Moves(RxLcore) /\ pc'[RxLcore] = "record"
  <2>1. pc' = [pc EXCEPT ![RxLcore] = "record"] /\ txi' = txi /\ pc[RxLcore] = "poll"
    BY <1>5 DEF PollBurst, Poll, txVars
  <2>2. AtPlace(RxLcore, "record", txi[RxLcore])
    BY <1>1, <2>1 DEF AtPlace, Sending, Filling
  <2> QED
    BY <1>1, <2>1, <2>2, GoToMoves
<1>6. ASSUME Look
      PROVE  Moves(RxLcore) /\ pc'[RxLcore] = IF Len(burst) = 1 THEN AfterRx ELSE "record"
  <2> DEFINE place == IF Len(burst) = 1 THEN AfterRx ELSE "record"
  <2>1. pc' = [pc EXCEPT ![RxLcore] = place] /\ txi' = txi /\ pc[RxLcore] = "record"
    BY <1>6 DEF Look, txVars
  <2>2. txi[RxLcore] = 1 /\ AtPlace(RxLcore, "record", 1)
    BY <1>1, <2>1 DEF AtPlace, Sending
  <2>3. place \in Places /\ AtPlace(RxLcore, place, txi[RxLcore])
    BY <1>2, <2>2
  <2> HIDE DEF place
  <2>4. Moves(RxLcore) /\ pc'[RxLcore] = place
    BY <1>1, <2>1, <2>3, GoToMoves
  <2> QED
    BY <2>4 DEF place
<1>7. ASSUME ReportDone PROVE Moves(RxLcore) /\ UNCHANGED <<pc, txi>>
  BY <1>1, <1>7 DEF ReportDone, txVars, Moves, LcoreTypes
<1> QED
  BY <1>3, <1>4, <1>5, <1>6, <1>7

LEMMA OthersStay ==
  (\E q \in Queues : Transmit(q)) \/ Tick \/ UNCHANGED vars => pc' = pc /\ txi' = txi
  BY DEF Transmit, Tick, vars, txVars

-----------------------------------------------------------------------------
ControlTypes ==
  /\ timer \in [Lcores -> Nat]
  /\ reg \in [Lcores -> 0 .. CounterBase - 1]
  /\ pktcounter \in 0 .. CounterBase - 1
  /\ continueRX \in BOOLEAN
  /\ exitCode \in {"none", "crash", "0", "1"}
  /\ polled \in BOOLEAN

BufferTypes ==
  /\ out \in [Lcores -> Seq(Frame)]
  /\ free \in Nat
  /\ txring \in [Queues -> Seq(Frame)]
  /\ rxring \in Seq(Frame)
  /\ burst \in Seq(Frame)

Row == [q : Queues, no : Nat, totalBytes : Nat]

TableTypes ==
  /\ counter \in Nat /\ bytecounter \in Nat /\ marks \in Nat /\ handled \in Nat
  /\ DOMAIN latencyStats \subseteq Nat
  /\ latencyStats \in [DOMAIN latencyStats -> Row]

LEMMA TypeParts == TypeOK <=> LcoreTypes /\ ControlTypes /\ BufferTypes /\ TableTypes
  BY DEF TypeOK, LcoreTypes, ControlTypes, BufferTypes, TableTypes, Places, Row

LEMMA TypePartsNext == TypeOK' <=> LcoreTypes' /\ ControlTypes' /\ BufferTypes' /\ TableTypes'
  BY DEF TypeOK, LcoreTypes, ControlTypes, BufferTypes, TableTypes, Places, Row

-----------------------------------------------------------------------------
\* The card takes the first frames of s, behind those of its ring.
Taken(q, s)  == Lesser(Len(s), Room(q))
Longer(q, s) == txring[q] \o SubSeq(s, 1, Taken(q, s))

LEMMA RoomType ==
  ASSUME BufferTypes, RingsBounded, NEW q \in Queues
  PROVE  /\ txring[q] \in Seq(Frame) /\ Len(txring[q]) \in Nat
         /\ Room(q) \in Nat /\ Len(txring[q]) + Room(q) = TxRing
<1>1. txring[q] \in Seq(Frame) /\ Len(txring[q]) \in Nat /\ Len(txring[q]) <= TxRing
  BY LenProperties DEF BufferTypes, RingsBounded
<1> QED
  BY <1>1, Numbers DEF Room

LEMMA Accepted ==
  ASSUME BufferTypes, RingsBounded, NEW q \in Queues, NEW s \in Seq(Frame)
  PROVE  /\ Taken(q, s) \in Nat /\ Taken(q, s) <= Len(s) /\ Taken(q, s) <= Room(q)
         /\ Taken(q, s) = Len(s) \/ Taken(q, s) = Room(q)
         /\ Accept(q, s) => txring' = [txring EXCEPT ![q] = Longer(q, s)]
         /\ Longer(q, s) \in Seq(Frame)
         /\ Len(Longer(q, s)) = Len(txring[q]) + Taken(q, s)
         /\ \A i \in 1 .. Len(txring[q]) + Taken(q, s) :
              Longer(q, s)[i] = IF i <= Len(txring[q]) THEN txring[q][i] ELSE s[i - Len(txring[q])]
<1>1. txring[q] \in Seq(Frame) /\ Len(txring[q]) \in Nat /\ Len(s) \in Nat /\ Room(q) \in Nat
  BY RoomType, LenProperties
<1>2. PICK n \in Nat : n = Taken(q, s) /\ n <= Len(s) /\ n <= Room(q) /\ (n = Len(s) \/ n = Room(q))
  BY <1>1, LesserNat DEF Taken
<1> DEFINE a == SubSeq(s, 1, n)
<1>3. \A i \in 1 .. n : s[i] \in Frame
  BY <1>1, <1>2, ElementOfSeq
<1>4. a \in Seq(Frame) /\ Len(a) = n /\ \A i \in 1 .. n : a[i] = s[i]
  BY <1>3, SubSeqProperties
<1>5. Longer(q, s) = txring[q] \o a
  BY <1>2 DEF Longer
<1>6. Accept(q, s) => txring' = [txring EXCEPT ![q] = txring[q] \o a]
  BY <1>2 DEF Accept, Taken
<1> HIDE DEF a
<1>7. /\ txring[q] \o a \in Seq(Frame) /\ Len(txring[q] \o a) = Len(txring[q]) + n
      /\ \A i \in 1 .. Len(txring[q]) + n :
           (txring[q] \o a)[i] = IF i <= Len(txring[q]) THEN txring[q][i] ELSE s[i - Len(txring[q])]
  <2>1. /\ txring[q] \o a \in Seq(Frame) /\ Len(txring[q] \o a) = Len(txring[q]) + n
        /\ \A i \in 1 .. Len(txring[q]) + n :
             (txring[q] \o a)[i] = IF i <= Len(txring[q]) THEN txring[q][i] ELSE a[i - Len(txring[q])]
    BY <1>1, <1>4, ConcatProperties
  <2>2. \A i \in 1 .. Len(txring[q]) + n :
           ~(i <= Len(txring[q])) => i - Len(txring[q]) \in 1 .. n
    BY <1>1
  <2> QED
    BY <1>4, <2>1, <2>2
<1> QED
  BY <1>2, <1>5, <1>6, <1>7

\* What is left of s.
LEMMA RestType ==
  ASSUME BufferTypes, RingsBounded, NEW q \in Queues, NEW s \in Seq(Frame)
  PROVE  /\ Rest(q, s) \in Seq(Frame)
         /\ Len(Rest(q, s)) = Len(s) - Taken(q, s)
         /\ \A i \in 1 .. Len(Rest(q, s)) :
              Room(q) + i \in 1 .. Len(s) /\ Rest(q, s)[i] = s[Room(q) + i]
<1>1. PICK m \in Nat, k \in Nat : m = Room(q) /\ k = Len(s)
  BY RoomType, LenProperties
<1>2. \A i \in m + 1 .. k : s[i] \in Frame
  <2> TAKE i \in m + 1 .. k
  <2>1. i \in 1 .. k
    OBVIOUS
  <2> QED
    BY <1>1, <2>1, ElementOfSeq
<1>3. /\ SubSeq(s, m + 1, k) \in Seq(Frame)
      /\ Len(SubSeq(s, m + 1, k)) = IF m + 1 <= k THEN k - (m + 1) + 1 ELSE 0
      /\ \A i \in 1 .. k - (m + 1) + 1 : SubSeq(s, m + 1, k)[i] = s[(m + 1) + i - 1]
  BY <1>1, <1>2, SubSeqProperties
<1>4. Rest(q, s) = SubSeq(s, m + 1, k)
  BY <1>1 DEF Rest
<1>5. Len(Rest(q, s)) = k - Taken(q, s)
  BY <1>1, <1>3, <1>4 DEF Taken, Lesser
<1>6. \A i \in 1 .. Len(Rest(q, s)) : i \in 1 .. k - (m + 1) + 1 /\ (m + 1) + i - 1 = m + i
                                      /\ m + i \in 1 .. k
  BY <1>1, <1>3, <1>4
<1> QED
  BY <1>1, <1>3, <1>4, <1>5, <1>6

\* A poll takes frames from the front of the receive ring.
LEMMA PollType ==
  ASSUME BufferTypes, NEW n \in 0 .. Lesser(Len(rxring), BurstRx), Poll(n)
  PROVE  /\ n \in Nat /\ n <= Len(rxring) /\ n <= BurstRx
         /\ burst' \in Seq(Frame) /\ Len(burst') = n
         /\ rxring' \in Seq(Frame) /\ Len(rxring') = Len(rxring) - n
         /\ \A i \in 1 .. n : burst'[i] = rxring[i]
         /\ \A i \in 1 .. Len(rxring) - n : rxring'[i] = rxring[n + i]
<1>1. rxring \in Seq(Frame) /\ Len(rxring) \in Nat
  BY LenProperties DEF BufferTypes
<1>2. n \in Nat /\ n <= Len(rxring) /\ n <= BurstRx
  BY <1>1, Numbers DEF Lesser
<1>3. \A i \in 1 .. Len(rxring) : rxring[i] \in Frame
  BY <1>1, ElementOfSeq
<1>4. /\ burst' \in Seq(Frame) /\ Len(burst') = n
      /\ \A i \in 1 .. n : burst'[i] = rxring[i]
  BY <1>1, <1>2, <1>3, SubSeqProperties DEF Poll
<1>5. /\ rxring' \in Seq(Frame) /\ Len(rxring') = Len(rxring) - n
      /\ \A i \in 1 .. Len(rxring) - n : rxring'[i] = rxring[n + i]
  BY <1>1, <1>2, <1>3, SubSeqProperties DEF Poll
<1> QED
  BY <1>2, <1>4, <1>5

\* The three kinds of poll, each with the number of frames it takes.
LEMMA Polls ==
  ASSUME BufferTypes, PollStopped \/ PollEmpty \/ PollBurst
  PROVE  \E n \in 0 .. Lesser(Len(rxring), BurstRx) :
           /\ Poll(n)
           /\ PollBurst => n # 0
<1>1. 0 \in 0 .. Lesser(Len(rxring), BurstRx)
  <2>1. Len(rxring) \in Nat
    BY LenProperties DEF BufferTypes
  <2> QED
    BY <2>1, Numbers DEF Lesser
<1>2. CASE PollBurst
  <2>1. PICK n \in 1 .. Lesser(Len(rxring), BurstRx) : Poll(n)
    BY <1>2 DEF PollBurst
  <2>2. n \in 0 .. Lesser(Len(rxring), BurstRx) /\ n # 0
    BY <1>1, <2>1
  <2> QED
    BY <2>1, <2>2
<1>3. CASE PollStopped /\ ~PollBurst
  BY <1>3 DEF PollStopped
<1>4. CASE PollEmpty /\ ~PollBurst
  BY <1>1, <1>4 DEF PollEmpty
<1> QED
  BY <1>2, <1>3, <1>4

\* A look removes the first frame of the burst.
LEMMA LookType ==
  ASSUME TypeInv, Look
  PROVE  /\ burst # <<>> /\ Head(burst) \in Frame /\ Head(burst) = burst[1]
         /\ burst \in Seq(Frame) /\ Len(burst) \in Nat /\ Len(burst) > 0
         /\ burst' \in Seq(Frame) /\ Len(burst') = Len(burst) - 1
         /\ \A i \in 1 .. Len(burst) - 1 : burst'[i] = burst[i + 1]
<1>1. burst \in Seq(Frame) /\ burst # <<>>
  BY DEF TypeInv, TypeOK, BurstOK, Look
<1>2. Len(burst) \in Nat /\ Len(burst) # 0
  BY <1>1, LenProperties, EmptySeq
<1>3. Head(burst) = burst[1]
  OBVIOUS
<1> QED
  BY <1>1, <1>2, <1>3, HeadTailProperties DEF Look

\* Every look is one of three.
LEMMA Looks == LookUnmarked \/ LookPastEnd \/ LookMarked => Look
  BY DEF LookUnmarked, LookPastEnd, LookMarked

-----------------------------------------------------------------------------
LEMMA PlaceStep == TypeInv /\ [Next]_vars => LcoreTypes' /\ PlaceInv'
<1> SUFFICES ASSUME TypeInv, [Next]_vars PROVE LcoreTypes' /\ PlaceInv'
  OBVIOUS
<1>1. ASSUME NEW l \in Lcores, Moves(l) PROVE LcoreTypes' /\ PlaceInv'
  BY <1>1, MovesPlace DEF TypeInv, LcoreTypes, Moves
<1>2. CASE (\E q \in Queues : Transmit(q)) \/ Tick \/ UNCHANGED vars
  BY <1>2, OthersStay, TypeLcores DEF TypeInv, LcoreTypes, PlaceInv, AtPlace
<1>3. ASSUME NEW l \in Lcores,
             \/ FillAlloc(l) \/ FillSend(l) \/ FillFree(l)
             \/ NoBuffer(l) \/ Fill(l) \/ Number(l) \/ Send(l) \/ Spin(l)
             \/ Refused(l) \/ TakeBack(l) \/ WaitEnd(l) \/ GiveUp(l)
      PROVE  LcoreTypes' /\ PlaceInv'
  BY <1>1, <1>3, TxMoves
<1>4. CASE RxActions
  BY <1>1, <1>4, RxMoves, Looks, Numbers DEF RxActions
<1> QED
  BY <1>2, <1>3, <1>4, StepCases DEF RxActions

LEMMA ControlStep == TypeInv /\ [Next]_vars => ControlTypes'
<1> SUFFICES ASSUME TypeInv, [Next]_vars PROVE ControlTypes'
  OBVIOUS
<1>0. ControlTypes
  BY TypeParts DEF TypeInv
<1>1. CASE UNCHANGED <<timer, reg, pktcounter, continueRX>> /\ polled' \in BOOLEAN
           /\ exitCode' \in {exitCode, "crash", "0", "1"}
  BY <1>0, <1>1 DEF ControlTypes
<1>2. ASSUME NEW l \in Lcores,
             \/ FillAlloc(l) \/ FillSend(l) \/ FillFree(l)
             \/ NoBuffer(l) \/ Send(l) \/ Spin(l) \/ GiveUp(l)
      PROVE  ControlTypes'
  BY <1>0, <1>1, <1>2 DEF FillAlloc, FillSend, FillFree, NoBuffer, Send, Spin, GiveUp, txVars,
                        ControlTypes
<1>3. ASSUME NEW l \in Lcores, Fill(l) \/ Refused(l) PROVE ControlTypes'
  <2>1. reg' \in [Lcores -> 0 .. CounterBase - 1]
    <3>1. reg' = reg \/ reg' = [reg EXCEPT ![l] = pktcounter]
      BY <1>3 DEF Fill, Refused
    <3> QED
      BY <1>0, <3>1 DEF ControlTypes
  <2>2. UNCHANGED <<timer, pktcounter, continueRX, exitCode, polled>>
    BY <1>3 DEF Fill, Refused
  <2> QED
    BY <1>0, <2>1, <2>2 DEF ControlTypes
<1>4. ASSUME NEW l \in Lcores, Number(l) \/ TakeBack(l) PROVE ControlTypes'
  <2>1. PICK c \in Nat : c = CounterBase /\ c > 0
    BY Numbers
  <2>2. reg[l] \in Int /\ 0 \in 0 .. c - 1
    BY <1>0, <2>1 DEF ControlTypes
  <2>3. (reg[l] + 1) % c \in 0 .. c - 1 /\ (reg[l] - 1) % c \in 0 .. c - 1
    BY <2>1, <2>2
  <2>4. pktcounter' \in 0 .. CounterBase - 1
    BY <1>4, <2>1, <2>3 DEF Number, TakeBack
  <2>5. reg' \in [Lcores -> 0 .. CounterBase - 1]
    <3>1. reg' = [reg EXCEPT ![l] = 0]
      BY <1>4 DEF Number, TakeBack
    <3> QED
      BY <1>0, <2>1, <2>2, <3>1 DEF ControlTypes
  <2>6. timer' \in [Lcores -> Nat]
    <3>1. timer' = timer \/ timer' = [timer EXCEPT ![l] = WaitTime]
      BY <1>4 DEF Number, TakeBack
    <3> QED
      BY <1>0, <3>1, Numbers DEF ControlTypes
  <2>7. UNCHANGED <<continueRX, exitCode, polled>>
    BY <1>4 DEF Number, TakeBack
  <2> QED
    BY <1>0, <2>4, <2>5, <2>6, <2>7 DEF ControlTypes
<1>5. ASSUME NEW l \in Lcores, WaitEnd(l) PROVE ControlTypes'
  BY <1>0, <1>5, Numbers DEF ControlTypes, WaitEnd, txVars
<1>6. CASE RxActions
  <2>1. CASE PollStopped \/ PollEmpty \/ PollBurst
    <3>1. UNCHANGED <<reg, pktcounter, continueRX, exitCode>> /\ polled' = TRUE
      BY <2>1 DEF PollStopped, PollEmpty, PollBurst, Poll, txVars
    <3>2. timer' = timer \/ timer' = [timer EXCEPT ![RxLcore] = ReportTime]
      BY <2>1 DEF PollStopped, PollEmpty, PollBurst
    <3>3. timer' \in [Lcores -> Nat]
      BY <1>0, <3>2, Numbers DEF ControlTypes
    <3> QED
      BY <1>0, <3>1, <3>3 DEF ControlTypes
  <2>2. CASE LookUnmarked \/ LookPastEnd \/ LookMarked
    <3>1. UNCHANGED <<timer, reg, pktcounter, exitCode, polled>>
      BY <2>2, Looks DEF Look, txVars
    <3>2. continueRX' \in BOOLEAN
      BY <1>0, <2>2 DEF LookUnmarked, LookPastEnd, LookMarked, ControlTypes
    <3> QED
      BY <1>0, <3>1, <3>2 DEF ControlTypes
  <2>3. CASE ReportDone
    BY <1>0, <1>1, <2>3 DEF ReportDone, txVars, ControlTypes
  <2> QED
    BY <1>6, <2>1, <2>2, <2>3 DEF RxActions
<1>7. CASE Tick
  <2>1. UNCHANGED <<reg, pktcounter, continueRX, exitCode>> /\ polled' = FALSE
    BY <1>7 DEF Tick, txVars
  <2>2. timer' \in [Lcores -> Nat]
    <3>1. timer' = [l \in Lcores |-> IF timer[l] > 0 THEN timer[l] - 1 ELSE 0]
      BY <1>7 DEF Tick
    <3>2. \A l \in Lcores : (IF timer[l] > 0 THEN timer[l] - 1 ELSE 0) \in Nat
      BY <1>0 DEF ControlTypes
    <3> QED
      BY <3>1, <3>2
  <2> QED
    BY <1>0, <2>1, <2>2 DEF ControlTypes
<1>8. CASE (\E q \in Queues : Transmit(q)) \/ UNCHANGED vars
  BY <1>0, <1>1, <1>8 DEF Transmit, vars, txVars, ControlTypes
<1> QED
  BY <1>2, <1>3, <1>4, <1>5, <1>6, <1>7, <1>8, StepCases DEF RxActions

-----------------------------------------------------------------------------
(***************************************************************************)
(* Buffers.  A lcore has none in its hands but those of the burst it is    *)
(* sending; when it waits it may have one that it will never send.         *)
(***************************************************************************)
HandsEmpty == {"fill", "tx", "poll", "record", "report"}

HandInv ==
  \A l \in Lcores : /\ pc[l] \in HandsEmpty => out[l] = <<>>
                    /\ Len(out[l]) <= HandSize
                    /\ out[l] # <<>> => l \in TxLcores

Lengths(f, S) == [x \in S |-> Len(f[x])]

\* One more or one fewer frame somewhere.
LEMMA LengthsChange ==
  ASSUME NEW S, IsFiniteSet(S), NEW f \in [S -> Seq(Frame)], NEW x \in S, NEW s \in Seq(Frame)
  PROVE  /\ SumFunction(Lengths([f EXCEPT ![x] = s], S)) + Len(f[x])
              = SumFunction(Lengths(f, S)) + Len(s)
         /\ SumFunction(Lengths([f EXCEPT ![x] = s], S)) \in Nat
         /\ SumFunction(Lengths(f, S)) \in Nat
<1>1. \A y \in S : Len(f[y]) \in Nat
  BY LenProperties
<1>2. Lengths(f, S) \in [S -> Nat] /\ Len(s) \in Nat
  BY <1>1, LenProperties DEF Lengths
<1>3. Lengths([f EXCEPT ![x] = s], S) = [Lengths(f, S) EXCEPT ![x] = Len(s)]
  BY DEF Lengths
<1>4. Lengths(f, S)[x] = Len(f[x])
  BY DEF Lengths
<1>5. PICK h \in [S -> Nat], n \in Nat : h = Lengths(f, S) /\ n = Len(s)
  BY <1>2
<1>6. /\ SumFunction([h EXCEPT ![x] = n]) + h[x] = SumFunction(h) + n
      /\ SumFunction([h EXCEPT ![x] = n]) \in Nat /\ SumFunction(h) \in Nat
  BY TotalChange
<1> QED
  BY <1>3, <1>4, <1>5, <1>6

\* Buffers of the pool, of one ring and of the hands of one lcore are passed
\* between these three.
Passed(q, l, r, o, g) ==
  /\ txring' = [txring EXCEPT ![q] = r] /\ Len(r) <= TxRing
  /\ out' = [out EXCEPT ![l] = o]
  /\ Len(o) <= HandSize /\ (o # <<>> => l \in TxLcores) /\ (pc'[l] \in HandsEmpty => o = <<>>)
  /\ free' = g
  /\ g + Len(r) + Len(o) = free + Len(txring[q]) + Len(out[l])

LEMMA BuffersMove ==
  ASSUME BufferTypes, MbufsConserved,
         NEW q \in Queues, NEW l \in Lcores, NEW r \in Seq(Frame), NEW o \in Seq(Frame),
         NEW g \in Nat, Passed(q, l, r, o, g)
  PROVE  MbufsConserved'
<1> DEFINE rings  == SumFunction(Lengths(txring, Queues))
           hands  == SumFunction(Lengths(out, Lcores))
           rings2 == SumFunction(Lengths([txring EXCEPT ![q] = r], Queues))
           hands2 == SumFunction(Lengths([out EXCEPT ![l] = o], Lcores))
<1>1. rings2 + Len(txring[q]) = rings + Len(r) /\ rings2 \in Nat /\ rings \in Nat
  BY QueuesFinite, LengthsChange DEF BufferTypes
<1>2. hands2 + Len(out[l]) = hands + Len(o) /\ hands2 \in Nat /\ hands \in Nat
  BY QueuesFinite, LengthsChange DEF BufferTypes
<1>3. free + rings + hands = PoolSize /\ PoolSize \in Nat
  BY Numbers DEF MbufsConserved, Lengths
<1>4. /\ free \in Nat /\ Len(txring[q]) \in Nat /\ Len(out[l]) \in Nat
      /\ Len(r) \in Nat /\ Len(o) \in Nat
  BY LenProperties DEF BufferTypes
<1>5. g + Len(r) + Len(o) = free + Len(txring[q]) + Len(out[l])
  BY DEF Passed
<1>6. SUFFICES g + rings2 + hands2 = PoolSize
  BY DEF Passed, MbufsConserved, Lengths
<1> HIDE DEF rings, hands, rings2, hands2
<1>7. PICK a \in Nat, b \in Nat, c \in Nat, d \in Nat, e \in Nat :
        a = Len(txring[q]) /\ b = Len(out[l]) /\ c = Len(r) /\ d = Len(o) /\ e = free
  BY <1>4
<1>8. rings2 + a = rings + c /\ hands2 + b = hands + d /\ e + rings + hands = PoolSize
      /\ g + c + d = e + a + b
  BY <1>1, <1>2, <1>3, <1>5, <1>7
<1>9. rings \in Nat /\ rings2 \in Nat /\ hands \in Nat /\ hands2 \in Nat /\ PoolSize \in Nat
  BY <1>1, <1>2, <1>3
<1> QED
  BY <1>8, <1>9

\* The steps that pass buffers on.
LEMMA BuffersPassed ==
  ASSUME TypeInv, HandInv, NEW l \in Lcores,
         \/ FillAlloc(l) \/ FillSend(l) \/ FillFree(l)
         \/ Fill(l) \/ Send(l) \/ Spin(l) \/ TakeBack(l)
  PROVE  \E q \in Queues, r \in Seq(Frame), o \in Seq(Frame), g \in Nat : Passed(q, l, r, o, g)
<1> DEFINE q == Queue(l)
<1>1. q \in Queues /\ l \in TxLcores
  <2>1. AtPlace(l, pc[l], txi[l])
    BY DEF TypeInv, PlaceInv
  <2>2. txi[l] \in DOMAIN TxQueues[l]
    BY <2>1 DEF FillAlloc, FillSend, FillFree, Fill, Send, Spin, TakeBack, AtPlace, Sending
  <2>3. TxQueues[l] # <<>>
    <3>1. CASE TxQueues[l] = <<>>
      BY <2>2, <3>1
    <3> QED
      BY <3>1
  <2> QED
    BY <2>2, <2>3, QueueIndex DEF Queue, TxLcores
<1>2. BufferTypes /\ RingsBounded
  BY TypeParts DEF TypeInv
<1>3. /\ free \in Nat /\ out[l] \in Seq(Frame) /\ Len(out[l]) \in Nat
      /\ txring[q] \in Seq(Frame) /\ Len(txring[q]) \in Nat
      /\ Room(q) \in Nat /\ Len(txring[q]) + Room(q) = TxRing
      /\ txring = [txring EXCEPT ![q] = txring[q]] /\ out = [out EXCEPT ![l] = out[l]]
  <2>1. out[l] \in Seq(Frame) /\ free \in Nat
        /\ txring = [txring EXCEPT ![q] = txring[q]] /\ out = [out EXCEPT ![l] = out[l]]
    BY <1>2 DEF BufferTypes
  <2> HIDE DEF q
  <2> QED
    BY <1>1, <1>2, <2>1, RoomType, LenProperties
<1> DEFINE a == Len(txring[q])
           b == Len(out[l])
<1>9. a \in Nat /\ b \in Nat /\ a + Room(q) = TxRing /\ b <= HandSize /\ a <= TxRing
  <2>1. b <= HandSize
    BY DEF HandInv
  <2> HIDE DEF q
  <2> QED
    BY <1>3, <2>1, Numbers
<1>4. /\ Len(out[l]) <= HandSize /\ Len(<<>>) = 0 /\ <<>> \in Seq(Frame) /\ 0 <= HandSize
      /\ pc[l] \in HandsEmpty => out[l] = <<>>
  BY EmptySeq, Numbers DEF HandInv
<1>5. CASE FillAlloc(l)
  <2> DEFINE n == Lesser(TxRing, free)
             o == [i \in 1 .. n |-> OtherPacket(q)]
  <2>0. FillFirst
    BY <1>5 DEF FillAlloc, TypeInv, PlaceInv, AtPlace, Filling
  <2>1. n \in Nat /\ n <= free /\ n <= HandSize
    BY <1>3, <2>0, LesserNat, Numbers
  <2>2. o \in Seq(Frame) /\ Len(o) = n
    <3> HIDE DEF n
    <3> QED
      BY <1>1, <2>1, BurstType DEF TypeInv
  <2>3. out' = [out EXCEPT ![l] = o] /\ free' = free - n /\ txring' = txring /\ out[l] = <<>>
    BY <1>4, <1>5 DEF FillAlloc, HandsEmpty
  <2>4. pc'[l] \notin HandsEmpty
    BY <1>5, TxMoves DEF HandsEmpty
  <2> HIDE DEF q, n, o, a, b
  <2>5. free - n \in Nat /\ (free - n) + a + n = free + a + 0
    BY <1>3, <1>9, <2>1
  <2>6. Passed(q, l, txring[q], o, free - n)
    BY <1>1, <1>3, <1>4, <1>9, <2>1, <2>2, <2>3, <2>4, <2>5 DEF Passed, a
  <2> QED
    BY <1>1, <1>3, <2>2, <2>5, <2>6
<1>6. CASE Fill(l)
  <2> DEFINE n == Allocated
             o == NewBurst(q, n)
  <2>1. n \in Nat /\ n <= free /\ n <= HandSize
    BY <1>3, LesserNat, Numbers DEF Allocated
  <2>2. o \in Seq(Frame) /\ Len(o) = n
    <3> HIDE DEF n
    <3> QED
      BY <1>1, <2>1, BurstType DEF TypeInv
  <2>3. out' = [out EXCEPT ![l] = o] /\ free' = free - n /\ txring' = txring /\ out[l] = <<>>
    BY <1>4, <1>6 DEF Fill, HandsEmpty
  <2>4. pc'[l] \notin HandsEmpty
    BY <1>6, TxMoves DEF HandsEmpty
  <2> HIDE DEF q, n, o, a, b
  <2>5. free - n \in Nat /\ (free - n) + a + n = free + a + 0
    BY <1>3, <1>9, <2>1
  <2>6. Passed(q, l, txring[q], o, free - n)
    BY <1>1, <1>3, <1>4, <1>9, <2>1, <2>2, <2>3, <2>4, <2>5 DEF Passed, a
  <2> QED
    BY <1>1, <1>3, <2>2, <2>5, <2>6
<1>7. CASE FillSend(l) \/ Send(l) \/ Spin(l)
  <2> DEFINE s == out[l]
             o == Rest(q, s)
             r == Longer(q, s)
  <2>1. Accept(q, s) /\ out' = [out EXCEPT ![l] = o] /\ free' = free
    BY <1>7 DEF FillSend, Send, Spin
  <2>2. pc'[l] \in HandsEmpty => o = <<>>
    <3>1. out'[l] = o
      BY <1>2, <2>1 DEF BufferTypes
    <3>2. out'[l] # <<>> => pc'[l] \in {"fillfree", "spin"}
      BY <1>2, <1>7, TypeLcores DEF FillSend, Send, Spin, LcoreTypes, TypeInv
    <3> QED
      BY <3>1, <3>2 DEF HandsEmpty
  <2> HIDE DEF q
  <2>3. o \in Seq(Frame) /\ Len(o) = b - Taken(q, s)
    BY <1>1, <1>2, <1>3, RestType
  <2>4. /\ txring' = [txring EXCEPT ![q] = r] /\ r \in Seq(Frame)
        /\ Len(r) = a + Taken(q, s) /\ Taken(q, s) \in Nat
        /\ Taken(q, s) <= b /\ Taken(q, s) <= Room(q)
    BY <1>1, <1>2, <1>3, <2>1, Accepted
  <2> HIDE DEF a, b, o, r, s
  <2>5. Len(r) <= TxRing /\ Len(o) <= HandSize /\ free + Len(r) + Len(o) = free + a + b
    <3>1. PICK t \in Nat, e \in Nat, m \in Nat, f \in Nat, n \in Nat :
            t = Taken(q, s) /\ e = TxRing /\ m = HandSize /\ f = free /\ n = Room(q)
      BY <1>3, <2>4, Numbers
    <3>2. Len(r) = a + t /\ Len(o) = b - t /\ t <= b /\ t <= n
      BY <2>3, <2>4, <3>1
    <3>3. a \in Nat /\ b \in Nat /\ b <= m /\ a + n = e
      BY <1>9, <3>1
    <3>4. a + t <= e /\ b - t <= m /\ f + (a + t) + (b - t) = f + a + b
      BY <3>2, <3>3
    <3> QED
      BY <3>1, <3>2, <3>4
  <2>6. Passed(q, l, r, o, free)
    BY <1>1, <2>1, <2>2, <2>4, <2>5 DEF Passed, a, b
  <2> QED
    BY <1>1, <1>3, <2>3, <2>4, <2>6
<1>8. CASE FillFree(l) \/ TakeBack(l)
  <2>1. out' = [out EXCEPT ![l] = <<>>] /\ free' = free + Len(out[l]) /\ txring' = txring
    BY <1>8 DEF FillFree, TakeBack
  <2> HIDE DEF q, a, b
  <2>2. free + b \in Nat /\ (free + b) + a + 0 = free + a + b
    BY <1>3, <1>9
  <2>3. Passed(q, l, txring[q], <<>>, free + b)
    BY <1>3, <1>4, <1>9, <2>1, <2>2 DEF Passed, a, b
  <2> QED
    BY <1>1, <1>3, <1>4, <2>2, <2>3
<1> QED
  BY <1>5, <1>6, <1>7, <1>8

\* The card puts a buffer back when its frame has left.
LEMMA BuffersTransmitted ==
  ASSUME TypeInv, HandInv, NEW q \in Queues, Transmit(q)
  PROVE  /\ txring[q] # <<>> /\ Head(txring[q]) \in Frame /\ Tail(txring[q]) \in Seq(Frame)
         /\ txring' = [txring EXCEPT ![q] = Tail(txring[q])]
         /\ Len(Tail(txring[q])) = Len(txring[q]) - 1
         /\ Passed(q, RxLcore, Tail(txring[q]), out[RxLcore], free + 1)
<1>1. txring[q] \in Seq(Frame) /\ txring[q] # <<>> /\ Len(txring[q]) <= TxRing
  BY DEF TypeInv, TypeOK, RingsBounded, Transmit
<1>2. /\ Head(txring[q]) \in Frame /\ Tail(txring[q]) \in Seq(Frame)
      /\ Len(Tail(txring[q])) = Len(txring[q]) - 1 /\ Len(txring[q]) \in Nat
  BY <1>1, HeadTailProperties, LenProperties
<1>3. txring' = [txring EXCEPT ![q] = Tail(txring[q])] /\ free' = free + 1
      /\ out' = out /\ pc' = pc
  BY DEF Transmit, txVars
<1>4. RxLcore \in Lcores /\ out = [out EXCEPT ![RxLcore] = out[RxLcore]]
      /\ out[RxLcore] \in Seq(Frame) /\ free \in Nat
  BY Numbers DEF TypeInv, TypeOK
<1>5. Len(out[RxLcore]) \in Nat
  BY <1>4, LenProperties
<1>6. /\ Len(Tail(txring[q])) <= TxRing
      /\ (free + 1) + Len(Tail(txring[q])) + Len(out[RxLcore])
           = free + Len(txring[q]) + Len(out[RxLcore])
  <2>1. PICK a \in Nat, b \in Nat, e \in Nat, f \in Nat :
          a = Len(txring[q]) /\ b = Len(out[RxLcore]) /\ e = TxRing /\ f = free
    BY <1>2, <1>4, <1>5, Numbers
  <2>2. a <= e
    BY <1>1, <2>1
  <2>3. a - 1 <= e /\ (f + 1) + (a - 1) + b = f + a + b
    BY <2>2
  <2> QED
    BY <1>2, <2>1, <2>3
<1>7. /\ Len(out[RxLcore]) <= HandSize /\ (out[RxLcore] # <<>> => RxLcore \in TxLcores)
      /\ (pc'[RxLcore] \in HandsEmpty => out[RxLcore] = <<>>)
  BY <1>3, <1>4 DEF HandInv
<1> QED
  BY <1>1, <1>2, <1>3, <1>4, <1>6, <1>7 DEF Passed

\* The steps that leave the buffers where they are.
LEMMA BuffersStay ==
  ASSUME \/ \E l \in Lcores : NoBuffer(l) \/ Number(l) \/ Refused(l) \/ WaitEnd(l) \/ GiveUp(l)
         \/ RxActions \/ Tick \/ UNCHANGED vars
  PROVE  UNCHANGED <<free, txring, out>>
<1>1. CASE \E l \in Lcores : NoBuffer(l) \/ Number(l) \/ Refused(l) \/ WaitEnd(l) \/ GiveUp(l)
  BY <1>1 DEF NoBuffer, Number, Refused, WaitEnd, GiveUp, txVars, nicVars
<1>2. CASE RxActions
  BY <1>2 DEF RxActions, PollStopped, PollEmpty, PollBurst, Poll, LookUnmarked, LookPastEnd,
              LookMarked, Look, ReportDone, txVars, nicVars
<1>3. CASE Tick \/ UNCHANGED vars
  BY <1>3 DEF Tick, vars, txVars, nicVars
<1> QED
  BY <1>1, <1>2, <1>3

\* Every step passes buffers on or leaves them alone.
LEMMA BufferCases ==
  ASSUME TypeInv, HandInv, [Next]_vars
  PROVE  \/ /\ UNCHANGED <<free, txring, out>>
            /\ \A l \in Lcores : pc'[l] \in HandsEmpty => pc[l] \in HandsEmpty
         \/ \E q \in Queues, l \in Lcores, r \in Seq(Frame), o \in Seq(Frame), g \in Nat :
              /\ Passed(q, l, r, o, g)
              /\ \A m \in Lcores \ {l} : pc'[m] = pc[m]
<1>1. ASSUME NEW l \in Lcores,
             \/ FillAlloc(l) \/ FillSend(l) \/ FillFree(l)
             \/ Fill(l) \/ Send(l) \/ Spin(l) \/ TakeBack(l)
      PROVE  \E q \in Queues, r \in Seq(Frame), o \in Seq(Frame), g \in Nat :
               Passed(q, l, r, o, g) /\ \A m \in Lcores \ {l} : pc'[m] = pc[m]
  <2>1. Moves(l)
    BY <1>1, TxMoves
  <2> QED
    BY <1>1, <2>1, BuffersPassed DEF Moves
<1>2. ASSUME NEW q \in Queues, Transmit(q)
      PROVE  \E r \in Seq(Frame), o \in Seq(Frame), g \in Nat :
               Passed(q, RxLcore, r, o, g) /\ \A m \in Lcores \ {RxLcore} : pc'[m] = pc[m]
  <2>1. out[RxLcore] \in Seq(Frame) /\ free + 1 \in Nat
    BY Numbers, TypeParts DEF TypeInv, BufferTypes
  <2> QED
    BY <1>2, <2>1, BuffersTransmitted, OthersStay
<1>3. ASSUME NEW l \in Lcores, NoBuffer(l) \/ Number(l) \/ Refused(l) \/ WaitEnd(l) \/ GiveUp(l)
      PROVE  \A m \in Lcores : pc'[m] \in HandsEmpty => pc[m] \in HandsEmpty
  <2>1. Moves(l) /\ (pc'[l] = pc[l] \/ pc'[l] \in {"wait", "send", "takeback", "grace"})
    BY <1>3, TxMoves
  <2> QED
    BY <2>1 DEF Moves, HandsEmpty
<1>4. ASSUME RxActions
      PROVE  \A m \in Lcores : pc'[m] \in HandsEmpty => pc[m] \in HandsEmpty
  <2>1. Moves(RxLcore) /\ (pc[RxLcore] \in {"poll", "record"} \/ pc'[RxLcore] = pc[RxLcore])
    BY <1>4, RxMoves, Looks DEF RxActions, PollStopped, PollEmpty, PollBurst, Poll, Look
  <2> QED
    BY <2>1 DEF Moves, HandsEmpty
<1>5. Tick \/ UNCHANGED vars => pc' = pc
  BY OthersStay
<1>6. CASE \/ \E l \in Lcores : NoBuffer(l) \/ Number(l) \/ Refused(l) \/ WaitEnd(l) \/ GiveUp(l)
           \/ RxActions \/ Tick \/ UNCHANGED vars
  BY <1>3, <1>4, <1>5, <1>6, BuffersStay
<1> QED
  BY <1>1, <1>2, <1>6, Numbers, StepCases DEF RxActions

-----------------------------------------------------------------------------
\* The transmission side: rings, hands and pool.
LEMMA HandsStep ==
  ASSUME TypeInv, HandInv, [Next]_vars
  PROVE  /\ out' \in [Lcores -> Seq(Frame)] /\ free' \in Nat
         /\ txring' \in [Queues -> Seq(Frame)]
         /\ RingsBounded' /\ HandInv'
<1>1. BufferTypes /\ RingsBounded
  BY TypeParts DEF TypeInv
<1>2. CASE /\ UNCHANGED <<free, txring, out>>
           /\ \A l \in Lcores : pc'[l] \in HandsEmpty => pc[l] \in HandsEmpty
  BY <1>1, <1>2 DEF BufferTypes, RingsBounded, HandInv
<1>3. ASSUME NEW q \in Queues, NEW l \in Lcores, NEW r \in Seq(Frame), NEW o \in Seq(Frame),
             NEW g \in Nat, Passed(q, l, r, o, g), \A m \in Lcores \ {l} : pc'[m] = pc[m]
      PROVE  /\ out' \in [Lcores -> Seq(Frame)] /\ free' \in Nat
             /\ txring' \in [Queues -> Seq(Frame)]
             /\ RingsBounded' /\ HandInv'
  <2>1. out' \in [Lcores -> Seq(Frame)] /\ free' \in Nat /\ txring' \in [Queues -> Seq(Frame)]
    BY <1>1, <1>3 DEF Passed, BufferTypes
  <2>2. RingsBounded'
    BY <1>1, <1>3 DEF Passed, BufferTypes, RingsBounded
  <2>3. \A m \in Lcores : out'[m] = IF m = l THEN o ELSE out[m]
    BY <1>1, <1>3 DEF Passed, BufferTypes
  <2>4. /\ Len(o) <= HandSize /\ (o # <<>> => l \in TxLcores)
        /\ (pc'[l] \in HandsEmpty => o = <<>>)
    BY <1>3 DEF Passed
  <2>5. HandInv'
    BY <1>3, <2>3, <2>4 DEF HandInv
  <2> QED
    BY <2>1, <2>2, <2>5
<1> QED
  BY <1>2, <1>3, BufferCases

\* The reception side.
LEMMA RxBuffersStep ==
  ASSUME TypeInv, HandInv, [Next]_vars
  PROVE  rxring' \in Seq(Frame) /\ burst' \in Seq(Frame) /\ BurstOK'
<1>1. BufferTypes /\ BurstOK /\ RxLcore \in Lcores /\ LcoreTypes
  BY TypeParts, Numbers DEF TypeInv
<1>2. ASSUME NEW l \in Lcores,
             \/ FillAlloc(l) \/ FillSend(l) \/ FillFree(l)
             \/ NoBuffer(l) \/ Fill(l) \/ Number(l) \/ Send(l) \/ Spin(l)
             \/ Refused(l) \/ TakeBack(l) \/ WaitEnd(l) \/ GiveUp(l)
      PROVE  rxring' \in Seq(Frame) /\ burst' \in Seq(Frame) /\ BurstOK'
  <2>1. UNCHANGED <<rxring, burst>>
    BY <1>2 DEF FillAlloc, FillSend, FillFree, NoBuffer, Fill, Number, Send, Spin, Refused,
                TakeBack, WaitEnd, GiveUp,
                nicVars
  <2>2. Moves(l) /\ (pc'[l] = "record" => pc[l] = "record")
    BY <1>2, TxMoves
  <2> QED
    BY <1>1, <2>1, <2>2 DEF BurstOK, BufferTypes, Moves
<1>3. CASE RxActions
  <2>1. CASE PollStopped \/ PollEmpty \/ PollBurst
    <3>1. PICK n \in 0 .. Lesser(Len(rxring), BurstRx) : Poll(n) /\ (PollBurst => n # 0)
      BY <1>1, <2>1, Polls
    <3>2. rxring' \in Seq(Frame) /\ burst' \in Seq(Frame) /\ Len(burst') = n
      BY <1>1, <3>1, PollType
    <3>3. pc'[RxLcore] = "record" => PollBurst
      BY <2>1, RxMoves, AfterRxPlace
    <3>4. pc'[RxLcore] = "record" => burst' # <<>>
      BY <3>1, <3>2, <3>3, EmptySeq
    <3> QED
      BY <3>2, <3>4 DEF BurstOK
  <2>2. CASE LookUnmarked \/ LookPastEnd \/ LookMarked
    <3>1. Look /\ rxring' = rxring
      BY <2>2, Looks DEF Look, nicVars
    <3>2. burst' \in Seq(Frame) /\ Len(burst') = Len(burst) - 1 /\ Len(burst) \in Nat
      BY <3>1, LookType
    <3>3. pc'[RxLcore] = "record" => Len(burst) # 1
      BY <3>1, RxMoves, AfterRxPlace
    <3>4. pc'[RxLcore] = "record" => burst' # <<>>
      BY <3>2, <3>3, EmptySeq
    <3> QED
      BY <1>1, <3>1, <3>2, <3>4 DEF BurstOK, BufferTypes
  <2>3. CASE ReportDone
    BY <1>1, <2>3 DEF ReportDone, nicVars, BurstOK, BufferTypes
  <2> QED
    BY <1>3, <2>1, <2>2, <2>3 DEF RxActions
<1>4. ASSUME NEW q \in Queues, Transmit(q)
      PROVE  rxring' \in Seq(Frame) /\ burst' \in Seq(Frame) /\ BurstOK'
  <2>1. rxring' = rxring \/ rxring' = Append(rxring, Head(txring[q]))
    BY <1>4 DEF Transmit
  <2>2. Append(rxring, Head(txring[q])) \in Seq(Frame)
    BY <1>1, <1>4, BuffersTransmitted, AppendProperties DEF BufferTypes
  <2> QED
    BY <1>1, <1>4, <2>1, <2>2 DEF Transmit, BurstOK, BufferTypes
<1>5. CASE Tick \/ UNCHANGED vars
  BY <1>1, <1>5 DEF Tick, vars, nicVars, BurstOK, BufferTypes
<1> QED
  BY <1>2, <1>3, <1>4, <1>5, StepCases DEF RxActions

\* What LookMarked writes.
LEMMA MarkedRow ==
  ASSUME TypeInv, LookMarked
  PROVE  \E k \in Nat, row \in Row :
           /\ k = IF autoIncNum THEN Head(burst).cntr ELSE counter
           /\ row = [q |-> Head(burst).q, no |-> Head(burst).no, totalBytes |-> bytecounter + 1]
           /\ latencyStats' = Store(latencyStats, k, row)
           /\ counter' = k + 1
           /\ autoIncNum => k < TrainLen
           /\ continueRX' => continueRX /\ k + 1 # TrainLen
<1> DEFINE f == Head(burst)
           k == IF autoIncNum THEN f.cntr ELSE counter
           row == [q |-> f.q, no |-> f.no, totalBytes |-> bytecounter + 1]
<1>1. f \in Frame
  BY LookType DEF LookMarked
<1>2. TableTypes
  BY TypeParts DEF TypeInv
<1>3. f.cntr \in Nat /\ f.q \in Queues /\ f.no \in Nat
  BY <1>1, FormatAssumption DEF Frame, Word
<1> HIDE DEF f
<1>4. k \in Nat /\ bytecounter + 1 \in Nat
  BY <1>2, <1>3 DEF TableTypes
<1>5. row \in Row
  BY <1>3, <1>4 DEF Row
<1>6. /\ latencyStats' = Store(latencyStats, k, row) /\ counter' = k + 1
      /\ continueRX' = (continueRX /\ ~(k + 1 = TrainLen))
      /\ (autoIncNum => ~(f.cntr >= TrainLen))
  BY DEF LookMarked, LastRow, OutOfTable, f
<1>7. autoIncNum => k < TrainLen
  BY <1>3, <1>6, Numbers
<1> QED
  BY <1>4, <1>5, <1>6, <1>7 DEF f

LEMMA TableStep == TypeInv /\ [Next]_vars => TableTypes'
<1> SUFFICES ASSUME TypeInv, [Next]_vars PROVE TableTypes'
  OBVIOUS
<1>1. TableTypes
  BY TypeParts DEF TypeInv
<1>2. CASE UNCHANGED <<tableVars, handled>> /\ marks' \in Nat
  BY <1>1, <1>2 DEF TableTypes, tableVars
<1>3. ASSUME NEW l \in Lcores,
             \/ FillAlloc(l) \/ FillSend(l) \/ FillFree(l)
             \/ NoBuffer(l) \/ Fill(l) \/ Number(l) \/ Spin(l)
             \/ Refused(l) \/ TakeBack(l) \/ WaitEnd(l) \/ GiveUp(l)
      PROVE  TableTypes'
  <2>1. UNCHANGED <<tableVars, handled, marks>>
    BY <1>3 DEF FillAlloc, FillSend, FillFree, NoBuffer, Fill, Number, Spin, Refused,
                TakeBack, WaitEnd, GiveUp
  <2> QED
    BY <1>1, <1>2, <2>1 DEF TableTypes
<1>4. ASSUME NEW l \in Lcores, Send(l) PROVE TableTypes'
  <2>1. UNCHANGED <<tableVars, handled>> /\ (marks' = marks \/ marks' = Lesser(marks + 1, MaxMarks))
    BY <1>4 DEF Send
  <2>2. marks + 1 \in Nat /\ MaxMarks \in Nat
    BY <1>1, Numbers DEF TableTypes
  <2> QED
    BY <1>1, <1>2, <2>1, <2>2, LesserNat DEF TableTypes
<1>5. CASE PollStopped \/ PollEmpty \/ PollBurst \/ ReportDone
  <2>1. UNCHANGED <<tableVars, handled, marks>>
    BY <1>5 DEF PollStopped, PollEmpty, PollBurst, Poll, ReportDone
  <2> QED
    BY <1>1, <1>2, <2>1 DEF TableTypes
<1>6. CASE LookUnmarked \/ LookPastEnd \/ LookMarked
  <2>1. Look /\ marks' = marks /\ handled' = handled + 1
    BY <1>6, Looks DEF Look
  <2>2. handled' \in Nat /\ marks' \in Nat
    BY <1>1, <2>1 DEF TableTypes
  <2>3. bytecounter' \in Nat
    BY <1>1, <1>6 DEF TableTypes, LookUnmarked, LookPastEnd, LookMarked, BytesAfterRecord
  <2>4. CASE LookUnmarked
    BY <1>1, <2>2, <2>3, <2>4 DEF LookUnmarked, TableTypes
  <2>5. CASE LookPastEnd
    <3>1. counter' \in Nat
      BY <2>1, <2>5, LookType, FormatAssumption DEF LookPastEnd, Frame, Word
    <3> QED
      BY <1>1, <2>2, <2>3, <2>5, <3>1 DEF LookPastEnd, TableTypes
  <2>6. CASE LookMarked
    <3>1. PICK k \in Nat, row \in Row :
            latencyStats' = Store(latencyStats, k, row) /\ counter' = k + 1
      BY <2>6, MarkedRow
    <3>2. /\ counter' \in Nat /\ DOMAIN latencyStats' \subseteq Nat
          /\ latencyStats' \in [DOMAIN latencyStats' -> Row]
      BY <1>1, <3>1 DEF Store, TableTypes
    <3> QED
      BY <2>2, <2>3, <3>2 DEF TableTypes
  <2> QED
    BY <1>6, <2>4, <2>5, <2>6
<1>7. CASE (\E q \in Queues : Transmit(q)) \/ Tick \/ UNCHANGED vars
  <2>1. UNCHANGED <<tableVars, handled, marks>>
    BY <1>7 DEF Transmit, Tick, vars
  <2> QED
    BY <1>1, <1>2, <2>1 DEF TableTypes
<1> QED
  BY <1>3, <1>4, <1>5, <1>6, <1>7, StepCases

-----------------------------------------------------------------------------
BaseInv == TypeInv /\ HandInv

LEMMA BaseStep == BaseInv /\ [Next]_vars => BaseInv'
<1> SUFFICES ASSUME BaseInv, [Next]_vars PROVE BaseInv'
  OBVIOUS
<1>1. TypeInv /\ HandInv
  BY DEF BaseInv
<1>2. LcoreTypes' /\ PlaceInv' /\ ControlTypes' /\ TableTypes'
  BY <1>1, PlaceStep, ControlStep, TableStep
<1>3. BufferTypes' /\ RingsBounded' /\ HandInv' /\ BurstOK'
  BY <1>1, HandsStep, RxBuffersStep DEF BufferTypes
<1>4. TypeOK'
  BY <1>2, <1>3, TypePartsNext
<1> QED
  BY <1>2, <1>3, <1>4 DEF BaseInv, TypeInv

LEMMA BaseInit == Init => BaseInv
<1> SUFFICES ASSUME Init PROVE BaseInv
  OBVIOUS
<1>1. LcoreTypes /\ PlaceInv
  <2>1. ASSUME NEW l \in Lcores PROVE Begin(l) \in Places /\ AtPlace(l, Begin(l), 1)
    BY QueueIndex DEF Begin, AfterTx, AtPlace, Places, Sending, Filling
  <2>2. pc = [l \in Lcores |-> Begin(l)] /\ txi = [l \in Lcores |-> 1]
    BY DEF Init
  <2> QED
    BY <2>1, <2>2 DEF LcoreTypes, PlaceInv
<1>2. \A l \in Lcores : pc[l] \in {"fill", "tx", "poll"}
  BY DEF Init, Begin, AfterTx
<1>3. <<>> \in Seq(Frame) /\ Len(<<>>) = 0
  BY EmptySeq
<1>4. ControlTypes
  <2>1. 0 \in 0 .. CounterBase - 1
    BY Numbers
  <2> QED
    BY <2>1 DEF Init, ControlTypes
<1>5. TableTypes
  <2>1. DOMAIN latencyStats = {} /\ latencyStats \in [{} -> Row]
    BY DEF Init
  <2> QED
    BY <2>1 DEF Init, TableTypes
<1>6. ASSUME NEW q \in Queues
      PROVE  OtherPacket(q) \in Frame
  <2>1. Read(q, Blank) = [q |-> q, marked |-> IsMarked(Blank), cntr |-> Counter(Blank), no |-> marks]
    BY DEF Read
  <2>2. Counter(Blank) \in Word /\ IsMarked(Blank) \in BOOLEAN
    BY FormatAssumption DEF Counter, Blank, cntroffset, Offsets, Word, IsMarked
  <2> QED
    BY <2>1, <2>2 DEF OtherPacket, Frame
<1>7. \A q \in Queues : txring[q] = <<OtherPacket(q)>>
  BY DEF Init
<1>8. ASSUME NEW q \in Queues PROVE txring[q] \in Seq(Frame) /\ Len(txring[q]) = 1
  <2>1. PICK f \in Frame : txring[q] = <<f>>
    BY <1>6, <1>7
  <2>2. <<f>> \in Seq(Frame) /\ Len(<<f>>) = 1
    OBVIOUS
  <2> QED
    BY <2>1, <2>2
<1>9. free \in Nat
  <2>1. Cardinality(Queues) \in Nat
    BY QueuesFinite, FS_CardinalityType
  <2>2. free = PoolSize - Cardinality(Queues) /\ PoolSize >= Cardinality(Queues)
    BY StsAssumption DEF Init
  <2> QED
    BY <2>1, <2>2, Numbers
<1>10. BufferTypes
  <2>1. txring \in [Queues -> Seq(Frame)]
    BY <1>8 DEF Init
  <2> QED
    BY <1>3, <1>9, <2>1 DEF Init, BufferTypes
<1>11. RingsBounded
  <2>1. 1 <= TxRing
    BY Numbers
  <2> QED
    BY <1>8, <2>1 DEF RingsBounded
<1>12. HandInv
  BY <1>2, <1>3, Numbers DEF Init, HandInv
<1>13. BurstOK
  BY <1>2, Numbers DEF BurstOK
<1> QED
  BY <1>1, <1>4, <1>5, <1>10, <1>11, <1>12, <1>13, TypeParts DEF BaseInv, TypeInv

\* runtime.c:438-745.  Each lcore is where it can be, each variable has its
\* type, and no ring holds more than its size.
THEOREM StsTypeCorrect == Spec => []TypeOK
<1>1. BaseInv => TypeOK
  BY DEF BaseInv, TypeInv
<1> QED
  BY <1>1, BaseInit, BaseStep, PTL DEF Spec

LEMMA BaseAlways == Spec => []BaseInv
  BY BaseInit, BaseStep, PTL DEF Spec

-----------------------------------------------------------------------------
LEMMA MbufsStep == BaseInv /\ MbufsConserved /\ [Next]_vars => MbufsConserved'
<1> SUFFICES ASSUME BaseInv, MbufsConserved, [Next]_vars PROVE MbufsConserved'
  OBVIOUS
<1>1. TypeInv /\ HandInv /\ BufferTypes
  BY TypeParts DEF BaseInv, TypeInv
<1>2. CASE UNCHANGED <<free, txring, out>>
  BY <1>2 DEF MbufsConserved
<1>3. CASE \E q \in Queues, l \in Lcores, r \in Seq(Frame), o \in Seq(Frame), g \in Nat :
             Passed(q, l, r, o, g)
  BY <1>1, <1>3, BuffersMove
<1> QED
  BY <1>1, <1>2, <1>3, BufferCases

LEMMA MbufsInit == Init => MbufsConserved
<1> SUFFICES ASSUME Init PROVE MbufsConserved
  OBVIOUS
<1> DEFINE rings == [q \in Queues |-> Len(txring[q])]
           hands == [l \in Lcores |-> Len(out[l])]
<1>1. rings = [q \in Queues |-> 1]
  <2>1. ASSUME NEW q \in Queues PROVE Len(txring[q]) = 1
    <3>1. txring[q] = <<OtherPacket(q)>>
      BY DEF Init
    <3>2. PICK f : txring[q] = <<f>>
      BY <3>1
    <3> QED
      BY <3>2
  <2> QED
    BY <2>1
<1>2. hands = [l \in Lcores |-> 0]
  <2>1. \A l \in Lcores : out[l] = <<>>
    BY DEF Init
  <2> QED
    BY <2>1, EmptySeq
<1> HIDE DEF rings, hands
<1>3. SumFunction(rings) = Cardinality(Queues) /\ Cardinality(Queues) \in Nat
  BY <1>1, QueuesFinite, TotalOnes, FS_CardinalityType
<1>4. SumFunction(hands) = 0
  BY <1>2, QueuesFinite, TotalZero
<1>5. free = PoolSize - Cardinality(Queues) /\ PoolSize \in Nat
  BY Numbers DEF Init
<1>6. free + SumFunction(rings) + SumFunction(hands) = PoolSize
  BY <1>3, <1>4, <1>5
<1> QED
  BY <1>6 DEF MbufsConserved, rings, hands

\* runtime.c:689-743.  On every path of a transmitter, whatever the card
\* accepts, no buffer is lost and none is freed twice.
THEOREM StsBuffersKept == Spec => []MbufsConserved
  BY BaseAlways, MbufsInit, MbufsStep, PTL DEF Spec

-----------------------------------------------------------------------------
(***************************************************************************)
(* Enough buffers: a lcore about to send has none in its hands, the others *)
(* have at most a burst, or a ring's worth, each, and the rings at most    *)
(* what they hold.                                                         *)
(***************************************************************************)
LEMMA BuffersLeft ==
  ASSUME BaseInv, MbufsConserved, EnoughBuffers, NEW l \in Lcores, pc[l] = "tx"
  PROVE  free # 0
<1> DEFINE rings  == Lengths(txring, Queues)
           hands  == Lengths(out, Lcores)
           others == TxLcores \ {l}
<1>1. BufferTypes /\ RingsBounded /\ HandInv /\ AtPlace(l, "tx", txi[l])
  BY TypeParts DEF BaseInv, TypeInv, PlaceInv
<1>2. l \in TxLcores
  <2>1. txi[l] \in DOMAIN TxQueues[l]
    BY <1>1 DEF AtPlace, Sending
  <2>2. CASE TxQueues[l] = <<>>
    BY <2>1, <2>2
  <2> QED
    BY <2>2 DEF TxLcores
<1>3. rings \in [Queues -> 0 .. TxRing]
  <2>1. \A q \in Queues : Len(txring[q]) \in Nat /\ Len(txring[q]) <= TxRing
    BY <1>1, LenProperties DEF BufferTypes, RingsBounded
  <2> QED
    BY <2>1, Numbers DEF Lengths
<1>4. hands \in [Lcores -> 0 .. HandSize] /\ \A m \in Lcores \ others : hands[m] = 0
  <2>1. \A m \in Lcores : Len(out[m]) \in Nat /\ Len(out[m]) <= HandSize
    BY <1>1, LenProperties DEF BufferTypes, HandInv
  <2>2. \A m \in Lcores \ others : Len(out[m]) = 0
    BY <1>1, EmptySeq DEF HandInv, HandsEmpty
  <2> QED
    BY <2>1, <2>2, Numbers DEF Lengths
<1>5. IsFiniteSet(TxLcores) /\ others \subseteq Lcores
  BY QueuesFinite, FS_Subset DEF TxLcores
<1>6. Cardinality(others) = Cardinality(TxLcores) - 1
  BY <1>2, <1>5, FS_RemoveElement
<1>7. SumFunction(rings) <= Cardinality(Queues) * TxRing
  BY <1>3, QueuesFinite, Numbers, TotalBound
<1>8. SumFunction(hands) <= Cardinality(others) * HandSize
  <2>1. HandSize \in Nat
    BY Numbers
  <2> HIDE DEF others, hands
  <2> QED
    BY <1>4, <1>5, <2>1, QueuesFinite, TotalBoundOn
<1>9. SumFunction(rings) \in Nat /\ SumFunction(hands) \in Nat
  <2>1. rings \in [Queues -> Nat] /\ hands \in [Lcores -> Nat]
    BY <1>3, <1>4, Numbers
  <2> HIDE DEF rings, hands
  <2> QED
    BY <2>1, QueuesFinite, TotalType
<1>10. free + SumFunction(rings) + SumFunction(hands) = PoolSize
  BY DEF MbufsConserved, Lengths
<1>11. PoolSize > Cardinality(Queues) * TxRing + Cardinality(others) * HandSize
  BY <1>6 DEF EnoughBuffers
<1>12. PICK a \in Nat, b \in Nat :
         a = Cardinality(Queues) * TxRing /\ b = Cardinality(others) * HandSize
  <2>1. Cardinality(Queues) \in Nat /\ Cardinality(others) \in Nat
    BY <1>5, QueuesFinite, FS_CardinalityType, FS_Subset
  <2>2. \A m, n \in Nat : m * n \in Nat
    OBVIOUS
  <2> QED
    BY <2>1, <2>2, Numbers
<1>13. free \in Nat /\ PoolSize \in Nat
  BY <1>1, Numbers DEF BufferTypes
<1> HIDE DEF rings, hands, others
<1>14. PICK x \in Nat, y \in Nat : x = SumFunction(rings) /\ y = SumFunction(hands)
  BY <1>9
<1>15. x <= a /\ y <= b /\ free + x + y = PoolSize /\ PoolSize > a + b
  BY <1>7, <1>8, <1>10, <1>11, <1>12, <1>14
<1> QED
  BY <1>13, <1>15

LEMMA StarvesStep ==
  BaseInv /\ MbufsConserved /\ NeverStarves /\ [Next]_vars => NeverStarves'
<1> SUFFICES ASSUME BaseInv, MbufsConserved, EnoughBuffers, exitCode # "crash", [Next]_vars
             PROVE  exitCode' # "crash"
  BY DEF NeverStarves
<1>1. ASSUME NEW l \in Lcores, NoBuffer(l) PROVE FALSE
  BY <1>1, BuffersLeft DEF NoBuffer
<1>2. ASSUME NEW l \in Lcores,
             \/ FillAlloc(l) \/ FillSend(l) \/ FillFree(l)
             \/ Fill(l) \/ Number(l) \/ Send(l) \/ Spin(l)
             \/ Refused(l) \/ TakeBack(l) \/ WaitEnd(l) \/ GiveUp(l)
      PROVE  exitCode' \in {exitCode, "1"}
  BY <1>2 DEF FillAlloc, FillSend, FillFree, Fill, Number, Send, Spin, Refused, TakeBack,
              WaitEnd, GiveUp
<1>3. CASE RxActions
  BY <1>3 DEF RxActions, PollStopped, PollEmpty, PollBurst, Poll, LookUnmarked, LookPastEnd,
              LookMarked, Look, ReportDone
<1>4. CASE (\E q \in Queues : Transmit(q)) \/ Tick \/ UNCHANGED vars
  BY <1>4 DEF Transmit, Tick, vars
<1> QED
  BY <1>1, <1>2, <1>3, <1>4, StepCases DEF RxActions

\* runtime.c:706, 718, 724.  With a pool for every ring and for what every
\* other lcore can hold, the first packet of a burst always exists.
THEOREM StsNeverStarves == Spec => []NeverStarves
<1>1. Init => NeverStarves
  BY DEF Init, NeverStarves
<1> QED
  BY <1>1, BaseAlways, StsBuffersKept, StarvesStep, PTL DEF Spec

-----------------------------------------------------------------------------
(***************************************************************************)
(* The end of the table.  With --autoInc every row is tested; without it   *)
(* the counter is ahead of every row, and what is left of a burst is all   *)
(* that can be written behind the last one.                                *)
(***************************************************************************)
CountInv ==
  ~autoIncNum =>
    /\ \A k \in DOMAIN latencyStats : k < counter
    /\ counter <= TrainLen + BurstRx - 1
    /\ continueRX => counter < TrainLen
    /\ pc[RxLcore] = "record" => counter + Len(burst) <= TrainLen + BurstRx - 1

\* Every step but one of the receiver leaves the table and its counter alone.
LEMMA NoRecord ==
  ASSUME TypeInv, [Next]_vars, ~(LookUnmarked \/ LookPastEnd \/ LookMarked)
  PROVE  /\ UNCHANGED <<tableVars, handled>>
         /\ continueRX' => continueRX
         /\ pc'[RxLcore] = "record" => PollBurst \/ (pc[RxLcore] = "record" /\ burst' = burst)
<1>0. LcoreTypes /\ RxLcore \in Lcores
  BY TypeLcores, Numbers
<1>1. ASSUME NEW l \in Lcores,
             \/ FillAlloc(l) \/ FillSend(l) \/ FillFree(l)
             \/ NoBuffer(l) \/ Fill(l) \/ Number(l) \/ Send(l) \/ Spin(l)
             \/ Refused(l) \/ TakeBack(l) \/ WaitEnd(l) \/ GiveUp(l)
      PROVE  /\ UNCHANGED <<tableVars, handled, burst>>
             /\ continueRX' => continueRX
             /\ pc'[RxLcore] = "record" => pc[RxLcore] = "record"
  <2>1. UNCHANGED <<tableVars, handled, burst>> /\ (continueRX' => continueRX)
    BY <1>1 DEF FillAlloc, FillSend, FillFree, NoBuffer, Fill, Number, Send, Spin, Refused,
                TakeBack, WaitEnd, GiveUp
  <2>2. Moves(l) /\ (pc'[l] = "record" => pc[l] = "record")
    BY <1>1, TxMoves
  <2> QED
    BY <1>0, <2>1, <2>2 DEF Moves
<1>2. CASE PollStopped \/ PollEmpty \/ PollBurst
  <2>1. UNCHANGED <<tableVars, handled, continueRX>>
    BY <1>2 DEF PollStopped, PollEmpty, PollBurst, Poll
  <2>2. pc'[RxLcore] = "record" => PollBurst
    BY <1>2, RxMoves, AfterRxPlace
  <2> QED
    BY <2>1, <2>2
<1>3. CASE ReportDone
  <2>1. UNCHANGED <<tableVars, handled, continueRX, burst, pc>>
    BY <1>3 DEF ReportDone
  <2> QED
    BY <2>1
<1>4. CASE (\E q \in Queues : Transmit(q)) \/ Tick \/ UNCHANGED vars
  <2>1. UNCHANGED <<tableVars, handled, continueRX, burst, pc>>
    BY <1>4 DEF Transmit, Tick, vars
  <2> QED
    BY <2>1
<1> QED
  BY <1>1, <1>2, <1>3, <1>4, StepCases

LEMMA CountStep == TypeInv /\ CountInv /\ [Next]_vars => CountInv'
<1> SUFFICES ASSUME TypeInv, CountInv, [Next]_vars, ~autoIncNum
             PROVE  /\ \A k \in DOMAIN latencyStats' : k < counter'
                    /\ counter' <= TrainLen + BurstRx - 1
                    /\ continueRX' => counter' < TrainLen
                    /\ pc'[RxLcore] = "record" => counter' + Len(burst') <= TrainLen + BurstRx - 1
  BY DEF CountInv
<1>1. /\ \A k \in DOMAIN latencyStats : k < counter
      /\ counter <= TrainLen + BurstRx - 1
      /\ continueRX => counter < TrainLen
      /\ pc[RxLcore] = "record" => counter + Len(burst) <= TrainLen + BurstRx - 1
  BY DEF CountInv
<1>2. /\ BufferTypes /\ counter \in Nat /\ DOMAIN latencyStats \subseteq Nat
      /\ continueRX \in BOOLEAN
  BY TypeParts DEF TypeInv, TableTypes, ControlTypes
<1>3. PICK a \in Nat, b \in Nat : a = TrainLen /\ b = BurstRx
  BY Numbers
<1>4. CASE ~(LookUnmarked \/ LookPastEnd \/ LookMarked)
  <2>1. /\ UNCHANGED <<counter, latencyStats>>
        /\ continueRX' => continueRX
        /\ pc'[RxLcore] = "record" => PollBurst \/ (pc[RxLcore] = "record" /\ burst' = burst)
    BY <1>4, NoRecord DEF tableVars
  <2>2. ASSUME PollBurst PROVE counter' + Len(burst') <= TrainLen + BurstRx - 1
    <3>1. PICK n \in 1 .. Lesser(Len(rxring), BurstRx) : ~StopSeen(n) /\ Poll(n)
      BY <2>2 DEF PollBurst
    <3>2. n \in 0 .. Lesser(Len(rxring), BurstRx)
      OBVIOUS
    <3>3. n \in Nat /\ n <= b /\ Len(burst') = n
      BY <1>2, <1>3, <3>1, <3>2, PollType
    <3>4. counter < a
      BY <1>1, <1>3, <3>1 DEF StopSeen
    <3>5. PICK c \in Nat : c = counter
      BY <1>2
    <3>6. c + n <= a + b - 1
      BY <1>3, <3>3, <3>4, <3>5
    <3> QED
      BY <1>3, <2>1, <3>3, <3>5, <3>6
  <2> QED
    BY <1>1, <2>1, <2>2
<1>5. CASE LookUnmarked \/ LookPastEnd \/ LookMarked
  <2>1. /\ Look /\ pc[RxLcore] = "record" /\ Len(burst) \in Nat /\ Len(burst) > 0
        /\ Len(burst') = Len(burst) - 1
    BY <1>5, Looks, LookType DEF Look
  <2>2. PICK c \in Nat, n \in Nat : c = counter /\ n = Len(burst) /\ n > 0 /\ c + n <= a + b - 1
    BY <1>1, <1>2, <1>3, <2>1
  <2>3. /\ counter' \in {c, c + 1}
        /\ \A k \in DOMAIN latencyStats' : k < counter'
        /\ continueRX' => counter' < TrainLen
    <3>1. CASE LookUnmarked
      BY <1>1, <2>2, <3>1 DEF LookUnmarked
    <3>2. CASE LookMarked
      <4>1. /\ counter' = c + 1 /\ continueRX' = (continueRX /\ ~(c + 1 = a))
            /\ DOMAIN latencyStats' = DOMAIN latencyStats \cup {c}
        BY <1>3, <2>2, <3>2 DEF LookMarked, LastRow, Store
      <4>2. ASSUME NEW k \in DOMAIN latencyStats' PROVE k < c + 1
        BY <1>1, <1>2, <2>2, <4>1
      <4>3. continueRX' => c < a /\ c + 1 # a
        BY <1>1, <1>3, <2>2, <4>1
      <4>4. c < a /\ c + 1 # a => c + 1 < a
        OBVIOUS
      <4> QED
        BY <1>3, <4>1, <4>2, <4>3, <4>4
    <3> QED
      BY <1>5, <3>1, <3>2 DEF LookPastEnd
  <2>4. counter' + Len(burst') <= a + b - 1 /\ counter' <= a + b - 1
    BY <2>1, <2>2, <2>3
  <2> QED
    BY <1>3, <2>3, <2>4
<1> QED
  BY <1>4, <1>5

LEMMA CountInit == Init => CountInv
<1>1. PICK a \in Nat, b \in Nat : a = TrainLen /\ b = BurstRx /\ a > 0 /\ b > 0
  BY Numbers
<1>2. 0 <= a + b - 1 /\ 0 < a
  BY <1>1
<1>3. Init => pc[RxLcore] # "record" /\ counter = 0 /\ DOMAIN latencyStats = {}
  BY Numbers DEF Init, Begin, AfterTx
<1> QED
  BY <1>1, <1>2, <1>3 DEF CountInv

\* runtime.c:518-521.  What a burst writes behind the table is at most the
\* rest of that burst, whatever the length of the train and of a burst.
THEOREM StsOverrunBounded == Spec => []OverrunBounded
<1>1. Init => CountInv
  BY CountInit
<1>2. BaseInv /\ CountInv => OverrunBounded
  <2> SUFFICES ASSUME BaseInv, CountInv, ~autoIncNum, NEW k \in DOMAIN latencyStats
               PROVE  k <= TrainLen + BurstRx - 2
    BY DEF OverrunBounded
  <2>1. k < counter /\ counter <= TrainLen + BurstRx - 1
    BY DEF CountInv
  <2>2. k \in Nat /\ counter \in Nat
    BY TypeParts DEF BaseInv, TypeInv, TableTypes
  <2>3. PICK a \in Nat, b \in Nat : a = TrainLen /\ b = BurstRx
    BY Numbers
  <2>4. PICK c \in Nat : c = counter
    BY <2>2
  <2>5. k < c /\ c <= a + b - 1
    BY <2>1, <2>3, <2>4
  <2>6. k <= a + b - 2
    BY <2>2, <2>5
  <2> QED
    BY <2>3, <2>6
<1>3. BaseInv /\ CountInv /\ [Next]_vars => CountInv'
  BY CountStep DEF BaseInv
<1> QED
  BY <1>1, <1>2, <1>3, BaseAlways, PTL DEF Spec

-----------------------------------------------------------------------------
(***************************************************************************)
(* The end of the process.  What keeps the second wait of a transmitter    *)
(* from ending during the report is how much of it is left in every        *)
(* earlier state: once a lcore is in its second wait the receiver's next   *)
(* poll is its last, at most one tick passes before that poll, and the     *)
(* report that follows is shorter than what is left then.                  *)
(***************************************************************************)
Slack == IF polled THEN 0 ELSE 1

\* The receiver has not come to its end.
Busy == {"fill", "fillsend", "fillfree", "tx", "number", "send", "spin", "takeback", "poll",
         "record"}

GraceInv ==
  WaitTime >= ReportTime + 2 =>
    /\ pc[RxLcore] = "report" => timer[RxLcore] <= ReportTime
    /\ \A l \in Lcores : pc[l] = "grace" =>
         /\ ~continueRX
         /\ pc[RxLcore] = "report" => timer[RxLcore] < timer[l]
         /\ pc[RxLcore] \in Busy => WaitTime <= timer[l] + Slack
    /\ exitCode = "1" => pc[RxLcore] \in {"wait", "grace"}

LEMMA TimeNumbers ==
  ASSUME TypeInv
  PROVE  /\ WaitTime \in Nat /\ ReportTime \in Nat /\ RxLcore \in Lcores
         /\ timer \in [Lcores -> Nat]
         /\ \A l \in Lcores : timer[l] \in Nat
         /\ Slack \in {0, 1}
         /\ LcoreTypes
  BY Numbers, TypeParts DEF TypeInv, ControlTypes, Slack

\* A lcore goes on within its loop: neither a wait, nor the report, nor the
\* clock is concerned.
LEMMA GraceBusy ==
  ASSUME TypeInv, GraceInv, NEW l \in Lcores, pc[l] \in Busy, Moves(l), pc'[l] \in Busy,
         ~continueRX => ~continueRX', timer' = timer,
         continueRX \/ polled' = polled, exitCode' # "1"
  PROVE  GraceInv'
<1> USE DEF Busy
<1> SUFFICES ASSUME WaitTime >= ReportTime + 2
             PROVE  /\ pc'[RxLcore] = "report" => timer'[RxLcore] <= ReportTime
                    /\ \A k \in Lcores : pc'[k] = "grace" =>
                         /\ ~continueRX'
                         /\ pc'[RxLcore] = "report" => timer'[RxLcore] < timer'[k]
                         /\ pc'[RxLcore] \in Busy => WaitTime <= timer'[k] + Slack'
                    /\ exitCode' = "1" => pc'[RxLcore] \in {"wait", "grace"}
  BY DEF GraceInv
<1>1. RxLcore \in Lcores
  BY TimeNumbers
<1>2. \A k \in Lcores : k # l => pc'[k] = pc[k]
  BY DEF Moves
<1>3. /\ pc'[RxLcore] = "report" => pc[RxLcore] = "report"
      /\ pc'[RxLcore] \in Busy => pc[RxLcore] \in Busy
      /\ \A k \in Lcores : pc'[k] = "grace" => pc[k] = "grace"
  BY <1>1, <1>2
<1>4. pc'[RxLcore] = "report" => timer'[RxLcore] <= ReportTime
  BY <1>3 DEF GraceInv
<1>5. ASSUME NEW k \in Lcores, pc'[k] = "grace"
      PROVE  /\ ~continueRX'
             /\ pc'[RxLcore] = "report" => timer'[RxLcore] < timer'[k]
             /\ pc'[RxLcore] \in Busy => WaitTime <= timer'[k] + Slack'
  <2>1. pc[k] = "grace" /\ ~continueRX
    BY <1>3, <1>5 DEF GraceInv
  <2>2. Slack' = Slack
    BY <2>1 DEF Slack
  <2> QED
    BY <1>3, <2>1, <2>2 DEF GraceInv
<1> QED
  BY <1>4, <1>5

\* The receiver.  Its last poll begins the report.
LEMMA GraceRx ==
  ASSUME TypeInv, GraceInv, RxActions, exitCode = "none"
  PROVE  GraceInv'
<1>0. pc \in [Lcores -> Places] /\ timer \in [Lcores -> Nat] /\ RxLcore \in Lcores
  BY TimeNumbers DEF LcoreTypes
<1>1. CASE PollStopped
  <2>1. /\ pc[RxLcore] = "poll" /\ polled' = TRUE /\ exitCode' = exitCode
        /\ continueRX' = continueRX
        /\ pc' = [pc EXCEPT ![RxLcore] = "report"]
        /\ timer' = [timer EXCEPT ![RxLcore] = ReportTime]
    BY <1>1 DEF PollStopped, Poll
  <2>2. pc'[RxLcore] = "report" /\ timer'[RxLcore] = ReportTime
    BY <1>0, <2>1
  <2> SUFFICES ASSUME WaitTime >= ReportTime + 2, NEW k \in Lcores, pc'[k] = "grace"
               PROVE  ~continueRX' /\ ReportTime < timer'[k]
    BY <1>0, <2>1, <2>2, TimeNumbers DEF GraceInv, Busy
  <2>3. k # RxLcore /\ pc[k] = "grace" /\ timer'[k] = timer[k]
    BY <1>0, <2>1, <2>2
  <2>4. ~continueRX /\ WaitTime <= timer[k] + Slack
    BY <2>1, <2>3 DEF GraceInv, Busy
  <2>5. PICK m \in Nat : m = timer[k]
    BY TimeNumbers
  <2>6. ReportTime < m
    BY <2>4, <2>5, TimeNumbers
  <2> QED
    BY <2>1, <2>3, <2>4, <2>5, <2>6
<1>2. CASE PollEmpty
  <2>1. /\ pc[RxLcore] = "poll" /\ timer' = timer /\ exitCode' = exitCode
        /\ continueRX' = continueRX /\ continueRX
    BY <1>2 DEF PollEmpty, Poll, StopSeen
  <2>2. Moves(RxLcore) /\ pc'[RxLcore] \in {"poll", "tx"}
    BY <1>2, RxMoves, AfterRxPlace
  <2> QED
    BY <1>0, <2>1, <2>2, GraceBusy DEF Busy
<1>3. CASE PollBurst
  <2>1. /\ pc[RxLcore] = "poll" /\ timer' = timer /\ exitCode' = exitCode
        /\ continueRX' = continueRX /\ continueRX
    BY <1>3 DEF PollBurst, Poll, StopSeen
  <2>2. Moves(RxLcore) /\ pc'[RxLcore] = "record"
    BY <1>3, RxMoves
  <2> QED
    BY <1>0, <2>1, <2>2, GraceBusy DEF Busy
<1>4. CASE LookUnmarked \/ LookPastEnd \/ LookMarked
  <2>1. Look /\ pc[RxLcore] = "record" /\ UNCHANGED <<timer, exitCode, polled>>
    BY <1>4, Looks DEF Look
  <2>2. ~continueRX => ~continueRX'
    BY <1>4 DEF LookUnmarked, LookPastEnd, LookMarked
  <2>3. Moves(RxLcore) /\ pc'[RxLcore] \in {"poll", "tx", "record"}
    BY <2>1, RxMoves, AfterRxPlace
  <2> QED
    BY <1>0, <2>1, <2>2, <2>3, GraceBusy DEF Busy
<1>5. CASE ReportDone
  <2>1. UNCHANGED <<pc, timer, continueRX, polled>> /\ exitCode' # "1"
    BY <1>5 DEF ReportDone
  <2> QED
    BY <2>1 DEF GraceInv, Slack
<1> QED
  BY <1>1, <1>2, <1>3, <1>4, <1>5 DEF RxActions

\* The transmitters.
LEMMA GraceTx ==
  ASSUME TypeInv, GraceInv, NEW l \in Lcores, exitCode = "none",
         \/ FillAlloc(l) \/ FillSend(l) \/ FillFree(l)
         \/ NoBuffer(l) \/ Fill(l) \/ Number(l) \/ Send(l) \/ Spin(l)
         \/ Refused(l) \/ TakeBack(l) \/ WaitEnd(l) \/ GiveUp(l)
  PROVE  GraceInv'
<1>0. pc \in [Lcores -> Places] /\ timer \in [Lcores -> Nat] /\ RxLcore \in Lcores
  BY TimeNumbers DEF LcoreTypes
<1>1. CASE \/ FillAlloc(l) \/ FillSend(l) \/ FillFree(l)
           \/ Fill(l) \/ Send(l) \/ Spin(l) \/ Refused(l) \/ TakeBack(l)
  <2>1. UNCHANGED <<timer, continueRX, polled, exitCode>> /\ pc[l] \in Busy
    BY <1>1 DEF FillAlloc, FillSend, FillFree, Fill, Send, Spin, Refused, TakeBack, Busy
  <2>2. Moves(l) /\ pc'[l] \in Busy
    BY <1>1, TxMoves DEF Busy
  <2> QED
    BY <2>1, <2>2, GraceBusy
<1>2. CASE NoBuffer(l)
  <2>1. UNCHANGED <<pc, timer, continueRX, polled>> /\ exitCode' # "1"
    BY <1>2 DEF NoBuffer
  <2> QED
    BY <2>1 DEF GraceInv, Slack
<1>3. CASE Number(l)
  <2>1. UNCHANGED <<continueRX, polled, exitCode>> /\ pc[l] = "number"
    BY <1>3 DEF Number
  <2>2. CASE timer' = timer /\ pc'[l] = "send"
    BY <1>3, <2>1, <2>2, GraceBusy, TxMoves DEF Busy
  <2>3. CASE timer' = [timer EXCEPT ![l] = WaitTime] /\ pc' = [pc EXCEPT ![l] = "wait"]
    <3>1. \A k \in Lcores : k # l => pc'[k] = pc[k] /\ timer'[k] = timer[k]
      BY <1>0, <2>3
    <3>2. pc'[l] = "wait"
      BY <1>0, <2>3
    <3> QED
      BY <1>0, <2>1, <3>1, <3>2 DEF GraceInv, Slack, Busy
  <2> QED
    BY <1>0, <1>3, <2>2, <2>3 DEF Number
<1>4. CASE WaitEnd(l)
  <2>1. /\ pc' = [pc EXCEPT ![l] = "grace"] /\ timer' = [timer EXCEPT ![l] = WaitTime]
        /\ ~continueRX' /\ polled' = polled /\ exitCode' = exitCode /\ pc[l] = "wait"
    BY <1>4 DEF WaitEnd
  <2>2. /\ \A k \in Lcores : k # l => pc'[k] = pc[k] /\ timer'[k] = timer[k]
        /\ pc'[l] = "grace" /\ timer'[l] = WaitTime
    BY <1>0, <2>1
  <2>3. WaitTime <= WaitTime + Slack
    BY TimeNumbers
  <2>4. ASSUME WaitTime >= ReportTime + 2, pc[RxLcore] = "report"
        PROVE  timer[RxLcore] < WaitTime
    <3>1. timer[RxLcore] <= ReportTime /\ timer[RxLcore] \in Nat
      BY <2>4, TimeNumbers DEF GraceInv
    <3> QED
      BY <2>4, <3>1, TimeNumbers
  <2>5. pc'[RxLcore] = "report" => RxLcore # l /\ pc[RxLcore] = "report"
    BY <1>0, <2>2
  <2> SUFFICES ASSUME WaitTime >= ReportTime + 2
               PROVE  /\ pc'[RxLcore] = "report" => timer'[RxLcore] <= ReportTime
                      /\ \A k \in Lcores : pc'[k] = "grace" =>
                           /\ ~continueRX'
                           /\ pc'[RxLcore] = "report" => timer'[RxLcore] < timer'[k]
                           /\ pc'[RxLcore] \in Busy => WaitTime <= timer'[k] + Slack'
                      /\ exitCode' = "1" => pc'[RxLcore] \in {"wait", "grace"}
    BY DEF GraceInv
  <2>6. ASSUME NEW k \in Lcores, pc'[k] = "grace"
        PROVE  /\ ~continueRX'
               /\ pc'[RxLcore] = "report" => timer'[RxLcore] < timer'[k]
               /\ pc'[RxLcore] \in Busy => WaitTime <= timer'[k] + Slack'
    <3>1. CASE k = l
      BY <1>0, <2>1, <2>2, <2>3, <2>4, <2>5, <3>1 DEF Slack, Busy
    <3>2. CASE k # l
      BY <1>0, <2>1, <2>2, <2>5, <2>6, <3>2 DEF GraceInv, Slack, Busy
    <3> QED
      BY <3>1, <3>2
  <2> QED
    BY <1>0, <2>1, <2>2, <2>5, <2>6 DEF GraceInv
<1>5. CASE GiveUp(l)
  <2>1. pc[l] = "grace" /\ timer[l] = 0 /\ UNCHANGED <<pc, timer, continueRX, polled>>
    BY <1>5 DEF GiveUp
  <2>2. ASSUME WaitTime >= ReportTime + 2 PROVE pc[RxLcore] \in {"wait", "grace"}
    <3>1. ~(timer[RxLcore] < timer[l]) /\ ~(WaitTime <= timer[l] + Slack)
      BY <2>1, <2>2, TimeNumbers
    <3>2. pc[RxLcore] \in Places /\ pc[RxLcore] # "report" /\ pc[RxLcore] \notin Busy
      BY <1>0, <2>1, <2>2, <3>1 DEF GraceInv
    <3> QED
      BY <3>2 DEF Places, Busy
  <2> QED
    BY <2>1, <2>2 DEF GraceInv, Slack
<1> QED
  BY <1>1, <1>2, <1>3, <1>4, <1>5

\* A tick.  It is the last one before the receiver polls, or sleeps, or
\* brings the end of the report as near as that of the wait.
LEMMA GraceTick ==
  ASSUME TypeInv, GraceInv, Tick
  PROVE  GraceInv'
<1>1. /\ polled \/ pc[RxLcore] \in {"report", "wait", "grace"}
      /\ pc[RxLcore] = "report" => timer[RxLcore] > 0
      /\ polled' = FALSE /\ UNCHANGED <<pc, continueRX, exitCode>>
  BY DEF Tick
<1>2. \A k \in Lcores : timer'[k] = IF timer[k] > 0 THEN timer[k] - 1 ELSE 0
  BY DEF Tick
<1> SUFFICES ASSUME WaitTime >= ReportTime + 2
             PROVE  /\ pc[RxLcore] = "report" => timer'[RxLcore] <= ReportTime
                    /\ \A k \in Lcores : pc[k] = "grace" =>
                         /\ ~continueRX
                         /\ pc[RxLcore] = "report" => timer'[RxLcore] < timer'[k]
                         /\ pc[RxLcore] \in Busy => WaitTime <= timer'[k] + 1
                    /\ exitCode = "1" => pc[RxLcore] \in {"wait", "grace"}
  BY <1>1 DEF GraceInv, Slack
<1>3. ASSUME pc[RxLcore] = "report"
      PROVE  timer'[RxLcore] <= ReportTime
  <2>1. timer[RxLcore] <= ReportTime
    BY <1>3 DEF GraceInv
  <2> QED
    BY <1>2, <2>1, TimeNumbers
<1>4. ASSUME NEW k \in Lcores, pc[k] = "grace", pc[RxLcore] = "report"
      PROVE  timer'[RxLcore] < timer'[k]
  <2>1. timer[RxLcore] < timer[k] /\ timer[RxLcore] > 0
    BY <1>1, <1>4 DEF GraceInv
  <2> QED
    BY <1>2, <2>1, TimeNumbers
<1>5. ASSUME NEW k \in Lcores, pc[k] = "grace", pc[RxLcore] \in Busy
      PROVE  WaitTime <= timer'[k] + 1
  <2>1. polled
    BY <1>1, <1>5 DEF Busy
  <2>2. WaitTime <= timer[k]
    BY <1>5, <2>1, TimeNumbers DEF GraceInv, Slack
  <2> QED
    BY <1>2, <2>2, TimeNumbers
<1> QED
  BY <1>3, <1>4, <1>5 DEF GraceInv

LEMMA GraceStep == TypeInv /\ GraceInv /\ [Next]_vars => GraceInv'
<1> SUFFICES ASSUME TypeInv, GraceInv, [Next]_vars PROVE GraceInv'
  OBVIOUS
<1>1. CASE UNCHANGED <<pc, timer, continueRX, exitCode, polled>>
  BY <1>1 DEF GraceInv, Slack
<1>2. CASE (\E q \in Queues : Transmit(q)) \/ UNCHANGED vars
  BY <1>1, <1>2 DEF Transmit, vars
<1> QED
  BY <1>2, GraceRx, GraceTx, GraceTick, StepCases DEF RxActions, Running

\* A lcore that owns no transmission queue never waits for an answer.
QuietInv == TxQueues[RxLcore] = <<>> => pc[RxLcore] \notin {"wait", "grace"}

LEMMA QuietStep == TypeInv /\ QuietInv /\ [Next]_vars => QuietInv'
<1> SUFFICES ASSUME TypeInv, QuietInv, [Next]_vars, TxQueues[RxLcore] = <<>>
             PROVE  pc'[RxLcore] \notin {"wait", "grace"}
  BY DEF QuietInv
<1>1. /\ pc[RxLcore] \notin {"wait", "grace"} /\ RxLcore \in Lcores
      /\ AtPlace(RxLcore, pc[RxLcore], txi[RxLcore])
  BY Numbers DEF QuietInv, TypeInv, PlaceInv
<1>2. pc[RxLcore] # "number"
  BY <1>1 DEF AtPlace, Sending
<1>3. ASSUME NEW l \in Lcores,
             \/ FillAlloc(l) \/ FillSend(l) \/ FillFree(l)
             \/ NoBuffer(l) \/ Fill(l) \/ Number(l) \/ Send(l) \/ Spin(l)
             \/ Refused(l) \/ TakeBack(l) \/ WaitEnd(l) \/ GiveUp(l)
      PROVE  pc'[RxLcore] \notin {"wait", "grace"}
  <2>1. CASE l # RxLcore
    <3>1. pc'[RxLcore] = pc[RxLcore]
      BY <1>1, <1>3, <2>1, TxMoves DEF Moves
    <3> QED
      BY <1>1, <3>1
  <2>2. CASE l = RxLcore
    <3>1. ~Number(l) /\ ~WaitEnd(l)
      BY <1>1, <1>2, <2>2 DEF Number, WaitEnd
    <3> QED
      BY <1>1, <1>3, <2>2, <3>1, TxMoves
  <2> QED
    BY <2>1, <2>2
<1>4. CASE RxActions
  BY <1>1, <1>4, RxMoves, Looks, AfterRxPlace DEF RxActions
<1>5. CASE (\E q \in Queues : Transmit(q)) \/ Tick \/ UNCHANGED vars
  BY <1>1, <1>5, OthersStay
<1> QED
  BY <1>3, <1>4, <1>5, StepCases DEF RxActions

LEMMA GraceAlways == Spec => []GraceInv
<1>1. Init => GraceInv
  BY Numbers DEF Init, GraceInv, Begin, AfterTx
<1>2. BaseInv /\ GraceInv /\ [Next]_vars => GraceInv'
  BY GraceStep DEF BaseInv
<1> QED
  BY <1>1, <1>2, BaseAlways, PTL DEF Spec

\* runtime.c:694-704, 738-742.  When the waiting time is longer than the
\* printing and the receiver transmits nothing itself, the process never
\* ends with code 1, in the middle of the report or elsewhere.
THEOREM StsReportsComplete == Spec => []ReportIsComplete
<1>1. Init => QuietInv
  BY Numbers DEF Init, QuietInv, Begin, AfterTx
<1>2. BaseInv /\ QuietInv /\ [Next]_vars => QuietInv'
  BY QuietStep DEF BaseInv
<1>3. GraceInv /\ QuietInv => ReportIsComplete
  <2> SUFFICES ASSUME GraceInv, QuietInv, TxQueues[RxLcore] = <<>>, exitCode = "1",
                      WaitTime >= ReportTime + 2
               PROVE  FALSE
    BY DEF ReportIsComplete
  <2>1. pc[RxLcore] \in {"wait", "grace"}
    BY DEF GraceInv
  <2> QED
    BY <2>1 DEF QuietInv
<1> QED
  BY <1>1, <1>2, <1>3, GraceAlways, BaseAlways, PTL DEF Spec

-----------------------------------------------------------------------------
(***************************************************************************)
(* Numbers.  With --autoInc, one transmission queue and no tag or checksum *)
(* that overwrites the mark, pktcounter is the number of marked packets    *)
(* accepted so far, or one more while one is in the hands of its           *)
(* transmitter.  The counter must be wide enough to tell the end of the    *)
(* train, and the bound of the model not bite.                             *)
(***************************************************************************)
Plain == VLAN_OFFSET = 0 /\ ~doChecksum

Numbering ==
  /\ autoIncNum /\ Plain /\ OneTxQueue
  /\ TrainLen + 1 < CounterBase
  /\ TrainLen <= MaxMarks

\* What is in every packet that has been sent, and in one that is about to.
Wire(f) == f.marked => f.no < marks /\ f.cntr = f.no % WordBase

AllSent(s)  == \A i \in 1 .. Len(s) : Wire(s[i])
Unmarked(s) == \A i \in 1 .. Len(s) : ~s[i].marked

Fresh(s) ==
  /\ s # <<>> /\ s[1].marked /\ s[1].no = marks /\ s[1].cntr = marks % WordBase
  /\ \A i \in 2 .. Len(s) : ~s[i].marked

InOrder == {"fill", "fillsend", "fillfree", "tx", "spin", "poll", "record", "report"}

\* The lcore has packets to send that are not marked.
UnmarkedOnly == {"fillsend", "spin"}

Numbered(l) ==
  /\ pc[l] \in InOrder => pktcounter = marks
  /\ pc[l] = "number" => pktcounter = marks /\ reg[l] = marks /\ Fresh(out[l])
  /\ pc[l] = "send" => pktcounter = marks + 1 /\ marks < TrainLen /\ Fresh(out[l])
  /\ pc[l] = "takeback" => pktcounter = marks + 1 /\ reg[l] = marks + 1 /\ marks < TrainLen
  /\ pc[l] \in UnmarkedOnly => Unmarked(out[l])

OwnerInv ==
  \A l \in TxLcores : IF TxQueues[l][1].queue = 0 THEN Numbered(l) ELSE Unmarked(out[l])

WireInv ==
  /\ AllSent(burst) /\ AllSent(rxring)
  /\ \A q \in Queues : AllSent(txring[q])

NumberInv == marks <= TrainLen /\ OwnerInv /\ WireInv

\* There is one owner of one queue.
LEMMA OneOwner ==
  ASSUME OneTxQueue, NEW l \in TxLcores
  PROVE  /\ l \in Lcores /\ DOMAIN TxQueues[l] = {1}
         /\ TxQueues[l][1] \in Queues
         /\ \A m \in TxLcores : m = l
         /\ \A q \in Queues : q = TxQueues[l][1]
<1>1. /\ l \in Lcores /\ 1 \in DOMAIN TxQueues[l] /\ TxQueues[l][1] \in Queues
  BY QueueIndex DEF TxLcores
<1>2. ASSUME NEW i \in DOMAIN TxQueues[l] PROVE i = 1
  <2>1. TxQueues[l][i] = TxQueues[l][1]
    BY <1>1, QueueIndex DEF OneTxQueue
  <2> QED
    BY <1>1, <2>1, ListedOnce
<1>3. ASSUME NEW m \in TxLcores PROVE m = l
  <2>1. m \in Lcores /\ 1 \in DOMAIN TxQueues[m] /\ TxQueues[m][1] \in Queues
    BY QueueIndex DEF TxLcores
  <2>2. TxQueues[m][1] = TxQueues[l][1]
    BY <1>1, <2>1 DEF OneTxQueue
  <2> QED
    BY <1>1, <2>1, <2>2, ListedOnce
<1> QED
  BY <1>1, <1>2, <1>3 DEF OneTxQueue

\* The lcore that sends is the owner, and it serves its only queue.
LEMMA SenderOwns ==
  ASSUME OneTxQueue, TypeInv, NEW l \in Lcores, pc[l] \in Sending
  PROVE  l \in TxLcores /\ txi[l] = 1 /\ Queue(l) = TxQueues[l][1] /\ Queue(l) \in Queues
<1>1. txi[l] \in DOMAIN TxQueues[l]
  BY DEF TypeInv, PlaceInv, AtPlace
<1>2. l \in TxLcores
  <2>1. CASE TxQueues[l] = <<>>
    BY <1>1, <2>1
  <2> QED
    BY <2>1 DEF TxLcores
<1> QED
  BY <1>1, <1>2, OneOwner DEF Queue

\* What the receiver will read in a marked packet.
LEMMA MarkedRead ==
  ASSUME Plain, autoIncNum, TypeOK, NEW q
  PROVE  /\ MarkedPacket(q).q = q
         /\ MarkedPacket(q).marked
         /\ MarkedPacket(q).no = marks
         /\ MarkedPacket(q).cntr = pktcounter % WordBase
<1> DEFINE h == StampSts(Blank, pktcounter, Clock(marks))
           marked   == PutMark(Blank)
           numbered == PutCounter(marked, pktcounter)
<1>1. idoffset = 36 /\ cntroffset = 38
  BY DEF Plain, idoffset, cntroffset
<1>2. marked \in Header /\ marked[36] = tspacketId
  <2>1. Blank \in Header
    BY FormatAssumption DEF Blank, Header, Word
  <2> QED
    BY <1>1, <2>1, FormatAssumption DEF PutMark, Header, Offsets
<1>3. pktcounter \in Nat /\ marks \in Nat
  BY Numbers DEF TypeOK
<1>4. pktcounter % WordBase \in Word /\ marks % WordBase \in Word /\ 0 \in Word
  BY <1>3, FormatAssumption DEF Word
<1> HIDE DEF marked
<1>5. numbered \in Header /\ numbered[36] = tspacketId /\ numbered[38] = pktcounter % WordBase
  BY <1>1, <1>2, <1>4 DEF PutCounter, Header, Offsets
<1> HIDE DEF numbered
<1>6. Clock(marks) \in Time
  BY <1>4 DEF Clock, Time
<1>7. h = PutTime(numbered, Clock(marks))
  BY DEF StampSts, WithChecksum, Plain, marked, numbered
<1>8. h[36] = tspacketId /\ h[38] = pktcounter % WordBase
  BY <1>5, <1>6, <1>7, TimeType
<1> HIDE DEF h
<1> QED
  BY <1>1, <1>8 DEF MarkedPacket, Read, IsMarked, Counter, h

LEMMA NewBurstRead ==
  ASSUME Plain, autoIncNum, TypeOK, NEW q \in Queues, NEW n \in Nat
  PROVE  /\ q.queue # 0 => Unmarked(NewBurst(q, n))
         /\ q.queue = 0 /\ n > 0 /\ pktcounter = marks => Fresh(NewBurst(q, n))
         /\ Unmarked([i \in 1 .. n |-> OtherPacket(q)])
<1> DEFINE s == NewBurst(q, n)
           o == [i \in 1 .. n |-> OtherPacket(q)]
<1>1. /\ s \in Seq(Frame) /\ Len(s) = n /\ Len(o) = n
      /\ \A i \in 1 .. n : /\ s[i] = IF i = 1 /\ q.queue = 0 THEN MarkedPacket(q) ELSE OtherPacket(q)
                           /\ o[i] = OtherPacket(q)
  BY BurstType DEF NewBurst
<1>2. OtherPacket(q).marked = FALSE
  BY OtherUnmarked
<1> HIDE DEF s, o
<1>3. q.queue # 0 => Unmarked(s)
  BY <1>1, <1>2 DEF Unmarked
<1>4. Unmarked(o)
  BY <1>1, <1>2 DEF Unmarked
<1>5. ASSUME q.queue = 0, n > 0, pktcounter = marks PROVE Fresh(s)
  <2>1. 1 \in 1 .. n /\ s # <<>>
    BY <1>1, <1>5, EmptySeq
  <2>2. s[1] = MarkedPacket(q)
    BY <1>1, <1>5, <2>1
  <2>3. \A i \in 2 .. n : i \in 1 .. n /\ i # 1
    OBVIOUS
  <2>4. \A i \in 2 .. Len(s) : ~s[i].marked
    BY <1>1, <1>2, <2>3
  <2>5. s[1].marked /\ s[1].no = marks /\ s[1].cntr = marks % WordBase
    BY <1>5, <2>2, MarkedRead
  <2> QED
    BY <2>1, <2>4, <2>5 DEF Fresh
<1> QED
  BY <1>3, <1>4, <1>5 DEF s, o

\* A part of a burst without its first frames.
LEMMA RestUnmarked ==
  ASSUME BufferTypes, RingsBounded, NEW q \in Queues, NEW s \in Seq(Frame),
         Unmarked(s) \/ (Fresh(s) /\ Room(q) > 0)
  PROVE  Unmarked(Rest(q, s))
<1> SUFFICES ASSUME NEW i \in 1 .. Len(Rest(q, s))
             PROVE  ~Rest(q, s)[i].marked
  BY DEF Unmarked
<1>1. Room(q) + i \in 1 .. Len(s) /\ Rest(q, s)[i] = s[Room(q) + i]
  BY RestType
<1>2. Room(q) > 0 => Room(q) + i \in 2 .. Len(s)
  <2>1. PICK m \in Nat : m = Room(q)
    BY RoomType
  <2>2. Len(s) \in Nat /\ Len(Rest(q, s)) \in Nat
    BY RestType, LenProperties
  <2> QED
    BY <1>1, <2>1, <2>2
<1> QED
  BY <1>1, <1>2 DEF Unmarked, Fresh

\* The owner sends its burst: the marked packet becomes the last one sent.
LEMMA SendOwner ==
  ASSUME Numbering, BaseInv, NumberInv, NEW l \in Lcores, Send(l)
  PROVE  /\ l \in TxLcores /\ Queue(l) = TxQueues[l][1] /\ Queue(l) \in Queues
         /\ out[l] \in Seq(Frame) /\ out[l] # <<>> /\ Room(Queue(l)) > 0
         /\ out' = [out EXCEPT ![l] = Rest(Queue(l), out[l])]
         /\ Queue(l).queue = 0 =>
              Fresh(out[l]) /\ marks < TrainLen /\ marks' = marks + 1 /\ pktcounter = marks + 1
         /\ Queue(l).queue # 0 => Unmarked(out[l]) /\ marks' = marks
<1>1. TypeInv /\ BufferTypes /\ OneTxQueue /\ pc[l] = "send"
  BY TypeParts DEF BaseInv, TypeInv, Numbering, Send
<1>2. l \in TxLcores /\ Queue(l) = TxQueues[l][1] /\ Queue(l) \in Queues
  BY <1>1, SenderOwns DEF Sending
<1>3. /\ out[l] \in Seq(Frame) /\ out[l] # <<>> /\ Room(Queue(l)) > 0
      /\ out' = [out EXCEPT ![l] = Rest(Queue(l), out[l])]
      /\ marks' = IF out[l][1].marked THEN Lesser(marks + 1, MaxMarks) ELSE marks
  BY <1>1 DEF Send, BufferTypes
<1>4. CASE Queue(l).queue = 0
  <2>1. Fresh(out[l]) /\ marks < TrainLen /\ pktcounter = marks + 1
    BY <1>1, <1>2, <1>4 DEF NumberInv, OwnerInv, Numbered
  <2>2. marks' = Lesser(marks + 1, MaxMarks)
    BY <1>3, <2>1 DEF Fresh
  <2>3. marks \in Nat /\ TrainLen \in Nat /\ MaxMarks \in Nat /\ TrainLen <= MaxMarks
    BY Numbers DEF BaseInv, TypeInv, TypeOK, Numbering
  <2>4. marks + 1 <= MaxMarks
    BY <2>1, <2>3
  <2>5. Lesser(marks + 1, MaxMarks) = marks + 1
    BY <2>3, <2>4 DEF Lesser
  <2> QED
    BY <1>2, <1>3, <1>4, <2>1, <2>2, <2>5
<1>5. CASE Queue(l).queue # 0
  <2>1. Unmarked(out[l])
    BY <1>2, <1>5 DEF NumberInv, OwnerInv
  <2>2. 1 \in 1 .. Len(out[l])
    BY <1>3, EmptySeq, LenProperties
  <2> QED
    BY <1>2, <1>3, <1>5, <2>1, <2>2 DEF Unmarked
<1> QED
  BY <1>4, <1>5

\* The rest of a burst is not marked, and neither is what fills a ring.
LEMMA UnmarkedOwner ==
  ASSUME Numbering, BaseInv, NumberInv, NEW l \in Lcores, FillSend(l) \/ Spin(l)
  PROVE  /\ l \in TxLcores /\ Queue(l) = TxQueues[l][1] /\ Queue(l) \in Queues
         /\ out[l] \in Seq(Frame) /\ Unmarked(out[l])
         /\ out' = [out EXCEPT ![l] = Rest(Queue(l), out[l])]
<1>1. TypeInv /\ BufferTypes /\ OneTxQueue /\ pc[l] \in UnmarkedOnly
  BY TypeParts DEF BaseInv, TypeInv, Numbering, FillSend, Spin, UnmarkedOnly
<1>2. l \in TxLcores /\ Queue(l) = TxQueues[l][1] /\ Queue(l) \in Queues
  BY <1>1, SenderOwns DEF Sending, UnmarkedOnly
<1>3. Unmarked(out[l])
  BY <1>1, <1>2 DEF NumberInv, OwnerInv, Numbered
<1>4. out[l] \in Seq(Frame) /\ out' = [out EXCEPT ![l] = Rest(Queue(l), out[l])]
  BY <1>1 DEF FillSend, Spin, BufferTypes
<1> QED
  BY <1>2, <1>3, <1>4

-----------------------------------------------------------------------------
\* Frames enter the ring of q: at most the first one is marked, and its
\* number is the next one.
Entering(q, s) ==
  /\ txring' = [txring EXCEPT ![q] = Longer(q, s)]
  /\ UNCHANGED <<rxring, burst, tableVars, handled>>
  /\ marks' \in {marks, marks + 1}
  /\ \A i \in 1 .. Len(s) :
       s[i].marked => /\ i = 1 /\ marks' = marks + 1
                      /\ s[i].no = marks /\ s[i].cntr = marks % WordBase

\* What a step does to the frames.
LEMMA FrameCases ==
  ASSUME Numbering, BaseInv, NumberInv, [Next]_vars
  PROVE  \/ UNCHANGED <<txring, rxring, burst, marks, tableVars, handled>>
         \/ \E q \in Queues, s \in Seq(Frame) : Entering(q, s)
         \/ \E n \in 0 .. Lesser(Len(rxring), BurstRx) : Poll(n)
         \/ LookUnmarked \/ LookPastEnd \/ LookMarked
         \/ \E q \in Queues : Transmit(q)
<1>0. TypeInv /\ BufferTypes /\ RingsBounded /\ OneTxQueue /\ Plain /\ autoIncNum /\ TypeOK
  BY TypeParts DEF BaseInv, TypeInv, Numbering
<1>1. ASSUME NEW l \in Lcores,
             \/ FillAlloc(l) \/ FillFree(l) \/ NoBuffer(l) \/ Fill(l) \/ Number(l)
             \/ Refused(l) \/ TakeBack(l) \/ WaitEnd(l) \/ GiveUp(l)
      PROVE  UNCHANGED <<txring, rxring, burst, marks, tableVars, handled>>
  BY <1>1 DEF FillAlloc, FillFree, NoBuffer, Fill, Number, Refused, TakeBack, WaitEnd, GiveUp,
              nicVars
<1>3. ASSUME NEW l \in Lcores, Send(l)
      PROVE  \E q \in Queues, s \in Seq(Frame) : Entering(q, s)
  <2>1. PICK q \in Queues, s \in Seq(Frame) : q = Queue(l) /\ s = out[l]
    BY <1>3, SendOwner
  <2>2. Accept(q, s) /\ UNCHANGED <<rxring, burst, tableVars, handled>>
    BY <1>3, <2>1 DEF Send
  <2>3. txring' = [txring EXCEPT ![q] = Longer(q, s)]
    BY <1>0, <2>2, Accepted
  <2>4. CASE q.queue = 0
    <3>1. Fresh(s) /\ marks' = marks + 1
      BY <1>3, <2>1, <2>4, SendOwner
    <3>2. \A i \in 1 .. Len(s) : i # 1 => i \in 2 .. Len(s)
      OBVIOUS
    <3> QED
      BY <2>2, <2>3, <3>1, <3>2 DEF Entering, Fresh
  <2>5. CASE q.queue # 0
    <3>1. Unmarked(s) /\ marks' = marks
      BY <1>3, <2>1, <2>5, SendOwner
    <3> QED
      BY <2>2, <2>3, <3>1 DEF Entering, Unmarked
  <2> QED
    BY <2>4, <2>5
<1>4. ASSUME NEW l \in Lcores, FillSend(l) \/ Spin(l)
      PROVE  \E q \in Queues, s \in Seq(Frame) : Entering(q, s)
  <2>1. PICK q \in Queues, s \in Seq(Frame) : q = Queue(l) /\ s = out[l] /\ Unmarked(s)
    BY <1>4, UnmarkedOwner
  <2>2. Accept(q, s) /\ UNCHANGED <<rxring, burst, tableVars, handled, marks>>
    BY <1>4, <2>1 DEF FillSend, Spin
  <2>3. txring' = [txring EXCEPT ![q] = Longer(q, s)]
    BY <1>0, <2>2, Accepted
  <2> QED
    BY <2>1, <2>2, <2>3 DEF Entering, Unmarked
<1>5. ASSUME PollStopped \/ PollEmpty \/ PollBurst
      PROVE  \E n \in 0 .. Lesser(Len(rxring), BurstRx) : Poll(n)
  BY <1>0, <1>5, Polls
<1>6. ASSUME ReportDone \/ Tick \/ UNCHANGED vars
      PROVE  UNCHANGED <<txring, rxring, burst, marks, tableVars, handled>>
  BY <1>6 DEF ReportDone, Tick, vars, nicVars
<1> QED
  BY <1>1, <1>3, <1>4, <1>5, <1>6, StepCases

-----------------------------------------------------------------------------
\* A frame of a longer ring is an old one or the next one.
LEMMA EnteredFrame ==
  ASSUME BaseInv, NEW q \in Queues, NEW s \in Seq(Frame), Entering(q, s)
  PROVE  /\ Longer(q, s) \in Seq(Frame) /\ txring'[q] = Longer(q, s)
         /\ Len(txring[q]) \in Nat
         /\ \A p \in Queues : p # q => txring'[p] = txring[p]
         /\ \A i \in 1 .. Len(Longer(q, s)) :
              \/ i <= Len(txring[q]) /\ i \in 1 .. Len(txring[q]) /\ Longer(q, s)[i] = txring[q][i]
              \/ i > Len(txring[q]) /\ ~Longer(q, s)[i].marked
              \/ /\ i = Len(txring[q]) + 1 /\ marks' = marks + 1
                 /\ Longer(q, s)[i].no = marks /\ Longer(q, s)[i].cntr = marks % WordBase
<1>1. BufferTypes /\ RingsBounded
  BY TypeParts DEF BaseInv, TypeInv
<1>2. PICK m \in Nat, k \in Nat, r \in Seq(Frame) :
        m = Len(txring[q]) /\ k = Taken(q, s) /\ k <= Len(s) /\ r = Longer(q, s)
  BY <1>1, RoomType, Accepted
<1>3. /\ Len(r) = m + k
      /\ \A i \in 1 .. m + k : r[i] = IF i <= m THEN txring[q][i] ELSE s[i - m]
  <2>1. /\ Len(Longer(q, s)) = Len(txring[q]) + Taken(q, s)
        /\ \A i \in 1 .. Len(txring[q]) + Taken(q, s) :
             Longer(q, s)[i] = IF i <= Len(txring[q]) THEN txring[q][i] ELSE s[i - Len(txring[q])]
    BY <1>1, Accepted
  <2> QED
    BY <1>2, <2>1
<1>4. txring'[q] = r /\ \A p \in Queues : p # q => txring'[p] = txring[p]
  BY <1>1, <1>2 DEF Entering, BufferTypes
<1>5. ASSUME NEW i \in 1 .. m + k, ~(i <= m)
      PROVE  \/ ~r[i].marked
             \/ i = m + 1 /\ marks' = marks + 1 /\ r[i].no = marks /\ r[i].cntr = marks % WordBase
  <2>1. i - m \in 1 .. Len(s) /\ (i - m = 1 => i = m + 1)
    BY <1>2, <1>5, LenProperties
  <2>2. r[i] = s[i - m]
    BY <1>3, <1>5
  <2> QED
    BY <2>1, <2>2 DEF Entering
<1>6. \A i \in 1 .. m + k : ~(i <= m) <=> i > m
  OBVIOUS
<1>7. \A i \in 1 .. m + k : i <= m => i \in 1 .. m
  OBVIOUS
<1> QED
  BY <1>2, <1>3, <1>4, <1>5, <1>6, <1>7

\* The card transmits the first frame of a ring.
LEMMA FirstFrame ==
  ASSUME BufferTypes, NEW q \in Queues, Transmit(q)
  PROVE  /\ Head(txring[q]) \in Frame /\ Tail(txring[q]) \in Seq(Frame)
         /\ Head(txring[q]) = txring[q][1]
         /\ Len(txring[q]) \in Nat /\ Len(Tail(txring[q])) = Len(txring[q]) - 1
         /\ 1 \in 1 .. Len(txring[q])
         /\ \A i \in 1 .. Len(Tail(txring[q])) : Tail(txring[q])[i] = txring[q][i + 1]
         /\ \A p \in Queues : txring'[p] = IF p = q THEN Tail(txring[q]) ELSE txring[p]
         /\ rxring' = rxring \/ rxring' = Append(rxring, Head(txring[q]))
<1>1. txring[q] \in Seq(Frame) /\ txring[q] # <<>>
  BY DEF BufferTypes, Transmit
<1>2. Len(txring[q]) \in Nat /\ Len(txring[q]) # 0 /\ Head(txring[q]) = txring[q][1]
  BY <1>1, LenProperties, EmptySeq
<1>3. 1 \in 1 .. Len(txring[q])
  BY <1>2
<1>4. Head(txring[q]) \in Frame
  BY <1>1, <1>2, <1>3, ElementOfSeq
<1>5. /\ Tail(txring[q]) \in Seq(Frame) /\ Len(Tail(txring[q])) = Len(txring[q]) - 1
      /\ \A i \in 1 .. Len(Tail(txring[q])) : Tail(txring[q])[i] = txring[q][i + 1]
  BY <1>1, HeadTailProperties
<1>6. txring' = [txring EXCEPT ![q] = Tail(txring[q])]
      /\ (rxring' = rxring \/ rxring' = Append(rxring, Head(txring[q])))
  BY DEF Transmit
<1>7. \A p \in Queues : txring'[p] = IF p = q THEN Tail(txring[q]) ELSE txring[p]
  BY <1>6 DEF BufferTypes
<1> QED
  BY <1>2, <1>3, <1>4, <1>5, <1>6, <1>7

LEMMA WireStep ==
  ASSUME Numbering, BaseInv, NumberInv, [Next]_vars
  PROVE  WireInv'
<1>0. /\ TypeInv /\ BufferTypes /\ TypeOK /\ AllSent(burst) /\ AllSent(rxring)
      /\ \A q \in Queues : AllSent(txring[q])
      /\ marks \in Nat
  BY TypeParts DEF BaseInv, TypeInv, NumberInv, WireInv, TypeOK
<1>1. CASE UNCHANGED <<txring, rxring, burst, marks>>
  BY <1>1 DEF NumberInv, WireInv, AllSent, Wire
<1>2. ASSUME NEW q \in Queues, NEW s \in Seq(Frame), Entering(q, s) PROVE WireInv'
  <2>1. marks' \in Nat /\ marks <= marks'
    BY <1>0, <1>2 DEF Entering
  <2>2. ASSUME NEW u \in Seq(Frame), AllSent(u), NEW i \in 1 .. Len(u), u[i].marked
        PROVE  u[i].no < marks' /\ u[i].cntr = u[i].no % WordBase
    <3>1. u[i] \in Frame
      BY ElementOfSeq
    <3>2. u[i].no \in Nat /\ u[i].no < marks
      BY <2>2, <3>1 DEF Frame, AllSent, Wire
    <3> QED
      BY <1>0, <2>1, <2>2, <3>2 DEF AllSent, Wire
  <2>3. (AllSent(burst))' /\ (AllSent(rxring))'
    BY <1>0, <1>2, <2>2 DEF AllSent, Wire, BufferTypes, Entering
  <2>4. ASSUME NEW p \in Queues PROVE (AllSent(txring[p]))'
    <3>1. CASE p # q
      <4>1. txring'[p] = txring[p] /\ txring[p] \in Seq(Frame)
        BY <1>0, <1>2, <3>1, EnteredFrame DEF BufferTypes
      <4> QED
        BY <1>0, <2>2, <4>1 DEF AllSent, Wire
    <3>2. CASE p = q
      <4>1. PICK r \in Seq(Frame) : r = Longer(q, s) /\ txring'[p] = r
        BY <1>2, <3>2, EnteredFrame
      <4>2. ASSUME NEW i \in 1 .. Len(r), r[i].marked
            PROVE  r[i].no < marks' /\ r[i].cntr = r[i].no % WordBase
        <5>1. CASE i \in 1 .. Len(txring[q]) /\ r[i] = txring[q][i]
          BY <1>0, <2>2, <4>2, <5>1 DEF BufferTypes
        <5>2. CASE marks' = marks + 1 /\ r[i].no = marks /\ r[i].cntr = marks % WordBase
          BY <1>0, <5>2
        <5> QED
          BY <1>2, <4>1, <4>2, <5>1, <5>2, EnteredFrame
      <4> QED
        BY <4>1, <4>2 DEF AllSent, Wire
    <3> QED
      BY <3>1, <3>2
  <2> QED
    BY <2>3, <2>4 DEF WireInv
<1>3. ASSUME NEW n \in 0 .. Lesser(Len(rxring), BurstRx), Poll(n) PROVE WireInv'
  <2>1. UNCHANGED <<txring, marks>>
    BY <1>3 DEF Poll
  <2>2. /\ n \in Nat /\ n <= Len(rxring) /\ Len(burst') = n /\ Len(rxring') = Len(rxring) - n
        /\ \A i \in 1 .. n : burst'[i] = rxring[i]
        /\ \A i \in 1 .. Len(rxring) - n : rxring'[i] = rxring[n + i]
        /\ Len(rxring) \in Nat
    BY <1>0, <1>3, PollType, LenProperties DEF BufferTypes
  <2>3. /\ \A i \in 1 .. n : i \in 1 .. Len(rxring)
        /\ \A i \in 1 .. Len(rxring) - n : n + i \in 1 .. Len(rxring)
    BY <2>2
  <2>4. PICK b, r : b = burst' /\ r = rxring'
    OBVIOUS
  <2>5. (\A i \in 1 .. Len(b) : Wire(b[i])) /\ \A i \in 1 .. Len(r) : Wire(r[i])
    BY <1>0, <2>2, <2>3, <2>4 DEF AllSent
  <2> QED
    BY <1>0, <2>1, <2>4, <2>5 DEF WireInv, AllSent, Wire
<1>4. CASE LookUnmarked \/ LookPastEnd \/ LookMarked
  <2>1. Look /\ UNCHANGED <<txring, rxring, marks>>
    BY <1>4, Looks DEF Look, nicVars
  <2>2. /\ Len(burst) \in Nat /\ Len(burst') = Len(burst) - 1
        /\ \A i \in 1 .. Len(burst) - 1 : burst'[i] = burst[i + 1]
    BY <1>0, <2>1, LookType
  <2>3. \A i \in 1 .. Len(burst) - 1 : i + 1 \in 1 .. Len(burst)
    BY <2>2
  <2> QED
    BY <1>0, <2>1, <2>2, <2>3 DEF WireInv, AllSent, Wire
<1>5. ASSUME NEW q \in Queues, Transmit(q) PROVE WireInv'
  <2>1. UNCHANGED <<burst, marks>>
    BY <1>5 DEF Transmit
  <2>2. rxring \in Seq(Frame)
    BY <1>0 DEF BufferTypes
  <2>3. PICK f \in Frame, t \in Seq(Frame) :
          /\ f = Head(txring[q]) /\ t = Tail(txring[q]) /\ f = txring[q][1]
          /\ Len(txring[q]) \in Nat /\ Len(t) = Len(txring[q]) - 1
          /\ 1 \in 1 .. Len(txring[q])
          /\ \A i \in 1 .. Len(t) : t[i] = txring[q][i + 1]
    BY <1>0, <1>5, FirstFrame
  <2>4. \A p \in Queues : txring'[p] = IF p = q THEN t ELSE txring[p]
    BY <1>0, <1>5, <2>3, FirstFrame
  <2>5. AllSent(t)
    <3>1. \A i \in 1 .. Len(t) : i + 1 \in 1 .. Len(txring[q])
      BY <2>3
    <3> QED
      BY <1>0, <2>3, <3>1 DEF AllSent
  <2>6. Wire(f)
    BY <1>0, <2>3 DEF AllSent
  <2>7. (AllSent(rxring))'
    <3>1. CASE rxring' = rxring
      BY <1>0, <2>1, <3>1 DEF AllSent, Wire
    <3>2. CASE rxring' = Append(rxring, f)
      <4>1. \A i \in 1 .. Len(rxring') : (i \in 1 .. Len(rxring) /\ rxring'[i] = rxring[i]) \/ rxring'[i] = f
        BY <2>2, <2>3, <3>2, AppendProperties, LenProperties
      <4> QED
        BY <1>0, <2>1, <2>6, <4>1 DEF AllSent, Wire
    <3> QED
      BY <1>0, <1>5, <2>3, <3>1, <3>2, FirstFrame
  <2>8. \A p \in Queues : (AllSent(txring[p]))'
    BY <1>0, <2>1, <2>4, <2>5 DEF AllSent, Wire
  <2> QED
    BY <1>0, <2>1, <2>7, <2>8 DEF WireInv, AllSent, Wire
<1> QED
  BY <1>1, <1>2, <1>3, <1>4, <1>5, FrameCases

\* Steps of others than the owner leave the owner where it is.
LEMMA OwnerStays ==
  ASSUME NumberInv, NEW l \in TxLcores,
         UNCHANGED <<reg, pktcounter, out, marks>>,
         \/ pc'[l] = pc[l] \/ pc'[l] \in {"wait", "grace"}
         \/ pc[l] \in InOrder /\ pc'[l] \in InOrder \ UnmarkedOnly
  PROVE  (IF TxQueues[l][1].queue = 0 THEN Numbered(l) ELSE Unmarked(out[l]))'
<1>1. IF TxQueues[l][1].queue = 0 THEN Numbered(l) ELSE Unmarked(out[l])
  BY DEF NumberInv, OwnerInv
<1>2. CASE TxQueues[l][1].queue # 0
  BY <1>1, <1>2 DEF Unmarked
<1>3. CASE TxQueues[l][1].queue = 0
  <2>1. CASE pc'[l] = pc[l]
    BY <1>1, <1>3, <2>1 DEF Numbered, Fresh, Unmarked
  <2>2. CASE pc'[l] \in {"wait", "grace"}
    BY <1>3, <2>2 DEF Numbered, InOrder, UnmarkedOnly
  <2>3. CASE pc[l] \in InOrder /\ pc'[l] \in InOrder \ UnmarkedOnly
    BY <1>1, <1>3, <2>3 DEF Numbered, InOrder
  <2> QED
    BY <2>1, <2>2, <2>3
<1> QED
  BY <1>2, <1>3

\* The numbers before and after a burst.
LEMMA NumberArith ==
  ASSUME Numbering, BaseInv, marks <= TrainLen
  PROVE  /\ marks \in Nat /\ TrainLen \in Nat /\ marks + 1 \in Nat
         /\ (marks + 1) % CounterBase = marks + 1
         /\ ((marks + 1) - 1) % CounterBase = marks
         /\ (TrainSent(marks + 1) <=> marks = TrainLen)
         /\ (~TrainSent(marks + 1) <=> marks < TrainLen)
<1>1. PICK m \in Nat, n \in Nat, c \in Nat :
        m = marks /\ n = TrainLen /\ c = CounterBase /\ n + 1 < c /\ m <= n
  BY Numbers DEF BaseInv, TypeInv, TypeOK, Numbering
<1>2. (m + 1) % c = m + 1 /\ ((m + 1) - 1) % c = m
  BY <1>1
<1>3. (m + 1 > n <=> m = n) /\ (~(m + 1 > n) <=> m < n)
  BY <1>1
<1> QED
  BY <1>1, <1>2, <1>3 DEF TrainSent

LEMMA OwnerTx ==
  ASSUME Numbering, BaseInv, NumberInv, NEW l \in Lcores,
         \/ FillAlloc(l) \/ FillSend(l) \/ FillFree(l)
         \/ NoBuffer(l) \/ Fill(l) \/ Number(l) \/ Send(l) \/ Spin(l)
         \/ Refused(l) \/ TakeBack(l) \/ WaitEnd(l) \/ GiveUp(l)
  PROVE  OwnerInv' /\ marks' <= TrainLen
<1>0. /\ TypeInv /\ BufferTypes /\ RingsBounded /\ ControlTypes /\ OneTxQueue /\ Plain
      /\ autoIncNum /\ TypeOK /\ marks <= TrainLen /\ LcoreTypes
  BY TypeParts DEF BaseInv, TypeInv, Numbering, NumberInv
<1>2. CASE NoBuffer(l) \/ GiveUp(l)
  <2>1. UNCHANGED <<reg, pktcounter, out, marks, pc>>
    BY <1>2 DEF NoBuffer, GiveUp, txVars
  <2> QED
    BY <1>0, <2>1, OwnerStays DEF OwnerInv
<1>3. CASE WaitEnd(l)
  <2>1. UNCHANGED <<reg, pktcounter, out, marks>>
    BY <1>3 DEF WaitEnd, txVars
  <2>2. Moves(l) /\ pc'[l] = "grace"
    BY <1>0, <1>3, TxMoves
  <2>3. \A m \in TxLcores : pc'[m] = pc[m] \/ pc'[m] \in {"wait", "grace"}
    BY <2>2 DEF Moves, TxLcores
  <2> QED
    BY <1>0, <2>1, <2>3, OwnerStays DEF OwnerInv
<1>1. CASE \/ FillAlloc(l) \/ FillSend(l) \/ FillFree(l)
           \/ Fill(l) \/ Number(l) \/ Send(l) \/ Spin(l) \/ Refused(l) \/ TakeBack(l)
  <2>1. pc[l] \in Sending
    BY <1>1 DEF FillAlloc, FillSend, FillFree, Fill, Number, Send, Spin, Refused, TakeBack,
                Sending
  <2>2. /\ l \in TxLcores /\ txi[l] = 1 /\ Queue(l) = TxQueues[l][1] /\ Queue(l) \in Queues
        /\ \A m \in TxLcores : m = l
    BY <1>0, <2>1, SenderOwns, OneOwner
  <2> DEFINE q == Queue(l)
  <2>3. IF q.queue = 0 THEN Numbered(l) ELSE Unmarked(out[l])
    BY <2>2 DEF NumberInv, OwnerInv
  <2> SUFFICES /\ q.queue = 0 => Numbered(l)'
               /\ q.queue # 0 => Unmarked(out'[l])
               /\ marks' <= TrainLen
    BY <2>2 DEF OwnerInv, Unmarked
  <2>10. CASE FillAlloc(l)
    <3>1. PICK n : n = Lesser(TxRing, free)
      OBVIOUS
    <3>2. n \in Nat
      BY <1>0, <3>1, LesserNat, Numbers DEF BufferTypes
    <3>3. /\ pc[l] = "fill" /\ pc'[l] = "fillsend" /\ UNCHANGED <<pktcounter, marks>>
          /\ out'[l] = [i \in 1 .. n |-> OtherPacket(q)]
      BY <1>0, <2>10, <3>1 DEF FillAlloc, BufferTypes, LcoreTypes
    <3>4. Unmarked(out'[l])
      BY <1>0, <2>2, <3>2, <3>3, NewBurstRead
    <3>5. ASSUME q.queue = 0 PROVE Numbered(l)'
      <4>1. pktcounter = marks
        BY <2>3, <3>3, <3>5 DEF Numbered, InOrder
      <4> QED
        BY <3>3, <3>4, <4>1 DEF Numbered, InOrder, UnmarkedOnly, Unmarked
    <3> QED
      BY <1>0, <3>3, <3>4, <3>5
  <2>11. CASE FillFree(l)
    <3>1. /\ pc[l] = "fillfree" /\ UNCHANGED <<pktcounter, marks>> /\ out'[l] = <<>>
      BY <1>0, <2>11 DEF FillFree, BufferTypes
    <3>2. pc'[l] \in {"fill", "tx", "poll"}
      BY <1>0, <2>11, TxMoves
    <3>3. ASSUME q.queue = 0 PROVE Numbered(l)'
      BY <2>3, <3>1, <3>2, <3>3 DEF Numbered, InOrder, UnmarkedOnly
    <3> QED
      BY <1>0, <3>1, <3>3, EmptySeq DEF Unmarked
  <2>4. CASE Fill(l)
    <3>1. PICK n : n = Allocated
      OBVIOUS
    <3>2. n \in Nat
      BY <1>0, <3>1, LesserNat, Numbers DEF Allocated, BufferTypes
    <3>3. /\ pc[l] = "tx" /\ (n > 0 \/ q.queue # 0) /\ UNCHANGED <<pktcounter, marks>>
          /\ out'[l] = NewBurst(q, n)
      BY <1>0, <2>4, <3>1 DEF Fill, BufferTypes
    <3>4. q.queue # 0 => Unmarked(NewBurst(q, n))
      BY <1>0, <2>2, <3>2, NewBurstRead
    <3>5. ASSUME q.queue = 0 PROVE Numbered(l)'
      <4>1. pktcounter = marks
        BY <2>3, <3>3, <3>5 DEF Numbered, InOrder
      <4>2. Fresh(NewBurst(q, n))
        BY <1>0, <2>2, <3>2, <3>3, <3>5, <4>1, NewBurstRead
      <4>3. pc'[l] = "number" /\ reg'[l] = pktcounter
        BY <1>0, <2>4, <3>5 DEF Fill, LcoreTypes, ControlTypes
      <4> QED
        BY <3>3, <4>1, <4>2, <4>3 DEF Numbered, Fresh, InOrder, UnmarkedOnly
    <3> QED
      BY <1>0, <3>3, <3>4, <3>5
  <2>5. CASE Number(l)
    <3>1. /\ pc[l] = "number" /\ UNCHANGED <<out, marks>>
          /\ pktcounter' = (reg[l] + 1) % CounterBase
          /\ \/ TrainSent(pktcounter') /\ pc'[l] = "wait"
             \/ ~TrainSent(pktcounter') /\ pc'[l] = "send"
      BY <1>0, <2>5 DEF Number, LcoreTypes
    <3>2. ASSUME q.queue = 0 PROVE Numbered(l)'
      <4>1. reg[l] = marks /\ Fresh(out[l])
        BY <2>3, <3>1, <3>2 DEF Numbered
      <4>2. pktcounter' = marks + 1
        BY <1>0, <3>1, <4>1, NumberArith
      <4>3. CASE pc'[l] = "wait"
        BY <4>3 DEF Numbered, InOrder, UnmarkedOnly
      <4>4. CASE pc'[l] = "send" /\ ~TrainSent(pktcounter')
        <5>1. marks < TrainLen
          BY <1>0, <4>2, <4>4, NumberArith
        <5> QED
          BY <3>1, <4>1, <4>2, <4>4, <5>1 DEF Numbered, Fresh, InOrder, UnmarkedOnly
      <4> QED
        BY <3>1, <4>3, <4>4
    <3> QED
      BY <1>0, <2>3, <3>1, <3>2 DEF Unmarked
  <2>6. CASE Send(l)
    <3>1. /\ out[l] \in Seq(Frame) /\ Room(q) > 0
          /\ out' = [out EXCEPT ![l] = Rest(q, out[l])]
          /\ q.queue = 0 => Fresh(out[l]) /\ marks < TrainLen /\ marks' = marks + 1 /\ pktcounter = marks + 1
          /\ q.queue # 0 => Unmarked(out[l]) /\ marks' = marks
      BY <2>6, SendOwner
    <3>2. Unmarked(Rest(q, out[l]))
      BY <1>0, <2>2, <3>1, RestUnmarked
    <3>3. out'[l] = Rest(q, out[l])
      BY <1>0, <3>1 DEF BufferTypes
    <3>4. pc'[l] \in {"spin", "tx", "poll"} /\ pktcounter' = pktcounter
      BY <1>0, <2>6, TxMoves DEF Send
    <3>5. marks' <= TrainLen
      <4>1. marks \in Nat /\ TrainLen \in Nat
        BY <1>0, NumberArith
      <4> QED
        BY <1>0, <3>1, <4>1
    <3>6. ASSUME q.queue = 0 PROVE Numbered(l)'
      BY <3>1, <3>2, <3>3, <3>4, <3>6 DEF Numbered, InOrder, UnmarkedOnly, Unmarked
    <3> QED
      BY <3>2, <3>3, <3>5, <3>6
  <2>7. CASE FillSend(l) \/ Spin(l)
    <3>1. /\ out[l] \in Seq(Frame) /\ Unmarked(out[l])
          /\ out' = [out EXCEPT ![l] = Rest(q, out[l])]
      BY <2>7, UnmarkedOwner
    <3>6. UNCHANGED <<pktcounter, marks>> /\ pc[l] \in UnmarkedOnly
      BY <2>7 DEF FillSend, Spin, UnmarkedOnly
    <3>2. Unmarked(Rest(q, out[l]))
      BY <1>0, <2>2, <3>1, RestUnmarked
    <3>3. out'[l] = Rest(q, out[l])
      BY <1>0, <3>1 DEF BufferTypes
    <3>4. pc'[l] \in {"fillfree", "spin", "tx", "poll"}
      BY <1>0, <2>7, TxMoves
    <3>5. ASSUME q.queue = 0 PROVE Numbered(l)'
      BY <2>3, <3>2, <3>3, <3>4, <3>5, <3>6 DEF Numbered, InOrder, UnmarkedOnly, Unmarked
    <3> QED
      BY <1>0, <3>2, <3>3, <3>5, <3>6
  <2>8. CASE Refused(l)
    <3>1. /\ pc[l] = "send" /\ UNCHANGED <<out, pktcounter, marks>>
          /\ reg'[l] = pktcounter /\ pc'[l] = "takeback"
      BY <1>0, <2>8 DEF Refused, LcoreTypes, ControlTypes
    <3>2. ASSUME q.queue = 0 PROVE Numbered(l)'
      BY <2>3, <3>1, <3>2 DEF Numbered, InOrder, UnmarkedOnly
    <3> QED
      BY <1>0, <2>3, <3>1, <3>2 DEF Unmarked
  <2>9. CASE TakeBack(l)
    <3>1. /\ pc[l] = "takeback" /\ marks' = marks /\ out'[l] = <<>>
          /\ pktcounter' = (reg[l] - 1) % CounterBase
      BY <1>0, <2>9 DEF TakeBack, BufferTypes
    <3>2. pc'[l] \in {"tx", "poll"}
      BY <1>0, <2>9, TxMoves
    <3>3. ASSUME q.queue = 0 PROVE Numbered(l)'
      <4>1. reg[l] = marks + 1
        BY <2>3, <3>1, <3>3 DEF Numbered
      <4>2. pktcounter' = marks
        BY <1>0, <3>1, <4>1, NumberArith
      <4> QED
        BY <3>1, <3>2, <4>2 DEF Numbered, InOrder, UnmarkedOnly
    <3> QED
      BY <1>0, <3>1, <3>3, EmptySeq DEF Unmarked
  <2> QED
    BY <1>1, <2>4, <2>5, <2>6, <2>7, <2>8, <2>9, <2>10, <2>11
<1> QED
  BY <1>1, <1>2, <1>3

LEMMA NumberStep == Numbering /\ BaseInv /\ NumberInv /\ [Next]_vars => NumberInv'
<1> SUFFICES ASSUME Numbering, BaseInv, NumberInv, [Next]_vars PROVE NumberInv'
  OBVIOUS
<1>0. TypeInv /\ OneTxQueue /\ marks <= TrainLen
  BY DEF BaseInv, Numbering, NumberInv
<1>1. CASE RxActions
  <2>1. UNCHANGED <<reg, pktcounter, out, marks>>
    <3>1. CASE PollStopped \/ PollEmpty \/ PollBurst
      BY <3>1 DEF PollStopped, PollEmpty, PollBurst, Poll, txVars
    <3>2. CASE LookUnmarked \/ LookPastEnd \/ LookMarked
      BY <3>2, Looks DEF Look, txVars
    <3> QED
      BY <1>1, <3>1, <3>2 DEF RxActions, ReportDone, txVars
  <2>2. /\ Moves(RxLcore)
        /\ \/ pc' = pc
           \/ pc[RxLcore] \in {"poll", "record"} /\ pc'[RxLcore] \in {"poll", "tx", "record", "report"}
    <3>1. CASE PollStopped \/ PollEmpty \/ PollBurst
      BY <1>0, <3>1, RxMoves, AfterRxPlace DEF PollStopped, PollEmpty, PollBurst, Poll
    <3>2. CASE LookUnmarked \/ LookPastEnd \/ LookMarked
      BY <1>0, <3>2, RxMoves, AfterRxPlace, Looks DEF Look
    <3>3. CASE ReportDone
      BY <1>0, <3>3, RxMoves
    <3> QED
      BY <1>1, <3>1, <3>2, <3>3 DEF RxActions
  <2>3. \A m \in TxLcores : \/ pc'[m] = pc[m]
                            \/ pc[m] \in InOrder /\ pc'[m] \in InOrder \ UnmarkedOnly
    BY <2>2 DEF Moves, InOrder, UnmarkedOnly, TxLcores
  <2>4. OwnerInv'
    BY <2>1, <2>3, OwnerStays DEF OwnerInv
  <2> QED
    BY <1>0, <2>1, <2>4, WireStep DEF NumberInv
<1>2. ASSUME NEW l \in Lcores,
             \/ FillAlloc(l) \/ FillSend(l) \/ FillFree(l)
             \/ NoBuffer(l) \/ Fill(l) \/ Number(l) \/ Send(l) \/ Spin(l)
             \/ Refused(l) \/ TakeBack(l) \/ WaitEnd(l) \/ GiveUp(l)
      PROVE  NumberInv'
  BY <1>2, OwnerTx, WireStep DEF NumberInv
<1>3. CASE (\E q \in Queues : Transmit(q)) \/ Tick \/ UNCHANGED vars
  <2>1. UNCHANGED <<pc, reg, pktcounter, out, marks>>
    BY <1>3 DEF Transmit, Tick, vars, txVars
  <2>2. OwnerInv'
    BY <2>1, OwnerStays DEF OwnerInv
  <2> QED
    BY <1>0, <2>1, <2>2, WireStep DEF NumberInv
<1> QED
  BY <1>1, <1>2, <1>3, StepCases DEF RxActions

LEMMA NumberInit == Init => NumberInv
<1> SUFFICES ASSUME Init PROVE NumberInv
  OBVIOUS
<1>1. /\ marks = 0 /\ pktcounter = 0 /\ burst = <<>> /\ rxring = <<>>
      /\ \A l \in Lcores : out[l] = <<>> /\ pc[l] \in {"fill", "tx", "poll"}
  BY DEF Init, Begin, AfterTx
<1>2. Len(<<>>) = 0
  BY EmptySeq
<1>3. ASSUME NEW q \in Queues PROVE AllSent(txring[q])
  <2>1. PICK f : f = OtherPacket(q)
    OBVIOUS
  <2>2. txring[q] = <<f>> /\ f.marked = FALSE
    BY <2>1, OtherUnmarked DEF Init
  <2>3. Len(<<f>>) = 1 /\ <<f>>[1] = f
    OBVIOUS
  <2>4. \A i \in 1 .. 1 : i = 1
    OBVIOUS
  <2> QED
    BY <2>2, <2>3, <2>4 DEF AllSent, Wire
<1>4. AllSent(burst) /\ AllSent(rxring)
  BY <1>1, <1>2 DEF AllSent
<1>5. OwnerInv
  BY <1>1, <1>2 DEF OwnerInv, TxLcores, Numbered, Unmarked, InOrder, UnmarkedOnly
<1>6. marks <= TrainLen
  BY <1>1, Numbers
<1> QED
  BY <1>3, <1>4, <1>5, <1>6 DEF NumberInv, WireInv

LEMMA NumberAlways == Numbering => (Spec => []NumberInv)
<1> SUFFICES ASSUME Numbering PROVE Spec => []NumberInv
  OBVIOUS
<1>1. BaseInv /\ NumberInv /\ [Next]_vars => NumberInv'
  BY NumberStep
<1> QED
  BY <1>1, NumberInit, BaseAlways, PTL DEF Spec

\* runtime.c:706-712, 732.  With one transmission queue the numbers on the
\* wire are consecutive, however often a burst is refused and its number is
\* taken back, for every length of the train and width of the field.
THEOREM StsConsecutiveNumbers == Numbering => (Spec => []ConsecutiveNumbers)
<1> SUFFICES ASSUME Numbering PROVE Spec => []ConsecutiveNumbers
  OBVIOUS
<1>1. BaseInv /\ NumberInv => ConsecutiveNumbers
  <2> SUFFICES ASSUME BaseInv, NumberInv, NEW q \in Queues, NEW f \in OnTheWay[q], f.marked
               PROVE  f.cntr = f.no % WordBase
    BY DEF ConsecutiveNumbers
  <2>1. PICK i \in DOMAIN txring[q] : f = txring[q][i]
    BY DEF OnTheWay
  <2>2. i \in 1 .. Len(txring[q])
    BY TypeParts, LenProperties DEF BaseInv, TypeInv, BufferTypes
  <2> QED
    BY <2>1, <2>2 DEF NumberInv, WireInv, AllSent, Wire
<1> QED
  BY <1>1, NumberAlways, BaseAlways, PTL

\* Each row tells the packet whose number it has.
LEMMA RowStep ==
  ASSUME Numbering, BaseInv, NumberInv, TrainLen <= WordBase, RowIsPacket, [Next]_vars
  PROVE  RowIsPacket'
<1>0. TypeInv /\ autoIncNum /\ OneTxQueue
  BY DEF BaseInv, Numbering
<1>1. CASE LookMarked
  <2>1. PICK k \in Nat, row \in Row :
          /\ k = Head(burst).cntr
          /\ row = [q |-> Head(burst).q, no |-> Head(burst).no, totalBytes |-> bytecounter + 1]
          /\ latencyStats' = Store(latencyStats, k, row)
    BY <1>0, <1>1, MarkedRow
  <2>2. Head(burst).no \in Nat /\ Head(burst).no < marks /\ k = Head(burst).no % WordBase
    <3>1. Head(burst) \in Frame /\ Head(burst) = burst[1] /\ 1 \in 1 .. Len(burst)
      BY <1>0, <1>1, LookType DEF LookMarked
    <3>2. Head(burst).marked
      BY <1>1 DEF LookMarked
    <3> QED
      BY <2>1, <3>1, <3>2 DEF Frame, NumberInv, WireInv, AllSent, Wire
  <2>3. PICK n \in Nat, m \in Nat, a \in Nat, w \in Nat :
          /\ n = Head(burst).no /\ m = marks /\ a = TrainLen /\ w = WordBase
          /\ n < m /\ m <= a /\ a <= w
    BY <2>2, Numbers, FormatAssumption DEF BaseInv, TypeInv, TypeOK, NumberInv
  <2>4. n % w = n
    BY <2>3
  <2>5. row.no = k
    BY <2>1, <2>2, <2>3, <2>4
  <2> QED
    BY <2>1, <2>5 DEF RowIsPacket, Store
<1>2. CASE ~LookMarked
  <2>1. latencyStats' = latencyStats
    BY <1>0, <1>2, NoRecord DEF LookUnmarked, LookPastEnd, tableVars
  <2> QED
    BY <2>1 DEF RowIsPacket
<1> QED
  BY <1>1, <1>2

\* runtime.c:497, 505-509.  The row a packet is written to is the one of its
\* number, as long as the number of the last packet fits in its field.
THEOREM StsRowIsPacket == Numbering /\ TrainLen <= WordBase => (Spec => []RowIsPacket)
<1> SUFFICES ASSUME Numbering, TrainLen <= WordBase PROVE Spec => []RowIsPacket
  OBVIOUS
<1>1. Init => RowIsPacket
  BY DEF Init, RowIsPacket
<1>2. BaseInv /\ NumberInv /\ RowIsPacket /\ [Next]_vars => RowIsPacket'
  BY RowStep
<1> QED
  BY <1>1, <1>2, NumberAlways, BaseAlways, PTL DEF Spec

-----------------------------------------------------------------------------
(***************************************************************************)
(* Order.  Marked packets travel through the rings and the burst into the  *)
(* table without overtaking each other; frames may be lost on the wire.    *)
(***************************************************************************)
Sorted(s) ==
  \A i, j \in 1 .. Len(s) : i < j /\ s[i].marked /\ s[j].marked => s[i].no < s[j].no

\* The packets of t are behind those of s.
Precede(s, t) ==
  \A i \in 1 .. Len(s), j \in 1 .. Len(t) : s[i].marked /\ t[j].marked => s[i].no < t[j].no

\* The packets of s are behind those of the table.
RowsPrecede(s) ==
  \A k \in DOMAIN latencyStats, i \in 1 .. Len(s) : s[i].marked => latencyStats[k].no < s[i].no

OrderInv ==
  /\ \A k \in DOMAIN latencyStats : latencyStats[k].no < marks
  /\ Sorted(burst) /\ RowsPrecede(burst)
  /\ Sorted(rxring) /\ RowsPrecede(rxring) /\ Precede(burst, rxring)
  /\ \A q \in Queues : /\ Sorted(txring[q]) /\ RowsPrecede(txring[q])
                       /\ Precede(burst, txring[q]) /\ Precede(rxring, txring[q])

\* t is a part of s, from its (n + 1)-th frame on.
PartOf(t, s, n) == n + Len(t) <= Len(s) /\ \A i \in 1 .. Len(t) : t[i] = s[n + i]

LEMMA OrderPart ==
  ASSUME NEW s \in Seq(Frame), NEW t \in Seq(Frame), NEW n \in Nat, PartOf(t, s, n)
  PROVE  /\ Sorted(s) => Sorted(t)
         /\ RowsPrecede(s) => RowsPrecede(t)
         /\ \A u : Precede(s, u) => Precede(t, u)
         /\ \A u : Precede(u, s) => Precede(u, t)
<1>1. /\ Len(s) \in Nat /\ Len(t) \in Nat
      /\ \A i \in 1 .. Len(t) : n + i \in 1 .. Len(s) /\ t[i] = s[n + i]
  BY LenProperties DEF PartOf
<1>2. Sorted(s) => Sorted(t)
  <2> SUFFICES ASSUME Sorted(s), NEW i \in 1 .. Len(t), NEW j \in 1 .. Len(t), i < j,
                      t[i].marked, t[j].marked
               PROVE  t[i].no < t[j].no
    BY DEF Sorted
  <2>1. n + i < n + j
    BY <1>1
  <2> QED
    BY <1>1, <2>1 DEF Sorted
<1>3. RowsPrecede(s) => RowsPrecede(t)
  BY <1>1 DEF RowsPrecede
<1>4. \A u : Precede(s, u) => Precede(t, u)
  BY <1>1 DEF Precede
<1>5. \A u : Precede(u, s) => Precede(u, t)
  BY <1>1 DEF Precede
<1> QED
  BY <1>2, <1>3, <1>4, <1>5

\* A sequence with one more frame.
LEMMA Appended ==
  ASSUME NEW s \in Seq(Frame), NEW f \in Frame
  PROVE  /\ Append(s, f) \in Seq(Frame) /\ Len(s) \in Nat
         /\ \A i \in 1 .. Len(Append(s, f)) :
              \/ i \in 1 .. Len(s) /\ Append(s, f)[i] = s[i]
              \/ i = Len(s) + 1 /\ Append(s, f)[i] = f
  BY LenProperties, AppendProperties

\* Frames enter a transmission ring: a marked one is behind all others.
LEMMA OrderEntering ==
  ASSUME BaseInv, WireInv, OrderInv, NEW q \in Queues, NEW s \in Seq(Frame), Entering(q, s)
  PROVE  OrderInv'
<1>0. BufferTypes /\ marks \in Nat /\ TableTypes
  BY TypeParts DEF BaseInv, TypeInv, TableTypes
<1>1. UNCHANGED <<rxring, burst, latencyStats>> /\ marks' \in Nat /\ marks <= marks'
  BY <1>0 DEF Entering, tableVars
<1>2. \A k \in DOMAIN latencyStats : latencyStats[k].no \in Nat /\ latencyStats[k].no < marks
  BY <1>0 DEF OrderInv, TableTypes, Row
<1>3. \A k \in DOMAIN latencyStats : latencyStats[k].no < marks'
  BY <1>0, <1>1, <1>2
<1>4. PICK r \in Seq(Frame) : r = Longer(q, s) /\ txring'[q] = r
  BY EnteredFrame
<1>5. ASSUME NEW i \in 1 .. Len(r), r[i].marked
      PROVE  \/ i \in 1 .. Len(txring[q]) /\ r[i] = txring[q][i]
             \/ i = Len(txring[q]) + 1 /\ r[i].no = marks
  BY <1>4, <1>5, EnteredFrame
<1>6. \A i \in 1 .. Len(txring[q]) : txring[q][i].marked => txring[q][i].no < marks
  BY DEF WireInv, AllSent, Wire
<1>7. Sorted(r)
  <2> SUFFICES ASSUME NEW i \in 1 .. Len(r), NEW j \in 1 .. Len(r), i < j, r[i].marked, r[j].marked
               PROVE  r[i].no < r[j].no
    BY DEF Sorted
  <2>1. Len(txring[q]) \in Nat /\ Len(r) \in Nat
    BY <1>0, LenProperties DEF BufferTypes
  <2>2. CASE j \in 1 .. Len(txring[q]) /\ r[j] = txring[q][j]
    <3>1. i # Len(txring[q]) + 1
      BY <2>1, <2>2
    <3>2. i \in 1 .. Len(txring[q]) /\ r[i] = txring[q][i]
      BY <1>5, <3>1
    <3> QED
      BY <2>2, <3>2 DEF OrderInv, Sorted
  <2>3. CASE j = Len(txring[q]) + 1 /\ r[j].no = marks
    <3>1. i # Len(txring[q]) + 1
      BY <2>1, <2>3
    <3>2. i \in 1 .. Len(txring[q]) /\ r[i] = txring[q][i]
      BY <1>5, <3>1
    <3> QED
      BY <1>6, <2>3, <3>2
  <2> QED
    BY <1>5, <2>2, <2>3
<1>8. RowsPrecede(r)
  BY <1>2, <1>5 DEF OrderInv, RowsPrecede
<1>9. ASSUME NEW t, AllSent(t), Precede(t, txring[q]) PROVE Precede(t, r)
  BY <1>5, <1>9 DEF Precede, AllSent, Wire
<1>10. Precede(burst, r) /\ Precede(rxring, r)
  BY <1>9 DEF WireInv, OrderInv
<1>11. ASSUME NEW p \in Queues
       PROVE  (/\ Sorted(txring[p]) /\ RowsPrecede(txring[p])
               /\ Precede(burst, txring[p]) /\ Precede(rxring, txring[p]))'
  <2>1. CASE p = q
    BY <1>1, <1>4, <1>7, <1>8, <1>10, <2>1 DEF Sorted, RowsPrecede, Precede
  <2>2. CASE p # q
    <3>1. txring'[p] = txring[p]
      BY <2>2, EnteredFrame
    <3> QED
      BY <1>1, <3>1 DEF OrderInv, Sorted, RowsPrecede, Precede
  <2> QED
    BY <2>1, <2>2
<1>12. (/\ Sorted(burst) /\ RowsPrecede(burst)
        /\ Sorted(rxring) /\ RowsPrecede(rxring) /\ Precede(burst, rxring))'
  BY <1>1 DEF OrderInv, Sorted, RowsPrecede, Precede
<1> QED
  BY <1>1, <1>3, <1>11, <1>12 DEF OrderInv

\* A poll cuts the receive ring in two.
LEMMA OrderPoll ==
  ASSUME BaseInv, OrderInv, NEW n \in 0 .. Lesser(Len(rxring), BurstRx), Poll(n)
  PROVE  OrderInv'
<1>0. UNCHANGED <<txring, latencyStats, marks>> /\ BufferTypes
  BY TypeParts DEF Poll, tableVars, BaseInv, TypeInv
<1>1. /\ n \in Nat /\ n <= Len(rxring) /\ rxring \in Seq(Frame) /\ Len(rxring) \in Nat
      /\ burst' \in Seq(Frame) /\ Len(burst') = n
      /\ rxring' \in Seq(Frame) /\ Len(rxring') = Len(rxring) - n
      /\ \A i \in 1 .. n : burst'[i] = rxring[i]
      /\ \A i \in 1 .. Len(rxring) - n : rxring'[i] = rxring[n + i]
  BY <1>0, PollType, LenProperties DEF BufferTypes
<1>2. PICK b \in Seq(Frame), r \in Seq(Frame) : b = burst' /\ r = rxring'
  BY <1>1
<1>3. /\ Len(b) = n /\ Len(r) = Len(rxring) - n
      /\ \A i \in 1 .. n : b[i] = rxring[i]
      /\ \A i \in 1 .. Len(r) : r[i] = rxring[n + i]
  BY <1>1, <1>2
<1>4. PartOf(b, rxring, 0) /\ PartOf(r, rxring, n)
  <2>1. 0 + Len(b) <= Len(rxring) /\ \A i \in 1 .. Len(b) : b[i] = rxring[0 + i]
    BY <1>1, <1>3
  <2>2. n + Len(r) <= Len(rxring)
    BY <1>1, <1>3
  <2> QED
    BY <1>3, <2>1, <2>2 DEF PartOf
<1>5. ASSUME NEW t \in {b, r}
      PROVE  Sorted(t) /\ RowsPrecede(t) /\ \A q \in Queues : Precede(t, txring[q])
  <2>1. PICK m \in Nat : PartOf(t, rxring, m)
    BY <1>1, <1>4
  <2> QED
    BY <1>1, <1>2, <2>1, OrderPart DEF OrderInv
<1>6. Precede(b, r)
  <2> SUFFICES ASSUME NEW i \in 1 .. Len(b), NEW j \in 1 .. Len(r), b[i].marked, r[j].marked
               PROVE  b[i].no < r[j].no
    BY DEF Precede
  <2>1. /\ i \in 1 .. Len(rxring) /\ n + j \in 1 .. Len(rxring) /\ i < n + j
        /\ b[i] = rxring[i] /\ r[j] = rxring[n + j]
    BY <1>1, <1>3
  <2> QED
    BY <2>1 DEF OrderInv, Sorted
<1>7. \A q \in Queues : Sorted(txring[q]) /\ RowsPrecede(txring[q])
  BY DEF OrderInv
<1>8. \A k \in DOMAIN latencyStats : latencyStats[k].no < marks
  BY DEF OrderInv
<1> QED
  BY <1>0, <1>2, <1>5, <1>6, <1>7, <1>8 DEF OrderInv, Sorted, RowsPrecede, Precede

\* The receiver looks at the first frame of its burst.
LEMMA OrderLook ==
  ASSUME BaseInv, WireInv, OrderInv, LookUnmarked \/ LookPastEnd \/ LookMarked
  PROVE  OrderInv'
<1> DEFINE f == Head(burst)
<1>0. TypeInv /\ Look /\ UNCHANGED <<txring, rxring, marks>>
  BY Looks DEF BaseInv, Look, nicVars
<1>1. /\ burst \in Seq(Frame) /\ Len(burst) \in Nat /\ 1 \in 1 .. Len(burst)
      /\ f \in Frame /\ f = burst[1]
      /\ burst' \in Seq(Frame) /\ Len(burst') = Len(burst) - 1
      /\ \A i \in 1 .. Len(burst) - 1 : burst'[i] = burst[i + 1]
  BY <1>0, LookType
<1>2. PICK b \in Seq(Frame) : b = burst'
  BY <1>1
<1>3. PartOf(b, burst, 1)
  BY <1>1, <1>2 DEF PartOf
<1>4. /\ Sorted(b) /\ RowsPrecede(b) /\ Precede(b, rxring)
      /\ \A q \in Queues : Precede(b, txring[q])
  BY <1>1, <1>3, OrderPart DEF OrderInv
<1>5. CASE UNCHANGED latencyStats
  BY <1>0, <1>2, <1>4, <1>5 DEF OrderInv, Sorted, RowsPrecede, Precede
<1>6. CASE LookMarked
  <2>1. PICK k \in Nat, row \in Row :
          row.no = f.no /\ latencyStats' = Store(latencyStats, k, row)
    BY <1>0, <1>6, MarkedRow
  <2>2. f.marked
    BY <1>6 DEF LookMarked
  <2>3. \A j \in DOMAIN latencyStats' :
          latencyStats'[j].no = f.no \/ (j \in DOMAIN latencyStats /\ latencyStats'[j] = latencyStats[j])
    BY <2>1 DEF Store
  <2>4. f.no < marks
    BY <1>1, <2>2 DEF WireInv, AllSent, Wire
  <2>5. \A j \in DOMAIN latencyStats' : latencyStats'[j].no < marks
    BY <2>3, <2>4 DEF OrderInv
  <2>6. ASSUME NEW s, RowsPrecede(s), \A i \in 1 .. Len(s) : s[i].marked => f.no < s[i].no
        PROVE  \A j \in DOMAIN latencyStats', i \in 1 .. Len(s) :
                 s[i].marked => latencyStats'[j].no < s[i].no
    BY <2>3, <2>6 DEF RowsPrecede
  <2>7. \A i \in 1 .. Len(b) : b[i].marked => f.no < b[i].no
    <3> SUFFICES ASSUME NEW i \in 1 .. Len(b), b[i].marked PROVE f.no < b[i].no
      OBVIOUS
    <3>1. i + 1 \in 1 .. Len(burst) /\ 1 < i + 1 /\ b[i] = burst[i + 1]
      BY <1>1, <1>2
    <3>2. Sorted(burst)
      BY DEF OrderInv
    <3> QED
      BY <1>1, <2>2, <3>1, <3>2 DEF Sorted
  <2>8. /\ \A i \in 1 .. Len(rxring) : rxring[i].marked => f.no < rxring[i].no
        /\ \A q \in Queues : \A i \in 1 .. Len(txring[q]) : txring[q][i].marked => f.no < txring[q][i].no
    BY <1>1, <2>2 DEF OrderInv, Precede
  <2> HIDE DEF f
  <2>9. (RowsPrecede(burst))' /\ (RowsPrecede(rxring))'
    BY <1>0, <1>2, <1>4, <2>6, <2>7, <2>8 DEF OrderInv, RowsPrecede
  <2>10. \A q \in Queues : (RowsPrecede(txring[q]))'
    BY <1>0, <2>6, <2>8 DEF OrderInv, RowsPrecede
  <2>11. (Sorted(burst))' /\ (Sorted(rxring))' /\ (Precede(burst, rxring))'
    BY <1>0, <1>2, <1>4 DEF OrderInv, Sorted, Precede
  <2>12. \A q \in Queues : (Sorted(txring[q]))' /\ (Precede(burst, txring[q]))' /\ (Precede(rxring, txring[q]))'
    BY <1>0, <1>2, <1>4 DEF OrderInv, Sorted, Precede
  <2> QED
    BY <1>0, <2>5, <2>9, <2>10, <2>11, <2>12 DEF OrderInv
<1> QED
  BY <1>5, <1>6 DEF LookUnmarked, LookPastEnd

\* The card transmits the first frame of a ring, which arrives or is lost.
LEMMA OrderTransmit ==
  ASSUME BaseInv, OneTxQueue, WireInv, OrderInv, NEW q \in Queues, Transmit(q)
  PROVE  OrderInv'
<1>0. UNCHANGED <<burst, latencyStats, marks>> /\ BufferTypes
  BY TypeParts DEF Transmit, tableVars, BaseInv, TypeInv
<1>1. /\ rxring \in Seq(Frame) /\ txring[q] \in Seq(Frame) /\ Len(txring[q]) \in Nat
      /\ \A p \in Queues : p = q
  BY <1>0, LenProperties DEF BufferTypes, OneTxQueue
<1>2. PICK f \in Frame, t \in Seq(Frame) :
        /\ f = Head(txring[q]) /\ t = Tail(txring[q]) /\ f = txring[q][1]
        /\ Len(t) = Len(txring[q]) - 1 /\ 1 \in 1 .. Len(txring[q])
        /\ \A i \in 1 .. Len(t) : t[i] = txring[q][i + 1]
  BY <1>0, FirstFrame
<1>3. txring'[q] = t /\ (rxring' = rxring \/ rxring' = Append(rxring, f))
  BY <1>0, <1>2, FirstFrame
<1>4. PartOf(t, txring[q], 1)
  BY <1>1, <1>2 DEF PartOf
<1>5. Sorted(t) /\ RowsPrecede(t) /\ Precede(burst, t) /\ Precede(rxring, t)
  BY <1>1, <1>4, OrderPart DEF OrderInv
<1>6. f.marked => \A j \in 1 .. Len(t) : t[j].marked => f.no < t[j].no
  <2> SUFFICES ASSUME f.marked, NEW j \in 1 .. Len(t), t[j].marked PROVE f.no < t[j].no
    OBVIOUS
  <2>1. Sorted(txring[q])
    BY DEF OrderInv
  <2>2. 1 \in 1 .. Len(txring[q]) /\ j + 1 \in 1 .. Len(txring[q]) /\ 1 < j + 1
    BY <1>1, <1>2
  <2> QED
    BY <1>2, <2>1, <2>2 DEF Sorted
<1>7. f.marked =>
        /\ \A i \in 1 .. Len(rxring) : rxring[i].marked => rxring[i].no < f.no
        /\ \A i \in 1 .. Len(burst) : burst[i].marked => burst[i].no < f.no
        /\ \A k \in DOMAIN latencyStats : latencyStats[k].no < f.no
  BY <1>2 DEF OrderInv, Precede, RowsPrecede
<1>8. PICK r : /\ r = rxring' /\ Sorted(r) /\ RowsPrecede(r) /\ Precede(burst, r) /\ Precede(r, t)
  <2>1. CASE rxring' = rxring
    BY <1>5, <2>1 DEF OrderInv
  <2>2. CASE rxring' = Append(rxring, f)
    <3>1. PICK r \in Seq(Frame) : r = Append(rxring, f)
      BY <1>1, Appended
    <3>2. /\ Len(rxring) \in Nat
          /\ \A i \in 1 .. Len(r) : \/ i \in 1 .. Len(rxring) /\ r[i] = rxring[i]
                                    \/ i = Len(rxring) + 1 /\ r[i] = f
      BY <1>1, <3>1, Appended
    <3>3. Sorted(r)
      <4> SUFFICES ASSUME NEW i \in 1 .. Len(r), NEW j \in 1 .. Len(r), i < j, r[i].marked, r[j].marked
                   PROVE  r[i].no < r[j].no
        BY DEF Sorted
      <4>1. i \in 1 .. Len(rxring) /\ r[i] = rxring[i]
        BY <3>2
      <4>2. CASE j \in 1 .. Len(rxring) /\ r[j] = rxring[j]
        BY <4>1, <4>2 DEF OrderInv, Sorted
      <4>3. CASE r[j] = f
        BY <1>7, <4>1, <4>3
      <4> QED
        BY <3>2, <4>2, <4>3
    <3>4. RowsPrecede(r)
      BY <1>7, <3>2 DEF OrderInv, RowsPrecede
    <3>5. Precede(burst, r)
      BY <1>7, <3>2 DEF OrderInv, Precede
    <3>6. Precede(r, t)
      BY <1>5, <1>6, <3>2 DEF Precede
    <3> QED
      BY <2>2, <3>1, <3>3, <3>4, <3>5, <3>6
  <2> QED
    BY <1>3, <2>1, <2>2
<1>9. (/\ Sorted(burst) /\ RowsPrecede(burst)
       /\ Sorted(rxring) /\ RowsPrecede(rxring) /\ Precede(burst, rxring))'
  BY <1>0, <1>8 DEF OrderInv, Sorted, RowsPrecede, Precede
<1>10. \A p \in Queues : (/\ Sorted(txring[p]) /\ RowsPrecede(txring[p])
                          /\ Precede(burst, txring[p]) /\ Precede(rxring, txring[p]))'
  BY <1>0, <1>1, <1>3, <1>5, <1>8 DEF Sorted, RowsPrecede, Precede
<1>11. \A k \in DOMAIN latencyStats' : latencyStats'[k].no < marks'
  BY <1>0 DEF OrderInv
<1> QED
  BY <1>9, <1>10, <1>11 DEF OrderInv

LEMMA OrderStep == Numbering /\ BaseInv /\ NumberInv /\ OrderInv /\ [Next]_vars => OrderInv'
<1> SUFFICES ASSUME Numbering, BaseInv, NumberInv, OrderInv, [Next]_vars PROVE OrderInv'
  OBVIOUS
<1>0. WireInv /\ OneTxQueue
  BY DEF NumberInv, Numbering
<1>1. CASE UNCHANGED <<txring, rxring, burst, marks, tableVars, handled>>
  BY <1>1 DEF OrderInv, Sorted, RowsPrecede, Precede, tableVars
<1> QED
  BY <1>0, <1>1, OrderEntering, OrderPoll, OrderLook, OrderTransmit, FrameCases

LEMMA OrderInit == Init => OrderInv
<1> SUFFICES ASSUME Init PROVE OrderInv
  OBVIOUS
<1>1. /\ DOMAIN latencyStats = {} /\ burst = <<>> /\ rxring = <<>>
  BY DEF Init
<1>2. Len(<<>>) = 0
  BY EmptySeq
<1>3. ASSUME NEW q \in Queues PROVE Sorted(txring[q])
  <2>1. PICK f : txring[q] = <<f>>
    BY DEF Init
  <2>2. Len(<<f>>) = 1
    OBVIOUS
  <2>3. \A i, j \in 1 .. 1 : ~(i < j)
    OBVIOUS
  <2> QED
    BY <2>1, <2>2, <2>3 DEF Sorted
<1> QED
  BY <1>1, <1>2, <1>3 DEF OrderInv, Sorted, RowsPrecede, Precede

LEMMA OrderAlways == Numbering => (Spec => []OrderInv)
<1> SUFFICES ASSUME Numbering PROVE Spec => []OrderInv
  OBVIOUS
<1>1. BaseInv /\ NumberInv /\ OrderInv /\ [Next]_vars => OrderInv'
  BY OrderStep
<1> QED
  BY <1>1, OrderInit, NumberAlways, BaseAlways, PTL DEF Spec

-----------------------------------------------------------------------------
(***************************************************************************)
(* Every row is new, and behind all others.  Without --autoInc that is     *)
(* what the counter is for; with it, the order of the packets tells.       *)
(***************************************************************************)
RowsInv ==
  IF autoIncNum
    THEN Numbering /\ TrainLen <= WordBase /\ NumberInv /\ OrderInv /\ RowIsPacket
    ELSE CountInv

\* Numbers tell packets apart whenever packets are numbered.
WideNumbers == autoIncNum => Numbering /\ TrainLen <= WordBase

LEMMA RowsAlways == WideNumbers => (Spec => []RowsInv)
<1>1. CASE ~autoIncNum
  <2>1. Init => CountInv
    BY CountInit
  <2>2. BaseInv /\ CountInv /\ [Next]_vars => CountInv'
    BY CountStep DEF BaseInv
  <2>3. CountInv => RowsInv
    BY <1>1 DEF RowsInv
  <2> QED
    BY <2>1, <2>2, <2>3, BaseAlways, PTL DEF Spec
<1>2. CASE autoIncNum /\ WideNumbers
  <2>1. Numbering /\ TrainLen <= WordBase
    BY <1>2 DEF WideNumbers
  <2>2. Spec => []NumberInv
    BY <2>1, NumberAlways
  <2>3. Spec => []OrderInv
    BY <2>1, OrderAlways
  <2>4. Spec => []RowIsPacket
    BY <2>1, StsRowIsPacket
  <2>5. NumberInv /\ OrderInv /\ RowIsPacket => RowsInv
    BY <1>2, <2>1 DEF RowsInv
  <2> QED
    BY <2>2, <2>3, <2>4, <2>5, PTL
<1> QED
  BY <1>1, <1>2

\* With the packets in order, the row of the next one is behind all others.
LEMMA NumberedRow ==
  ASSUME BaseInv, NumberInv, OrderInv, RowIsPacket, Numbering, TrainLen <= WordBase, LookMarked
  PROVE  /\ \A j \in DOMAIN latencyStats : j < Head(burst).cntr /\ latencyStats[j].no < Head(burst).no
         /\ Head(burst).cntr = Head(burst).no
<1>0. TypeInv /\ autoIncNum /\ OneTxQueue
  BY DEF BaseInv, Numbering
<1>1. Head(burst) \in Frame /\ Head(burst) = burst[1] /\ 1 \in 1 .. Len(burst) /\ Head(burst).marked
  <2>1. Look /\ Head(burst).marked
    BY DEF LookMarked
  <2>2. Head(burst) \in Frame /\ Head(burst) = burst[1] /\ Len(burst) \in Nat /\ Len(burst) > 0
    BY <1>0, <2>1, LookType
  <2> QED
    BY <2>1, <2>2
<1>2. /\ Head(burst).no \in Nat /\ Head(burst).no < marks
      /\ Head(burst).cntr = Head(burst).no % WordBase
  BY <1>1 DEF Frame, NumberInv, WireInv, AllSent, Wire
<1>3. PICK n \in Nat, m \in Nat, a \in Nat, w \in Nat :
        /\ n = Head(burst).no /\ m = marks /\ a = TrainLen /\ w = WordBase
        /\ n < m /\ m <= a /\ a <= w
  BY <1>2, Numbers, FormatAssumption DEF BaseInv, TypeInv, TypeOK, NumberInv
<1>4. n % w = n
  BY <1>3
<1>5. Head(burst).cntr = Head(burst).no
  BY <1>2, <1>3, <1>4
<1>6. \A j \in DOMAIN latencyStats : latencyStats[j].no < Head(burst).no
  BY <1>1 DEF OrderInv, RowsPrecede
<1>7. \A j \in DOMAIN latencyStats : latencyStats[j].no = j
  BY <1>0 DEF RowIsPacket
<1> QED
  BY <1>5, <1>6, <1>7

\* The slot that is written is behind all others.
LEMMA NewRow ==
  ASSUME BaseInv, RowsInv, LookMarked,
         NEW k, k = IF autoIncNum THEN Head(burst).cntr ELSE counter
  PROVE  \A j \in DOMAIN latencyStats : j < k
<1>1. CASE autoIncNum
  BY <1>1, NumberedRow DEF RowsInv
<1>2. CASE ~autoIncNum
  BY <1>2 DEF RowsInv, CountInv
<1> QED
  BY <1>1, <1>2

-----------------------------------------------------------------------------
(***************************************************************************)
(* Bytes.                                                                  *)
(***************************************************************************)
RowBytes == [k \in DOMAIN latencyStats |-> latencyStats[k].totalBytes]

BytesInv ==
  /\ IsFiniteSet(DOMAIN latencyStats)
  /\ bytecounter + SumFunction(RowBytes) = handled

LEMMA BytesStep == BaseInv /\ RowsInv /\ BytesInv /\ [Next]_vars => BytesInv'
<1> SUFFICES ASSUME BaseInv, RowsInv, BytesInv, [Next]_vars PROVE BytesInv'
  OBVIOUS
<1>0. TypeInv /\ TableTypes
  BY TypeParts DEF BaseInv, TypeInv
<1>1. CASE ~(LookUnmarked \/ LookPastEnd \/ LookMarked)
  <2>1. UNCHANGED <<tableVars, handled>>
    BY <1>0, <1>1, NoRecord
  <2> QED
    BY <2>1 DEF BytesInv, RowBytes, tableVars
<1>2. RowBytes \in [DOMAIN latencyStats -> Nat] /\ IsFiniteSet(DOMAIN latencyStats)
  BY <1>0 DEF RowBytes, TableTypes, Row, BytesInv
<1>3. SumFunction(RowBytes) \in Nat
  BY <1>2, TotalType
<1>4. PICK b \in Nat, s \in Nat, h \in Nat :
        b = bytecounter /\ s = SumFunction(RowBytes) /\ h = handled /\ b + s = h
  BY <1>0, <1>3 DEF TableTypes, BytesInv
<1>5. CASE LookUnmarked \/ LookPastEnd
  <2>1. /\ latencyStats' = latencyStats /\ bytecounter' = bytecounter + 1
        /\ handled' = handled + 1
    BY <1>5, Looks DEF LookUnmarked, LookPastEnd, Look
  <2>2. RowBytes' = RowBytes
    BY <2>1 DEF RowBytes
  <2>3. (b + 1) + s = h + 1
    BY <1>4
  <2> QED
    BY <1>2, <1>4, <2>1, <2>2, <2>3 DEF BytesInv
<1>6. CASE LookMarked
  <2>1. PICK k \in Nat, row \in Row :
          /\ k = IF autoIncNum THEN Head(burst).cntr ELSE counter
          /\ row.totalBytes = b + 1
          /\ latencyStats' = Store(latencyStats, k, row)
    BY <1>0, <1>4, <1>6, MarkedRow
  <2>2. bytecounter' = 0 /\ handled' = h + 1
    BY <1>4, <1>6, Looks DEF LookMarked, BytesAfterRecord, Look
  <2>3. k \notin DOMAIN latencyStats
    <3>1. \A j \in DOMAIN latencyStats : j < k
      BY <1>6, <2>1, NewRow
    <3>2. CASE k \in DOMAIN latencyStats
      BY <2>1, <3>1, <3>2
    <3> QED
      BY <3>2
  <2>4. DOMAIN latencyStats' = DOMAIN latencyStats \cup {k}
    BY <2>1 DEF Store
  <2>5. IsFiniteSet(DOMAIN latencyStats')
    BY <1>2, <2>4, FS_AddElement
  <2>6. RowBytes' = [j \in DOMAIN latencyStats \cup {k} |-> IF j = k THEN b + 1 ELSE RowBytes[j]]
    BY <2>1, <2>4 DEF RowBytes, Store
  <2>7. SumFunction(RowBytes') = s + (b + 1)
    <3>1. PICK g : g = RowBytes'
      OBVIOUS
    <3>2. b + 1 \in Nat
      OBVIOUS
    <3>3. SumFunction(g) = SumFunction(RowBytes) + (b + 1)
      BY <1>2, <2>3, <2>6, <3>1, <3>2, TotalGrow
    <3> QED
      BY <1>4, <3>1, <3>3
  <2>8. 0 + (s + (b + 1)) = h + 1
    BY <1>4
  <2> QED
    BY <2>2, <2>5, <2>7, <2>8 DEF BytesInv
<1> QED
  BY <1>1, <1>5, <1>6

LEMMA BytesInit == Init => BytesInv
<1> SUFFICES ASSUME Init PROVE BytesInv
  OBVIOUS
<1>1. DOMAIN latencyStats = {} /\ bytecounter = 0 /\ handled = 0
  BY DEF Init
<1>2. IsFiniteSet({})
  BY FS_EmptySet
<1>3. RowBytes = [k \in {} |-> 0]
  BY <1>1 DEF RowBytes
<1>4. SumFunction(RowBytes) = 0
  BY <1>2, <1>3, TotalZero
<1> QED
  BY <1>1, <1>2, <1>4 DEF BytesInv

\* runtime.c:441, 493, 508-511.  The bytes of the rows and those since the
\* last one are the bytes received: no row is written twice, whatever is
\* lost on the wire.  When packets are numbered, the numbers must tell them
\* apart.
THEOREM StsBytesAccounted == WideNumbers => (Spec => []BytesAccounted)
<1> SUFFICES ASSUME WideNumbers PROVE Spec => []BytesAccounted
  OBVIOUS
<1>1. Spec => []RowsInv
  BY RowsAlways
<1>2. BaseInv /\ RowsInv /\ BytesInv /\ [Next]_vars => BytesInv'
  BY BytesStep
<1>3. BytesInv => BytesAccounted
  BY DEF BytesInv, BytesAccounted, RowBytes
<1> QED
  BY <1>1, <1>2, <1>3, BytesInit, BaseAlways, PTL DEF Spec

-----------------------------------------------------------------------------
(***************************************************************************)
(* The program refines TrainMeasurement.                                   *)
(***************************************************************************)
MeasuredRows ==
  [k \in DOMAIN latencyStats |-> [q |-> latencyStats[k].q, no |-> latencyStats[k].no]]

LEMMA MeasuringInit == Init => Measurement!Init
<1> SUFFICES ASSUME Init PROVE Measurement!Init
  OBVIOUS
<1>1. pc[RxLcore] # "report"
  BY Numbers DEF Init, Begin, AfterTx
<1>2. exitCode = "none" /\ DOMAIN latencyStats = {}
  BY DEF Init
<1> QED
  BY <1>1, <1>2 DEF Measurement!Init, phase

\* LookMarked fills a slot behind all others, with a later packet.
LEMMA MeasureStep ==
  ASSUME BaseInv, NumberInv, OrderInv, RowIsPacket, Numbering, TrainLen <= WordBase,
         LookMarked, exitCode = "none"
  PROVE  Measurement!Measure
<1>0. TypeInv /\ TableTypes /\ autoIncNum
  BY TypeParts DEF BaseInv, TypeInv, Numbering
<1>1. Look /\ pc[RxLcore] = "record" /\ UNCHANGED exitCode
  BY Looks DEF Look
<1>2. phase = "measuring" /\ phase' = "measuring"
  <2>1. pc'[RxLcore] # "report"
    BY <1>0, <1>1, RxMoves, AfterRxPlace
  <2> QED
    BY <1>1, <2>1 DEF phase
<1>3. PICK f : f = Head(burst)
  OBVIOUS
<1>4. f \in Frame
  BY <1>0, <1>1, <1>3, LookType
<1>5. PICK b \in Nat : b = bytecounter
  BY <1>0 DEF TableTypes
<1> DEFINE row == [q |-> f.q, no |-> f.no, totalBytes |-> b + 1]
           out2 == [q |-> f.q, no |-> f.no]
           k   == f.cntr
<1>6. k \in Nat /\ out2 \in Measurement!Row
  BY <1>4, FormatAssumption DEF Frame, Word, Measurement!Row
<1>7. latencyStats' = Store(latencyStats, k, row)
  BY <1>0, <1>3, <1>5 DEF LookMarked
<1>8. \A j \in DOMAIN latencyStats : j < k /\ latencyStats[j].no < f.no
  BY <1>3, NumberedRow
<1>9. k \notin DOMAIN latencyStats
  BY <1>6, <1>8
<1>10. DOMAIN latencyStats' = DOMAIN latencyStats \cup {k}
  BY <1>7 DEF Store
<1>11. /\ DOMAIN MeasuredRows = DOMAIN latencyStats
       /\ DOMAIN MeasuredRows' = DOMAIN latencyStats \cup {k}
       /\ \A j \in DOMAIN MeasuredRows : MeasuredRows[j].no = latencyStats[j].no
  BY <1>10 DEF MeasuredRows
<1>12. MeasuredRows'[k] = out2
  BY <1>7, <1>10 DEF MeasuredRows, Store
<1>13. MeasuredRows' = Measurement!Store(MeasuredRows, k, out2)
  BY <1>7, <1>10 DEF MeasuredRows, Store, Measurement!Store
<1>14. out2.no = f.no
  OBVIOUS
<1> HIDE DEF k, row, out2
<1>15. /\ k \in DOMAIN MeasuredRows' \ DOMAIN MeasuredRows
       /\ \A j \in DOMAIN MeasuredRows : j < k /\ MeasuredRows[j].no < MeasuredRows'[k].no
  BY <1>8, <1>9, <1>11, <1>12, <1>14
<1>16. MeasuredRows' = Measurement!Store(MeasuredRows, k, MeasuredRows'[k])
  BY <1>12, <1>13
<1> QED
  BY <1>2, <1>6, <1>12, <1>15, <1>16 DEF Measurement!Measure, MeasuredRows

LEMMA MeasurementStep ==
  ASSUME BaseInv, BaseInv', GraceInv', NumberInv, OrderInv, RowIsPacket, exitCode' # "crash",
         Numbering, TrainLen <= WordBase, WaitTime >= ReportTime + 2, [Next]_vars
  PROVE  [Measurement!Next]_(Measurement!vars)
<1>0. pc \in [Lcores -> Places] /\ RxLcore \in Lcores /\ TypeInv
  BY TimeNumbers DEF LcoreTypes, BaseInv
<1>1. CASE UNCHANGED <<latencyStats, exitCode, pc>>
  BY <1>1 DEF Measurement!vars, phase
<1>2. ASSUME UNCHANGED <<latencyStats, exitCode>>, pc[RxLcore] # "report", pc'[RxLcore] # "report"
      PROVE  UNCHANGED Measurement!vars
  BY <1>2 DEF Measurement!vars, phase
<1>3. ASSUME NEW l \in Lcores, Running,
             \/ FillAlloc(l) \/ FillSend(l) \/ FillFree(l)
             \/ Fill(l) \/ Number(l) \/ Send(l) \/ Spin(l)
             \/ Refused(l) \/ TakeBack(l) \/ WaitEnd(l)
      PROVE  UNCHANGED Measurement!vars
  <2>1. UNCHANGED <<latencyStats, exitCode>>
    BY <1>3 DEF FillAlloc, FillSend, FillFree, Fill, Number, Send, Spin, Refused, TakeBack,
                WaitEnd, tableVars
  <2>2. pc[l] # "report"
    BY <1>3 DEF FillAlloc, FillSend, FillFree, Fill, Number, Send, Spin, Refused, TakeBack,
                WaitEnd
  <2>3. Moves(l) /\ pc'[l] # "report"
    BY <1>0, <1>3, TxMoves
  <2>4. pc'[RxLcore] = "report" <=> pc[RxLcore] = "report"
    BY <1>0, <2>2, <2>3 DEF Moves
  <2> QED
    BY <2>1, <2>4 DEF Measurement!vars, phase
<1>4. ASSUME NEW l \in Lcores, Running, GiveUp(l) PROVE Measurement!GiveUp
  <2>1. exitCode' = "1" /\ UNCHANGED <<latencyStats, pc>> /\ exitCode = "none"
    BY <1>4 DEF GiveUp, tableVars, Running
  <2>2. pc[RxLcore] # "report"
    BY <2>1 DEF GraceInv
  <2> QED
    BY <2>1, <2>2 DEF phase, Measurement!GiveUp
<1>5. ASSUME Running, PollStopped PROVE Measurement!BeginReport
  <2>1. /\ pc[RxLcore] = "poll" /\ UNCHANGED <<latencyStats, exitCode>> /\ exitCode = "none"
    BY <1>5 DEF PollStopped, Poll, tableVars, Running
  <2>2. pc'[RxLcore] = "report"
    BY <1>0, <1>5, RxMoves
  <2> QED
    BY <2>1, <2>2 DEF phase, Measurement!BeginReport
<1>6. ASSUME PollEmpty \/ PollBurst PROVE UNCHANGED Measurement!vars
  <2>1. /\ pc[RxLcore] = "poll" /\ UNCHANGED <<latencyStats, exitCode>>
    BY <1>6 DEF PollEmpty, PollBurst, Poll, tableVars
  <2>2. pc'[RxLcore] # "report"
    BY <1>0, <1>6, RxMoves, AfterRxPlace
  <2> QED
    BY <1>2, <2>1, <2>2
<1>7. ASSUME LookUnmarked \/ LookPastEnd PROVE UNCHANGED Measurement!vars
  <2>1. /\ pc[RxLcore] = "record" /\ UNCHANGED <<latencyStats, exitCode>>
    BY <1>7, Looks DEF LookUnmarked, LookPastEnd, Look
  <2>2. pc'[RxLcore] # "report"
    BY <1>0, <1>7, Looks, RxMoves, AfterRxPlace
  <2> QED
    BY <1>2, <2>1, <2>2
<1>8. ASSUME Running, LookMarked PROVE Measurement!Measure
  BY <1>8, MeasureStep DEF Running
<1>9. ASSUME Running, ReportDone PROVE Measurement!EndReport
  <2>1. /\ pc[RxLcore] = "report" /\ exitCode' = "0" /\ UNCHANGED latencyStats /\ exitCode = "none"
    BY <1>9 DEF ReportDone, tableVars, Running
  <2> QED
    BY <2>1 DEF phase, Measurement!EndReport
<1>10. CASE (\E q \in Queues : Transmit(q)) \/ Tick \/ UNCHANGED vars
  BY <1>1, <1>10 DEF Transmit, Tick, vars, tableVars
<1>11. ~(\E l \in Lcores : NoBuffer(l))
  BY DEF NoBuffer
<1> QED
  BY <1>3, <1>4, <1>5, <1>6, <1>7, <1>8, <1>9, <1>10, <1>11, StepCases DEF Measurement!Next

\* runtime.c:419, 493-521, 738-742.  When packets are numbered, the numbers
\* tell them apart, there are enough buffers and the waiting time is longer
\* than the printing, what the program does is a measurement: rows are added
\* in order, to a table that is frozen before it is printed and is printed
\* whole.
THEOREM StsMeasurementSafe ==
  Numbering /\ TrainLen <= WordBase /\ EnoughBuffers /\ WaitTime >= ReportTime + 2
    => (Spec => Measurement!Safety)
<1> SUFFICES ASSUME Numbering, TrainLen <= WordBase, EnoughBuffers, WaitTime >= ReportTime + 2
             PROVE  Spec => Measurement!Safety
  OBVIOUS
<1>1. Spec => []GraceInv
  BY GraceAlways
<1>2. Spec => []NumberInv
  BY NumberAlways
<1>3. Spec => []OrderInv
  BY OrderAlways
<1>4. Spec => []RowIsPacket
  BY StsRowIsPacket
<1>5. Spec => [](exitCode # "crash")
  <2>1. NeverStarves => exitCode # "crash"
    BY DEF NeverStarves
  <2> QED
    BY <2>1, StsNeverStarves, PTL
<1>6. /\ BaseInv /\ BaseInv' /\ GraceInv' /\ NumberInv /\ OrderInv /\ RowIsPacket
      /\ (exitCode # "crash")' /\ [Next]_vars
      => [Measurement!Next]_(Measurement!vars)
  BY MeasurementStep
<1> QED
  BY <1>1, <1>2, <1>3, <1>4, <1>5, <1>6, MeasuringInit, BaseAlways, PTL
     DEF Spec, Measurement!Safety
=============================================================================
