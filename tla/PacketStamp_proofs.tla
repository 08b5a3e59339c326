------------------------- MODULE PacketStamp_proofs -------------------------
(***************************************************************************)
(* What is written into a packet is what is read from it, for every        *)
(* template, time stamp, counter and width of a word: everything in the    *)
(* untagged build without --chksum, the time or the number in some others. *)
(***************************************************************************)
EXTENDS PacketStamp, TLAPS

Plain == VLAN_OFFSET = 0 /\ ~doChecksum

-----------------------------------------------------------------------------
\* The fields of an untagged packet do not overlap the time stamp.
LEMMA PlainLayout ==
  ASSUME Plain
  PROVE  /\ idoffset = 36 /\ cntroffset = 38 /\ seqoffset = 40 /\ tsoffset = 40
         /\ \A h : WithChecksum(h) = h
  BY DEF Plain, idoffset, cntroffset, seqoffset, icmpStart, tsoffset, WithChecksum

\* Writing a time stamp and reading it back.
LEMMA TimeReadBack ==
  ASSUME NEW h \in Header, NEW t \in Time
  PROVE  /\ PutTime(h, t) \in Header
         /\ SentTime(PutTime(h, t)) = t
         /\ \A o \in {34, 36, 38} : PutTime(h, t)[o] = h[o]
<1> DEFINE g == PutTime(h, t)
<1>1. g = [o \in Offsets |-> IF o >= 40 THEN t[(o - 40) \div 2] ELSE h[o]]
  BY DEF PutTime, tsoffset
<1>2. /\ (40 - 40) \div 2 = 0 /\ (42 - 40) \div 2 = 1
      /\ (44 - 40) \div 2 = 2 /\ (46 - 40) \div 2 = 3
  OBVIOUS
<1>3. g[40] = t[0] /\ g[42] = t[1] /\ g[44] = t[2] /\ g[46] = t[3]
  BY <1>1, <1>2 DEF Offsets
<1>4. g[34] = h[34] /\ g[36] = h[36] /\ g[38] = h[38]
  BY <1>1 DEF Offsets
<1>5. g \in Header
  <2>1. g \in [Offsets -> {g[o] : o \in Offsets}]
    BY <1>1
  <2>2. \A o \in Offsets : g[o] \in Word
    BY <1>3, <1>4 DEF Offsets, Header, Time
  <2> QED
    BY <1>1, <2>2 DEF Header
<1>6. SentTime(g) = t
  <2>1. SentTime(g) = [i \in 0 .. 3 |-> g[40 + 2 * i]]
    BY DEF SentTime, tsoffset
  <2>2. \A i \in 0 .. 3 : g[40 + 2 * i] = t[i]
    <3> TAKE i \in 0 .. 3
    <3>1. i = 0 \/ i = 1 \/ i = 2 \/ i = 3
      OBVIOUS
    <3> QED
      BY <1>3, <3>1
  <2> QED
    BY <2>1, <2>2 DEF Time
<1> QED
  BY <1>4, <1>5, <1>6

\* What the receiver finds in the three kinds of packets.
LEMMA StampTrainRead ==
  ASSUME Plain, NEW h \in Header, NEW t \in Time, IsMarked(h)
  PROVE  /\ StampTrain(h, t) \in Header
         /\ IsMarked(StampTrain(h, t))
         /\ SentTime(StampTrain(h, t)) = t
  BY PlainLayout, TimeReadBack DEF StampTrain, IsMarked

LEMMA StampStsRead ==
  ASSUME Plain, NEW h \in Header, NEW t \in Time, NEW n \in Nat
  PROVE  /\ StampSts(h, n, t) \in Header
         /\ IsMarked(StampSts(h, n, t))
         /\ SentTime(StampSts(h, n, t)) = t
         /\ autoIncNum => Counter(StampSts(h, n, t)) = n % WordBase
<1> DEFINE marked   == PutMark(h)
           numbered == IF autoIncNum THEN PutCounter(marked, n) ELSE marked
<1>1. marked = [h EXCEPT ![36] = tspacketId]
  BY PlainLayout DEF PutMark
<1>2. marked \in Header /\ marked[36] = tspacketId
  BY <1>1, FormatAssumption DEF Header, Offsets
<1>3. n % WordBase \in Word
  BY FormatAssumption DEF Word
<1>4. PutCounter(marked, n) = [marked EXCEPT ![38] = n % WordBase]
  BY PlainLayout DEF PutCounter
<1> HIDE DEF marked
<1>5. /\ numbered \in Header /\ numbered[36] = tspacketId
      /\ autoIncNum => numbered[38] = n % WordBase
  BY <1>2, <1>3, <1>4 DEF Header, Offsets
<1>6. StampSts(h, n, t) = PutTime(numbered, t)
  BY PlainLayout DEF StampSts, marked
<1> HIDE DEF numbered
<1> QED
  BY <1>5, <1>6, PlainLayout, TimeReadBack DEF IsMarked, Counter

-----------------------------------------------------------------------------
\* The template is marked in the latency mode and only there.
TemplateOK == IsMarked(icmppkt) <=> mode = "latency"

StampInv == TypeOK /\ TemplateOK /\ MarkSurvives /\ TimeSurvives /\ CounterSurvives

LEMMA SentTimeType == ASSUME NEW h \in Header PROVE SentTime(h) \in Time
<1>1. \A i \in 0 .. 3 : 40 + 2 * i \in Offsets
  BY DEF Offsets
<1>2. \A i \in 0 .. 3 : h[40 + 2 * i] \in Word
  BY <1>1 DEF Header
<1> QED
  BY <1>2 DEF SentTime, Time, tsoffset

LEMMA StampInit == Plain /\ Init => StampInv
<1> SUFFICES ASSUME Plain, Init PROVE StampInv
  OBVIOUS
<1>1. PICK h \in Templates : /\ icmppkt = IF mode = "latency" THEN PutMark(h) ELSE h
                             /\ out = Sent(h, FALSE, SentTime(h), 0)
  BY DEF Init
<1>2. h \in Header /\ h[36] # tspacketId
  BY <1>1, StampAssumption, PlainLayout
<1>3. PutMark(h) \in Header /\ PutMark(h)[36] = tspacketId
  BY <1>2, PlainLayout, FormatAssumption DEF PutMark, Header, Offsets
<1>4. mode \in {"latency", "sts"} /\ pktcounter = 0
  BY DEF Init
<1>5. /\ out.hdr = h /\ out.marked = FALSE
      /\ out \in [hdr : Header, marked : BOOLEAN, time : Time, no : Nat]
  BY <1>1, <1>2, SentTimeType DEF Sent
<1>6. TypeOK /\ TemplateOK
  BY <1>1, <1>2, <1>3, <1>4, <1>5, PlainLayout DEF TypeOK, TemplateOK, IsMarked
<1>7. MarkSurvives /\ TimeSurvives /\ CounterSurvives
  BY <1>2, <1>5, PlainLayout DEF MarkSurvives, TimeSurvives, CounterSurvives, IsMarked
<1> QED
  BY <1>6, <1>7 DEF StampInv

LEMMA StampStep == Plain /\ StampInv /\ [Next]_vars => StampInv'
<1> SUFFICES ASSUME Plain, StampInv, [Next]_vars PROVE StampInv'
  OBVIOUS
<1>0. icmppkt \in Header /\ mode \in {"latency", "sts"} /\ pktcounter \in Nat
  BY DEF StampInv, TypeOK
<1>1. CASE LatencyPacket
  <2>1. /\ NextTemplate(icmppkt) \in Header
        /\ IsMarked(NextTemplate(icmppkt))
    <3>1. icmppkt[40] \in Nat /\ (icmppkt[40] + 1) % WordBase \in Word
      BY <1>0, FormatAssumption DEF Header, Offsets, Word
    <3>2. IsMarked(icmppkt)
      BY <1>1 DEF LatencyPacket, StampInv, TemplateOK
    <3> QED
      BY <1>0, <3>1, <3>2, PlainLayout DEF NextTemplate, IsMarked, Header, Offsets
  <2>2. PICK t \in Times : out' = Sent(StampTrain(icmppkt', t), TRUE, t, 0)
    BY <1>1 DEF LatencyPacket
  <2>3. icmppkt' = NextTemplate(icmppkt) /\ UNCHANGED <<mode, pktcounter>> /\ mode = "latency"
    BY <1>1 DEF LatencyPacket
  <2> DEFINE g == StampTrain(NextTemplate(icmppkt), t)
  <2>4. t \in Time
    BY StampAssumption
  <2>5. g \in Header /\ IsMarked(g) /\ SentTime(g) = t
    BY <2>1, <2>4, StampTrainRead
  <2>6. /\ out' \in [hdr : Header, marked : BOOLEAN, time : Time, no : Nat]
        /\ out'.hdr = g /\ out'.marked = TRUE /\ out'.time = t
    BY <2>2, <2>3, <2>4, <2>5 DEF Sent
  <2> HIDE DEF g
  <2>7. TypeOK' /\ TemplateOK'
    BY <1>0, <2>1, <2>3, <2>6 DEF TypeOK, TemplateOK, IsMarked
  <2>8. MarkSurvives' /\ TimeSurvives' /\ CounterSurvives'
    BY <2>3, <2>5, <2>6 DEF MarkSurvives, TimeSurvives, CounterSurvives, IsMarked, SentTime
  <2> QED
    BY <2>7, <2>8 DEF StampInv
<1>2. CASE StsMarked
  <2>1. PICK t \in Times : out' = Sent(StampSts(icmppkt, pktcounter, t), TRUE, t, pktcounter)
    BY <1>2 DEF StsMarked
  <2>2. /\ pktcounter' = IF autoIncNum THEN pktcounter + 1 ELSE pktcounter
        /\ UNCHANGED <<mode, icmppkt>>
    BY <1>2 DEF StsMarked
  <2> DEFINE g == StampSts(icmppkt, pktcounter, t)
  <2>3. t \in Time
    BY StampAssumption
  <2>4. /\ g \in Header /\ IsMarked(g) /\ SentTime(g) = t
        /\ autoIncNum => Counter(g) = pktcounter % WordBase
    BY <1>0, <2>3, StampStsRead
  <2>5. /\ out' \in [hdr : Header, marked : BOOLEAN, time : Time, no : Nat]
        /\ out'.hdr = g /\ out'.marked = TRUE /\ out'.time = t /\ out'.no = pktcounter
    BY <1>0, <2>1, <2>3, <2>4 DEF Sent
  <2> HIDE DEF g
  <2>6. TypeOK' /\ TemplateOK'
    BY <1>0, <2>2, <2>5 DEF StampInv, TypeOK, TemplateOK, IsMarked
  <2>7. MarkSurvives' /\ TimeSurvives' /\ CounterSurvives'
    BY <2>2, <2>4, <2>5 DEF MarkSurvives, TimeSurvives, CounterSurvives, IsMarked, SentTime, Counter
  <2> QED
    BY <2>6, <2>7 DEF StampInv
<1>3. CASE StsFriend
  <2>1. StampOther(icmppkt) = icmppkt
    BY PlainLayout DEF StampOther
  <2>2. /\ out' = Sent(icmppkt, FALSE, SentTime(icmppkt), pktcounter)
        /\ UNCHANGED <<mode, icmppkt, pktcounter>> /\ mode = "sts"
    BY <1>3, <2>1 DEF StsFriend
  <2>3. /\ out' \in [hdr : Header, marked : BOOLEAN, time : Time, no : Nat]
        /\ out'.hdr = icmppkt /\ out'.marked = FALSE
    BY <1>0, <2>2, SentTimeType DEF Sent
  <2>4. TypeOK' /\ TemplateOK'
    BY <1>0, <2>2, <2>3 DEF StampInv, TypeOK, TemplateOK, IsMarked
  <2>5. ~IsMarked(icmppkt)
    BY <2>2 DEF StampInv, TemplateOK
  <2>6. MarkSurvives' /\ TimeSurvives' /\ CounterSurvives'
    BY <2>2, <2>3, <2>5 DEF MarkSurvives, TimeSurvives, CounterSurvives, IsMarked
  <2> QED
    BY <2>4, <2>6 DEF StampInv
<1>4. CASE UNCHANGED vars
  BY <1>4 DEF vars, StampInv, TypeOK, TemplateOK, MarkSurvives, TimeSurvives, CounterSurvives,
              IsMarked, SentTime, Counter
<1> QED
  BY <1>1, <1>2, <1>3, <1>4 DEF Next

\* In the untagged build without --chksum the receiver recognises exactly the
\* packets that were marked, and reads their send time and their counter
\* (runtime.c:279-289, 495-508 against 551-562, 706-718).
THEOREM StampCorrect ==
  Plain => (Spec => [](TypeOK /\ MarkSurvives /\ TimeSurvives /\ CounterSurvives))
<1> SUFFICES ASSUME Plain
             PROVE  Spec => [](TypeOK /\ MarkSurvives /\ TimeSurvives /\ CounterSurvives)
  OBVIOUS
<1>1. Init => StampInv
  BY StampInit
<1>2. StampInv /\ [Next]_vars => StampInv'
  BY StampStep
<1>3. StampInv => TypeOK /\ MarkSurvives /\ TimeSurvives /\ CounterSurvives
  BY DEF StampInv
<1> QED
  BY <1>1, <1>2, <1>3, PTL DEF Spec

-----------------------------------------------------------------------------
(***************************************************************************)
(* The tag and the checksum do not spoil everything they could.            *)
(***************************************************************************)
TemplateInv == icmppkt \in Header /\ pktcounter \in Nat

LEMMA TemplateAlways == Spec => []TemplateInv
<1>0. idoffset \in Offsets /\ seqoffset \in Offsets
  BY FormatAssumption DEF idoffset, seqoffset, icmpStart, Offsets
<1>1. Init => TemplateInv
  <2> SUFFICES ASSUME Init PROVE TemplateInv
    OBVIOUS
  <2>1. PICK h \in Templates : icmppkt = IF mode = "latency" THEN PutMark(h) ELSE h
    BY DEF Init
  <2>2. h \in Header /\ PutMark(h) \in Header
    BY <1>0, StampAssumption, FormatAssumption DEF PutMark, Header
  <2> QED
    BY <2>1, <2>2 DEF TemplateInv, Init
<1>2. TemplateInv /\ [Next]_vars => TemplateInv'
  <2> SUFFICES ASSUME TemplateInv, [Next]_vars PROVE TemplateInv'
    OBVIOUS
  <2>1. NextTemplate(icmppkt) \in Header
    <3>1. icmppkt[seqoffset] \in Nat
      BY <1>0, FormatAssumption DEF TemplateInv, Header, Word
    <3>2. (icmppkt[seqoffset] + 1) % WordBase \in Word
      BY <3>1, FormatAssumption DEF Word
    <3> QED
      BY <1>0, <3>2 DEF TemplateInv, NextTemplate, Header
  <2>2. CASE LatencyPacket
    BY <2>1, <2>2 DEF TemplateInv, LatencyPacket
  <2>3. CASE StsMarked
    BY <2>3 DEF TemplateInv, StsMarked
  <2>4. CASE StsFriend \/ UNCHANGED vars
    BY <2>4 DEF TemplateInv, StsFriend, vars
  <2> QED
    BY <2>2, <2>3, <2>4 DEF Next
<1> QED
  BY <1>1, <1>2, PTL DEF Spec

\* The checksum only writes one word.
LEMMA ChecksumElsewhere ==
  ASSUME NEW h, NEW o, o # icmpStart + 2
  PROVE  WithChecksum(h)[o] = h[o]
  BY DEF WithChecksum, PutChecksum

\* The time is written after everything but the checksum.
LEMMA TimeLast ==
  ASSUME VLAN_OFFSET = 0 \/ ~doChecksum, NEW h, NEW t \in Time
  PROVE  SentTime(WithChecksum(PutTime(h, t))) = t
<1> DEFINE g == WithChecksum(PutTime(h, t))
<1>1. \A i \in 0 .. 3 : PutTime(h, t)[tsoffset + 2 * i] = t[i]
  <2>1. /\ (40 - 40) \div 2 = 0 /\ (42 - 40) \div 2 = 1
        /\ (44 - 40) \div 2 = 2 /\ (46 - 40) \div 2 = 3
    OBVIOUS
  <2>2. /\ PutTime(h, t)[40] = t[0] /\ PutTime(h, t)[42] = t[1]
        /\ PutTime(h, t)[44] = t[2] /\ PutTime(h, t)[46] = t[3]
    BY <2>1 DEF PutTime, tsoffset, Offsets
  <2> TAKE i \in 0 .. 3
  <2>3. i = 0 \/ i = 1 \/ i = 2 \/ i = 3
    OBVIOUS
  <2> QED
    BY <2>2, <2>3 DEF tsoffset
<1>2. \A i \in 0 .. 3 : g[tsoffset + 2 * i] = PutTime(h, t)[tsoffset + 2 * i]
  <2> TAKE i \in 0 .. 3
  <2>1. CASE ~doChecksum
    BY <2>1 DEF WithChecksum
  <2>2. CASE VLAN_OFFSET = 0
    <3>1. tsoffset + 2 * i # icmpStart + 2
      BY <2>2 DEF tsoffset, icmpStart
    <3> QED
      BY <3>1, ChecksumElsewhere
  <2> QED
    BY <2>1, <2>2
<1>3. SentTime(g) = [i \in 0 .. 3 |-> g[tsoffset + 2 * i]]
  BY DEF SentTime
<1> HIDE DEF g
<1>4. SentTime(g) = [i \in 0 .. 3 |-> t[i]]
  BY <1>1, <1>2, <1>3
<1> QED
  BY <1>4 DEF Time, g

\* runtime.c:556, 718.  With a tag or with checksums, but not with both, the
\* receiver reads the send time of every marked packet.
THEOREM SendTimesSurvive == VLAN_OFFSET = 0 \/ ~doChecksum => (Spec => []TimeSurvives)
<1> SUFFICES ASSUME VLAN_OFFSET = 0 \/ ~doChecksum PROVE Spec => []TimeSurvives
  OBVIOUS
<1>1. Init => TimeSurvives
  BY DEF Init, TimeSurvives, Sent
<1>2. TimeSurvives /\ [Next]_vars => TimeSurvives'
  <2> SUFFICES ASSUME TimeSurvives, [Next]_vars PROVE TimeSurvives'
    OBVIOUS
  <2>1. CASE LatencyPacket
    <3>1. PICK t \in Times : out' = Sent(StampTrain(icmppkt', t), TRUE, t, 0)
      BY <2>1 DEF LatencyPacket
    <3>2. out'.time = t /\ out'.hdr = WithChecksum(PutTime(icmppkt', t))
      BY <3>1 DEF Sent, StampTrain
    <3>3. SentTime(out'.hdr) = t
      BY <3>2, TimeLast, StampAssumption
    <3> QED
      BY <3>2, <3>3 DEF TimeSurvives, SentTime
  <2>2. CASE StsMarked
    <3>1. PICK t \in Times : out' = Sent(StampSts(icmppkt, pktcounter, t), TRUE, t, pktcounter)
      BY <2>2 DEF StsMarked
    <3>2. PICK h : StampSts(icmppkt, pktcounter, t) = WithChecksum(PutTime(h, t))
      BY DEF StampSts
    <3>3. out'.time = t /\ out'.hdr = WithChecksum(PutTime(h, t))
      BY <3>1, <3>2 DEF Sent
    <3>4. SentTime(out'.hdr) = t
      BY <3>3, TimeLast, StampAssumption
    <3> QED
      BY <3>3, <3>4 DEF TimeSurvives, SentTime
  <2>3. CASE StsFriend
    BY <2>3 DEF StsFriend, Sent, TimeSurvives
  <2>4. CASE UNCHANGED vars
    BY <2>4 DEF vars, TimeSurvives, SentTime
  <2> QED
    BY <2>1, <2>2, <2>3, <2>4 DEF Next
<1> QED
  BY <1>1, <1>2, PTL DEF Spec

\* runtime.c:497, 709.  Without a tag, whether there are checksums or not, the
\* receiver reads the number of every marked packet.
THEOREM CountersSurvive == VLAN_OFFSET = 0 => (Spec => []CounterSurvives)
<1> SUFFICES ASSUME VLAN_OFFSET = 0 PROVE Spec => []CounterSurvives
  OBVIOUS
<1>1. Init => CounterSurvives
  BY DEF Init, CounterSurvives, Sent
<1>2. TemplateInv /\ CounterSurvives /\ [Next]_vars => CounterSurvives'
  <2> SUFFICES ASSUME TemplateInv, CounterSurvives, [Next]_vars PROVE CounterSurvives'
    OBVIOUS
  <2>1. CASE LatencyPacket
    BY <2>1 DEF LatencyPacket, CounterSurvives
  <2>2. CASE StsMarked /\ autoIncNum
    <3>1. PICK t \in Times : out' = Sent(StampSts(icmppkt, pktcounter, t), TRUE, t, pktcounter)
      BY <2>2 DEF StsMarked
    <3> DEFINE h == PutCounter(PutMark(icmppkt), pktcounter)
    <3>2. out'.no = pktcounter /\ out'.hdr = WithChecksum(PutTime(h, t))
      BY <2>2, <3>1 DEF Sent, StampSts
    <3>3. h[38] = pktcounter % WordBase
      BY DEF TemplateInv, PutCounter, PutMark, cntroffset, Header, Offsets
    <3> HIDE DEF h
    <3>4. PutTime(h, t)[38] = h[38]
      BY DEF PutTime, tsoffset, Offsets
    <3>5. WithChecksum(PutTime(h, t))[38] = PutTime(h, t)[38]
      BY ChecksumElsewhere DEF icmpStart
    <3> QED
      BY <3>2, <3>3, <3>4, <3>5 DEF CounterSurvives, Counter, cntroffset
  <2>3. CASE StsMarked /\ ~autoIncNum
    BY <2>3 DEF CounterSurvives
  <2>4. CASE StsFriend
    BY <2>4 DEF StsFriend, Sent, CounterSurvives
  <2>5. CASE UNCHANGED vars
    BY <2>5 DEF vars, CounterSurvives, Counter
  <2> QED
    BY <2>1, <2>2, <2>3, <2>4, <2>5 DEF Next
<1> QED
  BY <1>1, <1>2, TemplateAlways, PTL DEF Spec

\* runtime.c:279, 495.  Without tag and checksums the receiver recognises
\* exactly the packets their sender marked.
COROLLARY MarksSurvive == Plain => (Spec => []MarkSurvives)
<1> SUFFICES ASSUME Plain PROVE Spec => []MarkSurvives
  OBVIOUS
<1>1. Spec => [](TypeOK /\ MarkSurvives /\ TimeSurvives /\ CounterSurvives)
  BY StampCorrect
<1> QED
  BY <1>1, PTL
=============================================================================
