---------------------------- MODULE PacketFormat ----------------------------
(***************************************************************************)
(* The part of the probe packet that the program writes and reads back:    *)
(* the ICMP header and the first bytes of its payload, as 16-bit words at  *)
(* their byte offsets (runtime.c:130-168), and the two ways of stamping    *)
(* them (app_lcore_io_tx and app_lcore_io_tx_sts).                         *)
(*                                                                         *)
(* A 64-bit time stamp is four words, lowest first, as the little-endian   *)
(* build stores it.  WordBase is 2^16 in the program; the operators hold   *)
(* for any base, so that the runs can use a small one.                     *)
(***************************************************************************)
EXTENDS Integers, FiniteSetsExt

CONSTANTS
  VLAN_OFFSET,   \* 4 when the build tags its packets (main.h:41), else 0
  WordBase,      \* number of values of a 16-bit word
  tspacketId,    \* the mark, (TSIDTYPE)0xCACACACA
  doChecksum,    \* --chksum
  autoIncNum     \* --autoInc

Word == 0 .. WordBase - 1

(***************************************************************************)
(* The words of the packet the model keeps: from offset 34, where the ICMP *)
(* header of an untagged packet starts, to offset 46, where the time stamp *)
(* ends.  The rest of the payload is constant and is left out.             *)
(***************************************************************************)
Offsets == {34, 36, 38, 40, 42, 44, 46}
Header  == [Offsets -> Word]
Time    == [0 .. 3 -> Word]

icmpStart  == 34 + VLAN_OFFSET
idoffset   == 36 + VLAN_OFFSET
cntroffset == 38 + VLAN_OFFSET
seqoffset  == icmpStart + 6
tsoffset   == 40

ASSUME FormatAssumption ==
  /\ VLAN_OFFSET \in {0, 4}
  /\ WordBase \in Nat /\ WordBase > 1
  /\ tspacketId \in Word
  /\ doChecksum \in BOOLEAN
  /\ autoIncNum \in BOOLEAN

-----------------------------------------------------------------------------
\* What the program reads from a packet.

IsMarked(h) == h[idoffset] = tspacketId
Counter(h)  == h[cntroffset]
SentTime(h) == [i \in 0 .. 3 |-> h[tsoffset + 2 * i]]

(***************************************************************************)
(* rte_raw_cksum over the ICMP part of the packet: the ones'-complement    *)
(* sum of its words.  A receiver accepts a packet whose sum, checksum      *)
(* field included, is all ones.                                            *)
(***************************************************************************)
RawCksum(h) ==
  LET s == SumFunctionOnSet(h, {o \in Offsets : o >= icmpStart})
  IN  IF s = 0 THEN 0 ELSE ((s - 1) % (WordBase - 1)) + 1

-----------------------------------------------------------------------------
\* What the program writes into a packet.

PutTimeAfterId(h, t) ==   \* mutant: the stamp starts one word early
  [o \in Offsets |-> IF o \in 38 .. 44 THEN t[(o - 38) \div 2] ELSE h[o]]

PutTime(h, t) ==
  [o \in Offsets |-> IF o >= tsoffset THEN t[(o - tsoffset) \div 2] ELSE h[o]]

PutMarkNever(h) == h      \* mutant: the mark is forgotten

PutMark(h) == [h EXCEPT ![idoffset] = tspacketId]

PutCounterNext(h, n) == [h EXCEPT ![cntroffset] = (n + 1) % WordBase]  \* mutant: ++pktcounter

PutCounterNever(h, n) == h      \* mutant: the packet is not numbered

\* pktcounter is 32 bits wide, its place in the packet 16.
PutCounter(h, n) == [h EXCEPT ![cntroffset] = n % WordBase]

\* The sum is taken with whatever the checksum field, which is the word of
\* the mark, holds at that time.
PutChecksum(h) ==
  LET c == RawCksum(h)
  IN  [h EXCEPT ![icmpStart + 2] = IF c = WordBase - 1 THEN c ELSE WordBase - 1 - c]

WithChecksum(h) == IF doChecksum THEN PutChecksum(h) ELSE h

\* --autoInc in the latency mode increments the template itself.
NextTemplate(h) ==
  IF autoIncNum THEN [h EXCEPT ![seqoffset] = (@ + 1) % WordBase] ELSE h

\* A packet of app_lcore_io_tx: the template, copied whole and stamped.
StampTrain(template, t) == WithChecksum(PutTime(template, t))

\* The first packet of a burst of app_lcore_io_tx_sts on queue 0.
StampSts(template, n, t) ==
  LET marked   == PutMark(template)
      numbered == IF autoIncNum THEN PutCounter(marked, n) ELSE marked
  IN  WithChecksum(PutTime(numbered, t))

\* The first packet of a burst of app_lcore_io_tx_sts on another queue.
StampOther(template) == WithChecksum(template)
=============================================================================
