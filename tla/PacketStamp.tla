----------------------------- MODULE PacketStamp -----------------------------
(***************************************************************************)
(* The transmitters as producers of packets: which packet they put on the  *)
(* wire from the shared template icmppkt, and what the receiver will read  *)
(* in it.  "out" is the last packet sent, together with what its sender    *)
(* meant it to say.                                                        *)
(***************************************************************************)
EXTENDS PacketFormat

CONSTANTS
  Templates,    \* the values icmppkt may start with
  Times,        \* the values hptl_get may return
  MaxCounter    \* bound: the model stops numbering packets here

ASSUME StampAssumption ==
  /\ Templates \subseteq {h \in Header : h[idoffset] # tspacketId}
  /\ Times \subseteq Time
  /\ MaxCounter \in Nat

VARIABLES
  mode,         \* "latency" (app_lcore_io_tx) or "sts" (app_lcore_io_tx_sts)
  icmppkt,      \* the template
  pktcounter,   \* number of the next marked packet of the "sts" mode
  out           \* the last packet sent

vars == <<mode, icmppkt, pktcounter, out>>

Sent(h, marked, t, n) == [hdr |-> h, marked |-> marked, time |-> t, no |-> n]

\* In the latency mode the main loop marks the template once and for all.
Init ==
  /\ mode \in {"latency", "sts"}
  /\ \E h \in Templates :
       /\ icmppkt = IF mode = "latency" THEN PutMark(h) ELSE h
       /\ out = Sent(h, FALSE, SentTime(h), 0)
  /\ pktcounter = 0

LatencyPacket ==
  /\ mode = "latency"
  /\ icmppkt' = NextTemplate(icmppkt)
  /\ \E t \in Times : out' = Sent(StampTrain(icmppkt', t), TRUE, t, 0)
  /\ UNCHANGED <<mode, pktcounter>>

StsMarked ==
  /\ mode = "sts"
  /\ pktcounter < MaxCounter
  /\ \E t \in Times : out' = Sent(StampSts(icmppkt, pktcounter, t), TRUE, t, pktcounter)
  /\ pktcounter' = IF autoIncNum THEN pktcounter + 1 ELSE pktcounter
  /\ UNCHANGED <<mode, icmppkt>>

\* The other packets of a burst are the template as it is; the first one of
\* a burst on a queue other than 0 may get a checksum.
StsFriend ==
  /\ mode = "sts"
  /\ \E h \in {icmppkt, StampOther(icmppkt)} :
       out' = Sent(h, FALSE, SentTime(h), pktcounter)
  /\ UNCHANGED <<mode, icmppkt, pktcounter>>

Next == LatencyPacket \/ StsMarked \/ StsFriend

Spec == Init /\ [][Next]_vars

-----------------------------------------------------------------------------
TypeOK ==
  /\ mode \in {"latency", "sts"}
  /\ icmppkt \in Header
  /\ pktcounter \in Nat
  /\ out \in [hdr : Header, marked : BOOLEAN, time : Time, no : Nat]

(***************************************************************************)
(* The receiver recognises exactly the packets their sender marked: the    *)
(* writes that follow the mark (counter, time stamp, checksum) leave it    *)
(* alone, and no other packet carries it (runtime.c:279, 495).             *)
(***************************************************************************)
MarkSurvives == IsMarked(out.hdr) <=> out.marked

\* The send time the receiver subtracts is the one its sender read.
TimeSurvives == out.marked => SentTime(out.hdr) = out.time

\* With --autoInc the receiver finds in the packet the counter of its
\* sender, cut to the width of the field (runtime.c:497, 709).
CounterSurvives ==
  mode = "sts" /\ autoIncNum /\ out.marked => Counter(out.hdr) = out.no % WordBase
=============================================================================
