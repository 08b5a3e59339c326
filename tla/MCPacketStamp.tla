---- MODULE MCPacketStamp ----
(***************************************************************************)
(* A small PacketStamp: words of base 4, every time stamp of four such     *)
(* words, and templates whose identification word is 0 as in icmppkt.      *)
(***************************************************************************)
EXTENDS PacketStamp

MCTimes == [0 .. 3 -> 0 .. 3]

MCTemplates ==
  { [o \in Offsets |-> IF o = 34 THEN 1 ELSE IF o = 38 + VLAN_OFFSET THEN id
                       ELSE IF o = 40 + VLAN_OFFSET THEN seq ELSE 0] :
      id \in 0 .. 1, seq \in 0 .. 1 }
====
