-------------------------- MODULE Bandwidth_proofs --------------------------
(***************************************************************************)
(* Proofs about Bandwidth, for every number of lcores, ports and queues    *)
(* and every size of rings, bursts, windows and pool.                      *)
(***************************************************************************)
EXTENDS Bandwidth, SumTheorems

\* What the assumption says of each constant.
LEMMA Numbers ==
  /\ RxStats \in Nat /\ RxStats > 0 /\ TxStats \in Nat /\ TxStats > 0
  /\ ArpEvery \in Nat /\ ArpEvery > 0 /\ Limit \in Nat /\ Limit > 0
  /\ BurstTx \in Nat /\ BurstTx > 0 /\ BurstRx \in Nat /\ BurstRx > 0
  /\ TxRing \in Nat /\ TxRing > 0 /\ RxRing \in Nat /\ RxRing > 0
  /\ PoolSize \in Nat /\ MaxCount \in Nat
  BY BandwidthAssumption

LEMMA ListTypes ==
  ASSUME NEW l \in Lcores
  PROVE  /\ RxQueues[l] \in Seq(TxQs \cup RxQs) /\ TxQueues[l] \in Seq(TxQs \cup RxQs)
         /\ Len(RxQueues[l]) \in Nat /\ DOMAIN RxQueues[l] = 1 .. Len(RxQueues[l])
         /\ Len(TxQueues[l]) \in Nat /\ DOMAIN TxQueues[l] = 1 .. Len(TxQueues[l])
<1>1. RxQueues[l] \in Seq(TxQs \cup RxQs) /\ TxQueues[l] \in Seq(TxQs \cup RxQs)
  BY BandwidthAssumption
<1> QED
  BY <1>1, LenProperties

\* A queue in the list of an lcore is a queue of a port.
LEMMA QueueTypes ==
  /\ \A l \in Lcores : \A i \in DOMAIN RxQueues[l] : RxQueues[l][i] \in RxQs
  /\ \A l \in Lcores : \A i \in DOMAIN TxQueues[l] : TxQueues[l][i] \in TxQs
  /\ \A q \in TxQs \cup RxQs : q.port \in Ports /\ q.queue \in Nat
                               /\ q = [port |-> q.port, queue |-> q.queue]
<1>1. ASSUME NEW l \in Lcores, NEW i \in DOMAIN RxQueues[l] PROVE RxQueues[l][i] \in RxQs
  BY DEF RxQs, Queues, Range
<1>2. ASSUME NEW l \in Lcores, NEW i \in DOMAIN TxQueues[l] PROVE TxQueues[l][i] \in TxQs
  BY DEF TxQs, Queues, Range
<1>3. ASSUME NEW q \in TxQs \cup RxQs
      PROVE  q.port \in Ports /\ q.queue \in Nat /\ q = [port |-> q.port, queue |-> q.queue]
  BY BandwidthAssumption
<1> QED
  BY <1>1, <1>2, <1>3

LEMMA QueuesFinite == IsFiniteSet(TxQs) /\ IsFiniteSet(Lcores)
<1>1. IsFiniteSet(Lcores)
  BY BandwidthAssumption
<1>2. \A l \in Lcores : TxQueues[l] \in Seq(TxQs \cup RxQs)
  BY ListTypes
<1>3. IsFiniteSet(UNION {{TxQueues[l][i] : i \in DOMAIN TxQueues[l]} : l \in Lcores})
  BY <1>1, <1>2, ListedFinite
<1> QED
  BY <1>1, <1>3 DEF TxQs, Queues, Range

-----------------------------------------------------------------------------
Places == {"arp", "rearp", "turn", "rx", "rxget", "rxstamp", "rxfirst", "rxreset", "tx",
           "txsend", "txget", "txstamp", "txreset", "txfree", "asleep"}

Windows == [dir : Dirs \cup {"none"}, nth : {"none", "first", "later"},
            counted : 0 .. MaxCount, passed : 0 .. MaxCount, bursts : Nat]

\* TypeOK without the bounds that do not follow from the step before, and the
\* variables that are only there for the properties.
LcoreTypes ==
  /\ mode \in {"active", "passive"}
  /\ pc \in [Lcores -> Places]
  /\ qi \in [Lcores -> Nat \ {0}]
  /\ turn \in [Lcores -> 0 .. ArpEvery + 1]
  /\ exitCode \in {"none", "-1"}

BufferTypes ==
  /\ held \in [Lcores -> 0 .. BurstTx]
  /\ nic_mbufs_count \in [Lcores -> 0 .. Limit + BurstTx - 1]
  /\ free \in Nat
  /\ txring \in [TxQs -> 0 .. TxRing]
  /\ rxring \in [RxQs -> 0 .. RxRing]

WindowTypes ==
  /\ rxiters \in [First(RxQs) -> 0 .. RxStats]
  /\ txiters \in [First(TxQs) -> 0 .. TxStats - 1]
  /\ rxStart \in [Lcores -> BOOLEAN]
  /\ bursts \in [Lcores -> [Dirs -> Nat]]

CountTypes ==
  /\ got \in [Lcores -> 0 .. MaxCount]
  /\ stats \in [Ports -> [Dirs -> 0 .. MaxCount]]
  /\ since \in [Lcores -> [Dirs -> [Ports -> 0 .. MaxCount]]]
  /\ printed \in [Lcores -> [Dirs -> {"none", "first", "later"}]]
  /\ window \in [Lcores -> Windows]

TypeInv == LcoreTypes /\ BufferTypes /\ WindowTypes /\ CountTypes

\* Where an lcore is tells which queue it serves: one of its list, and number 0
\* while it prints.
AtPlace(l, place, i) ==
  /\ place \in {"rx", "rxget", "rxstamp", "rxfirst", "rxreset"} => i \in DOMAIN RxQueues[l]
  /\ place \in {"rxget", "rxstamp", "rxfirst", "rxreset"} => RxQueues[l][i].queue = 0
  /\ place \in {"tx", "txsend", "txget", "txstamp", "txreset", "txfree"} =>
       i \in DOMAIN TxQueues[l]
  /\ place \in {"txget", "txstamp", "txreset"} => TxQueues[l][i].queue = 0
  /\ place = "turn" => i = 1

PlaceInv == \A l \in Lcores : AtPlace(l, pc[l], qi[l])

\* An lcore has no buffers in its hands but those of the burst, or the
\* announcement, it is sending, and one that has sent enough is asleep.
Sending == {"txsend", "txget", "txstamp", "txreset", "txfree", "asleep"}

NoBuffers(l) == pc[l] \notin Sending /\ ~Announcing(l)

HandInv ==
  \A l \in Lcores : /\ NoBuffers(l) => held[l] = 0
                    /\ nic_mbufs_count[l] >= Limit => pc[l] = "asleep"

-----------------------------------------------------------------------------
\* The steps by which an lcore moves.
LEMMA NotEmptyList ==
  ASSUME NEW l \in Lcores
  PROVE  /\ RxQueues[l] # <<>> => 1 \in DOMAIN RxQueues[l]
         /\ TxQueues[l] # <<>> => 1 \in DOMAIN TxQueues[l]
<1>1. RxQueues[l] \in Seq(TxQs \cup RxQs) /\ TxQueues[l] \in Seq(TxQs \cup RxQs)
  BY ListTypes
<1>2. RxQueues[l] # <<>> => Len(RxQueues[l]) # 0
  BY <1>1, EmptySeq
<1>3. TxQueues[l] # <<>> => Len(TxQueues[l]) # 0
  BY <1>1, EmptySeq
<1> QED
  BY <1>2, <1>3, ListTypes

LEMMA TopPlace ==
  ASSUME NEW l \in Lcores
  PROVE  Top(l) \in {"rx", "tx", "turn"} /\ AtPlace(l, Top(l), 1)
<1>1. RxQueues[l] # <<>> \/ TxQueues[l] # <<>>
  BY BandwidthAssumption
<1> QED
  BY <1>1, NotEmptyList DEF Top, AtPlace

LEMMA AfterRxPlace ==
  ASSUME NEW l \in Lcores, RxQueues[l] # <<>>
  PROVE  AfterRx(l) \in {"rx", "tx", "turn"} /\ AtPlace(l, AfterRx(l), 1)
  BY NotEmptyList DEF AfterRx, AtPlace

\* Lcore l goes to a place that suits its queue, the others stay.
Moves(l) ==
  /\ pc' \in [Lcores -> Places] /\ qi' \in [Lcores -> Nat \ {0}]
  /\ \A m \in Lcores \ {l} : pc'[m] = pc[m] /\ qi'[m] = qi[m]
  /\ AtPlace(l, pc'[l], qi'[l])

LEMMA MovesPlace ==
  ASSUME PlaceInv, NEW l \in Lcores, Moves(l)
  PROVE  PlaceInv'
<1>1. ASSUME NEW m \in Lcores PROVE AtPlace(m, pc'[m], qi'[m])
  BY DEF PlaceInv, Moves
<1> QED
  BY <1>1 DEF PlaceInv, AtPlace

LEMMA NextRxMoves ==
  ASSUME LcoreTypes, NEW l \in Lcores, NextRx(l), qi[l] \in DOMAIN RxQueues[l]
  PROVE  Moves(l) /\ pc'[l] \in {"rx", "tx", "turn"}
<1>1. RxQueues[l] # <<>>
  <2>1. CASE RxQueues[l] = <<>>
    BY <2>1
  <2> QED
    BY <2>1
<1>2. qi[l] \in Nat /\ pc[l] \in Places /\ qi[l] \in 1 .. Len(RxQueues[l]) /\ Len(RxQueues[l]) \in Nat
  BY ListTypes DEF LcoreTypes
<1>3. CASE qi[l] < Len(RxQueues[l])
  <2>1. qi[l] + 1 \in DOMAIN RxQueues[l] /\ qi[l] + 1 \in Nat \ {0}
    BY <1>2, <1>3, ListTypes
  <2>2. pc' = [pc EXCEPT ![l] = "rx"] /\ qi' = [qi EXCEPT ![l] = qi[l] + 1]
    BY <1>3 DEF NextRx, GoTo
  <2>3. pc'[l] = "rx" /\ qi'[l] = qi[l] + 1
    BY <2>2 DEF LcoreTypes
  <2>4. AtPlace(l, pc'[l], qi'[l])
    BY <2>1, <2>3 DEF AtPlace
  <2> QED
    BY <2>1, <2>2, <2>3, <2>4 DEF Moves, LcoreTypes, Places
<1>4. CASE ~(qi[l] < Len(RxQueues[l]))
  <2>1. pc' = [pc EXCEPT ![l] = AfterRx(l)] /\ qi' = [qi EXCEPT ![l] = 1]
    BY <1>4 DEF NextRx, GoTo
  <2>2. AfterRx(l) \in {"rx", "tx", "turn"} /\ AtPlace(l, AfterRx(l), 1)
    BY <1>1, AfterRxPlace
  <2>3. pc'[l] = AfterRx(l) /\ qi'[l] = 1
    BY <2>1 DEF LcoreTypes
  <2> QED
    BY <2>1, <2>2, <2>3 DEF Moves, LcoreTypes, Places
<1> QED
  BY <1>3, <1>4

LEMMA NextTxMoves ==
  ASSUME LcoreTypes, NEW l \in Lcores, NextTx(l), qi[l] \in DOMAIN TxQueues[l]
  PROVE  Moves(l) /\ pc'[l] \in {"rx", "tx", "turn"}
<1>2. qi[l] \in Nat /\ pc[l] \in Places /\ qi[l] \in 1 .. Len(TxQueues[l]) /\ Len(TxQueues[l]) \in Nat
  BY ListTypes DEF LcoreTypes
<1>3. CASE qi[l] < Len(TxQueues[l])
  <2>1. qi[l] + 1 \in DOMAIN TxQueues[l] /\ qi[l] + 1 \in Nat \ {0}
    BY <1>2, <1>3, ListTypes
  <2>2. pc' = [pc EXCEPT ![l] = "tx"] /\ qi' = [qi EXCEPT ![l] = qi[l] + 1]
    BY <1>3 DEF NextTx, GoTo
  <2>3. pc'[l] = "tx" /\ qi'[l] = qi[l] + 1
    BY <2>2 DEF LcoreTypes
  <2>4. AtPlace(l, pc'[l], qi'[l])
    BY <2>1, <2>3 DEF AtPlace
  <2> QED
    BY <2>1, <2>2, <2>3, <2>4 DEF Moves, LcoreTypes, Places
<1>4. CASE ~(qi[l] < Len(TxQueues[l]))
  <2>1. pc' = [pc EXCEPT ![l] = Top(l)] /\ qi' = [qi EXCEPT ![l] = 1]
    BY <1>4 DEF NextTx, GoTo
  <2>2. Top(l) \in {"rx", "tx", "turn"} /\ AtPlace(l, Top(l), 1)
    BY TopPlace
  <2>3. pc'[l] = Top(l) /\ qi'[l] = 1
    BY <2>1 DEF LcoreTypes
  <2> QED
    BY <2>1, <2>2, <2>3 DEF Moves, LcoreTypes, Places
<1> QED
  BY <1>3, <1>4

LEMMA GoToMoves ==
  ASSUME LcoreTypes, NEW l \in Lcores, NEW place \in Places, GoTo(l, place), qi' = qi,
         AtPlace(l, place, qi[l])
  PROVE  Moves(l) /\ pc'[l] = place
  BY DEF LcoreTypes, GoTo, Moves

-----------------------------------------------------------------------------
\* The steps of the program.
LEMMA StepCases ==
  ASSUME [Next]_vars
  PROVE  \/ UNCHANGED vars
         \/ \E l \in Lcores :
              \/ ArpAlloc(l) \/ ArpSend(l) \/ ArpFail(l) \/ ArpDone(l) \/ Turn(l)
              \/ RxEmpty(l) \/ RxBurst(l) \/ RxGet(l) \/ RxStamp(l) \/ RxResetFirst(l) \/ RxReset(l)
              \/ TxAlloc(l) \/ TxSend(l) \/ TxGet(l) \/ TxStamp(l) \/ TxReset(l) \/ TxFree(l)
         \/ \E q \in TxQs : Transmit(q)
         \/ \E q \in RxQs : Arrive(q)
  BY DEF Next, Ended, Sleep, LcoreStep, RxStep, TxStep

\* Where each step of an lcore leads.
LEMMA LcoreMoves ==
  ASSUME TypeInv, PlaceInv, NEW l \in Lcores
  PROVE  /\ ArpAlloc(l) \/ ArpSend(l) \/ ArpFail(l) =>
              Moves(l) /\ pc'[l] = pc[l] /\ pc[l] \in {"arp", "rearp"}
         /\ ArpDone(l) => Moves(l) /\ pc'[l] \in {"rx", "tx", "turn"}
         /\ Turn(l) => Moves(l) /\ pc'[l] \in {"rx", "tx", "turn", "rearp"}
         /\ RxEmpty(l) => Moves(l) /\ pc'[l] \in {"rx", "tx", "turn"}
         /\ RxBurst(l) => Moves(l) /\ pc'[l] \in {"rx", "tx", "turn", "rxget"}
         /\ RxGet(l) => Moves(l) /\ pc'[l] = "rxstamp"
         /\ RxStamp(l) => Moves(l) /\ pc'[l] \in {"rxfirst", "rxreset"}
         /\ RxResetFirst(l) => Moves(l) /\ pc'[l] = "rxreset"
         /\ RxReset(l) => Moves(l) /\ pc'[l] \in {"rx", "tx", "turn"}
         /\ TxAlloc(l) => Moves(l) /\ pc'[l] = "txsend"
         /\ TxSend(l) => Moves(l) /\ pc'[l] \in {"asleep", "txget", "txfree"}
         /\ TxGet(l) => Moves(l) /\ pc'[l] = "txstamp"
         /\ TxStamp(l) => Moves(l) /\ pc'[l] = "txreset"
         /\ TxReset(l) => Moves(l) /\ pc'[l] = "txfree"
         /\ TxFree(l) => Moves(l) /\ pc'[l] \in {"rx", "tx", "turn"}
<1> USE DEF Places
<1>1. LcoreTypes /\ AtPlace(l, pc[l], qi[l])
  BY DEF TypeInv, PlaceInv
<1>2. ASSUME ArpAlloc(l) \/ ArpSend(l) \/ ArpFail(l)
      PROVE  Moves(l) /\ pc'[l] = pc[l] /\ pc[l] \in {"arp", "rearp"}
  BY <1>1, <1>2 DEF ArpAlloc, ArpSend, ArpFail, Announcing, Moves, LcoreTypes, lcoreVars, AtPlace
<1>3. ASSUME ArpDone(l) PROVE Moves(l) /\ pc'[l] \in {"rx", "tx", "turn"}
  <2>1. pc' = [pc EXCEPT ![l] = Top(l)] /\ qi' = [qi EXCEPT ![l] = 1]
    BY <1>3 DEF ArpDone, GoTo
  <2>2. pc'[l] = Top(l) /\ qi'[l] = 1
    BY <1>1, <2>1 DEF LcoreTypes
  <2> QED
    BY <1>1, <2>1, <2>2, TopPlace DEF Moves, LcoreTypes
<1>4. ASSUME Turn(l) PROVE Moves(l) /\ pc'[l] \in {"rx", "tx", "turn", "rearp"}
  <2>1. pc[l] = "turn" /\ qi[l] = 1 /\ qi' = qi
    BY <1>1, <1>4 DEF Turn, AtPlace
  <2>2. CASE GoTo(l, "rearp")
    BY <1>1, <2>1, <2>2, GoToMoves DEF AtPlace
  <2>3. CASE GoTo(l, Top(l))
    <3>1. Top(l) \in Places /\ Top(l) \in {"rx", "tx", "turn"} /\ AtPlace(l, Top(l), qi[l])
      BY <2>1, TopPlace
    <3> QED
      BY <1>1, <2>1, <2>3, <3>1, GoToMoves
  <2> QED
    BY <1>4, <2>2, <2>3 DEF Turn
<1>5. ASSUME RxEmpty(l) PROVE Moves(l) /\ pc'[l] \in {"rx", "tx", "turn"}
  <2>1. qi[l] \in DOMAIN RxQueues[l] /\ NextRx(l)
    BY <1>1, <1>5 DEF RxEmpty, RxPoll, AtPlace
  <2> QED
    BY <1>1, <2>1, NextRxMoves
<1>6. ASSUME RxBurst(l) PROVE Moves(l) /\ pc'[l] \in {"rx", "tx", "turn", "rxget"}
  <2>1. qi[l] \in DOMAIN RxQueues[l]
    BY <1>1, <1>6 DEF RxBurst, RxPoll, AtPlace
  <2>2. CASE NextRx(l)
    BY <1>1, <2>1, <2>2, NextRxMoves
  <2>3. CASE GoTo(l, "rxget") /\ qi' = qi /\ RxQueue(l).queue = 0
    <3>1. AtPlace(l, "rxget", qi[l])
      BY <2>1, <2>3 DEF AtPlace, RxQueue
    <3> QED
      BY <1>1, <2>3, <3>1, GoToMoves
  <2> QED
    BY <1>6, <2>2, <2>3 DEF RxBurst
<1>7. ASSUME RxGet(l) PROVE Moves(l) /\ pc'[l] = "rxstamp"
  <2>1. GoTo(l, "rxstamp") /\ qi' = qi /\ AtPlace(l, "rxstamp", qi[l])
    BY <1>1, <1>7 DEF RxGet, Get, AtPlace
  <2> QED
    BY <1>1, <2>1, GoToMoves
<1>8. ASSUME RxStamp(l) PROVE Moves(l) /\ pc'[l] \in {"rxfirst", "rxreset"}
  <2>1. PICK place \in {"rxfirst", "rxreset"} : GoTo(l, place)
    BY <1>8 DEF RxStamp
  <2>2. qi' = qi /\ AtPlace(l, place, qi[l])
    BY <1>1, <1>8 DEF RxStamp, AtPlace
  <2> QED
    BY <1>1, <2>1, <2>2, GoToMoves
<1>16. ASSUME RxResetFirst(l) PROVE Moves(l) /\ pc'[l] = "rxreset"
  <2>1. GoTo(l, "rxreset") /\ qi' = qi /\ AtPlace(l, "rxreset", qi[l])
    BY <1>1, <1>16 DEF RxResetFirst, AtPlace
  <2> QED
    BY <1>1, <2>1, GoToMoves
<1>9. ASSUME RxReset(l) PROVE Moves(l) /\ pc'[l] \in {"rx", "tx", "turn"}
  <2>1. qi[l] \in DOMAIN RxQueues[l] /\ NextRx(l)
    BY <1>1, <1>9 DEF RxReset, AtPlace
  <2> QED
    BY <1>1, <2>1, NextRxMoves
<1>10. ASSUME TxAlloc(l) PROVE Moves(l) /\ pc'[l] = "txsend"
  <2>1. GoTo(l, "txsend") /\ qi' = qi /\ AtPlace(l, "txsend", qi[l])
    BY <1>1, <1>10 DEF TxAlloc, AtPlace
  <2> QED
    BY <1>1, <2>1, GoToMoves
<1>11. ASSUME TxSend(l) PROVE Moves(l) /\ pc'[l] \in {"asleep", "txget", "txfree"}
  <2>1. pc[l] = "txsend" /\ qi' = qi
    BY <1>11 DEF TxSend
  <2>2. PICK place \in {"asleep", "txget", "txfree"} :
          GoTo(l, place) /\ (place = "txget" => TxQueue(l).queue = 0)
    BY <1>11 DEF TxSend
  <2>3. AtPlace(l, place, qi[l])
    BY <1>1, <2>1, <2>2 DEF AtPlace, TxQueue
  <2> QED
    BY <1>1, <2>1, <2>2, <2>3, GoToMoves
<1>12. ASSUME TxGet(l) PROVE Moves(l) /\ pc'[l] = "txstamp"
  <2>1. GoTo(l, "txstamp") /\ qi' = qi /\ AtPlace(l, "txstamp", qi[l])
    BY <1>1, <1>12 DEF TxGet, Get, AtPlace
  <2> QED
    BY <1>1, <2>1, GoToMoves
<1>13. ASSUME TxStamp(l) PROVE Moves(l) /\ pc'[l] = "txreset"
  <2>1. GoTo(l, "txreset") /\ qi' = qi /\ AtPlace(l, "txreset", qi[l])
    BY <1>1, <1>13 DEF TxStamp, AtPlace
  <2> QED
    BY <1>1, <2>1, GoToMoves
<1>14. ASSUME TxReset(l) PROVE Moves(l) /\ pc'[l] = "txfree"
  <2>1. GoTo(l, "txfree") /\ qi' = qi /\ AtPlace(l, "txfree", qi[l])
    BY <1>1, <1>14 DEF TxReset, AtPlace
  <2> QED
    BY <1>1, <2>1, GoToMoves
<1>15. ASSUME TxFree(l) PROVE Moves(l) /\ pc'[l] \in {"rx", "tx", "turn"}
  <2>1. qi[l] \in DOMAIN TxQueues[l] /\ NextTx(l)
    BY <1>1, <1>15 DEF TxFree, AtPlace
  <2> QED
    BY <1>1, <2>1, NextTxMoves
<1> QED
  BY <1>2, <1>3, <1>4, <1>5, <1>6, <1>7, <1>8, <1>9, <1>10, <1>11, <1>12, <1>13, <1>14, <1>15,
     <1>16

\* The card moves no lcore.
LEMMA CardMoves ==
  ASSUME TypeInv, PlaceInv, \/ UNCHANGED vars
                            \/ \E q \in TxQs : Transmit(q)
                            \/ \E q \in RxQs : Arrive(q)
  PROVE  pc' = pc /\ qi' = qi /\ turn' = turn /\ mode' = mode /\ exitCode' = exitCode
         /\ held' = held /\ nic_mbufs_count' = nic_mbufs_count
         /\ UNCHANGED <<rxiters, txiters, rxStart, got, bursts, printed, window>>
  BY DEF vars, Transmit, Arrive, lcoreVars, windowVars, historyVars

LEMMA PlaceStep == TypeInv /\ PlaceInv /\ [Next]_vars => LcoreTypes' /\ PlaceInv'
<1> SUFFICES ASSUME TypeInv, PlaceInv, [Next]_vars PROVE LcoreTypes' /\ PlaceInv'
  OBVIOUS
<1>1. CASE \/ UNCHANGED vars
           \/ \E q \in TxQs : Transmit(q)
           \/ \E q \in RxQs : Arrive(q)
  BY <1>1, CardMoves DEF TypeInv, LcoreTypes, PlaceInv, AtPlace
<1>2. ASSUME NEW l \in Lcores, Moves(l), UNCHANGED <<mode, turn, exitCode>>
      PROVE  LcoreTypes' /\ PlaceInv'
  BY <1>2, MovesPlace DEF TypeInv, LcoreTypes, Moves
<1>3. ASSUME NEW l \in Lcores,
             \/ RxEmpty(l) \/ RxBurst(l) \/ RxGet(l) \/ RxStamp(l) \/ RxResetFirst(l) \/ RxReset(l)
             \/ TxAlloc(l) \/ TxSend(l) \/ TxGet(l) \/ TxStamp(l) \/ TxReset(l) \/ TxFree(l)
      PROVE  LcoreTypes' /\ PlaceInv'
  <2>1. Moves(l)
    BY <1>3, LcoreMoves
  <2>2. UNCHANGED <<mode, turn, exitCode>>
    BY <1>3 DEF RxEmpty, RxBurst, RxPoll, RxGet, Get, RxStamp, RxResetFirst, RxReset, EndWindow, TxAlloc,
                TxSend, TxGet, TxStamp, TxReset, TxFree
  <2> QED
    BY <1>2, <2>1, <2>2
<1>4. ASSUME NEW l \in Lcores, ArpAlloc(l) \/ ArpSend(l) PROVE LcoreTypes' /\ PlaceInv'
  BY <1>2, <1>4, LcoreMoves DEF ArpAlloc, ArpSend
<1>5. ASSUME NEW l \in Lcores, ArpFail(l) PROVE LcoreTypes' /\ PlaceInv'
  <2>1. Moves(l) /\ exitCode' = "-1" /\ UNCHANGED <<mode, turn>>
    BY <1>5, LcoreMoves DEF ArpFail, lcoreVars
  <2> QED
    BY <2>1, MovesPlace DEF TypeInv, LcoreTypes, Moves
<1>6. ASSUME NEW l \in Lcores, ArpDone(l) \/ Turn(l) PROVE LcoreTypes' /\ PlaceInv'
  <2>1. Moves(l) /\ UNCHANGED <<mode, exitCode>>
    BY <1>6, LcoreMoves DEF ArpDone, Turn
  <2>2. turn' \in [Lcores -> 0 .. ArpEvery + 1]
    <3>1. turn \in [Lcores -> 0 .. ArpEvery + 1] /\ turn[l] \in Nat
      BY DEF TypeInv, LcoreTypes
    <3>2. CASE ArpDone(l)
      <4>1. PICK n \in {0, 1} : turn' = [turn EXCEPT ![l] = n]
        BY <3>2 DEF ArpDone
      <4> QED
        BY <3>1, <4>1, Numbers
    <3>3. CASE Turn(l)
      <4>1. turn' = turn \/ (turn[l] <= ArpEvery /\ turn' = [turn EXCEPT ![l] = turn[l] + 1])
        BY <3>1, <3>3, Numbers DEF Turn
      <4> QED
        BY <3>1, <4>1, Numbers
    <3> QED
      BY <1>6, <3>2, <3>3
  <2> QED
    BY <2>1, <2>2, MovesPlace DEF TypeInv, LcoreTypes, Moves
<1> QED
  BY <1>1, <1>3, <1>4, <1>5, <1>6, StepCases

-----------------------------------------------------------------------------
LEMMA LesserNat ==
  ASSUME NEW m \in Nat, NEW n \in Nat
  PROVE  Lesser(m, n) \in Nat /\ Lesser(m, n) <= m /\ Lesser(m, n) <= n
         /\ (Lesser(m, n) = m \/ Lesser(m, n) = n)
  BY DEF Lesser

\* A change of one ring, and of the burst of one lcore.
LEMMA RingChange ==
  ASSUME txring \in [TxQs -> Nat], NEW q \in TxQs, NEW v \in Nat
  PROVE  /\ SumFunction([txring EXCEPT ![q] = v]) + txring[q] = SumFunction(txring) + v
         /\ SumFunction([txring EXCEPT ![q] = v]) \in Nat /\ SumFunction(txring) \in Nat
  BY QueuesFinite, TotalChange

LEMMA HandChange ==
  ASSUME held \in [Lcores -> Nat], NEW l \in Lcores, NEW w \in Nat
  PROVE  /\ SumFunction([held EXCEPT ![l] = w]) + held[l] = SumFunction(held) + w
         /\ SumFunction([held EXCEPT ![l] = w]) \in Nat /\ SumFunction(held) \in Nat
  BY QueuesFinite, TotalChange

\* The buffers in the pool, in the ring of one queue and in the burst of one
\* lcore are passed between these three.
LEMMA BuffersMove ==
  ASSUME BufferTypes, MbufsConserved,
         NEW q \in TxQs, NEW l \in Lcores, NEW v \in Nat, NEW w \in Nat, NEW g \in Nat,
         txring' = [txring EXCEPT ![q] = v], held' = [held EXCEPT ![l] = w], free' = g,
         g + v + w = free + txring[q] + held[l]
  PROVE  MbufsConserved'
<1> DEFINE rings  == SumFunction(txring)
           hands  == SumFunction(held)
           rings2 == SumFunction([txring EXCEPT ![q] = v])
           hands2 == SumFunction([held EXCEPT ![l] = w])
<1>1. txring \in [TxQs -> Nat] /\ held \in [Lcores -> Nat]
  BY Numbers DEF BufferTypes
<1>2. rings \in Nat /\ hands \in Nat /\ free \in Nat /\ txring[q] \in Nat /\ held[l] \in Nat
  BY <1>1, QueuesFinite, TotalType DEF BufferTypes
<1>3. free + rings + hands = PoolSize /\ PoolSize \in Nat
  BY Numbers DEF MbufsConserved
<1>4. rings2 + txring[q] = rings + v /\ rings2 \in Nat
  BY <1>1, RingChange
<1>5. hands2 + held[l] = hands + w /\ hands2 \in Nat
  BY <1>1, HandChange
<1>6. SUFFICES g + rings2 + hands2 = PoolSize
  BY DEF MbufsConserved
<1> HIDE DEF rings, hands, rings2, hands2
<1> QED
  BY <1>2, <1>3, <1>4, <1>5

\* The steps that pass buffers on.
BufferStep(l) == ArpAlloc(l) \/ ArpSend(l) \/ TxAlloc(l) \/ TxSend(l) \/ TxFree(l)

LEMMA BuffersPassed ==
  ASSUME TypeInv, PlaceInv, HandInv, NEW l \in Lcores, BufferStep(l)
  PROVE  \E q \in TxQs, v \in 0 .. TxRing, w \in 0 .. BurstTx, g \in Nat :
           /\ txring' = [txring EXCEPT ![q] = v]
           /\ held' = [held EXCEPT ![l] = w]
           /\ free' = g
           /\ g + v + w = free + txring[q] + held[l]
<1> DEFINE q == TxQueue(l)
<1>1. q \in TxQs
  <2>1. AtPlace(l, pc[l], qi[l])
    BY DEF PlaceInv
  <2>2. qi[l] \in DOMAIN TxQueues[l]
    BY <2>1 DEF BufferStep, ArpAlloc, ArpSend, Announcing, TxAlloc, TxSend, TxFree, AtPlace
  <2> QED
    BY <2>2, QueueTypes DEF TxQueue
<1>2. /\ txring[q] \in 0 .. TxRing /\ held[l] \in 0 .. BurstTx /\ free \in Nat
      /\ txring = [txring EXCEPT ![q] = txring[q]] /\ held = [held EXCEPT ![l] = held[l]]
  BY <1>1 DEF TypeInv, BufferTypes
<1>7. CASE ArpAlloc(l)
  <2>1. free - 1 \in Nat /\ 1 \in 0 .. BurstTx /\ held[l] = 0
    BY <1>2, <1>7, Numbers DEF ArpAlloc
  <2>2. held' = [held EXCEPT ![l] = 1] /\ free' = free - 1 /\ txring' = txring
    BY <1>7 DEF ArpAlloc
  <2> HIDE DEF q
  <2>3. (free - 1) + txring[q] + 1 = free + txring[q] + held[l]
    BY <1>2, <2>1
  <2> QED
    BY <1>1, <1>2, <2>1, <2>2, <2>3
<1>3. CASE ArpSend(l)
  <2>1. txring[q] + 1 \in 0 .. TxRing /\ 0 \in 0 .. BurstTx /\ held[l] = 1
    BY <1>2, <1>3, Numbers DEF ArpSend
  <2>2. txring' = [txring EXCEPT ![q] = txring[q] + 1] /\ held' = [held EXCEPT ![l] = 0]
        /\ free' = free
    BY <1>3 DEF ArpSend
  <2> HIDE DEF q
  <2>3. free + (txring[q] + 1) + 0 = free + txring[q] + held[l]
    BY <1>2, <2>1
  <2> QED
    BY <1>1, <1>2, <2>1, <2>2, <2>3
<1>4. CASE TxAlloc(l)
  <2>1. Allocated \in 0 .. BurstTx /\ free - Allocated \in Nat
    BY <1>2, Numbers, LesserNat DEF Allocated
  <2>2. held' = [held EXCEPT ![l] = Allocated] /\ free' = free - Allocated /\ txring' = txring
    BY <1>4 DEF TxAlloc
  <2>3. held[l] = 0
    BY <1>4 DEF TxAlloc, HandInv, NoBuffers, Announcing, Sending
  <2>4. (free - Allocated) + txring[q] + Allocated = free + txring[q] + held[l]
    <3> HIDE DEF q
    <3> QED
      BY <1>2, <2>1, <2>3
  <2> HIDE DEF q
  <2> QED
    BY <1>1, <1>2, <2>1, <2>2, <2>4
<1>5. CASE TxSend(l)
  <2> DEFINE n == Lesser(held[l], TxRing - txring[q])
  <2>1. /\ n \in Nat /\ txring[q] + n \in 0 .. TxRing /\ held[l] - n \in 0 .. BurstTx
        /\ free + (txring[q] + n) + (held[l] - n) = free + txring[q] + held[l]
    <3>1. TxRing - txring[q] \in Nat /\ held[l] \in Nat
      BY <1>2, Numbers
    <3>2. n \in Nat /\ n <= held[l] /\ n <= TxRing - txring[q]
      BY <3>1, LesserNat
    <3> HIDE DEF n, q
    <3> QED
      BY <1>2, <3>2, Numbers
  <2>2. /\ txring' = [txring EXCEPT ![q] = txring[q] + n]
        /\ held' = [held EXCEPT ![l] = held[l] - n] /\ free' = free
    BY <1>5 DEF TxSend
  <2> HIDE DEF n, q
  <2> QED
    BY <1>1, <1>2, <2>1, <2>2
<1>6. CASE TxFree(l)
  <2>1. held' = [held EXCEPT ![l] = 0] /\ free' = free + held[l] /\ txring' = txring
    BY <1>6 DEF TxFree, Freed
  <2>2. 0 \in 0 .. BurstTx /\ free + held[l] \in Nat
        /\ (free + held[l]) + txring[q] + 0 = free + txring[q] + held[l]
    BY <1>2, Numbers
  <2> HIDE DEF q
  <2> QED
    BY <1>1, <1>2, <2>1, <2>2
<1> QED
  BY <1>3, <1>4, <1>5, <1>6, <1>7 DEF BufferStep

LEMMA BuffersTransmitted ==
  ASSUME TypeInv, NEW q \in TxQs, Transmit(q)
  PROVE  /\ txring[q] - 1 \in 0 .. TxRing /\ txring[q] \in Nat
         /\ txring' = [txring EXCEPT ![q] = txring[q] - 1]
         /\ free' = free + 1 /\ held' = held
  BY Numbers DEF Transmit, TypeInv, BufferTypes, lcoreVars

\* The steps that leave the buffers where they are.
LEMMA BuffersStay ==
  ASSUME NEW l \in Lcores,
         \/ ArpFail(l) \/ ArpDone(l) \/ Turn(l)
         \/ RxEmpty(l) \/ RxBurst(l) \/ RxGet(l) \/ RxStamp(l) \/ RxResetFirst(l) \/ RxReset(l)
         \/ TxGet(l) \/ TxStamp(l) \/ TxReset(l)
  PROVE  UNCHANGED <<free, txring, held, nic_mbufs_count>>
<1>1. CASE ArpFail(l) \/ ArpDone(l) \/ Turn(l)
  BY <1>1 DEF ArpFail, ArpDone, Turn, nicVars, lcoreVars
<1>2. CASE RxEmpty(l) \/ RxBurst(l)
  BY <1>2 DEF RxEmpty, RxBurst, RxPoll
<1>3. CASE RxGet(l) \/ TxGet(l)
  BY <1>3 DEF RxGet, TxGet, Get, nicVars
<1>4. CASE RxStamp(l) \/ TxStamp(l)
  BY <1>4 DEF RxStamp, TxStamp, nicVars
<1>5. CASE RxResetFirst(l) \/ RxReset(l) \/ TxReset(l)
  BY <1>5 DEF RxResetFirst, RxReset, TxReset, EndWindow
<1> QED
  BY <1>1, <1>2, <1>3, <1>4, <1>5

\* Buffers do not go where there is no room, and an lcore has those in its hands
\* that it is sending.
LEMMA BufferTypesStep ==
  TypeInv /\ PlaceInv /\ HandInv /\ [Next]_vars => BufferTypes'
<1> SUFFICES ASSUME TypeInv, PlaceInv, HandInv, [Next]_vars PROVE BufferTypes'
  OBVIOUS
<1>1. CASE UNCHANGED vars
  BY <1>1 DEF TypeInv, BufferTypes, vars, lcoreVars, nicVars
<1>2. ASSUME NEW l \in Lcores, BufferStep(l) PROVE BufferTypes'
  <2>1. PICK q \in TxQs, v \in 0 .. TxRing, w \in 0 .. BurstTx, g \in Nat :
          txring' = [txring EXCEPT ![q] = v] /\ held' = [held EXCEPT ![l] = w] /\ free' = g
    BY <1>2, BuffersPassed
  <2>2. rxring' = rxring
    BY <1>2 DEF BufferStep, ArpAlloc, ArpSend, TxAlloc, TxSend, TxFree
  <2>3. nic_mbufs_count' \in [Lcores -> 0 .. Limit + BurstTx - 1]
    <3>1. CASE ~TxSend(l)
      BY <1>2, <3>1 DEF BufferStep, ArpAlloc, ArpSend, TxAlloc, TxFree, TypeInv, BufferTypes
    <3>2. CASE TxSend(l)
      <4>1. nic_mbufs_count' =
              [nic_mbufs_count EXCEPT ![l] =
                 nic_mbufs_count[l] + Lesser(held[l], TxRing - txring[TxQueue(l)])]
        BY <3>2 DEF TxSend, Sent
      <4>2. TxQueue(l) \in TxQs
        BY <3>2, QueueTypes DEF TxSend, PlaceInv, AtPlace, TxQueue
      <4>3. held[l] \in 0 .. BurstTx /\ txring[TxQueue(l)] \in 0 .. TxRing
            /\ nic_mbufs_count[l] \in 0 .. Limit + BurstTx - 1
        BY <4>2 DEF TypeInv, BufferTypes
      <4>4. nic_mbufs_count[l] < Limit
        BY <3>2, <4>3, Numbers DEF TxSend, HandInv
      <4>5. PICK n \in 0 .. BurstTx : n = Lesser(held[l], TxRing - txring[TxQueue(l)])
        <5>1. held[l] \in Nat /\ TxRing - txring[TxQueue(l)] \in Nat
          BY <4>3, Numbers
        <5>2. PICK n \in Nat : n = Lesser(held[l], TxRing - txring[TxQueue(l)]) /\ n <= held[l]
          BY <5>1, LesserNat
        <5> QED
          BY <4>3, <5>2, Numbers
      <4>6. nic_mbufs_count[l] + n \in 0 .. Limit + BurstTx - 1
        BY <4>3, <4>4, Numbers
      <4> QED
        BY <4>1, <4>5, <4>6 DEF TypeInv, BufferTypes
    <3> QED
      BY <3>1, <3>2
  <2> QED
    BY <2>1, <2>2, <2>3 DEF TypeInv, BufferTypes
<1>3. ASSUME NEW l \in Lcores,
             \/ ArpFail(l) \/ ArpDone(l) \/ Turn(l)
             \/ RxEmpty(l) \/ RxBurst(l) \/ RxGet(l) \/ RxStamp(l) \/ RxResetFirst(l) \/ RxReset(l)
             \/ TxGet(l) \/ TxStamp(l) \/ TxReset(l)
      PROVE  BufferTypes'
  <2>1. UNCHANGED <<free, txring, held, nic_mbufs_count>>
    BY <1>3, BuffersStay
  <2>2. rxring' \in [RxQs -> 0 .. RxRing]
    <3>1. CASE RxEmpty(l) \/ RxBurst(l)
      <4> DEFINE q == RxQueue(l)
      <4>1. q \in RxQs
        BY <3>1, QueueTypes DEF RxEmpty, RxBurst, RxPoll, PlaceInv, AtPlace, RxQueue
      <4>2. rxring[q] \in 0 .. RxRing /\ rxring \in [RxQs -> 0 .. RxRing]
        BY <4>1 DEF TypeInv, BufferTypes
      <4>3. rxring' = [rxring EXCEPT ![q] = rxring[q] - Lesser(rxring[q], BurstRx)]
        BY <3>1 DEF RxEmpty, RxBurst, RxPoll
      <4>4. rxring[q] - Lesser(rxring[q], BurstRx) \in 0 .. RxRing
        <5>1. rxring[q] \in Nat /\ rxring[q] <= RxRing
          BY <4>2, Numbers
        <5>2. PICK n \in Nat : n = Lesser(rxring[q], BurstRx) /\ n <= rxring[q]
          BY <5>1, Numbers, LesserNat
        <5> HIDE DEF q
        <5> QED
          BY <5>1, <5>2, Numbers
      <4> HIDE DEF q
      <4> QED
        BY <4>1, <4>2, <4>3, <4>4
    <3>2. CASE rxring' = rxring
      BY <3>2 DEF TypeInv, BufferTypes
    <3>3. \/ RxEmpty(l) \/ RxBurst(l) \/ rxring' = rxring
      BY <1>3 DEF ArpFail, ArpDone, Turn, RxGet, Get, RxStamp, RxResetFirst, RxReset, TxGet, TxStamp, TxReset,
                  EndWindow, nicVars
    <3> QED
      BY <3>1, <3>2, <3>3
  <2> QED
    BY <2>1, <2>2 DEF TypeInv, BufferTypes
<1>4. ASSUME NEW q \in TxQs, Transmit(q) PROVE BufferTypes'
  <2>1. txring' = [txring EXCEPT ![q] = txring[q] - 1] /\ txring[q] - 1 \in 0 .. TxRing
        /\ free' = free + 1 /\ held' = held
    BY <1>4, BuffersTransmitted
  <2>2. rxring' = rxring /\ nic_mbufs_count' = nic_mbufs_count
    BY <1>4 DEF Transmit, lcoreVars
  <2>3. free + 1 \in Nat
    BY DEF TypeInv, BufferTypes
  <2> QED
    BY <2>1, <2>2, <2>3 DEF TypeInv, BufferTypes
<1>5. ASSUME NEW q \in RxQs, Arrive(q) PROVE BufferTypes'
  <2>1. rxring' = [rxring EXCEPT ![q] = rxring[q] + 1] /\ rxring[q] < RxRing
        /\ UNCHANGED <<free, txring, held, nic_mbufs_count>>
    BY <1>5 DEF Arrive, lcoreVars
  <2>2. rxring[q] + 1 \in 0 .. RxRing
    BY <2>1, Numbers DEF TypeInv, BufferTypes
  <2> QED
    BY <2>1, <2>2 DEF TypeInv, BufferTypes
<1> QED
  BY <1>1, <1>2, <1>3, <1>4, <1>5, StepCases DEF BufferStep

LEMMA HandStep ==
  TypeInv /\ PlaceInv /\ HandInv /\ [Next]_vars => HandInv'
<1> SUFFICES ASSUME TypeInv, PlaceInv, HandInv, [Next]_vars PROVE HandInv'
  OBVIOUS
<1>1. CASE \/ UNCHANGED vars
           \/ \E q \in TxQs : Transmit(q)
           \/ \E q \in RxQs : Arrive(q)
  BY <1>1, CardMoves DEF HandInv, NoBuffers, Announcing
<1>2. ASSUME NEW l \in Lcores, Moves(l),
             held' = held /\ (NoBuffers(l)' => NoBuffers(l)),
             nic_mbufs_count' = nic_mbufs_count /\ pc[l] # "asleep"
      PROVE  HandInv'
  <2>1. ASSUME NEW m \in Lcores
        PROVE  /\ NoBuffers(m)' => held'[m] = 0
               /\ nic_mbufs_count'[m] >= Limit => pc'[m] = "asleep"
    BY <1>2 DEF HandInv, Moves, NoBuffers, Announcing
  <2> QED
    BY <2>1 DEF HandInv
<1>3. ASSUME NEW l \in Lcores,
             \/ ArpFail(l) \/ ArpDone(l) \/ Turn(l)
             \/ RxEmpty(l) \/ RxBurst(l) \/ RxGet(l) \/ RxStamp(l) \/ RxResetFirst(l) \/ RxReset(l)
             \/ TxGet(l) \/ TxStamp(l) \/ TxReset(l)
      PROVE  HandInv'
  <2>1. held' = held /\ nic_mbufs_count' = nic_mbufs_count
    BY <1>3, BuffersStay
  <2>2. /\ pc[l] # "asleep"
        /\ NoBuffers(l)' => NoBuffers(l)
        /\ Moves(l)
    <3>1. CASE ArpFail(l) \/ ArpDone(l) \/ Turn(l)
      BY <3>1, LcoreMoves DEF ArpFail, ArpDone, Turn, lcoreVars, NoBuffers, Announcing, Sending
    <3>2. CASE RxEmpty(l) \/ RxBurst(l) \/ RxGet(l) \/ RxStamp(l) \/ RxResetFirst(l) \/ RxReset(l)
      BY <3>2, LcoreMoves DEF RxEmpty, RxBurst, RxPoll, RxGet, RxStamp, RxResetFirst, RxReset,
                              NoBuffers, Announcing, Sending
    <3>3. CASE TxGet(l) \/ TxStamp(l) \/ TxReset(l)
      BY <3>3, LcoreMoves DEF TxGet, TxStamp, TxReset, NoBuffers, Sending
    <3> QED
      BY <1>3, <3>1, <3>2, <3>3
  <2> QED
    BY <1>2, <2>1, <2>2
<1>4. ASSUME NEW l \in Lcores, ArpAlloc(l) \/ ArpSend(l) PROVE HandInv'
  <2>1. Moves(l) /\ pc' = pc /\ pc[l] # "asleep" /\ nic_mbufs_count' = nic_mbufs_count
    BY <1>4, LcoreMoves DEF ArpAlloc, ArpSend
  <2>2. /\ held'[l] = 0 \/ ~NoBuffers(l)'
        /\ \A m \in Lcores \ {l} : held'[m] = held[m]
    BY <1>4 DEF ArpAlloc, ArpSend, NoBuffers, Announcing, TypeInv, BufferTypes
  <2>3. ASSUME NEW m \in Lcores
        PROVE  /\ NoBuffers(m)' => held'[m] = 0
               /\ nic_mbufs_count'[m] >= Limit => pc'[m] = "asleep"
    BY <2>1, <2>2 DEF HandInv, Moves, NoBuffers, Announcing
  <2> QED
    BY <2>3 DEF HandInv
<1>5. ASSUME NEW l \in Lcores, TxAlloc(l) PROVE HandInv'
  <2>1. Moves(l) /\ pc'[l] = "txsend" /\ pc[l] # "asleep"
    BY <1>5, LcoreMoves DEF TxAlloc
  <2>2. held' = [held EXCEPT ![l] = Allocated] /\ nic_mbufs_count' = nic_mbufs_count
    BY <1>5 DEF TxAlloc
  <2>3. ASSUME NEW m \in Lcores
        PROVE  /\ NoBuffers(m)' => held'[m] = 0
               /\ nic_mbufs_count'[m] >= Limit => pc'[m] = "asleep"
    BY <2>1, <2>2 DEF HandInv, NoBuffers, Announcing, Moves, TypeInv, BufferTypes, Sending
  <2> QED
    BY <2>3 DEF HandInv
<1>6. ASSUME NEW l \in Lcores, TxSend(l) PROVE HandInv'
  <2>1. Moves(l) /\ pc'[l] \in {"asleep", "txget", "txfree"}
    BY <1>6, LcoreMoves
  <2> DEFINE n == nic_mbufs_count[l] + Lesser(held[l], TxRing - txring[TxQueue(l)])
  <2>2. PICK w : held' = [held EXCEPT ![l] = w]
    BY <1>6 DEF TxSend
  <2>3. nic_mbufs_count' = [nic_mbufs_count EXCEPT ![l] = n]
    BY <1>6 DEF TxSend, Sent
  <2>4. n >= Limit => pc'[l] = "asleep"
    <3>1. n >= Limit => GoTo(l, "asleep")
      BY <1>6 DEF TxSend, Sent
    <3> QED
      BY <3>1 DEF GoTo, TypeInv, LcoreTypes
  <2> HIDE DEF n
  <2>5. ASSUME NEW m \in Lcores
        PROVE  /\ NoBuffers(m)' => held'[m] = 0
               /\ nic_mbufs_count'[m] >= Limit => pc'[m] = "asleep"
    <3>1. CASE m = l
      BY <2>1, <2>3, <2>4, <3>1 DEF NoBuffers, Sending, TypeInv, BufferTypes
    <3>2. CASE m # l
      BY <2>1, <2>2, <2>3, <3>2 DEF HandInv, NoBuffers, Announcing, Moves, TypeInv, BufferTypes
    <3> QED
      BY <3>1, <3>2
  <2> QED
    BY <2>5 DEF HandInv
<1>7. ASSUME NEW l \in Lcores, TxFree(l) PROVE HandInv'
  <2>1. Moves(l) /\ pc[l] # "asleep"
    BY <1>7, LcoreMoves DEF TxFree
  <2>2. held' = [held EXCEPT ![l] = 0] /\ nic_mbufs_count' = nic_mbufs_count
    BY <1>7 DEF TxFree
  <2>3. ASSUME NEW m \in Lcores
        PROVE  /\ NoBuffers(m)' => held'[m] = 0
               /\ nic_mbufs_count'[m] >= Limit => pc'[m] = "asleep"
    BY <2>1, <2>2 DEF HandInv, NoBuffers, Announcing, Moves, TypeInv, BufferTypes
  <2> QED
    BY <2>3 DEF HandInv
<1> QED
  BY <1>1, <1>3, <1>4, <1>5, <1>6, <1>7, StepCases

LEMMA MbufsStep ==
  TypeInv /\ PlaceInv /\ HandInv /\ MbufsConserved /\ [Next]_vars => MbufsConserved'
<1> SUFFICES ASSUME TypeInv, PlaceInv, HandInv, MbufsConserved, [Next]_vars
             PROVE  MbufsConserved'
  OBVIOUS
<1>1. CASE UNCHANGED <<free, txring, held>>
  BY <1>1 DEF MbufsConserved
<1>2. BufferTypes
  BY DEF TypeInv
<1>3. ASSUME NEW l \in Lcores, BufferStep(l) PROVE MbufsConserved'
  <2>1. PICK q \in TxQs, v \in 0 .. TxRing, w \in 0 .. BurstTx, g \in Nat :
          /\ txring' = [txring EXCEPT ![q] = v] /\ held' = [held EXCEPT ![l] = w] /\ free' = g
          /\ g + v + w = free + txring[q] + held[l]
    BY <1>3, BuffersPassed
  <2>2. v \in Nat /\ w \in Nat
    BY Numbers
  <2> QED
    BY <1>2, <2>1, <2>2, BuffersMove
<1>4. ASSUME NEW q \in TxQs, Transmit(q) PROVE MbufsConserved'
  <2>1. PICK l \in Lcores : TRUE
    BY DEF TxQs, Queues
  <2>2. /\ txring[q] - 1 \in 0 .. TxRing /\ txring[q] \in Nat
        /\ txring' = [txring EXCEPT ![q] = txring[q] - 1]
        /\ free' = free + 1 /\ held' = held
    BY <1>4, BuffersTransmitted
  <2>3. held[l] \in Nat /\ free \in Nat /\ held = [held EXCEPT ![l] = held[l]]
    BY <1>2, Numbers DEF BufferTypes
  <2>4. (free + 1) + (txring[q] - 1) + held[l] = free + txring[q] + held[l]
        /\ txring[q] - 1 \in Nat /\ free + 1 \in Nat
    BY <2>2, <2>3, Numbers
  <2> QED
    BY <1>2, <2>2, <2>3, <2>4, BuffersMove
<1>5. ASSUME NEW q \in RxQs, Arrive(q) PROVE MbufsConserved'
  BY <1>1, <1>5 DEF Arrive, lcoreVars
<1>6. CASE UNCHANGED vars
  BY <1>1, <1>6 DEF vars, lcoreVars, nicVars
<1> QED
  BY <1>1, <1>3, <1>4, <1>5, <1>6, StepCases, BuffersStay DEF BufferStep

-----------------------------------------------------------------------------
\* The port whose statistics an lcore reads and clears.
LEMMA PortType ==
  ASSUME PlaceInv, NEW l \in Lcores
  PROVE  /\ pc[l] \in {"rxget", "rxstamp", "rxfirst", "rxreset"} =>
              /\ Port(l) \in Ports
              /\ RxQueue(l) = [port |-> Port(l), queue |-> 0]
              /\ RxQueue(l) \in First(RxQs) /\ Reports(l, "rx", Port(l))
         /\ pc[l] \in {"txget", "txstamp", "txreset"} =>
              /\ Port(l) \in Ports
              /\ TxQueue(l) = [port |-> Port(l), queue |-> 0]
              /\ TxQueue(l) \in First(TxQs) /\ Reports(l, "tx", Port(l))
<1>1. ASSUME pc[l] \in {"rxget", "rxstamp", "rxfirst", "rxreset"}
      PROVE  /\ Port(l) \in Ports
             /\ RxQueue(l) = [port |-> Port(l), queue |-> 0]
             /\ RxQueue(l) \in First(RxQs) /\ Reports(l, "rx", Port(l))
  <2>1. qi[l] \in DOMAIN RxQueues[l] /\ RxQueue(l).queue = 0
    BY <1>1 DEF PlaceInv, AtPlace, RxQueue
  <2>2. RxQueue(l) \in RxQs
    BY <2>1, QueueTypes DEF RxQueue
  <2>3. RxQueue(l).port \in Ports /\ RxQueue(l) = [port |-> RxQueue(l).port, queue |-> 0]
    BY <2>1, <2>2, QueueTypes
  <2>4. Port(l) = RxQueue(l).port
    BY <1>1 DEF Port
  <2>5. RxQueue(l) \in Range(RxQueues[l])
    BY <2>1 DEF RxQueue, Range
  <2> QED
    BY <2>1, <2>2, <2>3, <2>4, <2>5 DEF First, Reports
<1>2. ASSUME pc[l] \in {"txget", "txstamp", "txreset"}
      PROVE  /\ Port(l) \in Ports
             /\ TxQueue(l) = [port |-> Port(l), queue |-> 0]
             /\ TxQueue(l) \in First(TxQs) /\ Reports(l, "tx", Port(l))
  <2>1. qi[l] \in DOMAIN TxQueues[l] /\ TxQueue(l).queue = 0
    BY <1>2 DEF PlaceInv, AtPlace, TxQueue
  <2>2. TxQueue(l) \in TxQs
    BY <2>1, QueueTypes DEF TxQueue
  <2>3. TxQueue(l).port \in Ports /\ TxQueue(l) = [port |-> TxQueue(l).port, queue |-> 0]
    BY <2>1, <2>2, QueueTypes
  <2>4. Port(l) = TxQueue(l).port
    BY <1>2 DEF Port
  <2>5. TxQueue(l) \in Range(TxQueues[l])
    BY <2>1 DEF TxQueue, Range
  <2> QED
    BY <2>1, <2>2, <2>3, <2>4, <2>5 DEF First, Reports
<1> QED
  BY <1>1, <1>2

\* The windows are counted in bursts of queue 0 of one port.
LEMMA WindowTypesStep ==
  TypeInv /\ PlaceInv /\ [Next]_vars => WindowTypes'
<1> SUFFICES ASSUME TypeInv, PlaceInv, [Next]_vars PROVE WindowTypes'
  OBVIOUS
<1> USE DEF WindowTypes
<1>0. WindowTypes
  BY DEF TypeInv
<1>1. CASE UNCHANGED <<rxiters, txiters, rxStart, bursts>>
  BY <1>0, <1>1
<1>2. ASSUME NEW l \in Lcores, RxBurst(l) PROVE WindowTypes'
  <2> DEFINE q == RxQueue(l)
  <2>1. UNCHANGED <<txiters, rxStart>>
    BY <1>2 DEF RxBurst, RxPoll
  <2>2. CASE q.queue # 0
    BY <1>0, <1>2, <2>1, <2>2 DEF RxBurst
  <2>3. CASE q.queue = 0
    <3>1. q \in First(RxQs)
      BY <1>2, <2>3, QueueTypes DEF RxBurst, RxPoll, PlaceInv, AtPlace, RxQueue, First
    <3>2. rxiters' = [rxiters EXCEPT ![q] = Lesser(rxiters[q] + 1, RxStats)]
          /\ bursts' = [bursts EXCEPT ![l]["rx"] = Lesser(bursts[l]["rx"] + 1, RxStats + 1)]
      BY <1>2, <2>3 DEF RxBurst
    <3>3. rxiters[q] \in 0 .. RxStats /\ bursts[l]["rx"] \in Nat
      BY <1>0, <3>1 DEF Dirs
    <3>4. Lesser(rxiters[q] + 1, RxStats) \in 0 .. RxStats
      <4>1. rxiters[q] + 1 \in Nat
        BY <3>3, Numbers
      <4> HIDE DEF q
      <4> QED
        BY <4>1, Numbers, LesserNat
    <3>5. Lesser(bursts[l]["rx"] + 1, RxStats + 1) \in Nat
      <4>1. bursts[l]["rx"] + 1 \in Nat /\ RxStats + 1 \in Nat
        BY <3>3, Numbers
      <4> QED
        BY <4>1, LesserNat
    <3> HIDE DEF q
    <3> QED
      BY <1>0, <2>1, <3>1, <3>2, <3>4, <3>5 DEF Dirs
  <2> QED
    BY <2>2, <2>3
<1>3. ASSUME NEW l \in Lcores, NEW d \in Dirs, bursts' = [bursts EXCEPT ![l][d] = 0],
             txiters' = txiters,
             \/ rxStart' = rxStart /\ (rxiters' = rxiters \/ (pc[l] = "rxstamp" /\ rxiters' = ItersReset(l)))
             \/ rxStart' = [rxStart EXCEPT ![l] = TRUE] /\ rxiters' = rxiters
      PROVE  WindowTypes'
  <2>1. pc[l] = "rxstamp" => RxQueue(l) \in First(RxQs)
    BY PortType
  <2>2. bursts' \in [Lcores -> [Dirs -> Nat]]
    BY <1>0, <1>3
  <2>3. rxiters' \in [First(RxQs) -> 0 .. RxStats]
    BY <1>0, <1>3, <2>1, Numbers DEF ItersReset
  <2>4. rxStart' \in [Lcores -> BOOLEAN]
    BY <1>0, <1>3
  <2> QED
    BY <1>0, <1>3, <2>2, <2>3, <2>4
<1>4. ASSUME NEW l \in Lcores, RxStamp(l) PROVE WindowTypes'
  <2>1. bursts' = [bursts EXCEPT ![l]["rx"] = 0] /\ txiters' = txiters /\ pc[l] = "rxstamp"
    BY <1>4 DEF RxStamp, Report, NewWindow
  <2>2. \/ rxStart' = rxStart /\ rxiters' = ItersReset(l)
        \/ rxStart' = [rxStart EXCEPT ![l] = TRUE] /\ rxiters' = rxiters
    BY <1>4 DEF RxStamp, StartWindow
  <2> QED
    BY <1>3, <2>1, <2>2 DEF Dirs
<1>5. ASSUME NEW l \in Lcores, TxStamp(l) PROVE WindowTypes'
  <2>1. bursts' = [bursts EXCEPT ![l]["tx"] = 0] /\ UNCHANGED windowVars
    BY <1>5 DEF TxStamp, Report, NewWindow
  <2> QED
    BY <1>3, <2>1 DEF Dirs, windowVars
<1>6. ASSUME NEW l \in Lcores, TxSend(l) PROVE WindowTypes'
  <2> DEFINE q == TxQueue(l)
  <2>1. UNCHANGED <<rxiters, rxStart>>
    BY <1>6 DEF TxSend
  <2>2. CASE UNCHANGED <<txiters, bursts>>
    BY <1>0, <2>1, <2>2
  <2>3. CASE ~UNCHANGED <<txiters, bursts>>
    <3>1. /\ q.queue = 0
          /\ txiters' = [txiters EXCEPT ![q] = IF txiters[q] + 1 = TxStats THEN 0 ELSE txiters[q] + 1]
          /\ bursts' = [bursts EXCEPT ![l]["tx"] = Lesser(bursts[l]["tx"] + 1, TxStats + 1)]
      BY <1>6, <2>3 DEF TxSend
    <3>2. q \in First(TxQs)
      BY <1>6, <3>1, QueueTypes DEF TxSend, PlaceInv, AtPlace, TxQueue, First
    <3>3. txiters[q] \in 0 .. TxStats - 1 /\ bursts[l]["tx"] \in Nat
      BY <1>0, <3>2 DEF Dirs
    <3>4. PICK n \in 0 .. TxStats - 1 :
            n = IF txiters[q] + 1 = TxStats THEN 0 ELSE txiters[q] + 1
      BY <3>3, Numbers
    <3>5. Lesser(bursts[l]["tx"] + 1, TxStats + 1) \in Nat
      <4>1. bursts[l]["tx"] + 1 \in Nat /\ TxStats + 1 \in Nat
        BY <3>3, Numbers
      <4> QED
        BY <4>1, LesserNat
    <3> HIDE DEF q
    <3> QED
      BY <1>0, <2>1, <3>1, <3>2, <3>4, <3>5 DEF Dirs
  <2> QED
    BY <2>2, <2>3
<1>7. ASSUME NEW l \in Lcores,
             \/ ArpAlloc(l) \/ ArpSend(l) \/ ArpFail(l) \/ ArpDone(l) \/ Turn(l)
             \/ RxEmpty(l) \/ RxGet(l) \/ RxResetFirst(l) \/ RxReset(l)
             \/ TxAlloc(l) \/ TxGet(l) \/ TxReset(l) \/ TxFree(l)
      PROVE  UNCHANGED <<rxiters, txiters, rxStart, bursts>>
  BY <1>7 DEF ArpAlloc, ArpSend, ArpFail, ArpDone, Turn, RxEmpty, RxPoll, RxGet, Get,
              RxResetFirst, RxReset, TxAlloc,
              TxGet, TxReset, TxFree, EndWindow, windowVars, historyVars
<1>8. CASE \/ UNCHANGED vars
           \/ \E q \in TxQs : Transmit(q)
           \/ \E q \in RxQs : Arrive(q)
  BY <1>1, <1>8, CardMoves
<1> QED
  BY <1>1, <1>2, <1>4, <1>5, <1>6, <1>7, <1>8, StepCases

\* Counters of packets stay within their bound.
LEMMA OneMoreType ==
  ASSUME NEW n \in 0 .. MaxCount
  PROVE  OneMore(n) \in 0 .. MaxCount
  BY Numbers DEF OneMore, Lesser

LEMMA CountTypesStep ==
  TypeInv /\ PlaceInv /\ [Next]_vars => CountTypes'
<1> SUFFICES ASSUME TypeInv, PlaceInv, [Next]_vars PROVE CountTypes'
  OBVIOUS
<1> USE DEF CountTypes
<1>0. CountTypes /\ WindowTypes
  BY DEF TypeInv
<1>1. CASE UNCHANGED <<got, stats, since, printed, window>>
  BY <1>0, <1>1
<1>2. ASSUME NEW p \in Ports, NEW d \in Dirs, Counted(p, d),
             UNCHANGED <<got, printed, window>>
      PROVE  CountTypes'
  <2>1. OneMore(stats[p][d]) \in 0 .. MaxCount
        /\ \A l \in Lcores : OneMore(since[l][d][p]) \in 0 .. MaxCount
    BY <1>0, OneMoreType
  <2>2. stats' \in [Ports -> [Dirs -> 0 .. MaxCount]]
    BY <1>0, <1>2, <2>1 DEF Counted
  <2>3. since' \in [Lcores -> [Dirs -> [Ports -> 0 .. MaxCount]]]
    <3> DEFINE s(l) == IF Reports(l, d, p) THEN [since[l] EXCEPT ![d][p] = OneMore(since[l][d][p])]
                       ELSE since[l]
    <3>1. since' = [l \in Lcores |-> s(l)]
      BY <1>2 DEF Counted
    <3>2. ASSUME NEW l \in Lcores PROVE s(l) \in [Dirs -> [Ports -> 0 .. MaxCount]]
      <4>1. since[l] \in [Dirs -> [Ports -> 0 .. MaxCount]]
        BY <1>0
      <4> QED
        BY <2>1, <4>1
    <3> HIDE DEF s
    <3> QED
      BY <3>1, <3>2
  <2> QED
    BY <1>0, <1>2, <2>2, <2>3
<1>3. ASSUME NEW q \in TxQs, Transmit(q) PROVE CountTypes'
  <2>1. q.port \in Ports /\ Counted(q.port, "tx") /\ UNCHANGED <<got, printed, window>>
    BY <1>3, QueueTypes DEF Transmit, windowVars
  <2> QED
    BY <1>2, <2>1 DEF Dirs
<1>4. ASSUME NEW q \in RxQs, Arrive(q) PROVE CountTypes'
  <2>1. q.port \in Ports /\ Counted(q.port, "rx") /\ UNCHANGED <<got, printed, window>>
    BY <1>4, QueueTypes DEF Arrive, windowVars
  <2> QED
    BY <1>2, <2>1 DEF Dirs
<1>5. ASSUME NEW l \in Lcores, RxGet(l) \/ TxGet(l) PROVE CountTypes'
  <2>1. PICK d \in Dirs : Get(l, d)
    BY <1>5 DEF RxGet, TxGet, Dirs
  <2>2. Port(l) \in Ports
    BY <1>5, PortType DEF RxGet, TxGet
  <2>3. stats[Port(l)][d] \in 0 .. MaxCount
    BY <1>0, <2>2
  <2> QED
    BY <1>0, <2>1, <2>3 DEF Get, nicVars, historyVars
<1>14. ASSUME NEW l \in Lcores, RxResetFirst(l) PROVE CountTypes'
  <2>1. Port(l) \in Ports
    BY <1>14, PortType DEF RxResetFirst
  <2>2. stats' \in [Ports -> [Dirs -> 0 .. MaxCount]]
    BY <1>0, <1>14, <2>1, Numbers DEF RxResetFirst, Reset
  <2> QED
    BY <1>0, <1>14, <2>2 DEF RxResetFirst, windowVars, historyVars
<1>6. ASSUME NEW l \in Lcores, RxReset(l) \/ TxReset(l) PROVE CountTypes'
  <2>1. EndWindow(l) /\ Port(l) \in Ports
    BY <1>6, PortType DEF RxReset, TxReset
  <2>2. stats' \in [Ports -> [Dirs -> 0 .. MaxCount]]
    BY <1>0, <2>1, Numbers DEF EndWindow, Reset
  <2>3. NoWindow \in Windows
    BY Numbers DEF NoWindow, Windows
  <2>4. got' \in [Lcores -> 0 .. MaxCount] /\ window' \in [Lcores -> Windows]
    BY <1>0, <2>1, <2>3, Numbers DEF EndWindow
  <2> QED
    BY <1>0, <2>1, <2>2, <2>4 DEF EndWindow
<1>7. ASSUME NEW l \in Lcores, NEW d \in Dirs, since' = [since EXCEPT ![l][d] = [p \in Ports |-> 0]]
      PROVE  since' \in [Lcores -> [Dirs -> [Ports -> 0 .. MaxCount]]]
  <2>1. [p \in Ports |-> 0] \in [Ports -> 0 .. MaxCount]
    BY Numbers
  <2> QED
    BY <1>0, <1>7, <2>1
<1>8. ASSUME NEW l \in Lcores, NEW d \in Dirs, Report(l, d), UNCHANGED <<got, stats>>,
             Port(l) \in Ports
      PROVE  CountTypes'
  <2> DEFINE n == IF printed[l][d] = "none" THEN "first" ELSE "later"
             w == [dir |-> d, nth |-> n, counted |-> got[l], passed |-> since[l][d][Port(l)],
                   bursts |-> bursts[l][d]]
  <2>1. printed' = [printed EXCEPT ![l][d] = n]
    BY <1>8 DEF Report
  <2>2. printed' \in [Lcores -> [Dirs -> {"none", "first", "later"}]] /\ printed'[l][d] = n
    BY <1>0, <2>1
  <2>3. window' = [window EXCEPT ![l] = w]
    BY <1>8, <2>2 DEF Report
  <2>4. w \in Windows
    <3>1. got[l] \in 0 .. MaxCount /\ since[l][d][Port(l)] \in 0 .. MaxCount /\ bursts[l][d] \in Nat
      BY <1>0, <1>8 DEF WindowTypes
    <3>2. n \in {"none", "first", "later"} /\ d \in Dirs \cup {"none"}
      OBVIOUS
    <3> HIDE DEF n
    <3> QED
      BY <3>1, <3>2 DEF Windows
  <2>5. since' \in [Lcores -> [Dirs -> [Ports -> 0 .. MaxCount]]]
    BY <1>7, <1>8 DEF Report, NewWindow
  <2> HIDE DEF w, n
  <2> QED
    BY <1>0, <1>8, <2>2, <2>3, <2>4, <2>5
<1>9. ASSUME NEW l \in Lcores, RxStamp(l) PROVE CountTypes'
  <2>1. UNCHANGED <<got, stats>> /\ Port(l) \in Ports /\ "rx" \in Dirs
    BY <1>9, PortType DEF RxStamp, nicVars, Dirs
  <2>2. CASE Report(l, "rx")
    BY <1>8, <2>1, <2>2
  <2>3. CASE NewWindow(l, "rx") /\ UNCHANGED <<printed, window>>
    BY <1>0, <1>7, <2>1, <2>3 DEF NewWindow
  <2> QED
    BY <1>9, <2>2, <2>3 DEF RxStamp
<1>10. ASSUME NEW l \in Lcores, TxStamp(l) PROVE CountTypes'
  <2>1. UNCHANGED <<got, stats>> /\ Port(l) \in Ports /\ "tx" \in Dirs /\ Report(l, "tx")
    BY <1>10, PortType DEF TxStamp, nicVars, windowVars, Dirs
  <2> QED
    BY <1>8, <2>1
<1>11. ASSUME NEW l \in Lcores, ArpDone(l) PROVE CountTypes'
  <2>1. UNCHANGED <<got, stats, printed, window>>
    BY <1>11 DEF ArpDone, windowVars, nicVars
  <2>2. CASE pc[l] = "arp"
    <3>1. since' = [since EXCEPT ![l]["tx"] = [p \in Ports |-> 0]] /\ "tx" \in Dirs
      BY <1>11, <2>2 DEF ArpDone, Dirs
    <3> QED
      BY <1>0, <1>7, <2>1, <3>1
  <2>3. CASE pc[l] # "arp"
    BY <1>0, <1>11, <2>1, <2>3 DEF ArpDone
  <2> QED
    BY <2>2, <2>3
<1>12. ASSUME NEW l \in Lcores,
              \/ ArpAlloc(l) \/ ArpSend(l) \/ ArpFail(l) \/ Turn(l) \/ RxEmpty(l) \/ RxBurst(l)
              \/ TxAlloc(l) \/ TxSend(l) \/ TxFree(l)
       PROVE  UNCHANGED <<got, stats, since, printed, window>>
  BY <1>12 DEF ArpAlloc, ArpSend, ArpFail, Turn, RxEmpty, RxBurst, RxPoll, TxAlloc, TxSend, TxFree,
               windowVars, historyVars, nicVars
<1>13. CASE UNCHANGED vars
  BY <1>1, <1>13 DEF vars, windowVars, historyVars, nicVars
<1> QED
  BY <1>1, <1>3, <1>4, <1>5, <1>6, <1>9, <1>10, <1>11, <1>12, <1>13, <1>14, StepCases

-----------------------------------------------------------------------------
IndInv == TypeInv /\ PlaceInv /\ HandInv /\ MbufsConserved

LEMMA IndInit == Init => IndInv
<1> SUFFICES ASSUME Init PROVE IndInv
  OBVIOUS
<1> USE DEF Init
<1>1. LcoreTypes
  BY Numbers DEF LcoreTypes, Places
<1>2. BufferTypes
  BY Numbers DEF BufferTypes
<1>3. WindowTypes
  BY Numbers DEF WindowTypes
<1>4. CountTypes
  <2>1. NoWindow \in Windows
    BY Numbers DEF NoWindow, Windows
  <2>2. [d \in Dirs |-> 0] \in [Dirs -> 0 .. MaxCount]
        /\ [d \in Dirs |-> [p \in Ports |-> 0]] \in [Dirs -> [Ports -> 0 .. MaxCount]]
    BY Numbers
  <2> QED
    BY <2>1, <2>2, Numbers DEF CountTypes
<1>5. PlaceInv
  BY DEF PlaceInv, AtPlace
<1>6. HandInv
  BY Numbers DEF HandInv
<1>7. MbufsConserved
  <2>1. SumFunction(txring) = 0 /\ SumFunction(held) = 0
    <3>1. txring = [q \in TxQs |-> 0] /\ held = [l \in Lcores |-> 0]
      OBVIOUS
    <3> QED
      BY <3>1, QueuesFinite, TotalZero
  <2> QED
    BY <2>1, Numbers DEF MbufsConserved
<1> QED
  BY <1>1, <1>2, <1>3, <1>4, <1>5, <1>6, <1>7 DEF IndInv, TypeInv

LEMMA IndStep == IndInv /\ [Next]_vars => IndInv'
<1> SUFFICES ASSUME IndInv, [Next]_vars PROVE IndInv'
  OBVIOUS
<1>1. TypeInv /\ PlaceInv /\ HandInv /\ MbufsConserved
  BY DEF IndInv
<1>2. LcoreTypes' /\ PlaceInv'
  BY <1>1, PlaceStep
<1>3. BufferTypes' /\ HandInv' /\ MbufsConserved'
  BY <1>1, BufferTypesStep, HandStep, MbufsStep
<1>4. WindowTypes' /\ CountTypes'
  BY <1>1, WindowTypesStep, CountTypesStep
<1> QED
  BY <1>2, <1>3, <1>4 DEF IndInv, TypeInv

LEMMA IndInvariant == Spec => []IndInv
  BY IndInit, IndStep, PTL DEF Spec

\* runtime.c:312-383, 584-677, 783-825.  The arrays of the lcores and the counters stay within
\* their bounds, and the pool never has more buffers than it was made with.
THEOREM BandwidthTypeCorrect == Spec => []TypeOK
<1>1. IndInv => TypeOK
  <2> SUFFICES ASSUME IndInv PROVE TypeOK
    OBVIOUS
  <2>1. LcoreTypes /\ BufferTypes /\ WindowTypes /\ CountTypes
    BY DEF IndInv, TypeInv
  <2>2. free \in 0 .. PoolSize
    <3>1. txring \in [TxQs -> Nat] /\ held \in [Lcores -> Nat] /\ free \in Nat
      BY <2>1, Numbers DEF BufferTypes
    <3>2. SumFunction(txring) \in Nat /\ SumFunction(held) \in Nat
      BY <3>1, QueuesFinite, TotalType
    <3>3. free + SumFunction(txring) + SumFunction(held) = PoolSize
      BY DEF IndInv, MbufsConserved
    <3> QED
      BY <3>1, <3>2, <3>3, Numbers
  <2> QED
    BY <2>1, <2>2 DEF TypeOK, LcoreTypes, BufferTypes, WindowTypes, CountTypes, Places
<1> QED
  BY <1>1, IndInvariant, PTL

\* runtime.c:592-617, 670-676, 747-781.  Every buffer of the pool is free, in a ring or
\* in the burst of one lcore.
THEOREM BandwidthBuffersKept == Spec => []MbufsConserved
<1>1. IndInv => MbufsConserved
  BY DEF IndInv
<1> QED
  BY <1>1, IndInvariant, PTL

-----------------------------------------------------------------------------
\* The receiver's windows count from its first, which is not printed, and the
\* transmitter's from the first that it prints.
Begun(l, d) == IF d = "rx" THEN rxStart[l] ELSE printed[l][d] # "none"

StampOf(d) == IF d = "rx" THEN "rxstamp" ELSE "txstamp"
Resets(d) == IF d = "rx" THEN {"rxfirst", "rxreset"} ELSE {"txreset"}

\* The card has counted at most what passed since the window began, except
\* between end_ewr and the reset; and so have the statistics that were read.
CountedSince(l, d, p) ==
  /\ pc[l] \notin Resets(d) => stats[p][d] <= since[l][d][p]
  /\ pc[l] = StampOf(d) => got[l] <= since[l][d][p]

SinceInv ==
  /\ \A l \in Lcores : \A d \in Dirs : \A p \in Ports :
       Single(l, d) /\ Reports(l, d, p) /\ Begun(l, d) => CountedSince(l, d, p)
  /\ \A l \in Lcores : pc[l] = "arp" => printed[l]["tx"] = "none"

\* One more packet, here and there.
LEMMA OneMoreBoth ==
  ASSUME NEW m \in 0 .. MaxCount, NEW n \in 0 .. MaxCount
  PROVE  /\ m <= n => OneMore(m) <= OneMore(n)
         /\ n <= OneMore(n)
  BY Numbers DEF OneMore, Lesser

LEMMA SinceCounted ==
  ASSUME TypeInv, SinceInv, NEW r \in Ports, NEW e \in Dirs, Counted(r, e),
         UNCHANGED <<pc, rxStart, got, printed>>
  PROVE  SinceInv'
<1>1. ASSUME NEW l \in Lcores, NEW d \in Dirs, NEW p \in Ports,
             Single(l, d), Reports(l, d, p), Begun(l, d)'
      PROVE  CountedSince(l, d, p)'
  <2>1. CountedSince(l, d, p)
    BY <1>1 DEF SinceInv, Begun
  <2> DEFINE m == stats[p][d]
             n == since[l][d][p]
             m2 == IF p = r /\ d = e THEN OneMore(m) ELSE m
             n2 == IF p = r /\ d = e THEN OneMore(n) ELSE n
  <2>2. m \in 0 .. MaxCount /\ n \in 0 .. MaxCount /\ got[l] \in 0 .. MaxCount
    BY DEF TypeInv, CountTypes
  <2>3. stats'[p][d] = m2
    BY DEF Counted, TypeInv, CountTypes
  <2>4. since'[l][d][p] = n2
    <3>1. since[l] \in [Dirs -> [Ports -> 0 .. MaxCount]]
      BY DEF TypeInv, CountTypes
    <3>2. since'[l] = IF Reports(l, e, r) THEN [since[l] EXCEPT ![e][r] = OneMore(since[l][e][r])]
                      ELSE since[l]
      BY DEF Counted
    <3> QED
      BY <1>1, <3>1, <3>2
  <2>5. (m <= n => m2 <= n2) /\ n <= n2 /\ n2 \in 0 .. MaxCount
    <3> HIDE DEF m, n
    <3> QED
      BY <2>2, OneMoreBoth, OneMoreType
  <2> HIDE DEF m, n, m2, n2
  <2>6. got'[l] = got[l] /\ pc'[l] = pc[l]
    OBVIOUS
  <2>7. got[l] <= n => got[l] <= n2
    BY <2>2, <2>5, Numbers
  <2> QED
    BY <2>1, <2>3, <2>4, <2>5, <2>6, <2>7 DEF CountedSince, m, n
<1> QED
  BY <1>1 DEF SinceInv, Single, Reports

\* A step of lcore k that leaves counters and windows alone, and reaches neither
\* the place where it stamps nor its ARPs.
LEMMA SinceKept ==
  ASSUME SinceInv, NEW k \in Lcores, \A l \in Lcores \ {k} : pc'[l] = pc[l],
         pc[k] \notin {"rxfirst", "rxreset", "txreset"}, pc'[k] \notin {"rxstamp", "txstamp"},
         pc'[k] = "arp" => pc[k] = "arp",
         UNCHANGED <<rxStart, got, printed, stats, since>>
  PROVE  SinceInv'
<1>1. ASSUME NEW l \in Lcores, NEW d \in Dirs, NEW p \in Ports,
             Single(l, d), Reports(l, d, p), Begun(l, d)'
      PROVE  CountedSince(l, d, p)'
  <2>1. CountedSince(l, d, p)
    BY <1>1 DEF SinceInv, Begun
  <2> QED
    BY <2>1 DEF CountedSince, StampOf, Resets
<1> QED
  BY <1>1 DEF SinceInv, Single, Reports

\* rte_eth_stats_get.
LEMMA SinceGet ==
  ASSUME TypeInv, PlaceInv, SinceInv, NEW k \in Lcores, RxGet(k) \/ TxGet(k)
  PROVE  SinceInv'
<1>1. PICK e \in Dirs : /\ pc' = [pc EXCEPT ![k] = StampOf(e)]
                        /\ got' = [got EXCEPT ![k] = stats[Port(k)][e]]
                        /\ Reports(k, e, Port(k)) /\ pc[k] # "arp"
                        /\ pc[k] \notin {"rxfirst", "rxreset", "txreset"}
  BY PortType DEF RxGet, TxGet, Get, GoTo, StampOf, Dirs
<1>2. UNCHANGED <<rxStart, printed, stats, since>> /\ Port(k) \in Ports
  BY PortType DEF RxGet, TxGet, Get, nicVars, historyVars
<1>3. ASSUME NEW l \in Lcores, NEW d \in Dirs, NEW p \in Ports,
             Single(l, d), Reports(l, d, p), Begun(l, d)'
      PROVE  CountedSince(l, d, p)'
  <2>1. CountedSince(l, d, p)
    BY <1>2, <1>3 DEF SinceInv, Begun
  <2>2. CASE l # k
    <3>1. pc'[l] = pc[l] /\ got'[l] = got[l]
      BY <1>1, <2>2
    <3> QED
      BY <1>2, <2>1, <3>1 DEF CountedSince
  <2>3. CASE l = k
    <3>1. pc'[k] = StampOf(e) /\ got'[k] = stats[Port(k)][e]
      BY <1>1 DEF TypeInv, LcoreTypes, CountTypes
    <3>2. stats[p][d] <= since[l][d][p]
      BY <1>1, <2>1, <2>3 DEF CountedSince, Resets
    <3>3. pc'[k] = StampOf(d) => d = e
      BY <3>1 DEF StampOf, Dirs
    <3>4. d = e => p = Port(k)
      BY <1>1, <1>2, <1>3, <2>3 DEF Single
    <3> QED
      BY <1>2, <2>3, <3>1, <3>2, <3>3, <3>4 DEF CountedSince
  <2> QED
    BY <2>2, <2>3
<1>4. ASSUME NEW l \in Lcores, pc'[l] = "arp" PROVE pc[l] = "arp"
  BY <1>1, <1>4 DEF TypeInv, LcoreTypes, StampOf
<1> QED
  BY <1>2, <1>3, <1>4 DEF SinceInv, Single, Reports

\* gettimeofday.
LEMMA SinceStamp ==
  ASSUME TypeInv, PlaceInv, SinceInv, NEW k \in Lcores, RxStamp(k) \/ TxStamp(k)
  PROVE  SinceInv'
<1>1. PICK e \in Dirs : /\ pc[k] = StampOf(e) /\ \E v \in Resets(e) : pc' = [pc EXCEPT ![k] = v]
                        /\ since' = [since EXCEPT ![k][e] = [p \in Ports |-> 0]]
                        /\ \A l \in Lcores, d \in Dirs :
                             l # k \/ d # e => printed'[l][d] = printed[l][d]
                        /\ e # "rx" => rxStart' = rxStart
                        /\ \A l \in Lcores \ {k} : rxStart'[l] = rxStart[l]
  <2>1. CASE RxStamp(k)
    <3>1. /\ pc[k] = StampOf("rx") /\ "rx" \in Dirs
          /\ \E v \in Resets("rx") : pc' = [pc EXCEPT ![k] = v]
      BY <2>1 DEF RxStamp, GoTo, StampOf, Resets, Dirs
    <3>2. since' = [since EXCEPT ![k]["rx"] = [p \in Ports |-> 0]]
      BY <2>1 DEF RxStamp, Report, NewWindow
    <3>3. printed' = printed \/ \E v : printed' = [printed EXCEPT ![k]["rx"] = v]
      BY <2>1 DEF RxStamp, Report
    <3>4. rxStart' = rxStart \/ rxStart' = [rxStart EXCEPT ![k] = TRUE]
      BY <2>1 DEF RxStamp, StartWindow
    <3>5. \A l \in Lcores, d \in Dirs : l # k \/ d # "rx" => printed'[l][d] = printed[l][d]
      BY <3>3 DEF TypeInv, CountTypes
    <3>6. \A l \in Lcores \ {k} : rxStart'[l] = rxStart[l]
      BY <3>4 DEF TypeInv, WindowTypes
    <3> QED
      BY <3>1, <3>2, <3>5, <3>6
  <2>2. CASE TxStamp(k)
    <3>1. /\ pc[k] = StampOf("tx") /\ "tx" \in Dirs
          /\ \E v \in Resets("tx") : pc' = [pc EXCEPT ![k] = v]
      BY <2>2 DEF TxStamp, GoTo, StampOf, Resets, Dirs
    <3>2. since' = [since EXCEPT ![k]["tx"] = [p \in Ports |-> 0]]
      BY <2>2 DEF TxStamp, Report, NewWindow
    <3>3. \E v : printed' = [printed EXCEPT ![k]["tx"] = v]
      BY <2>2 DEF TxStamp, Report
    <3>4. rxStart' = rxStart
      BY <2>2 DEF TxStamp, windowVars
    <3>5. \A l \in Lcores, d \in Dirs : l # k \/ d # "tx" => printed'[l][d] = printed[l][d]
      BY <3>3 DEF TypeInv, CountTypes
    <3> QED
      BY <3>1, <3>2, <3>4, <3>5
  <2> QED
    BY <2>1, <2>2
<1>2. UNCHANGED <<got, stats>>
  BY DEF RxStamp, TxStamp, windowVars, nicVars
<1>3. pc'[k] \in Resets(e) /\ pc[k] = StampOf(e) /\ \A l \in Lcores \ {k} : pc'[l] = pc[l]
  BY <1>1 DEF TypeInv, LcoreTypes
<1>4. ASSUME NEW l \in Lcores, NEW d \in Dirs, NEW p \in Ports,
             Single(l, d), Reports(l, d, p), Begun(l, d)'
      PROVE  CountedSince(l, d, p)'
  <2>1. CASE l = k /\ d = e
    BY <1>3, <2>1 DEF CountedSince, StampOf, Resets
  <2>2. CASE l # k \/ d # e
    <3>1. Begun(l, d)
      BY <1>1, <1>4, <2>2 DEF Begun, Dirs
    <3>2. CountedSince(l, d, p)
      BY <1>4, <3>1 DEF SinceInv
    <3>3. since'[l][d][p] = since[l][d][p]
      BY <1>1, <2>2 DEF TypeInv, CountTypes
    <3>4. /\ pc[l] \in Resets(d) => pc'[l] \in Resets(d)
          /\ pc'[l] = StampOf(d) => pc[l] = StampOf(d)
      BY <1>1, <1>3, <2>2 DEF StampOf, Resets, TypeInv, LcoreTypes, Dirs
    <3> QED
      BY <1>2, <3>2, <3>3, <3>4 DEF CountedSince
  <2> QED
    BY <2>1, <2>2
<1>5. ASSUME NEW l \in Lcores, pc'[l] = "arp" PROVE printed'[l]["tx"] = "none"
  <2>1. l # k /\ pc[l] = "arp" /\ "tx" \in Dirs
    BY <1>1, <1>3, <1>5 DEF StampOf, Resets, TypeInv, LcoreTypes, Dirs
  <2> QED
    BY <1>1, <2>1 DEF SinceInv
<1> QED
  BY <1>4, <1>5 DEF SinceInv, Single, Reports

\* rte_eth_stats_reset, the first of two included.
LEMMA SinceReset ==
  ASSUME TypeInv, PlaceInv, SinceInv, NEW k \in Lcores,
         RxResetFirst(k) \/ RxReset(k) \/ TxReset(k)
  PROVE  SinceInv'
<1>1. PICK e \in Dirs : pc[k] \in Resets(e) /\ Reports(k, e, Port(k))
  BY PortType DEF RxResetFirst, RxReset, TxReset, Resets, Dirs
<1>2. Port(k) \in Ports
  BY PortType DEF RxResetFirst, RxReset, TxReset
<1>3. Moves(k) /\ pc'[k] \in {"rx", "tx", "turn", "txfree", "rxreset"}
  BY LcoreMoves
<1>7. \A l \in Lcores \ {k} : got'[l] = got[l]
  BY DEF RxResetFirst, RxReset, TxReset, EndWindow, windowVars, TypeInv, CountTypes
<1>4. UNCHANGED <<rxStart, since, printed>>
      /\ stats' = [stats EXCEPT ![Port(k)] = [d \in Dirs |-> 0]]
  BY DEF RxResetFirst, RxReset, TxReset, EndWindow, Reset, windowVars, historyVars
<1>5. ASSUME NEW l \in Lcores, NEW d \in Dirs, NEW p \in Ports,
             Single(l, d), Reports(l, d, p), Begun(l, d)'
      PROVE  CountedSince(l, d, p)'
  <2>1. CountedSince(l, d, p)
    BY <1>4, <1>5 DEF SinceInv, Begun
  <2>2. since[l][d][p] \in Nat /\ since' = since
    BY <1>4, Numbers DEF TypeInv, CountTypes
  <2>3. stats'[p][d] = IF p = Port(k) THEN 0 ELSE stats[p][d]
    BY <1>4 DEF TypeInv, CountTypes
  <2>4. l = k /\ pc[k] \in Resets(d) => p = Port(k)
    <3>1. pc[k] \in Resets(d) => d = e
      BY <1>1 DEF Resets, Dirs
    <3> QED
      BY <1>1, <1>2, <1>5, <3>1 DEF Single
  <2>5. l # k => pc'[l] = pc[l] /\ got'[l] = got[l]
    BY <1>3, <1>7 DEF Moves
  <2>6. l = k => pc'[l] # StampOf(d)
    BY <1>3 DEF StampOf
  <2>7. pc'[l] \notin Resets(d) => stats'[p][d] <= since[l][d][p]
    <3>1. CASE p = Port(k)
      BY <2>2, <2>3, <3>1
    <3>2. CASE p # Port(k)
      BY <2>1, <2>3, <2>4, <2>5, <3>2 DEF CountedSince
    <3> QED
      BY <3>1, <3>2
  <2>8. pc'[l] = StampOf(d) => got'[l] <= since[l][d][p]
    BY <2>1, <2>5, <2>6 DEF CountedSince
  <2> QED
    BY <2>2, <2>7, <2>8 DEF CountedSince
<1>6. ASSUME NEW l \in Lcores, pc'[l] = "arp" PROVE pc[l] = "arp"
  BY <1>3, <1>6 DEF Moves
<1> QED
  BY <1>4, <1>5, <1>6 DEF SinceInv, Single, Reports

\* The gratuitous ARPs are sent before the first window of the transmitter.
LEMMA SinceArp ==
  ASSUME TypeInv, PlaceInv, SinceInv, NEW k \in Lcores, ArpDone(k)
  PROVE  SinceInv'
<1>1. Moves(k) /\ pc'[k] \in {"rx", "tx", "turn"} /\ pc[k] \in {"arp", "rearp"}
  BY LcoreMoves DEF ArpDone
<1>2. UNCHANGED <<rxStart, got, printed, stats>>
  BY DEF ArpDone, windowVars, nicVars
<1>3. CASE pc[k] # "arp"
  <2>1. since' = since
    BY <1>3 DEF ArpDone
  <2> QED
    BY <1>1, <1>2, <1>3, <2>1, SinceKept DEF Moves
<1>4. CASE pc[k] = "arp"
  <2>1. since' = [since EXCEPT ![k]["tx"] = [p \in Ports |-> 0]] /\ printed[k]["tx"] = "none"
    BY <1>4 DEF ArpDone, SinceInv
  <2>2. ASSUME NEW l \in Lcores, NEW d \in Dirs, NEW p \in Ports,
               Single(l, d), Reports(l, d, p), Begun(l, d)'
        PROVE  CountedSince(l, d, p)'
    <3>1. Begun(l, d)
      BY <1>2, <2>2 DEF Begun
    <3>2. CountedSince(l, d, p)
      BY <2>2, <3>1 DEF SinceInv
    <3>3. l # k \/ d # "tx"
      BY <2>1, <3>1 DEF Begun
    <3>4. since'[l][d][p] = since[l][d][p]
      BY <2>1, <3>3 DEF TypeInv, CountTypes
    <3>5. /\ pc[l] \in Resets(d) => pc'[l] \in Resets(d)
          /\ pc'[l] = StampOf(d) => pc[l] = StampOf(d)
      BY <1>1 DEF Moves, StampOf, Resets
    <3> QED
      BY <1>2, <3>2, <3>4, <3>5 DEF CountedSince
  <2>3. ASSUME NEW l \in Lcores, pc'[l] = "arp" PROVE pc[l] = "arp"
    BY <1>1, <2>3 DEF Moves
  <2> QED
    BY <1>2, <2>2, <2>3 DEF SinceInv, Single, Reports
<1> QED
  BY <1>3, <1>4

LEMMA SinceStep == TypeInv /\ PlaceInv /\ SinceInv /\ [Next]_vars => SinceInv'
<1> SUFFICES ASSUME TypeInv, PlaceInv, SinceInv, [Next]_vars PROVE SinceInv'
  OBVIOUS
<1>1. CASE UNCHANGED vars
  BY <1>1 DEF vars, lcoreVars, windowVars, nicVars, historyVars, SinceInv, Single, Reports,
              Begun, CountedSince
<1>2. ASSUME NEW l \in Lcores,
             \/ ArpAlloc(l) \/ ArpSend(l) \/ ArpFail(l) \/ Turn(l) \/ RxEmpty(l) \/ RxBurst(l)
             \/ TxAlloc(l) \/ TxSend(l) \/ TxFree(l)
      PROVE  SinceInv'
  <2>1. UNCHANGED <<rxStart, got, printed, stats, since>>
    BY <1>2 DEF ArpAlloc, ArpSend, ArpFail, Turn, RxEmpty, RxBurst, RxPoll, TxAlloc, TxSend, TxFree,
                windowVars, historyVars, nicVars
  <2>2. CASE ArpAlloc(l) \/ ArpSend(l) \/ ArpFail(l)
    <3>1. Moves(l) /\ pc'[l] = pc[l] /\ pc[l] \in {"arp", "rearp"}
      BY <2>2, LcoreMoves
    <3> QED
      BY <2>1, <3>1, SinceKept DEF Moves
  <2>3. CASE ~(ArpAlloc(l) \/ ArpSend(l) \/ ArpFail(l))
    <3>1. /\ Moves(l) /\ pc'[l] \notin {"rxstamp", "txstamp", "arp"}
          /\ pc[l] \notin {"rxfirst", "rxreset", "txreset"}
      <4>1. CASE Turn(l)
        BY <4>1, LcoreMoves DEF Turn
      <4>2. CASE RxEmpty(l) \/ RxBurst(l)
        BY <4>2, LcoreMoves DEF RxEmpty, RxBurst, RxPoll
      <4>3. CASE TxAlloc(l) \/ TxSend(l) \/ TxFree(l)
        BY <4>3, LcoreMoves DEF TxAlloc, TxSend, TxFree
      <4> QED
        BY <1>2, <2>3, <4>1, <4>2, <4>3
    <3> QED
      BY <2>1, <3>1, SinceKept DEF Moves
  <2> QED
    BY <2>2, <2>3
<1>3. ASSUME NEW q \in TxQs, Transmit(q) PROVE SinceInv'
  <2>1. q.port \in Ports /\ Counted(q.port, "tx") /\ "tx" \in Dirs
    BY <1>3, QueueTypes DEF Transmit, Dirs
  <2>2. UNCHANGED <<pc, rxStart, got, printed>>
    BY <1>3 DEF Transmit, lcoreVars, windowVars
  <2> QED
    BY <2>1, <2>2, SinceCounted
<1>4. ASSUME NEW q \in RxQs, Arrive(q) PROVE SinceInv'
  <2>1. q.port \in Ports /\ Counted(q.port, "rx") /\ "rx" \in Dirs
    BY <1>4, QueueTypes DEF Arrive, Dirs
  <2>2. UNCHANGED <<pc, rxStart, got, printed>>
    BY <1>4 DEF Arrive, lcoreVars, windowVars
  <2> QED
    BY <2>1, <2>2, SinceCounted
<1> QED
  BY <1>1, <1>2, <1>3, <1>4, SinceGet, SinceStamp, SinceReset, SinceArp, StepCases

\* What is printed was counted in the window it is printed of.
LEMMA OverstatedStep ==
  TypeInv /\ PlaceInv /\ SinceInv /\ NeverOverstated /\ [Next]_vars => NeverOverstated'
<1> SUFFICES ASSUME TypeInv, PlaceInv, SinceInv, NeverOverstated, [Next]_vars
             PROVE  NeverOverstated'
  OBVIOUS
<1>1. CASE window' = window
  BY <1>1 DEF NeverOverstated, Single, Reports
<1>2. ASSUME NEW k \in Lcores, RxReset(k) \/ TxReset(k) PROVE NeverOverstated'
  <2>1. window' = [window EXCEPT ![k] = NoWindow]
    BY <1>2 DEF RxReset, TxReset, EndWindow
  <2> QED
    BY <2>1 DEF NeverOverstated, Single, Reports, NoWindow, TypeInv, CountTypes
<1>3. ASSUME NEW k \in Lcores, NEW d \in Dirs, Report(k, d), pc[k] = StampOf(d),
             d = "rx" => rxStart[k], Port(k) \in Ports, Reports(k, d, Port(k))
      PROVE  NeverOverstated'
  <2> DEFINE w == window'[k]
  <2>1. \A l \in Lcores \ {k} : window'[l] = window[l]
    BY <1>3 DEF Report, TypeInv, CountTypes
  <2>2. /\ w.dir = d /\ w.nth = printed'[k][d]
        /\ w.counted = got[k] /\ w.passed = since[k][d][Port(k)]
    BY <1>3 DEF Report, TypeInv, CountTypes
  <2>3. printed'[k][d] = IF printed[k][d] = "none" THEN "first" ELSE "later"
    BY <1>3 DEF Report, TypeInv, CountTypes
  <2>4. Single(k, d) /\ ~(d = "tx" /\ w.nth = "first") => w.counted <= w.passed
    <3>1. ASSUME Single(k, d), ~(d = "tx" /\ w.nth = "first") PROVE Begun(k, d)
      BY <1>3, <2>2, <2>3, <3>1 DEF Begun, Dirs
    <3>2. Single(k, d) /\ Begun(k, d) => CountedSince(k, d, Port(k))
      BY <1>3 DEF SinceInv
    <3>3. CountedSince(k, d, Port(k)) => got[k] <= since[k][d][Port(k)]
      BY <1>3 DEF CountedSince
    <3> HIDE DEF w
    <3> QED
      BY <2>2, <3>1, <3>2, <3>3
  <2> QED
    BY <2>1, <2>2, <2>4 DEF NeverOverstated, Single, Reports
<1>4. ASSUME NEW k \in Lcores, RxStamp(k) PROVE NeverOverstated'
  <2>1. pc[k] = StampOf("rx") /\ "rx" \in Dirs /\ Port(k) \in Ports /\ Reports(k, "rx", Port(k))
    BY <1>4, PortType DEF RxStamp, StampOf, Dirs
  <2>2. CASE rxStart[k] /\ Report(k, "rx")
    BY <1>3, <2>1, <2>2
  <2> QED
    BY <1>1, <1>4, <2>2 DEF RxStamp, Started
<1>5. ASSUME NEW k \in Lcores, TxStamp(k) PROVE NeverOverstated'
  <2>1. /\ pc[k] = StampOf("tx") /\ "tx" \in Dirs /\ Port(k) \in Ports
        /\ Reports(k, "tx", Port(k)) /\ Report(k, "tx")
    BY <1>5, PortType DEF TxStamp, StampOf, Dirs
  <2> QED
    BY <1>3, <2>1
<1>6. ASSUME NEW l \in Lcores,
             \/ ArpAlloc(l) \/ ArpSend(l) \/ ArpFail(l) \/ ArpDone(l) \/ Turn(l)
             \/ RxEmpty(l) \/ RxBurst(l) \/ RxGet(l) \/ RxResetFirst(l)
             \/ TxAlloc(l) \/ TxSend(l) \/ TxGet(l) \/ TxFree(l)
      PROVE  window' = window
  BY <1>6 DEF ArpAlloc, ArpSend, ArpFail, ArpDone, Turn, RxEmpty, RxBurst, RxPoll, RxGet, RxResetFirst,
              TxGet, Get, TxAlloc, TxSend, TxFree, historyVars
<1>7. CASE \/ UNCHANGED vars
           \/ \E q \in TxQs : Transmit(q)
           \/ \E q \in RxQs : Arrive(q)
  BY <1>1, <1>7, CardMoves
<1> QED
  BY <1>1, <1>2, <1>4, <1>5, <1>6, <1>7, StepCases

\* runtime.c:335-370, 630-663.  The speed that is printed is never too high: the
\* packets of a window all passed while it was open, whatever other lcores clear
\* and however the reads, the stamps and the resets are interleaved.
THEOREM SpeedNotOverstated == Spec => []NeverOverstated
<1>1. Init => SinceInv /\ NeverOverstated
  <2> SUFFICES ASSUME Init PROVE SinceInv /\ NeverOverstated
    OBVIOUS
  <2>1. \A l \in Lcores : \A d \in Dirs : ~Begun(l, d)
    BY DEF Init, Begun
  <2> QED
    BY <2>1 DEF Init, SinceInv, NeverOverstated, NoWindow, Dirs
<1>2. IndInv => TypeInv /\ PlaceInv
  BY DEF IndInv
<1>3. Spec => []SinceInv
  BY <1>1, <1>2, SinceStep, IndInvariant, PTL DEF Spec
<1> QED
  BY <1>1, <1>2, <1>3, OverstatedStep, IndInvariant, PTL DEF Spec

-----------------------------------------------------------------------------
\* The counter of queue 0 is the number of bursts of the window, from the first
\* window that the receiver prints on.  Until then it is at its end, so that the
\* next burst ends the window.
Ending(l, d) == pc[l] \in (IF d = "rx" THEN {"rxget", "rxstamp"} ELSE {"txget", "txstamp"})

RxLength(l, p) ==
  LET iters == rxiters[[port |-> p, queue |-> 0]]
      n     == bursts[l]["rx"]
  IN  /\ iters = RxStats <=> Ending(l, "rx") \/ (rxStart[l] /\ printed[l]["rx"] = "none")
      /\ rxStart[l] /\ printed[l]["rx"] = "none" => n = IF Ending(l, "rx") THEN 1 ELSE 0
      /\ printed[l]["rx"] # "none" => rxStart[l] /\ n = iters

TxLength(l, p) ==
  LET iters == txiters[[port |-> p, queue |-> 0]]
      n     == bursts[l]["tx"]
  IN  IF Ending(l, "tx") THEN iters = 0 /\ n = TxStats ELSE n = iters

RxLengthInv ==
  \A l \in Lcores : \A p \in Ports : Single(l, "rx") /\ Reports(l, "rx", p) => RxLength(l, p)

TxLengthInv ==
  \A l \in Lcores : \A p \in Ports : Single(l, "tx") /\ Reports(l, "tx", p) => TxLength(l, p)

\* Queue 0 of a port belongs to one lcore.
LEMMA OneOwner ==
  ASSUME NEW l \in Lcores, NEW k \in Lcores, NEW p \in Ports
  PROVE  /\ Reports(l, "rx", p) => [port |-> p, queue |-> 0] \in First(RxQs)
         /\ Reports(l, "tx", p) => [port |-> p, queue |-> 0] \in First(TxQs)
         /\ Reports(l, "rx", p) /\ Reports(k, "rx", p) => k = l
         /\ Reports(l, "tx", p) /\ Reports(k, "tx", p) => k = l
<1> DEFINE q == [port |-> p, queue |-> 0]
<1>1. ASSUME Reports(l, "rx", p) PROVE q \in First(RxQs) /\ (Reports(k, "rx", p) => k = l)
  <2>1. PICK i \in DOMAIN RxQueues[l] : RxQueues[l][i] = q
    BY <1>1 DEF Reports, Range
  <2>2. q \in RxQs /\ q.queue = 0
    BY <2>1, QueueTypes
  <2>3. ASSUME Reports(k, "rx", p) PROVE k = l
    <3>1. PICK j \in DOMAIN RxQueues[k] : RxQueues[k][j] = q
      BY <2>3 DEF Reports, Range
    <3> HIDE DEF q
    <3> QED
      BY <2>1, <3>1, BandwidthAssumption
  <2> QED
    BY <2>2, <2>3 DEF First
<1>2. ASSUME Reports(l, "tx", p) PROVE q \in First(TxQs) /\ (Reports(k, "tx", p) => k = l)
  <2>1. PICK i \in DOMAIN TxQueues[l] : TxQueues[l][i] = q
    BY <1>2 DEF Reports, Range
  <2>2. q \in TxQs /\ q.queue = 0
    BY <2>1, QueueTypes
  <2>3. ASSUME Reports(k, "tx", p) PROVE k = l
    <3>1. PICK j \in DOMAIN TxQueues[k] : TxQueues[k][j] = q
      BY <2>3 DEF Reports, Range
    <3> HIDE DEF q
    <3> QED
      BY <2>1, <3>1, BandwidthAssumption
  <2> QED
    BY <2>2, <2>3 DEF First
<1> QED
  BY <1>1, <1>2

\* The queue an lcore serves, if it has number 0.
LEMMA ServesFirst ==
  ASSUME PlaceInv, NEW k \in Lcores
  PROVE  /\ pc[k] \in {"rx", "rxget", "rxstamp"} /\ RxQueue(k).queue = 0 =>
              \E r \in Ports : RxQueue(k) = [port |-> r, queue |-> 0] /\ Reports(k, "rx", r)
         /\ pc[k] = "txsend" /\ TxQueue(k).queue = 0 =>
              \E r \in Ports : TxQueue(k) = [port |-> r, queue |-> 0] /\ Reports(k, "tx", r)
<1>1. ASSUME pc[k] \in {"rx", "rxget", "rxstamp"}, RxQueue(k).queue = 0
      PROVE  \E r \in Ports : RxQueue(k) = [port |-> r, queue |-> 0] /\ Reports(k, "rx", r)
  <2>1. qi[k] \in DOMAIN RxQueues[k]
    BY <1>1 DEF PlaceInv, AtPlace
  <2>2. RxQueue(k) \in RxQs /\ RxQueue(k) \in Range(RxQueues[k])
    BY <2>1, QueueTypes DEF RxQueue, Range
  <2>3. RxQueue(k).port \in Ports /\ RxQueue(k) = [port |-> RxQueue(k).port, queue |-> 0]
    BY <1>1, <2>2, QueueTypes
  <2>4. Reports(k, "rx", RxQueue(k).port)
    BY <2>2, <2>3 DEF Reports
  <2> QED
    BY <2>3, <2>4
<1>2. ASSUME pc[k] = "txsend", TxQueue(k).queue = 0
      PROVE  \E r \in Ports : TxQueue(k) = [port |-> r, queue |-> 0] /\ Reports(k, "tx", r)
  <2>1. qi[k] \in DOMAIN TxQueues[k]
    BY <1>2 DEF PlaceInv, AtPlace
  <2>2. TxQueue(k) \in TxQs /\ TxQueue(k) \in Range(TxQueues[k])
    BY <2>1, QueueTypes DEF TxQueue, Range
  <2>3. TxQueue(k).port \in Ports /\ TxQueue(k) = [port |-> TxQueue(k).port, queue |-> 0]
    BY <1>2, <2>2, QueueTypes
  <2>4. Reports(k, "tx", TxQueue(k).port)
    BY <2>2, <2>3 DEF Reports
  <2> QED
    BY <2>3, <2>4
<1> QED
  BY <1>1, <1>2

\* A step of lcore k that does not count bursts.
LEMMA RxLengthKept ==
  ASSUME RxLengthInv, NEW k \in Lcores, \A l \in Lcores \ {k} : pc'[l] = pc[l],
         (Ending(k, "rx"))' <=> Ending(k, "rx"),
         UNCHANGED <<rxiters, rxStart>>,
         \A l \in Lcores : bursts'[l]["rx"] = bursts[l]["rx"] /\ printed'[l]["rx"] = printed[l]["rx"]
  PROVE  RxLengthInv'
<1>1. ASSUME NEW l \in Lcores PROVE (Ending(l, "rx"))' <=> Ending(l, "rx")
  BY DEF Ending
<1> QED
  BY <1>1 DEF RxLengthInv, RxLength, Single, Reports

LEMMA TxLengthKept ==
  ASSUME TxLengthInv, NEW k \in Lcores, \A l \in Lcores \ {k} : pc'[l] = pc[l],
         (Ending(k, "tx"))' <=> Ending(k, "tx"), UNCHANGED txiters,
         \A l \in Lcores : bursts'[l]["tx"] = bursts[l]["tx"]
  PROVE  TxLengthInv'
<1>1. ASSUME NEW l \in Lcores PROVE (Ending(l, "tx"))' <=> Ending(l, "tx")
  BY DEF Ending
<1> QED
  BY <1>1 DEF TxLengthInv, TxLength, Single, Reports

\* A burst of queue 0 of port r.
LEMMA RxLengthBurst ==
  ASSUME TypeInv, PlaceInv, RxLengthInv, NEW k \in Lcores, RxBurst(k)
  PROVE  RxLengthInv'
<1>1. Moves(k) /\ pc[k] = "rx" /\ UNCHANGED <<rxStart, printed>>
  BY LcoreMoves DEF RxBurst, RxPoll
<1>2. CASE RxQueue(k).queue # 0
  <2>1. UNCHANGED <<rxiters, bursts>> /\ NextRx(k)
    BY <1>2 DEF RxBurst
  <2>2. pc'[k] \in {"rx", "tx", "turn"}
    <3>1. qi[k] \in DOMAIN RxQueues[k] /\ LcoreTypes
      BY <1>1 DEF PlaceInv, AtPlace, TypeInv
    <3> QED
      BY <2>1, <3>1, NextRxMoves
  <2>3. (Ending(k, "rx"))' <=> Ending(k, "rx")
    BY <1>1, <2>2 DEF Ending
  <2> QED
    BY <1>1, <2>1, <2>3, RxLengthKept DEF Moves
<1>3. CASE RxQueue(k).queue = 0
  <2>1. PICK r \in Ports : RxQueue(k) = [port |-> r, queue |-> 0] /\ Reports(k, "rx", r)
    BY <1>1, <1>3, ServesFirst
  <2> DEFINE q == [port |-> r, queue |-> 0]
             i == rxiters[q]
             n == bursts[k]["rx"]
             i2 == Lesser(i + 1, RxStats)
             n2 == Lesser(n + 1, RxStats + 1)
  <2>2. q \in First(RxQs)
    BY <2>1, OneOwner
  <2>3. i \in 0 .. RxStats /\ n \in Nat
    BY <2>2 DEF TypeInv, WindowTypes, Dirs
  <2>4. rxiters' = [rxiters EXCEPT ![q] = i2] /\ bursts' = [bursts EXCEPT ![k]["rx"] = n2]
    BY <1>3, <2>1 DEF RxBurst
  <2>5. rxiters'[q] = i2 /\ bursts'[k]["rx"] = n2
    BY <2>2, <2>4 DEF TypeInv, WindowTypes, Dirs
  <2>6. (Ending(k, "rx"))' <=> i2 = RxStats
    <3>1. i2 = RxStats => GoTo(k, "rxget")
      BY <1>3, <2>1, <2>5 DEF RxBurst
    <3>2. i2 # RxStats => NextRx(k)
      BY <1>3, <2>1, <2>5 DEF RxBurst
    <3>3. LcoreTypes /\ qi[k] \in DOMAIN RxQueues[k]
      BY <1>1 DEF TypeInv, PlaceInv, AtPlace
    <3>4. i2 = RxStats => pc'[k] = "rxget"
      BY <3>1, <3>3 DEF GoTo, LcoreTypes
    <3>5. i2 # RxStats => pc'[k] \in {"rx", "tx", "turn"}
      BY <3>2, <3>3, NextRxMoves
    <3> HIDE DEF i2
    <3> QED
      BY <3>4, <3>5 DEF Ending
  <2>7. Single(k, "rx") => RxLength(k, r)'
    <3>1. ASSUME Single(k, "rx") PROVE RxLength(k, r)
      BY <2>1, <3>1 DEF RxLengthInv
    <3>2. ~Ending(k, "rx")
      BY <1>1 DEF Ending
    <3> DEFINE first == rxStart[k] /\ printed[k]["rx"] = "none"
    <3>3. ASSUME Single(k, "rx")
          PROVE  /\ i = RxStats <=> first
                 /\ first => n = 0
                 /\ printed[k]["rx"] # "none" => rxStart[k] /\ n = i
      BY <3>1, <3>2, <3>3 DEF RxLength
    <3>4. i2 = IF i = RxStats THEN RxStats ELSE i + 1
      <4> HIDE DEF i
      <4> QED
        BY <2>3, Numbers DEF Lesser
    <3>5. (i = n /\ i # RxStats => n2 = i2) /\ (n = 0 => n2 = 1)
      <4> HIDE DEF i, n
      <4> QED
        BY <2>3, <3>4, Numbers DEF Lesser
    <3> HIDE DEF i, n, i2, n2
    <3>6. ASSUME Single(k, "rx")
          PROVE  /\ i2 = RxStats <=> (Ending(k, "rx"))' \/ first
                 /\ first => n2 = IF (Ending(k, "rx"))' THEN 1 ELSE 0
                 /\ printed[k]["rx"] # "none" => rxStart[k] /\ n2 = i2
      BY <2>6, <3>3, <3>4, <3>5, <3>6
    <3> QED
      BY <1>1, <2>5, <3>6 DEF RxLength
  <2>8. ASSUME NEW l \in Lcores, NEW p \in Ports, Single(l, "rx"), Reports(l, "rx", p)
        PROVE  RxLength(l, p)'
    <3>1. CASE l = k
      <4>1. p = r
        BY <2>1, <2>8, <3>1 DEF Single
      <4> QED
        BY <2>7, <2>8, <3>1, <4>1
    <3>2. CASE l # k
      <4>1. p # r
        BY <2>1, <2>8, <3>2, OneOwner
      <4>2. [port |-> p, queue |-> 0] \in First(RxQs) /\ [port |-> p, queue |-> 0] # q
        BY <2>8, <4>1, OneOwner
      <4>3. rxiters'[[port |-> p, queue |-> 0]] = rxiters[[port |-> p, queue |-> 0]]
        <5> HIDE DEF i2, q
        <5> QED
          BY <2>4, <4>2 DEF TypeInv, WindowTypes
      <4>4. bursts'[l]["rx"] = bursts[l]["rx"] /\ pc'[l] = pc[l]
        BY <1>1, <2>4, <3>2 DEF Moves, TypeInv, WindowTypes
      <4>5. RxLength(l, p)
        BY <2>8 DEF RxLengthInv
      <4> QED
        BY <1>1, <4>3, <4>4, <4>5 DEF RxLength, Ending
    <3> QED
      BY <3>1, <3>2
  <2> QED
    BY <2>8 DEF RxLengthInv, Single, Reports
<1> QED
  BY <1>2, <1>3

\* The end of a window.
LEMMA RxLengthStamp ==
  ASSUME TypeInv, PlaceInv, RxLengthInv, NEW k \in Lcores, RxStamp(k)
  PROVE  RxLengthInv'
<1>1. pc[k] = "rxstamp" /\ Moves(k) /\ pc'[k] \in {"rxfirst", "rxreset"}
  BY LcoreMoves DEF RxStamp
<1>2. PICK r \in Ports : RxQueue(k) = [port |-> r, queue |-> 0] /\ Reports(k, "rx", r)
  BY <1>1, PortType
<1> DEFINE q == [port |-> r, queue |-> 0]
<1>3. q \in First(RxQs)
  BY <1>2, OneOwner
<1>4. Ending(k, "rx") /\ ~(Ending(k, "rx"))'
  BY <1>1 DEF Ending
<1>5. bursts' = [bursts EXCEPT ![k]["rx"] = 0] /\ bursts'[k]["rx"] = 0
  BY DEF RxStamp, Report, NewWindow, TypeInv, WindowTypes, Dirs
<1>6. /\ rxStart[k] => /\ rxiters' = [rxiters EXCEPT ![q] = 0] /\ rxStart' = rxStart
                       /\ \E v : v # "none" /\ printed' = [printed EXCEPT ![k]["rx"] = v]
      /\ ~rxStart[k] => UNCHANGED <<rxiters, printed>> /\ rxStart' = [rxStart EXCEPT ![k] = TRUE]
  BY <1>2 DEF RxStamp, Started, Report, ItersReset, StartWindow
<1>7. RxLength(k, r)' \/ ~Single(k, "rx")
  <2>1. ASSUME Single(k, "rx") PROVE RxLength(k, r)
    BY <1>2, <2>1 DEF RxLengthInv
  <2>2. CASE rxStart[k]
    <3>1. rxiters'[q] = 0 /\ printed'[k]["rx"] # "none" /\ rxStart'[k]
      BY <1>3, <1>6, <2>2 DEF TypeInv, WindowTypes, CountTypes, Dirs
    <3> QED
      BY <1>4, <1>5, <3>1, Numbers DEF RxLength
  <2>3. CASE ~rxStart[k]
    <3>1. rxiters'[q] = rxiters[q] /\ printed'[k]["rx"] = printed[k]["rx"] /\ rxStart'[k]
      BY <1>6, <2>3 DEF TypeInv, WindowTypes
    <3> QED
      BY <1>4, <1>5, <2>1, <2>3, <3>1 DEF RxLength
  <2> QED
    BY <2>2, <2>3
<1>8. ASSUME NEW l \in Lcores, NEW p \in Ports, Single(l, "rx"), Reports(l, "rx", p)
      PROVE  RxLength(l, p)'
  <2>1. CASE l = k
    <3>1. p = r
      BY <1>2, <1>8, <2>1 DEF Single
    <3> QED
      BY <1>7, <1>8, <2>1, <3>1
  <2>2. CASE l # k
    <3>1. p # r
      BY <1>2, <1>8, <2>2, OneOwner
    <3>2. [port |-> p, queue |-> 0] \in First(RxQs) /\ [port |-> p, queue |-> 0] # q
      BY <1>8, <3>1, OneOwner
    <3>3. rxiters'[[port |-> p, queue |-> 0]] = rxiters[[port |-> p, queue |-> 0]]
      <4> HIDE DEF q
      <4> QED
        BY <1>6, <3>2 DEF TypeInv, WindowTypes
    <3>4. bursts'[l]["rx"] = bursts[l]["rx"] /\ pc'[l] = pc[l]
      BY <1>1, <1>5, <2>2 DEF Moves, TypeInv, WindowTypes
    <3>5. rxStart'[l] = rxStart[l] /\ printed'[l]["rx"] = printed[l]["rx"]
      BY <1>6, <2>2 DEF TypeInv, WindowTypes, CountTypes
    <3>6. RxLength(l, p)
      BY <1>8 DEF RxLengthInv
    <3> QED
      BY <3>3, <3>4, <3>5, <3>6 DEF RxLength, Ending
  <2> QED
    BY <2>1, <2>2
<1> QED
  BY <1>8 DEF RxLengthInv, Single, Reports

LEMMA TxLengthBurst ==
  ASSUME TypeInv, PlaceInv, TxLengthInv, NEW k \in Lcores, TxSend(k)
  PROVE  TxLengthInv'
<1>1. Moves(k) /\ pc[k] = "txsend" /\ pc'[k] \in {"asleep", "txget", "txfree"}
  BY LcoreMoves DEF TxSend
<1>2. CASE UNCHANGED <<txiters, bursts>> /\ pc'[k] # "txget"
  <2>1. (Ending(k, "tx"))' <=> Ending(k, "tx")
    BY <1>1, <1>2 DEF Ending
  <2> QED
    BY <1>1, <1>2, <2>1, TxLengthKept DEF Moves
<1>3. CASE ~(UNCHANGED <<txiters, bursts>> /\ pc'[k] # "txget")
  <2> DEFINE new(q) == IF txiters[q] + 1 = TxStats THEN 0 ELSE txiters[q] + 1
             n == bursts[k]["tx"]
             n2 == Lesser(n + 1, TxStats + 1)
  <2>1. /\ TxQueue(k).queue = 0
        /\ txiters' = [txiters EXCEPT ![TxQueue(k)] = new(TxQueue(k))]
        /\ bursts' = [bursts EXCEPT ![k]["tx"] = n2]
        /\ GoTo(k, IF txiters'[TxQueue(k)] = 0 THEN "txget" ELSE "txfree")
    <3>1. CASE UNCHANGED <<txiters, bursts>> /\ (GoTo(k, "asleep") \/ GoTo(k, "txfree"))
      <4>1. pc'[k] # "txget"
        BY <3>1 DEF GoTo, TypeInv, LcoreTypes
      <4> QED
        BY <1>3, <3>1, <4>1
    <3> QED
      BY <1>3, <3>1 DEF TxSend
  <2>2. PICK r \in Ports : TxQueue(k) = [port |-> r, queue |-> 0] /\ Reports(k, "tx", r)
    BY <1>1, <2>1, ServesFirst
  <2> DEFINE q == [port |-> r, queue |-> 0]
             i == txiters[q]
  <2>3. q \in First(TxQs)
    BY <2>2, OneOwner
  <2>4. i \in 0 .. TxStats - 1 /\ n \in Nat
    BY <2>3 DEF TypeInv, WindowTypes, Dirs
  <2>5. txiters'[q] = new(q) /\ bursts'[k]["tx"] = n2
    BY <2>1, <2>2, <2>3 DEF TypeInv, WindowTypes, Dirs
  <2>6. (Ending(k, "tx"))' <=> new(q) = 0
    <3>1. pc'[k] = IF txiters'[q] = 0 THEN "txget" ELSE "txfree"
      BY <2>1, <2>2 DEF GoTo, TypeInv, LcoreTypes
    <3> HIDE DEF new
    <3> QED
      BY <2>5, <3>1 DEF Ending
  <2>7. Single(k, "tx") => TxLength(k, r)'
    <3>1. ASSUME Single(k, "tx") PROVE n = i
      <4>1. TxLength(k, r) /\ ~Ending(k, "tx")
        BY <1>1, <2>2, <3>1 DEF TxLengthInv, Ending
      <4> QED
        BY <4>1 DEF TxLength
    <3>2. n = i => IF new(q) = 0 THEN n2 = TxStats ELSE n2 = new(q)
      <4> HIDE DEF n, i
      <4> QED
        BY <2>4, Numbers DEF Lesser, i
    <3> HIDE DEF new, n, n2, i
    <3> QED
      BY <2>5, <2>6, <3>1, <3>2 DEF TxLength
  <2>8. ASSUME NEW l \in Lcores, NEW p \in Ports, Single(l, "tx"), Reports(l, "tx", p)
        PROVE  TxLength(l, p)'
    <3>1. CASE l = k
      <4>1. p = r
        BY <2>2, <2>8, <3>1 DEF Single
      <4> QED
        BY <2>7, <2>8, <3>1, <4>1
    <3>2. CASE l # k
      <4>1. p # r
        BY <2>2, <2>8, <3>2, OneOwner
      <4>2. [port |-> p, queue |-> 0] \in First(TxQs) /\ [port |-> p, queue |-> 0] # TxQueue(k)
        BY <2>2, <2>8, <4>1, OneOwner
      <4>3. txiters'[[port |-> p, queue |-> 0]] = txiters[[port |-> p, queue |-> 0]]
        <5> HIDE DEF new
        <5> QED
          BY <2>1, <4>2 DEF TypeInv, WindowTypes
      <4>4. bursts'[l]["tx"] = bursts[l]["tx"] /\ pc'[l] = pc[l]
        BY <1>1, <2>1, <3>2 DEF Moves, TypeInv, WindowTypes
      <4>5. TxLength(l, p)
        BY <2>8 DEF TxLengthInv
      <4> QED
        BY <4>3, <4>4, <4>5 DEF TxLength, Ending
    <3> QED
      BY <3>1, <3>2
  <2> QED
    BY <2>8 DEF TxLengthInv, Single, Reports
<1> QED
  BY <1>2, <1>3

LEMMA TxLengthStamp ==
  ASSUME TypeInv, PlaceInv, TxLengthInv, NEW k \in Lcores, TxStamp(k)
  PROVE  TxLengthInv'
<1>1. pc[k] = "txstamp" /\ Moves(k) /\ pc'[k] = "txreset"
  BY LcoreMoves DEF TxStamp
<1>2. Ending(k, "tx") /\ ~(Ending(k, "tx"))'
  BY <1>1 DEF Ending
<1>3. bursts' = [bursts EXCEPT ![k]["tx"] = 0] /\ bursts'[k]["tx"] = 0 /\ txiters' = txiters
  BY DEF TxStamp, Report, NewWindow, TypeInv, WindowTypes, Dirs, windowVars
<1>4. ASSUME NEW l \in Lcores, NEW p \in Ports, Single(l, "tx"), Reports(l, "tx", p)
      PROVE  TxLength(l, p)'
  <2>1. TxLength(l, p)
    BY <1>4 DEF TxLengthInv
  <2>2. CASE l = k
    BY <1>2, <1>3, <2>1, <2>2 DEF TxLength
  <2>3. CASE l # k
    <3>1. bursts'[l]["tx"] = bursts[l]["tx"] /\ pc'[l] = pc[l]
      BY <1>1, <1>3, <2>3 DEF Moves, TypeInv, WindowTypes
    <3> QED
      BY <1>3, <2>1, <3>1 DEF TxLength, Ending
  <2> QED
    BY <2>2, <2>3
<1> QED
  BY <1>4 DEF TxLengthInv, Single, Reports

LEMMA LengthStep ==
  TypeInv /\ PlaceInv /\ RxLengthInv /\ TxLengthInv /\ [Next]_vars => RxLengthInv' /\ TxLengthInv'
<1> SUFFICES ASSUME TypeInv, PlaceInv, RxLengthInv, TxLengthInv, [Next]_vars
             PROVE  RxLengthInv' /\ TxLengthInv'
  OBVIOUS
<1>1. CASE \/ UNCHANGED vars
           \/ \E q \in TxQs : Transmit(q)
           \/ \E q \in RxQs : Arrive(q)
  BY <1>1, CardMoves DEF RxLengthInv, TxLengthInv, RxLength, TxLength, Ending, Single, Reports
<1>2. ASSUME NEW l \in Lcores,
             \/ ArpAlloc(l) \/ ArpSend(l) \/ ArpFail(l) \/ ArpDone(l) \/ Turn(l)
             \/ RxEmpty(l) \/ RxGet(l) \/ RxResetFirst(l) \/ RxReset(l)
             \/ TxAlloc(l) \/ TxGet(l) \/ TxReset(l) \/ TxFree(l)
      PROVE  RxLengthInv' /\ TxLengthInv'
  <2>1. UNCHANGED <<rxiters, txiters, rxStart, bursts, printed>>
    BY <1>2 DEF ArpAlloc, ArpSend, ArpFail, ArpDone, Turn, RxEmpty, RxPoll, RxGet, Get,
                RxResetFirst, RxReset, TxAlloc,
                TxGet, TxReset, TxFree, EndWindow, windowVars, historyVars
  <2>2. Moves(l)
    BY <1>2, LcoreMoves
  <2>3. ((Ending(l, "rx"))' <=> Ending(l, "rx")) /\ ((Ending(l, "tx"))' <=> Ending(l, "tx"))
    <3>1. CASE ArpAlloc(l) \/ ArpSend(l) \/ ArpFail(l) \/ ArpDone(l) \/ Turn(l)
      <4>1. pc[l] \in {"arp", "rearp", "turn"} /\ pc'[l] \in {"arp", "rearp", "rx", "tx", "turn"}
        BY <3>1, LcoreMoves DEF Turn, ArpDone
      <4> QED
        BY <4>1 DEF Ending
    <3>2. CASE RxEmpty(l) \/ RxResetFirst(l) \/ RxReset(l)
      <4>1. pc[l] \in {"rx", "rxfirst", "rxreset"} /\ pc'[l] \in {"rx", "tx", "turn", "rxreset"}
        BY <3>2, LcoreMoves DEF RxEmpty, RxPoll, RxResetFirst, RxReset
      <4> QED
        BY <4>1 DEF Ending
    <3>3. CASE RxGet(l)
      <4>1. pc[l] = "rxget" /\ pc'[l] = "rxstamp"
        BY <3>3, LcoreMoves DEF RxGet
      <4> QED
        BY <4>1 DEF Ending
    <3>4. CASE TxGet(l)
      <4>1. pc[l] = "txget" /\ pc'[l] = "txstamp"
        BY <3>4, LcoreMoves DEF TxGet
      <4> QED
        BY <4>1 DEF Ending
    <3>5. CASE TxAlloc(l) \/ TxReset(l) \/ TxFree(l)
      <4>1. pc[l] \in {"tx", "txreset", "txfree"} /\ pc'[l] \in {"txsend", "txfree", "rx", "tx", "turn"}
        BY <3>5, LcoreMoves DEF TxAlloc, TxReset, TxFree
      <4> QED
        BY <4>1 DEF Ending
    <3> QED
      BY <1>2, <3>1, <3>2, <3>3, <3>4, <3>5
  <2> QED
    BY <2>1, <2>2, <2>3, RxLengthKept, TxLengthKept DEF Moves
\* A step of one direction leaves the other alone.
<1>3. ASSUME NEW l \in Lcores, TxSend(l) \/ TxStamp(l) PROVE RxLengthInv'
  <2>1. /\ Moves(l) /\ UNCHANGED <<rxiters, rxStart>>
        /\ pc[l] \in {"txsend", "txstamp"} /\ pc'[l] \in {"asleep", "txget", "txfree", "txreset"}
    BY <1>3, LcoreMoves DEF TxSend, TxStamp, windowVars
  <2>2. bursts' = bursts \/ \E v : bursts' = [bursts EXCEPT ![l]["tx"] = v]
    BY <1>3 DEF TxSend, TxStamp, Report, NewWindow
  <2>3. printed' = printed \/ \E v : printed' = [printed EXCEPT ![l]["tx"] = v]
    BY <1>3 DEF TxSend, TxStamp, Report
  <2>4. \A k \in Lcores : bursts'[k]["rx"] = bursts[k]["rx"] /\ printed'[k]["rx"] = printed[k]["rx"]
    <3>1. \A k \in Lcores : bursts'[k]["rx"] = bursts[k]["rx"]
      BY <2>2 DEF TypeInv, WindowTypes, Dirs
    <3>2. \A k \in Lcores : printed'[k]["rx"] = printed[k]["rx"]
      <4>1. printed \in [Lcores -> [Dirs -> {"none", "first", "later"}]]
        BY DEF TypeInv, CountTypes
      <4>2. ASSUME NEW v, NEW k \in Lcores
            PROVE  [printed EXCEPT ![l]["tx"] = v][k]["rx"] = printed[k]["rx"]
        BY <4>1 DEF Dirs
      <4>3. CASE printed' = printed
        BY <4>3
      <4>4. CASE \E v : printed' = [printed EXCEPT ![l]["tx"] = v]
        <5>1. PICK v : printed' = [printed EXCEPT ![l]["tx"] = v]
          BY <4>4
        <5> QED
          BY <4>2, <5>1, Zenon
      <4> QED
        BY <2>3, <4>3, <4>4
    <3> QED
      BY <3>1, <3>2
  <2>5. (Ending(l, "rx"))' <=> Ending(l, "rx")
    BY <2>1 DEF Ending
  <2> QED
    BY <2>1, <2>4, <2>5, RxLengthKept DEF Moves
<1>4. ASSUME NEW l \in Lcores, RxBurst(l) \/ RxStamp(l) PROVE TxLengthInv'
  <2>1. /\ Moves(l) /\ UNCHANGED txiters
        /\ pc[l] \in {"rx", "rxstamp"} /\ pc'[l] \in {"rx", "tx", "turn", "rxget", "rxfirst", "rxreset"}
    BY <1>4, LcoreMoves DEF RxBurst, RxPoll, RxStamp
  <2>2. bursts' = bursts \/ \E v : bursts' = [bursts EXCEPT ![l]["rx"] = v]
    BY <1>4 DEF RxBurst, RxStamp, Report, NewWindow
  <2>3. \A k \in Lcores : bursts'[k]["tx"] = bursts[k]["tx"]
    BY <2>2 DEF TypeInv, WindowTypes, Dirs
  <2>4. (Ending(l, "tx"))' <=> Ending(l, "tx")
    BY <2>1 DEF Ending
  <2> QED
    BY <2>1, <2>3, <2>4, TxLengthKept DEF Moves
<1> QED
  BY <1>1, <1>2, <1>3, <1>4, RxLengthBurst, RxLengthStamp, TxLengthBurst, TxLengthStamp, StepCases

\* What is printed is a window of that length.
LEMMA WindowStep ==
  TypeInv /\ PlaceInv /\ RxLengthInv /\ TxLengthInv /\ WindowLength /\ [Next]_vars => WindowLength'
<1> SUFFICES ASSUME TypeInv, PlaceInv, RxLengthInv, TxLengthInv, WindowLength, [Next]_vars
             PROVE  WindowLength'
  OBVIOUS
<1>1. CASE window' = window
  BY <1>1 DEF WindowLength, Single, Reports
<1>2. ASSUME NEW k \in Lcores, RxReset(k) \/ TxReset(k) PROVE WindowLength'
  <2>1. window' = [window EXCEPT ![k] = NoWindow]
    BY <1>2 DEF RxReset, TxReset, EndWindow
  <2> QED
    BY <2>1 DEF WindowLength, Single, Reports, NoWindow, TypeInv, CountTypes
<1>3. ASSUME NEW k \in Lcores, NEW d \in Dirs, Report(k, d)
      PROVE  /\ \A l \in Lcores \ {k} : window'[l] = window[l]
             /\ window'[k].dir = d /\ window'[k].bursts = bursts[k][d]
             /\ window'[k].nth = IF printed[k][d] = "none" THEN "first" ELSE "later"
  BY <1>3 DEF Report, TypeInv, CountTypes
<1>4. ASSUME NEW k \in Lcores, RxStamp(k) PROVE WindowLength'
  <2>1. Port(k) \in Ports /\ Reports(k, "rx", Port(k)) /\ Ending(k, "rx") /\ "rx" \in Dirs
    BY <1>4, PortType DEF RxStamp, Ending, Dirs
  <2>2. CASE rxStart[k] /\ Report(k, "rx")
    <3>1. Single(k, "rx") => RxLength(k, Port(k))
      BY <2>1 DEF RxLengthInv
    <3>2. Single(k, "rx") => bursts[k]["rx"] = IF printed[k]["rx"] = "none" THEN 1 ELSE RxStats
      BY <2>1, <2>2, <3>1 DEF RxLength
    <3>3. /\ \A l \in Lcores \ {k} : window'[l] = window[l]
          /\ window'[k].dir = "rx" /\ window'[k].bursts = bursts[k]["rx"]
          /\ window'[k].nth = IF printed[k]["rx"] = "none" THEN "first" ELSE "later"
      BY <1>3, <2>1, <2>2
    <3> QED
      BY <3>2, <3>3 DEF WindowLength, Single, Reports
  <2> QED
    BY <1>1, <1>4, <2>2 DEF RxStamp, Started
<1>5. ASSUME NEW k \in Lcores, TxStamp(k) PROVE WindowLength'
  <2>1. Port(k) \in Ports /\ Reports(k, "tx", Port(k)) /\ Ending(k, "tx") /\ "tx" \in Dirs
    BY <1>5, PortType DEF TxStamp, Ending, Dirs
  <2>2. Single(k, "tx") => TxLength(k, Port(k))
    BY <2>1 DEF TxLengthInv
  <2>3. Single(k, "tx") => bursts[k]["tx"] = TxStats
    BY <2>1, <2>2 DEF TxLength
  <2>4. /\ \A l \in Lcores \ {k} : window'[l] = window[l]
        /\ window'[k].dir = "tx" /\ window'[k].bursts = bursts[k]["tx"]
    BY <1>3, <1>5, <2>1 DEF TxStamp
  <2> QED
    BY <2>3, <2>4 DEF WindowLength, Single, Reports
<1>6. ASSUME NEW l \in Lcores,
             \/ ArpAlloc(l) \/ ArpSend(l) \/ ArpFail(l) \/ ArpDone(l) \/ Turn(l)
             \/ RxEmpty(l) \/ RxBurst(l) \/ RxGet(l) \/ RxResetFirst(l)
             \/ TxAlloc(l) \/ TxSend(l) \/ TxGet(l) \/ TxFree(l)
      PROVE  window' = window
  BY <1>6 DEF ArpAlloc, ArpSend, ArpFail, ArpDone, Turn, RxEmpty, RxBurst, RxPoll, RxGet, RxResetFirst,
              TxGet, Get, TxAlloc, TxSend, TxFree, historyVars
<1>7. CASE \/ UNCHANGED vars
           \/ \E q \in TxQs : Transmit(q)
           \/ \E q \in RxQs : Arrive(q)
  BY <1>1, <1>7, CardMoves
<1> QED
  BY <1>1, <1>2, <1>4, <1>5, <1>6, <1>7, StepCases

\* runtime.c:328-370, 615-663.  A transmitter prints every TxStats bursts of
\* queue 0 exactly, a receiver every RxStats, but its first window is of one.
THEOREM WindowsHaveTheirLength == Spec => []WindowLength
<1>1. Init => RxLengthInv /\ TxLengthInv /\ WindowLength
  <2> SUFFICES ASSUME Init PROVE RxLengthInv /\ TxLengthInv /\ WindowLength
    OBVIOUS
  <2>1. RxLengthInv
    <3>1. ASSUME NEW l \in Lcores, NEW p \in Ports, Reports(l, "rx", p) PROVE RxLength(l, p)
      <4>1. [port |-> p, queue |-> 0] \in First(RxQs)
        BY <3>1, OneOwner
      <4>2. rxiters[[port |-> p, queue |-> 0]] = 0 /\ ~rxStart[l] /\ printed[l]["rx"] = "none"
            /\ ~Ending(l, "rx")
        BY <4>1 DEF Init, Ending, Dirs
      <4> QED
        BY <4>2, Numbers DEF RxLength
    <3> QED
      BY <3>1 DEF RxLengthInv
  <2>2. TxLengthInv
    <3>1. ASSUME NEW l \in Lcores, NEW p \in Ports, Reports(l, "tx", p) PROVE TxLength(l, p)
      <4>1. [port |-> p, queue |-> 0] \in First(TxQs)
        BY <3>1, OneOwner
      <4>2. txiters[[port |-> p, queue |-> 0]] = 0 /\ bursts[l]["tx"] = 0 /\ ~Ending(l, "tx")
        BY <4>1 DEF Init, Ending, Dirs
      <4> QED
        BY <4>2 DEF TxLength
    <3> QED
      BY <3>1 DEF TxLengthInv
  <2>3. WindowLength
    BY DEF Init, WindowLength, NoWindow
  <2> QED
    BY <2>1, <2>2, <2>3
<1>2. IndInv => TypeInv /\ PlaceInv
  BY DEF IndInv
<1>3. Spec => [](RxLengthInv /\ TxLengthInv)
  BY <1>1, <1>2, LengthStep, IndInvariant, PTL DEF Spec
<1> QED
  BY <1>1, <1>2, <1>3, WindowStep, IndInvariant, PTL DEF Spec
=============================================================================
