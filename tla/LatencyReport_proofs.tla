------------------------ MODULE LatencyReport_proofs ------------------------
(***************************************************************************)
(* Proofs about LatencyReport, for every clock, word, mantissa and table:  *)
(* how far the printed latencies, their mean and the times between rows    *)
(* can be from what happened.                                              *)
(***************************************************************************)
EXTENDS LatencyReport, SequenceTheorems, SumTheorems, TLAPS

-----------------------------------------------------------------------------
(***************************************************************************)
(* Powers.                                                                 *)
(***************************************************************************)
LEMMA Smallest ==
  ASSUME NEW T \in SUBSET Nat, T # {}
  PROVE  \E x \in T : \A y \in T : x <= y
<1>1. PICK t \in T : TRUE
  OBVIOUS
<1> DEFINE B == {0 .. i : i \in {j \in T : j <= t}}
<1>2. IsFiniteSet(0 .. t)
  BY <1>1, FS_Interval
<1>3. B \in SUBSET SUBSET (0 .. t) /\ B # {}
  BY <1>1
<1> HIDE DEF B
<1>4. PICK U \in B : \A V \in B : V \subseteq U => V = U
  <2>1. PICK S : S = 0 .. t
    OBVIOUS
  <2>2. IsFiniteSet(S) /\ B \in SUBSET SUBSET S /\ B # {}
    BY <1>2, <1>3, <2>1
  <2> QED
    BY <2>2, MinimalSubset
<1>5. PICK x \in T : x <= t /\ U = 0 .. x
  BY <1>4 DEF B
<1>6. ASSUME NEW y \in T, y < x PROVE FALSE
  <2>1. 0 .. y \in B /\ 0 .. y \subseteq U
    BY <1>1, <1>5, <1>6 DEF B
  <2>2. 0 .. y = 0 .. x /\ x \in 0 .. x
    BY <1>4, <1>5, <2>1
  <2> QED
    BY <1>6, <2>2
<1> QED
  BY <1>5, <1>6

\* f has the powers of b up to the n-th.
PowersTo(f, b, n) == f = [i \in 0 .. n |-> IF i = 0 THEN 1 ELSE b * f[i - 1]]

LEMMA PowersAgree ==
  ASSUME NEW b, NEW m \in Nat, NEW n \in Nat, NEW f, NEW g, PowersTo(f, b, m), PowersTo(g, b, n),
         NEW j \in Nat, j <= m, j <= n
  PROVE  f[j] = g[j]
<1> DEFINE T == {i \in 0 .. j : f[i] # g[i]}
<1>1. SUFFICES ASSUME T # {} PROVE FALSE
  OBVIOUS
<1>2. PICK i \in T : \A y \in T : i <= y
  <2>1. T \in SUBSET Nat
    OBVIOUS
  <2> HIDE DEF T
  <2> QED
    BY <1>1, <2>1, Smallest
<1>3. CASE i = 0
  BY <1>2, <1>3 DEF PowersTo
<1>4. CASE i # 0
  <2>1. i - 1 \in 0 .. j /\ i - 1 \notin T
    BY <1>2, <1>4
  <2>2. f[i - 1] = g[i - 1]
    BY <2>1
  <2> QED
    BY <1>2, <1>4, <2>2 DEF PowersTo
<1> QED
  BY <1>3, <1>4

LEMMA PowersExist ==
  ASSUME NEW b, NEW n \in Nat
  PROVE  \E f : PowersTo(f, b, n)
<1> DEFINE T == {i \in Nat : ~ \E f : PowersTo(f, b, i)}
<1>1. SUFFICES ASSUME T # {} PROVE FALSE
  OBVIOUS
<1>2. PICK i \in T : \A y \in T : i <= y
  <2>1. T \in SUBSET Nat
    OBVIOUS
  <2> HIDE DEF T
  <2> QED
    BY <1>1, <2>1, Smallest
<1>3. CASE i = 0
  <2>1. PowersTo([j \in 0 .. i |-> 1], b, i)
    BY <1>3 DEF PowersTo
  <2> QED
    BY <1>2, <2>1
<1>4. CASE i # 0
  <2>1. i - 1 \in Nat /\ i - 1 \notin T
    BY <1>2, <1>4
  <2>2. PICK f : PowersTo(f, b, i - 1)
    BY <2>1
  <2> DEFINE g == [j \in 0 .. i |-> IF j = i THEN b * f[i - 1] ELSE f[j]]
  <2>3. ASSUME NEW j \in 0 .. i PROVE g[j] = IF j = 0 THEN 1 ELSE b * g[j - 1]
    <3>1. CASE j = i
      BY <1>4, <3>1
    <3>2. CASE j # i
      <4>1. j \in 0 .. i - 1 /\ g[j] = f[j]
        BY <3>2
      <4>2. f[j] = IF j = 0 THEN 1 ELSE b * f[j - 1]
        BY <2>2, <4>1 DEF PowersTo
      <4>3. j # 0 => g[j - 1] = f[j - 1]
        BY <4>1
      <4> QED
        BY <4>1, <4>2, <4>3
    <3> QED
      BY <3>1, <3>2
  <2>4. g = [j \in 0 .. i |-> g[j]]
    OBVIOUS
  <2> HIDE DEF g
  <2>5. PowersTo(g, b, i)
    BY <2>3, <2>4 DEF PowersTo
  <2> QED
    BY <1>2, <2>5
<1> QED
  BY <1>3, <1>4

\* The recursion has a solution.
LEMMA PowerIs ==
  ASSUME NEW b
  PROVE  Power(b) = [n \in Nat |-> IF n = 0 THEN 1 ELSE b * Power(b)[n - 1]]
<1> DEFINE upTo(n) == CHOOSE f : PowersTo(f, b, n)
           F == [n \in Nat |-> upTo(n)[n]]
<1>1. ASSUME NEW n \in Nat PROVE PowersTo(upTo(n), b, n)
  BY PowersExist
<1> HIDE DEF upTo
<1>2. ASSUME NEW n \in Nat PROVE F[n] = IF n = 0 THEN 1 ELSE b * F[n - 1]
  <2>1. CASE n = 0
    BY <1>1, <2>1 DEF PowersTo
  <2>2. CASE n # 0
    <3>1. n - 1 \in Nat /\ upTo(n)[n] = b * upTo(n)[n - 1]
      BY <1>1, <2>2 DEF PowersTo
    <3>2. upTo(n)[n - 1] = upTo(n - 1)[n - 1]
      BY <1>1, <3>1, PowersAgree
    <3> QED
      BY <2>2, <3>1, <3>2
  <2> QED
    BY <2>1, <2>2
<1>3. F = [n \in Nat |-> F[n]]
  OBVIOUS
<1> HIDE DEF F
<1>4. F = [n \in Nat |-> IF n = 0 THEN 1 ELSE b * F[n - 1]]
  BY <1>2, <1>3
<1> QED
  BY <1>4 DEF Power

LEMMA PowerType ==
  ASSUME NEW b \in Nat \ {0}, NEW n \in Nat
  PROVE  /\ Power(b)[n] \in Nat \ {0}
         /\ Power(b)[0] = 1
         /\ Power(b)[n + 1] = b * Power(b)[n]
<1> DEFINE P(i) == Power(b)[i]
           T == {i \in Nat : P(i) \notin Nat \ {0}}
<1>1. P(0) = 1 /\ \A i \in Nat : P(i + 1) = b * P(i)
  BY PowerIs
<1>2. ASSUME T # {} PROVE FALSE
  <2>1. PICK i \in T : \A y \in T : i <= y
    <3>1. T \in SUBSET Nat
      OBVIOUS
    <3> HIDE DEF T
    <3> QED
      BY <1>2, <3>1, Smallest
  <2>2. i # 0
    BY <1>1, <2>1
  <2>3. i - 1 \in Nat /\ i - 1 \notin T
    BY <2>1, <2>2
  <2>4. P(i - 1) \in Nat \ {0}
    BY <2>3
  <2>5. P(i) = b * P(i - 1)
    <3>1. P((i - 1) + 1) = b * P(i - 1)
      BY <1>1, <2>3
    <3> QED
      BY <3>1, <2>1
  <2> HIDE DEF P
  <2>6. P(i) \in Nat \ {0}
    BY <2>4, <2>5
  <2> QED
    BY <2>1, <2>6
<1> QED
  BY <1>1, <1>2

LEMMA PowerSum ==
  ASSUME NEW b \in Nat \ {0}, NEW m \in Nat, NEW n \in Nat
  PROVE  Power(b)[m + n] = Power(b)[m] * Power(b)[n]
<1> DEFINE P(i) == Power(b)[i]
           T == {i \in Nat : P(m + i) # P(m) * P(i)}
<1>1. P(0) = 1 /\ \A i \in Nat : P(i) \in Nat \ {0} /\ P(i + 1) = b * P(i)
  BY PowerType
<1>2. ASSUME T # {} PROVE FALSE
  <2>1. PICK i \in T : \A y \in T : i <= y
    <3>1. T \in SUBSET Nat
      OBVIOUS
    <3> HIDE DEF T
    <3> QED
      BY <1>2, <3>1, Smallest
  <2> HIDE DEF P
  <2>2. i # 0
    BY <1>1, <2>1
  <2>3. i - 1 \in Nat /\ i - 1 \notin T /\ m + (i - 1) \in Nat
    BY <2>1, <2>2
  <2>4. P(m + (i - 1)) = P(m) * P(i - 1)
    BY <2>3
  <2>5. P(i) = b * P(i - 1) /\ P(m + i) = b * P(m + (i - 1))
    <3>1. (i - 1) + 1 = i /\ (m + (i - 1)) + 1 = m + i
      BY <2>3
    <3>2. P((i - 1) + 1) = b * P(i - 1) /\ P((m + (i - 1)) + 1) = b * P(m + (i - 1))
      BY <1>1, <2>3
    <3> QED
      BY <3>1, <3>2
  <2>6. PICK x \in Nat, y \in Nat : x = P(m) /\ y = P(i - 1)
    BY <1>1, <2>3
  <2>7. b * (x * y) = x * (b * y)
    OBVIOUS
  <2>8. P(m + i) = P(m) * P(i)
    BY <2>4, <2>5, <2>6, <2>7
  <2> QED
    BY <2>1, <2>8
<1> QED
  BY <1>2

\* Powers grow.
LEMMA PowerGrows ==
  ASSUME NEW b \in Nat \ {0}, NEW m \in Nat, NEW n \in Nat, m <= n
  PROVE  Power(b)[m] <= Power(b)[n]
<1>1. n - m \in Nat /\ m + (n - m) = n
  OBVIOUS
<1>2. Power(b)[n] = Power(b)[m] * Power(b)[n - m]
  BY <1>1, PowerSum
<1>3. Power(b)[m] \in Nat \ {0} /\ Power(b)[n - m] \in Nat \ {0}
  BY <1>1, PowerType
<1>4. \A x \in Nat \ {0}, y \in Nat \ {0} : x <= x * y
  OBVIOUS
<1> QED
  BY <1>2, <1>3, <1>4

-----------------------------------------------------------------------------
(***************************************************************************)
(* The clock.                                                              *)
(***************************************************************************)
LEMMA Units ==
  /\ Precision \in Nat \ {0} /\ Resolution \in Nat \ {0} /\ Word \in Nat \ {0}
  /\ NsPerSec = Precision * Resolution /\ NsPerSec \in Nat \ {0}
<1>1. Precision \in Nat \ {0} /\ Word \in Nat \ {0} /\ NsPerSec \in Nat \ {0}
  BY ReportAssumption, PowerType DEF Precision, Word, NsPerSec
<1>2. /\ NsDigits - precision \in Nat /\ precision \in Nat
      /\ precision + (NsDigits - precision) = NsDigits
  BY ReportAssumption
<1>3. PICK q \in Nat \ {0} : q = Power(Radix)[NsDigits - precision]
  BY <1>2, ReportAssumption, PowerType
<1>4. NsPerSec = Precision * q
  BY <1>2, <1>3, ReportAssumption, PowerSum DEF NsPerSec, Precision
<1>5. \A x \in Nat \ {0}, y \in Nat \ {0} : (x * y) \div x = y
  OBVIOUS
<1>6. Resolution = q
  BY <1>1, <1>3, <1>4, <1>5 DEF Resolution
<1> QED
  BY <1>1, <1>3, <1>4, <1>6

LEMMA DivMod ==
  ASSUME NEW w \in Nat \ {0}, NEW x \in Int
  PROVE  /\ x = w * (x \div w) + (x % w)
         /\ x \div w \in Int /\ x % w \in Int /\ 0 <= x % w /\ x % w < w
  OBVIOUS

LEMMA DivUnique ==
  ASSUME NEW w \in Nat \ {0}, NEW q \in Int, NEW r \in Int, 0 <= r, r < w
  PROVE  (w * q + r) \div w = q /\ (w * q + r) % w = r
  OBVIOUS

\* What remains of a multiple.
LEMMA ModShift ==
  ASSUME NEW w \in Nat \ {0}, NEW x \in Int, NEW i \in Int
  PROVE  (x + w * i) % w = x % w
<1> DEFINE q == x \div w
           r == x % w
<1>1. x = w * q + r /\ q \in Int /\ r \in Int /\ 0 <= r /\ r < w
  BY DivMod
<1>2. q + i \in Int
  BY <1>1
<1> HIDE DEF q, r
<1>3. x + w * i = w * (q + i) + r
  BY <1>1
<1>4. (w * (q + i) + r) % w = r
  BY <1>1, <1>2, DivUnique
<1> QED
  BY <1>3, <1>4 DEF r

LEMMA ModDifference ==
  ASSUME NEW w \in Nat \ {0}, NEW x \in Int, NEW y \in Int
  PROVE  ((x % w) - (y % w)) % w = (x - y) % w
<1> DEFINE q == x \div w
           r == x % w
           p == y \div w
           s == y % w
<1>1. x = w * q + r /\ q \in Int /\ r \in Int
  BY DivMod
<1>2. y = w * p + s /\ p \in Int /\ s \in Int
  BY DivMod
<1>3. r - s \in Int /\ q - p \in Int
  BY <1>1, <1>2
<1> HIDE DEF q, r, p, s
<1>4. x - y = (r - s) + w * (q - p)
  <2>1. (w * q + r) - (w * p + s) = (r - s) + w * (q - p)
    BY <1>1, <1>2
  <2> QED
    BY <1>1, <1>2, <2>1
<1>5. ((r - s) + w * (q - p)) % w = (r - s) % w
  BY <1>3, ModShift
<1> QED
  BY <1>4, <1>5 DEF r, s

\* A stamp is the number of whole units the clock shows, in a word.
LEMMA StampIs ==
  ASSUME NEW ns \in Int
  PROVE  \E u \in Int, r \in 0 .. Resolution - 1 :
           ns = Resolution * u + r /\ hptl_getTime(ns) = u % Word
<1> DEFINE s == ns \div NsPerSec
           m == ns % NsPerSec
           d == m \div Resolution
           r == m % Resolution
<1>1. ns = NsPerSec * s + m /\ s \in Int /\ m \in Int
  BY Units, DivMod
<1>2. m = Resolution * d + r /\ d \in Int /\ r \in Int /\ 0 <= r /\ r < Resolution
  <2> HIDE DEF m
  <2> QED
    BY <1>1, Units, DivMod
<1>3. PICK p \in Nat, R \in Nat : p = Precision /\ R = Resolution /\ NsPerSec = p * R
  BY Units
<1>0. hptl_getTime(ns) = (d + s * p) % Word
  BY <1>3 DEF hptl_getTime, Timespec
<1> HIDE DEF s, m, d, r
<1>4. ns = R * (d + s * p) + r
  <2>1. ns = (p * R) * s + (R * d + r)
    BY <1>1, <1>2, <1>3
  <2>2. (p * R) * s = R * (s * p) /\ R * (d + s * p) = R * d + R * (s * p)
    BY <1>1, <1>2, <1>3
  <2>3. PICK e \in Int, g \in Int : e = R * d /\ g = R * (s * p)
    BY <1>1, <1>2, <1>3
  <2>4. g + (e + r) = (e + g) + r
    BY <1>2
  <2> QED
    BY <2>1, <2>2, <2>3, <2>4
<1>5. r \in 0 .. Resolution - 1 /\ d + s * p \in Int
  BY <1>1, <1>2, <1>3, Units
<1> QED
  BY <1>0, <1>3, <1>4, <1>5

-----------------------------------------------------------------------------
(***************************************************************************)
(* What is measured: the stamps are those of the clock when they were      *)
(* taken, and rows are in the order in which the packets arrived.          *)
(***************************************************************************)
Flight == [sentTime : Nat, at : Nat, offset : Int]
Row    == [sentTime : Nat, recvTime : Nat, sentAt : Nat, recvAt : Nat, offset : Int, jump : Int]

FlightOK(f) == f.at <= time /\ f.sentTime = hptl_getTime(Epoch + f.at + f.offset)

RowOK(r) ==
  /\ r.sentAt <= r.recvAt /\ r.recvAt <= time
  /\ r.sentTime = hptl_getTime(Epoch + r.sentAt + (r.offset - r.jump))
  /\ r.recvTime = hptl_getTime(Epoch + r.recvAt + r.offset)

ClockInv == time \in 0 .. MaxTime /\ offset \in Int /\ sets \in 0 .. MaxSets

FlyingInv ==
  /\ flying \in Seq(Flight)
  /\ \A i \in 1 .. Len(flying) : FlightOK(flying[i])

TableInv ==
  /\ counter \in Nat
  /\ DOMAIN latencyStats \subseteq Nat /\ IsFiniteSet(DOMAIN latencyStats)
  /\ latencyStats \in [DOMAIN latencyStats -> Row]
  /\ \A i \in DOMAIN latencyStats : i < counter /\ RowOK(latencyStats[i])
  /\ \A i, j \in DOMAIN latencyStats : i < j => latencyStats[i].recvAt <= latencyStats[j].recvAt

MeasureInv == ClockInv /\ FlyingInv /\ TableInv

LEMMA Numbers ==
  /\ Epoch \in Nat \ {0} /\ trainLen \in Nat \ {0} /\ BurstRx \in Nat \ {0}
  /\ WordBits \in Nat \ {0} /\ Mantissa \in Nat \ {0}
  /\ MaxTime \in Nat /\ MaxSets \in Nat /\ Jumps \subseteq Int
  BY ReportAssumption

LEMMA StampType ==
  ASSUME NEW ns \in Int
  PROVE  hptl_getTime(ns) \in Nat /\ hptl_getTime(ns) < Word
<1>1. PICK u \in Int : hptl_getTime(ns) = u % Word
  BY StampIs
<1> QED
  BY <1>1, Units, DivMod

LEMMA MeasureInit == Init => MeasureInv
<1> SUFFICES ASSUME Init PROVE MeasureInv
  OBVIOUS
<1>1. ClockInv
  BY Numbers DEF Init, ClockInv
<1>2. FlyingInv
  <2>1. flying = <<>> /\ Len(<<>>) = 0 /\ <<>> \in Seq(Flight)
    BY EmptySeq DEF Init
  <2> QED
    BY <2>1 DEF FlyingInv
<1>3. TableInv
  <2>1. DOMAIN latencyStats = {} /\ counter = 0 /\ latencyStats = [i \in {} |-> 0]
    BY DEF Init
  <2>2. IsFiniteSet({})
    BY FS_EmptySet
  <2> QED
    BY <2>1, <2>2 DEF TableInv
<1> QED
  BY <1>1, <1>2, <1>3 DEF MeasureInv

\* Time passes, or nothing happens to packets and rows.
LEMMA MeasureLater ==
  ASSUME MeasureInv, ClockInv', time <= time', UNCHANGED <<flying, counter, latencyStats>>
  PROVE  MeasureInv'
<1>0. time \in Nat /\ time' \in Nat
  BY DEF MeasureInv, ClockInv
<1>1. FlyingInv'
  <2>1. flying \in Seq(Flight) /\ \A i \in 1 .. Len(flying) : FlightOK(flying[i])
    BY DEF MeasureInv, FlyingInv
  <2>2. ASSUME NEW i \in 1 .. Len(flying) PROVE FlightOK(flying[i])'
    <3>1. flying[i] \in Flight
      BY <2>1, ElementOfSeq
    <3>2. flying[i].at \in Nat
      BY <3>1 DEF Flight
    <3> QED
      BY <1>0, <2>1, <3>2 DEF FlightOK
  <2> QED
    BY <2>1, <2>2 DEF FlyingInv
<1>2. TableInv'
  <2>1. ASSUME NEW i \in DOMAIN latencyStats PROVE RowOK(latencyStats[i])'
    <3>1. RowOK(latencyStats[i]) /\ latencyStats[i].recvAt \in Nat
      BY DEF MeasureInv, TableInv, Row
    <3> QED
      BY <1>0, <3>1 DEF RowOK
  <2> QED
    BY <2>1 DEF MeasureInv, TableInv
<1> QED
  BY <1>1, <1>2 DEF MeasureInv

LEMMA MeasureSend ==
  ASSUME MeasureInv, Send
  PROVE  MeasureInv'
<1> DEFINE f == [sentTime |-> hptl_get, at |-> time, offset |-> offset]
<1>0. /\ flying' = Append(flying, f)
      /\ UNCHANGED <<time, offset, sets, counter, latencyStats>>
  BY DEF Send
<1>1. time \in Nat /\ offset \in Int /\ Epoch + time + offset \in Int
  BY Numbers DEF MeasureInv, ClockInv
<1>2. hptl_get = hptl_getTime(Epoch + time + offset) /\ hptl_get \in Nat
  BY <1>1, StampType DEF hptl_get
<1>3. f \in Flight /\ FlightOK(f)
  BY <1>1, <1>2 DEF Flight, FlightOK
<1> HIDE DEF f
<1>4. flying \in Seq(Flight) /\ \A i \in 1 .. Len(flying) : FlightOK(flying[i])
  BY DEF MeasureInv, FlyingInv
<1>5. /\ Append(flying, f) \in Seq(Flight) /\ Len(Append(flying, f)) = Len(flying) + 1
      /\ \A i \in 1 .. Len(flying) : Append(flying, f)[i] = flying[i]
      /\ Append(flying, f)[Len(flying) + 1] = f
      /\ Len(flying) \in Nat
  BY <1>3, <1>4, AppendProperties, LenProperties
<1>6. ASSUME NEW i \in 1 .. Len(flying) + 1 PROVE FlightOK(Append(flying, f)[i])
  <2>1. CASE i \in 1 .. Len(flying)
    BY <1>4, <1>5, <2>1
  <2>2. CASE i = Len(flying) + 1
    BY <1>3, <1>5, <2>2
  <2> QED
    BY <1>5, <2>1, <2>2
<1>7. FlyingInv'
  <2>1. \A i \in 1 .. Len(flying') : FlightOK(flying'[i])
    BY <1>0, <1>5, <1>6
  <2>2. \A i \in 1 .. Len(flying') : FlightOK(flying[i])'
    BY <1>0, <2>1 DEF FlightOK
  <2> QED
    BY <1>0, <1>5, <2>2 DEF FlyingInv
<1>8. ClockInv' /\ TableInv'
  <2>1. ClockInv /\ TableInv
    BY DEF MeasureInv
  <2>2. ClockInv'
    BY <1>0, <2>1 DEF ClockInv
  <2>3. TableInv'
    BY <1>0, <2>1 DEF TableInv, RowOK
  <2> QED
    BY <2>2, <2>3
<1> QED
  BY <1>7, <1>8 DEF MeasureInv

\* The first n packets on their way have left it.
Dropped(n) ==
  /\ n \in Nat /\ n <= Len(flying)
  /\ flying' \in Seq(Flight) /\ Len(flying') = Len(flying) - n
  /\ \A i \in 1 .. Len(flying) - n : flying'[i] = flying[n + i]

LEMMA PollDrops ==
  ASSUME MeasureInv, NEW n \in 1 .. Min({BurstRx, Len(flying)}), Poll(n)
  PROVE  /\ UNCHANGED <<time, offset, sets, latencyStats>>
         /\ counter' \in Nat /\ counter <= counter'
         /\ Dropped(n - 1)
<1>1. flying \in Seq(Flight) /\ counter \in Nat /\ Len(flying) \in Nat
  BY LenProperties DEF MeasureInv, FlyingInv, TableInv
<1>2. n \in Nat /\ n >= 1 /\ n <= Len(flying)
  <2>1. /\ Min({BurstRx, Len(flying)}) \in {BurstRx, Len(flying)}
        /\ Min({BurstRx, Len(flying)}) <= Len(flying)
    <3>1. PICK a \in Nat, b \in Nat : a = BurstRx /\ b = Len(flying)
      BY <1>1, Numbers
    <3>2. \E x \in {a, b} : \A y \in {a, b} : x <= y
      BY <3>1
    <3>3. Min({a, b}) \in {a, b} /\ \A y \in {a, b} : Min({a, b}) <= y
      BY <3>2 DEF Min
    <3> QED
      BY <3>1, <3>3
  <2> QED
    BY <1>1, <2>1, Numbers
<1>3. /\ UNCHANGED <<time, offset, sets, latencyStats>>
      /\ counter' = counter + n - 1 /\ flying' = SubSeq(flying, n, Len(flying))
  BY DEF Poll
<1>4. /\ flying' \in Seq(Flight)
      /\ Len(flying') = Len(flying) - n + 1
      /\ \A i \in 1 .. Len(flying) - n + 1 : flying'[i] = flying[n + i - 1]
  <2>1. n \in 1 .. Len(flying) + 1 /\ Len(flying) \in n - 1 .. Len(flying)
    BY <1>1, <1>2
  <2> QED
    BY <1>1, <1>3, <2>1, SubSeqProperties
<1>5. PICK m \in Nat : m = n - 1
  BY <1>2
<1>6. /\ m <= Len(flying) /\ Len(flying) - n + 1 = Len(flying) - m
      /\ counter + n - 1 = counter + m
  BY <1>1, <1>2, <1>5
<1>7. \A i \in 1 .. Len(flying) - m : n + i - 1 = m + i
  BY <1>2, <1>5
<1>8. Dropped(m)
  BY <1>4, <1>6, <1>7 DEF Dropped
<1> QED
  BY <1>1, <1>3, <1>5, <1>6, <1>8

LEMMA ReceiveDrops ==
  ASSUME MeasureInv, Receive
  PROVE  UNCHANGED <<time, offset, sets>> /\ Dropped(1)
<1>1. flying \in Seq(Flight) /\ flying # <<>> /\ flying' = Tail(flying)
  BY DEF MeasureInv, FlyingInv, Receive
<1>2. /\ Tail(flying) \in Seq(Flight) /\ Len(flying) \in Nat /\ Len(flying) >= 1
      /\ Len(Tail(flying)) = Len(flying) - 1
      /\ \A i \in 1 .. Len(Tail(flying)) : Tail(flying)[i] = flying[i + 1]
  BY <1>1, HeadTailProperties, LenProperties, EmptySeq
<1>3. \A i \in 1 .. Len(flying) - 1 : flying'[i] = flying[1 + i]
  BY <1>1, <1>2
<1> QED
  BY <1>1, <1>2, <1>3 DEF Dropped, Receive

\* The row of the first packet on its way.
LEMMA NewRow ==
  ASSUME MeasureInv, Receive
  PROVE  \E slot \in Nat, row \in Row :
           /\ slot >= counter /\ counter' = slot + 1
           /\ 1 \in 1 .. Len(flying)
           /\ flying[1] \in Flight
           /\ row.jump = offset - flying[1].offset
           /\ row.recvAt = time /\ row.offset = offset /\ RowOK(row)
           /\ latencyStats' = [i \in DOMAIN latencyStats \cup {slot} |->
                                 IF i = slot THEN row ELSE latencyStats[i]]
<1> DEFINE slot == counter
           f    == Head(flying)
           row  == [sentTime |-> f.sentTime, recvTime |-> hptl_get, sentAt |-> f.at,
                    recvAt |-> time, offset |-> offset, jump |-> offset - f.offset]
<1>1. flying \in Seq(Flight) /\ counter \in Nat /\ time \in Nat /\ offset \in Int
  BY DEF MeasureInv, FlyingInv, TableInv, ClockInv
<1>2. 1 \in 1 .. Len(flying) /\ f = flying[1]
  <2>1. flying # <<>>
    BY DEF Receive
  <2> QED
    BY <1>1, <2>1, LenProperties, EmptySeq
<1>3. f \in Flight /\ FlightOK(f)
  BY <1>1, <1>2, ElementOfSeq DEF MeasureInv, FlyingInv
<1>4. slot \in Nat /\ slot >= counter /\ counter' = slot + 1
  BY <1>1 DEF Receive
<1>5. latencyStats' = [i \in DOMAIN latencyStats \cup {slot} |->
                         IF i = slot THEN row ELSE latencyStats[i]]
  BY DEF Receive
<1>6. hptl_get = hptl_getTime(Epoch + time + offset) /\ hptl_get \in Nat
  <2>1. Epoch + time + offset \in Int
    BY <1>1, Numbers
  <2> QED
    BY <2>1, StampType DEF hptl_get
<1>7. f.sentTime \in Nat /\ f.at \in Nat /\ f.offset \in Int
  BY <1>3 DEF Flight
<1> HIDE DEF f, slot
<1>8. row \in Row
  BY <1>1, <1>6, <1>7 DEF Row
<1>9. RowOK(row)
  <2>1. offset - (offset - f.offset) = f.offset
    BY <1>1, <1>7
  <2>2. row.sentAt = f.at /\ row.sentTime = f.sentTime /\ row.recvAt = time
        /\ row.recvTime = hptl_getTime(Epoch + time + offset) /\ row.offset = offset
        /\ row.offset - row.jump = f.offset
    BY <1>6, <2>1
  <2> HIDE DEF row
  <2> QED
    BY <1>1, <1>3, <2>2 DEF RowOK, FlightOK
<1>10. row.jump = offset - flying[1].offset /\ row.recvAt = time /\ row.offset = offset
  BY <1>2
<1> HIDE DEF row
<1> QED
  BY <1>2, <1>3, <1>4, <1>5, <1>8, <1>9, <1>10

\* What is still on its way was sent as before.
LEMMA DroppedFlights ==
  ASSUME FlyingInv, NEW n, Dropped(n), UNCHANGED <<time, offset, sets>>
  PROVE  FlyingInv'
<1>1. /\ flying \in Seq(Flight) /\ Len(flying) \in Nat
      /\ \A i \in 1 .. Len(flying) : FlightOK(flying[i])
  BY LenProperties DEF FlyingInv
<1>2. ASSUME NEW i \in 1 .. Len(flying') PROVE FlightOK(flying[i])'
  <2>1. n + i \in 1 .. Len(flying) /\ flying'[i] = flying[n + i]
    BY <1>1 DEF Dropped
  <2> QED
    BY <1>1, <2>1 DEF FlightOK
<1> QED
  BY <1>2 DEF FlyingInv, Dropped

LEMMA MeasurePoll ==
  ASSUME MeasureInv, NEW n \in 1 .. Min({BurstRx, Len(flying)}), Poll(n)
  PROVE  MeasureInv'
<1>1. /\ UNCHANGED <<time, offset, sets, latencyStats>>
      /\ counter' \in Nat /\ counter <= counter'
      /\ Dropped(n - 1)
  BY PollDrops
<1>2. ClockInv' /\ FlyingInv'
  BY <1>1, DroppedFlights DEF MeasureInv, ClockInv
<1>3. TableInv'
  <2>1. TableInv /\ counter \in Nat
    BY DEF MeasureInv, TableInv
  <2>2. \A i \in DOMAIN latencyStats : i \in Nat /\ i < counter'
    BY <1>1, <2>1 DEF TableInv
  <2> QED
    BY <1>1, <2>1, <2>2 DEF TableInv, RowOK
<1> QED
  BY <1>2, <1>3 DEF MeasureInv

LEMMA MeasureReceive ==
  ASSUME MeasureInv, Receive
  PROVE  MeasureInv'
<1>1. PICK slot \in Nat, row \in Row :
        /\ slot >= counter /\ counter' = slot + 1
        /\ row.recvAt = time /\ RowOK(row)
        /\ latencyStats' = [i \in DOMAIN latencyStats \cup {slot} |->
                              IF i = slot THEN row ELSE latencyStats[i]]
  BY NewRow
<1>2. UNCHANGED <<time, offset, sets>> /\ Dropped(1)
  BY ReceiveDrops
<1>3. ClockInv'
  BY <1>2 DEF MeasureInv, ClockInv
<1>4. FlyingInv'
  BY <1>2, DroppedFlights DEF MeasureInv
<1>5. TableInv'
  <2>0. TableInv /\ time \in Nat
    BY DEF MeasureInv, ClockInv
  <2>1. DOMAIN latencyStats' = DOMAIN latencyStats \cup {slot} /\ counter' \in Nat
    BY <1>1
  <2>2. IsFiniteSet(DOMAIN latencyStats')
    BY <2>0, <2>1, FS_AddElement DEF TableInv
  <2>3. \A i \in DOMAIN latencyStats : i \in Nat /\ i < slot
    BY <1>1, <2>0 DEF TableInv
  <2>4. /\ latencyStats'[slot] = row
        /\ \A i \in DOMAIN latencyStats : latencyStats'[i] = latencyStats[i]
    BY <1>1, <2>3
  <2>5. latencyStats' \in [DOMAIN latencyStats' -> Row]
    BY <1>1, <2>0, <2>1 DEF TableInv
  <2>6. ASSUME NEW i \in DOMAIN latencyStats' PROVE i < counter' /\ RowOK(latencyStats[i])'
    <3>1. RowOK(latencyStats'[i])
      BY <1>1, <2>0, <2>1, <2>4 DEF TableInv
    <3>2. RowOK(latencyStats[i])'
      BY <1>2, <3>1 DEF RowOK
    <3>3. i < counter'
      BY <1>1, <2>1, <2>3
    <3> QED
      BY <3>2, <3>3
  <2>7. ASSUME NEW i \in DOMAIN latencyStats', NEW j \in DOMAIN latencyStats', i < j
        PROVE  latencyStats'[i].recvAt <= latencyStats'[j].recvAt
    <3>1. i \in DOMAIN latencyStats
      BY <2>1, <2>3, <2>7
    <3>2. CASE j = slot
      <4>1. latencyStats[i].recvAt <= time
        BY <2>0, <3>1 DEF TableInv, RowOK
      <4> QED
        BY <1>1, <2>4, <3>1, <3>2, <4>1
    <3>3. CASE j \in DOMAIN latencyStats
      BY <2>0, <2>4, <2>7, <3>1, <3>3 DEF TableInv
    <3> QED
      BY <2>1, <3>2, <3>3
  <2>8. DOMAIN latencyStats' \subseteq Nat
    BY <2>0, <2>1 DEF TableInv
  <2> QED
    BY <2>1, <2>2, <2>5, <2>6, <2>7, <2>8 DEF TableInv
<1> QED
  BY <1>3, <1>4, <1>5 DEF MeasureInv

LEMMA MeasureStep == MeasureInv /\ [Next]_vars => MeasureInv'
<1> SUFFICES ASSUME MeasureInv, [Next]_vars PROVE MeasureInv'
  OBVIOUS
<1>0. time \in 0 .. MaxTime /\ offset \in Int /\ sets \in 0 .. MaxSets /\ ClockInv
  BY DEF MeasureInv, ClockInv
<1>1. CASE Tick
  <2>1. /\ time' = time + 1 /\ time < MaxTime
        /\ UNCHANGED <<offset, sets, flying, counter, latencyStats>>
    BY <1>1 DEF Tick
  <2>2. ClockInv' /\ time <= time'
    BY <1>0, <2>1, Numbers DEF ClockInv
  <2> QED
    BY <2>1, <2>2, MeasureLater
<1>2. CASE SetClock
  <2>1. /\ UNCHANGED <<time, flying, counter, latencyStats>>
        /\ sets < MaxSets /\ sets' = sets + 1
    BY <1>2 DEF SetClock
  <2>2. PICK d \in Jumps : offset' = offset + d
    BY <1>2 DEF SetClock
  <2>3. ClockInv' /\ time <= time'
    BY <1>0, <2>1, <2>2, Numbers DEF ClockInv
  <2> QED
    BY <2>1, <2>3, MeasureLater
<1>3. CASE GiveUp \/ Report \/ PrintRow \/ PrintIgnored \/ PrintMeans \/ Done \/ UNCHANGED vars
  <2>1. UNCHANGED <<time, offset, sets, flying, counter, latencyStats>>
    BY <1>3 DEF GiveUp, Report, PrintRow, PrintIgnored, PrintMeans, Done, vars, measureVars
  <2>2. ClockInv' /\ time <= time'
    BY <1>0, <2>1 DEF ClockInv
  <2> QED
    BY <2>1, <2>2, MeasureLater
<1> QED
  BY <1>1, <1>2, <1>3, MeasureSend, MeasurePoll, MeasureReceive DEF Next

LEMMA MeasureAlways == Spec => []MeasureInv
  BY MeasureInit, MeasureStep, PTL DEF Spec

-----------------------------------------------------------------------------
(***************************************************************************)
(* Conversion to double.                                                   *)
(***************************************************************************)
Ulps(u) == {Power(2)[e] : e \in {f \in 0 .. WordBits : u < Power(2)[Mantissa + f]}}

LEMMA UlpIs ==
  ASSUME NEW u \in Nat, u < Word
  PROVE  /\ Ulp(u) \in Ulps(u) /\ Ulp(u) \in Nat \ {0}
         /\ \A x \in Ulps(u) : Ulp(u) <= x
<1>1. \A i \in Nat : Power(2)[i] \in Nat \ {0}
  BY PowerType
<1>2. Ulps(u) \in SUBSET (Nat \ {0})
  BY <1>1, Numbers DEF Ulps
<1>3. Ulps(u) # {}
  <2>1. Power(2)[WordBits] <= Power(2)[Mantissa + WordBits]
    BY Numbers, PowerGrows
  <2>2. Power(2)[WordBits] \in Nat /\ Power(2)[Mantissa + WordBits] \in Nat
    BY <1>1, Numbers
  <2>3. WordBits \in 0 .. WordBits /\ u < Power(2)[Mantissa + WordBits]
    BY <2>1, <2>2, Numbers DEF Word
  <2> QED
    BY <2>3 DEF Ulps
<1>4. Ulp(u) = Min(Ulps(u))
  BY DEF Ulp, Ulps
<1>5. \E x \in Ulps(u) : \A y \in Ulps(u) : x <= y
  <2>1. PICK T : T = Ulps(u)
    OBVIOUS
  <2>2. T \in SUBSET Nat /\ T # {}
    BY <1>2, <1>3, <2>1
  <2>3. \E x \in T : \A y \in T : x <= y
    BY <2>2, Smallest
  <2> QED
    BY <2>1, <2>3
<1>6. Min(Ulps(u)) \in Ulps(u) /\ \A y \in Ulps(u) : Min(Ulps(u)) <= y
  BY <1>5 DEF Min
<1> QED
  BY <1>2, <1>4, <1>6

\* Larger numbers have no more bits behind the mantissa.
LEMMA UlpGrows ==
  ASSUME NEW u \in Nat, NEW v \in Nat, u <= v, v < Word
  PROVE  Ulp(u) <= Ulp(v)
<1>0. u < Word
  BY Units
<1>1. Ulps(v) \subseteq Ulps(u)
  <2>1. \A f \in 0 .. WordBits : v < Power(2)[Mantissa + f] => u < Power(2)[Mantissa + f]
    <3>1. \A f \in 0 .. WordBits : Power(2)[Mantissa + f] \in Nat
      BY PowerType, Numbers
    <3> QED
      BY <3>1
  <2> QED
    BY <2>1 DEF Ulps
<1> QED
  BY <1>0, <1>1, UlpIs

\* A double is at most half of its last bit off.
LEMMA DoubleNear ==
  ASSUME NEW u \in Nat, u < Word
  PROVE  /\ Double(u) \in Nat
         /\ 2 * (Double(u) - u) <= Ulp(u) /\ 2 * (u - Double(u)) <= Ulp(u)
<1>1. PICK w \in Nat \ {0} : w = Ulp(u)
  BY UlpIs
<1> DEFINE q == u \div w
           r == u % w
           up == IF 2 * r > w \/ (2 * r = w /\ q % 2 = 1) THEN w ELSE 0
<1>2. u = w * q + r /\ q \in Nat /\ r \in Int /\ 0 <= r /\ r < w
  <2>1. q \in Nat
    OBVIOUS
  <2> QED
    BY <2>1, DivMod
<1>3. Double(u) = q * w + up
  BY <1>1 DEF Double
<1>4. (up = w /\ 2 * r >= w) \/ (up = 0 /\ 2 * r <= w)
  BY <1>2
<1> HIDE DEF q, r, up
<1>5. PICK p \in Nat : p = q * w /\ p = w * q
  BY <1>2
<1>6. u = p + r /\ Double(u) = p + up
  BY <1>2, <1>3, <1>5
<1>7. CASE up = w /\ 2 * r >= w
  <2>1. Double(u) = p + w /\ p + w \in Nat
    BY <1>5, <1>6, <1>7
  <2>2. (p + w) - (p + r) = w - r /\ (p + r) - (p + w) = r - w
    BY <1>2
  <2>3. 2 * (w - r) <= w /\ 2 * (r - w) <= w
    BY <1>2, <1>7
  <2> QED
    BY <1>1, <1>6, <2>1, <2>2, <2>3
<1>8. CASE up = 0 /\ 2 * r <= w
  <2>1. Double(u) - u = -r /\ u - Double(u) = r
    BY <1>2, <1>6, <1>8
  <2> QED
    BY <1>1, <1>2, <1>6, <1>8, <2>1
<1> QED
  BY <1>4, <1>7, <1>8

-----------------------------------------------------------------------------
(***************************************************************************)
(* What is printed: a line for each slot behind the loop, which says        *)
(* whether it has been filled and with what latency.                       *)
(***************************************************************************)
Lines == [kind : {"row"}, latency : Nat, interval : Int] \cup [kind : {"ignored"}]

LineOK(i, line) ==
  /\ line.kind = "row" <=> i \in DOMAIN latencyStats
  /\ line.kind = "row" => line.latency = Latency(latencyStats[i])

LoopTypes ==
  /\ k \in 0 .. trainLen
  /\ phase \in {"measure", "record", "report", "done"}
  /\ ignored \in Nat /\ sumLatency \in Nat
  /\ firstTime \in Nat /\ firstTime < Word
  /\ lastTime \in Nat /\ lastTime < Word
  /\ printed \in Seq(Lines) /\ Len(printed) = k

PrintedInv ==
  /\ LoopTypes
  /\ phase \in {"measure", "record"} =>
       k = 0 /\ ignored = 0 /\ sumLatency = 0 /\ firstTime = 0 /\ lastTime = 0
  /\ \A i \in 0 .. k - 1 : LineOK(i, Line(i))

LEMMA LatencyType ==
  ASSUME NEW row \in Row
  PROVE  Latency(row) \in Nat /\ Latency(row) < Word
<1>1. row.recvTime - row.sentTime \in Int
  BY DEF Row
<1> QED
  BY <1>1, Units, DivMod DEF Latency

LEMMA RowTimes ==
  ASSUME MeasureInv, NEW i \in DOMAIN latencyStats
  PROVE  /\ latencyStats[i] \in Row /\ RowOK(latencyStats[i])
         /\ latencyStats[i].recvTime \in Nat /\ latencyStats[i].recvTime < Word
<1>1. latencyStats[i] \in Row /\ RowOK(latencyStats[i])
  BY DEF MeasureInv, TableInv
<1>2. Epoch + latencyStats[i].recvAt + latencyStats[i].offset \in Int
  BY <1>1, Numbers DEF Row
<1> QED
  BY <1>1, <1>2, StampType DEF RowOK

LEMMA PrintedInit == Init => PrintedInv
<1> SUFFICES ASSUME Init PROVE PrintedInv
  OBVIOUS
<1>1. /\ k = 0 /\ ignored = 0 /\ sumLatency = 0 /\ firstTime = 0 /\ lastTime = 0
      /\ printed = <<>> /\ phase = "measure"
  BY DEF Init
<1>2. <<>> \in Seq(Lines) /\ Len(<<>>) = 0
  BY EmptySeq
<1> QED
  BY <1>1, <1>2, Units, Numbers DEF PrintedInv, LoopTypes

\* The loop prints one more line.
Prints(line) ==
  /\ phase = "report" /\ phase' = "report" /\ k < trainLen /\ k' = k + 1
  /\ UNCHANGED measureVars
  /\ line \in Lines /\ printed' = Append(printed, line)

LEMMA PrintsOne ==
  ASSUME PrintedInv, NEW line, Prints(line)
  PROVE  /\ k \in Nat /\ k' \in 0 .. trainLen
         /\ printed' \in Seq(Lines) /\ Len(printed') = k'
         /\ printed'[k + 1] = line
         /\ \A i \in 0 .. k - 1 : printed'[i + 1] = printed[i + 1]
<1>1. /\ printed \in Seq(Lines) /\ Len(printed) = k /\ k \in 0 .. trainLen
      /\ line \in Lines /\ printed' = Append(printed, line) /\ k < trainLen /\ k' = k + 1
  BY DEF PrintedInv, LoopTypes, Prints
<1>2. /\ Append(printed, line) \in Seq(Lines)
      /\ Len(Append(printed, line)) = Len(printed) + 1
      /\ \A i \in 1 .. Len(printed) : Append(printed, line)[i] = printed[i]
      /\ Append(printed, line)[Len(printed) + 1] = line
  BY <1>1, AppendProperties
<1>3. \A i \in 0 .. k - 1 : i + 1 \in 1 .. Len(printed)
  BY <1>1
<1>4. printed'[k + 1] = line /\ \A i \in 0 .. k - 1 : printed'[i + 1] = printed[i + 1]
  BY <1>1, <1>2, <1>3
<1>5. (k \in Nat) /\ (k' \in 0 .. trainLen)
  BY <1>1, Numbers
<1> QED
  BY <1>1, <1>2, <1>4, <1>5

\* The two kinds of lines.
RowLine(row) == [kind |-> "row", latency |-> Latency(row), interval |-> Interval(row)]

LEMMA RowLineType ==
  ASSUME PrintedInv, NEW row \in Row, row.recvTime < Word
  PROVE  RowLine(row) \in Lines /\ Interval(row) \in Int
<1>1. row.recvTime \in Nat /\ lastTime \in Nat /\ lastTime < Word
  BY DEF Row, PrintedInv, LoopTypes
<1>2. Double(row.recvTime) \in Nat /\ Double(lastTime) \in Nat
  BY <1>1, DoubleNear
<1>3. Double(row.recvTime) - Double(lastTime) \in Int
  BY <1>2
<1>4. Interval(row) \in Int
  BY <1>3 DEF Interval
<1> QED
  BY <1>4, LatencyType DEF RowLine, Lines

LEMMA PrintRowPrints ==
  ASSUME MeasureInv, PrintedInv, PrintRow
  PROVE  /\ Prints(RowLine(latencyStats[k])) /\ k \in DOMAIN latencyStats
         /\ latencyStats[k] \in Row /\ RowOK(latencyStats[k]) /\ latencyStats[k].recvTime < Word
         /\ sumLatency' = Sum(latencyStats[k])
         /\ firstTime' = First(latencyStats[k]) /\ lastTime' = latencyStats[k].recvTime
         /\ UNCHANGED <<ignored, means>>
<1>1. k \in DOMAIN latencyStats
  BY DEF PrintRow
<1>2. latencyStats[k] \in Row /\ RowOK(latencyStats[k]) /\ latencyStats[k].recvTime < Word
  BY <1>1, RowTimes
<1>3. RowLine(latencyStats[k]) \in Lines
  BY <1>2, RowLineType
<1> QED
  BY <1>1, <1>2, <1>3 DEF PrintRow, Prints, RowLine

LEMMA PrintIgnoredPrints ==
  ASSUME PrintIgnored
  PROVE  /\ Prints([kind |-> "ignored"]) /\ k \notin DOMAIN latencyStats
         /\ ignored' = ignored + 1
         /\ UNCHANGED <<sumLatency, firstTime, lastTime, means>>
  BY DEF PrintIgnored, Prints, Lines

LEMMA PrintedLines ==
  ASSUME PrintedInv, NEW line, Prints(line), LineOK(k, line)
  PROVE  \A i \in 0 .. k' - 1 : LineOK(i, Line(i))'
<1>1. /\ k \in Nat /\ k' = k + 1 /\ printed'[k + 1] = line
      /\ \A i \in 0 .. k - 1 : printed'[i + 1] = printed[i + 1]
      /\ latencyStats' = latencyStats
  BY PrintsOne DEF Prints, measureVars
<1>2. ASSUME NEW i \in 0 .. k' - 1 PROVE LineOK(i, Line(i))'
  <2>1. CASE i = k
    BY <1>1, <2>1 DEF LineOK, Line, Latency
  <2>2. CASE i \in 0 .. k - 1
    <3>1. LineOK(i, Line(i))
      BY <2>2 DEF PrintedInv
    <3> QED
      BY <1>1, <2>2, <3>1 DEF LineOK, Line, Latency
  <2> QED
    BY <1>1, <2>1, <2>2
<1> QED
  BY <1>2

\* A step of the measurement.
MeasuringStep == Measuring \/ (\E n \in 1 .. Min({BurstRx, Len(flying)}) : Poll(n)) \/ Receive

LEMMA PrintedStep == MeasureInv /\ PrintedInv /\ [Next]_vars => PrintedInv'
<1> SUFFICES ASSUME MeasureInv, PrintedInv, [Next]_vars PROVE PrintedInv'
  OBVIOUS
<1>0. LoopTypes
  BY DEF PrintedInv
<1>1. CASE MeasuringStep
  <2>1. /\ phase \in {"measure", "record"} /\ phase' \in {"measure", "record"} /\ k = 0
        /\ UNCHANGED <<k, ignored, sumLatency, firstTime, lastTime, printed>>
    BY <1>1 DEF MeasuringStep, Measuring, Poll, Receive, loopVars, PrintedInv
  <2>2. LoopTypes'
    BY <1>0, <2>1 DEF LoopTypes
  <2> QED
    BY <2>1, <2>2 DEF PrintedInv
<1>2. CASE Report \/ PrintMeans \/ Done \/ UNCHANGED vars
  <2>1. UNCHANGED <<k, ignored, sumLatency, firstTime, lastTime, printed, latencyStats>>
    BY <1>2 DEF Report, PrintMeans, Done, loopVars, vars, measureVars
  <2>2. phase' \in {"report", "done"} \/ phase' = phase
    BY <1>2 DEF Report, PrintMeans, Done, vars
  <2>3. LoopTypes'
    BY <1>0, <2>1, <2>2 DEF LoopTypes
  <2>4. \A i \in 0 .. k - 1 : LineOK(i, Line(i))'
    BY <2>1 DEF PrintedInv, LineOK, Line, Latency
  <2>5. phase' \in {"measure", "record"} => phase \in {"measure", "record"}
    BY <2>2
  <2> QED
    BY <2>1, <2>3, <2>4, <2>5 DEF PrintedInv
<1>3. CASE PrintRow
  <2> DEFINE row == latencyStats[k]
  <2>1. /\ Prints(RowLine(row)) /\ k \in DOMAIN latencyStats
        /\ row \in Row /\ row.recvTime < Word
        /\ sumLatency' = Sum(row) /\ firstTime' = First(row) /\ lastTime' = row.recvTime
        /\ ignored' = ignored
    BY <1>3, PrintRowPrints
  <2>2. LineOK(k, RowLine(row))
    BY <2>1 DEF LineOK, RowLine
  <2>3. row.recvTime \in Nat
    BY <2>1 DEF Row
  <2>4. firstTime' \in Nat /\ firstTime' < Word
    BY <1>0, <2>1, <2>3 DEF First, LoopTypes
  <2>5. sumLatency' \in Nat
    <3>1. Latency(row) \in Nat
      BY <2>1, LatencyType
    <3>2. sumLatency + Latency(row) \in Int
      BY <1>0, <3>1 DEF LoopTypes
    <3> QED
      BY <2>1, <3>2, Units, DivMod DEF Sum
  <2>6. LoopTypes'
    BY <1>0, <2>1, <2>3, <2>4, <2>5, PrintsOne DEF LoopTypes, Prints
  <2>7. phase' \notin {"measure", "record"}
    BY <2>1 DEF Prints
  <2>8. \A i \in 0 .. k' - 1 : LineOK(i, Line(i))'
    BY <2>1, <2>2, PrintedLines
  <2> QED
    BY <2>6, <2>7, <2>8 DEF PrintedInv
<1>4. CASE PrintIgnored
  <2>1. /\ Prints([kind |-> "ignored"]) /\ k \notin DOMAIN latencyStats
        /\ ignored' = ignored + 1 /\ UNCHANGED <<sumLatency, firstTime, lastTime>>
    BY <1>4, PrintIgnoredPrints
  <2>2. LineOK(k, [kind |-> "ignored"])
    BY <2>1 DEF LineOK
  <2>3. LoopTypes'
    BY <1>0, <2>1, PrintsOne DEF LoopTypes, Prints
  <2>4. phase' \notin {"measure", "record"}
    BY <2>1 DEF Prints
  <2>5. \A i \in 0 .. k' - 1 : LineOK(i, Line(i))'
    BY <2>1, <2>2, PrintedLines
  <2> QED
    BY <2>3, <2>4, <2>5 DEF PrintedInv
<1> QED
  BY <1>1, <1>2, <1>3, <1>4 DEF MeasuringStep, Next, Tick, SetClock, Send, GiveUp

\* What has been measured and printed.
ReportInv == MeasureInv /\ PrintedInv

LEMMA ReportAlways == Spec => []ReportInv
<1>1. Init => ReportInv
  BY MeasureInit, PrintedInit DEF ReportInv
<1>2. ReportInv /\ [Next]_vars => ReportInv'
  BY MeasureStep, PrintedStep DEF ReportInv
<1> QED
  BY <1>1, <1>2, PTL DEF Spec

LEMMA PrintedRows ==
  ASSUME ReportInv, NEW i \in Printed
  PROVE  /\ i \in Nat /\ i < k /\ i \in DOMAIN latencyStats
         /\ latencyStats[i] \in Row /\ RowOK(latencyStats[i])
         /\ Line(i).latency = Latency(latencyStats[i])
<1>1. i \in 0 .. k - 1 /\ Line(i).kind = "row" /\ LineOK(i, Line(i)) /\ k \in Nat
  BY Numbers DEF Printed, ReportInv, PrintedInv, LoopTypes
<1>2. i \in DOMAIN latencyStats /\ Line(i).latency = Latency(latencyStats[i])
  BY <1>1 DEF LineOK
<1> QED
  BY <1>1, <1>2, RowTimes DEF ReportInv

-----------------------------------------------------------------------------
(***************************************************************************)
(* Latencies.  Two stamps of the clock differ by what passed between them, *)
(* up to a unit; the difference of the words is that of the stamps unless  *)
(* it is negative or longer than a word.                                   *)
(***************************************************************************)
LEMMA StampsDiffer ==
  ASSUME NEW s \in Int, NEW r \in Int
  PROVE  \E d \in Int :
           /\ -Resolution < Resolution * d - (r - s) /\ Resolution * d - (r - s) < Resolution
           /\ (hptl_getTime(r) - hptl_getTime(s)) % Word = d % Word
<1>1. PICK u \in Int, a \in 0 .. Resolution - 1 :
        s = Resolution * u + a /\ hptl_getTime(s) = u % Word
  BY StampIs
<1>2. PICK v \in Int, b \in 0 .. Resolution - 1 :
        r = Resolution * v + b /\ hptl_getTime(r) = v % Word
  BY StampIs
<1>3. (hptl_getTime(r) - hptl_getTime(s)) % Word = (v - u) % Word
  <2>1. ((v % Word) - (u % Word)) % Word = (v - u) % Word
    BY Units, ModDifference
  <2> QED
    BY <1>1, <1>2, <2>1
<1>4. PICK R \in Nat \ {0} : R = Resolution
  BY Units
<1>5. R * (v - u) = R * v - R * u
  OBVIOUS
<1>6. PICK x \in Int, y \in Int : x = R * u /\ y = R * v
  OBVIOUS
<1>7. (y - x) - ((y + b) - (x + a)) = a - b /\ -R < a - b /\ a - b < R
  BY <1>4
<1>8. R * (v - u) - (r - s) = a - b
  BY <1>1, <1>2, <1>4, <1>5, <1>6, <1>7
<1>9. v - u \in Int
  OBVIOUS
<1> QED
  BY <1>3, <1>4, <1>7, <1>8, <1>9

\* A word can hold the latency of any packet: 5800 years in the program.
LongWord == MaxTime + Resolution <= Word * Resolution

LEMMA RowLatency ==
  ASSUME MeasureInv, NEW row \in Row, RowOK(row)
  PROVE  \E d \in Int :
           /\ Latency(row) = d % Word
           /\ -Resolution < Resolution * d - (row.recvAt - row.sentAt + row.jump)
           /\ Resolution * d - (row.recvAt - row.sentAt + row.jump) < Resolution
<1> DEFINE s == Epoch + row.sentAt + (row.offset - row.jump)
           r == Epoch + row.recvAt + row.offset
<1>1. row.recvTime = hptl_getTime(r) /\ row.sentTime = hptl_getTime(s)
  BY DEF RowOK
<1>2. s \in Int /\ r \in Int /\ r - s = row.recvAt - row.sentAt + row.jump
  BY Numbers DEF Row
<1> HIDE DEF s, r
<1>3. PICK d \in Int :
        /\ -Resolution < Resolution * d - (r - s) /\ Resolution * d - (r - s) < Resolution
        /\ (hptl_getTime(r) - hptl_getTime(s)) % Word = d % Word
  BY <1>2, StampsDiffer
<1>4. Latency(row) = d % Word
  BY <1>1, <1>3 DEF Latency
<1> QED
  BY <1>2, <1>3, <1>4

\* The latency of an undisturbed packet.
LEMMA UndisturbedLatency ==
  ASSUME LongWord, MeasureInv, NEW row \in Row, RowOK(row), row.jump = 0
  PROVE  /\ -Resolution < Latency(row) * Resolution - (row.recvAt - row.sentAt)
         /\ Latency(row) * Resolution - (row.recvAt - row.sentAt) < Resolution
         /\ row.recvAt - row.sentAt \in 0 .. MaxTime
<1>1. PICK d \in Int :
        /\ Latency(row) = d % Word
        /\ -Resolution < Resolution * d - (row.recvAt - row.sentAt + row.jump)
        /\ Resolution * d - (row.recvAt - row.sentAt + row.jump) < Resolution
  BY RowLatency
<1>2. PICK t \in Nat : t = row.recvAt - row.sentAt /\ t <= MaxTime
  <2>1. row.recvAt \in Nat /\ row.sentAt \in Nat /\ row.sentAt <= row.recvAt /\ row.recvAt <= time
    BY DEF Row, RowOK
  <2>2. time \in Nat /\ time <= MaxTime
    BY Numbers DEF MeasureInv, ClockInv
  <2> QED
    BY <2>1, <2>2, Numbers
<1>3. PICK R \in Nat \ {0}, W \in Nat \ {0} :
        R = Resolution /\ W = Word /\ MaxTime + R <= W * R
  BY Units DEF LongWord
<1>4. -R < R * d - t /\ R * d - t < R
  BY <1>1, <1>2, <1>3
<1>5. d > -1
  <2>1. d <= -1 => R * d <= R * (-1)
    OBVIOUS
  <2>2. R * (-1) = -R
    OBVIOUS
  <2> QED
    BY <1>4, <2>1, <2>2
<1>6. d < W
  <2>1. d >= W => R * W <= R * d
    OBVIOUS
  <2>2. R * W = W * R
    OBVIOUS
  <2>3. R * d < MaxTime + R
    BY <1>2, <1>4, Numbers
  <2> QED
    BY <1>3, <2>1, <2>2, <2>3, Numbers
<1>7. d % W = d
  BY <1>5, <1>6
<1>8. Latency(row) * Resolution = R * d
  BY <1>1, <1>3, <1>7
<1> QED
  BY <1>2, <1>3, <1>4, <1>8, Numbers

\* hptl.c:307, runtime.c:220.  Every printed latency of a packet during which
\* the clock was not set is less than a unit off, wherever the stamps fall and
\* however often the counter of units wraps.
THEOREM LatenciesWithinUnit == LongWord => (Spec => []LatencyWithinUnit)
<1> SUFFICES ASSUME LongWord PROVE Spec => []LatencyWithinUnit
  OBVIOUS
<1>1. ASSUME ReportInv, NEW i \in Printed, Undisturbed(i)
      PROVE  /\ -Resolution < Line(i).latency * Resolution - TrueLatency(i)
             /\ Line(i).latency * Resolution - TrueLatency(i) < Resolution
  <2>1. MeasureInv
    BY <1>1 DEF ReportInv
  <2> QED
    BY <1>1, <2>1, PrintedRows, UndisturbedLatency DEF Undisturbed, TrueLatency
<1>2. ReportInv => LatencyWithinUnit
  BY <1>1 DEF LatencyWithinUnit
<1> QED
  BY <1>2, ReportAlways, PTL

-----------------------------------------------------------------------------
(***************************************************************************)
(* The clock is set forward by at most b each time, and half a word can    *)
(* hold what it then shows: 2900 years in the program.                     *)
(***************************************************************************)
SetByAtMost(b) == \A d \in Jumps : d <= b

HalfWord(b) == MaxTime + MaxSets * b + Resolution <= (Word \div 2) * Resolution

JumpInv(b) ==
  /\ \A i \in 1 .. Len(flying) : offset - flying[i].offset <= sets * b
  /\ \A i \in DOMAIN latencyStats : latencyStats[i].jump <= sets * b

LEMMA JumpStep ==
  ASSUME NEW b \in Nat, SetByAtMost(b), MeasureInv, JumpInv(b), [Next]_vars
  PROVE  JumpInv(b)'
<1>0. /\ flying \in Seq(Flight) /\ Len(flying) \in Nat /\ offset \in Int /\ sets \in Nat
      /\ latencyStats \in [DOMAIN latencyStats -> Row]
  BY LenProperties, Numbers DEF MeasureInv, FlyingInv, ClockInv, TableInv
<1>1. CASE SetClock
  <2>1. /\ UNCHANGED <<flying, latencyStats>> /\ sets' = sets + 1
    BY <1>1 DEF SetClock
  <2>2. PICK d \in Jumps : offset' = offset + d
    BY <1>1 DEF SetClock
  <2>3. d \in Int /\ d <= b
    BY <2>2, Numbers DEF SetByAtMost
  <2>4. PICK x \in Int : x = sets * b /\ sets' * b = x + b
    <3>1. (sets + 1) * b = sets * b + b /\ sets * b \in Int
      BY <1>0
    <3> QED
      BY <2>1, <3>1
  <2>5. ASSUME NEW i \in 1 .. Len(flying) PROVE offset' - flying[i].offset <= sets' * b
    <3>1. flying[i] \in Flight
      BY <1>0, ElementOfSeq
    <3>2. PICK o \in Int : o = flying[i].offset
      BY <3>1 DEF Flight
    <3>3. offset - o <= x
      BY <2>4, <3>2 DEF JumpInv
    <3> QED
      BY <1>0, <2>2, <2>3, <2>4, <3>2, <3>3
  <2>6. ASSUME NEW i \in DOMAIN latencyStats PROVE latencyStats[i].jump <= sets' * b
    <3>1. latencyStats[i].jump \in Int /\ latencyStats[i].jump <= x
      BY <1>0, <2>4 DEF JumpInv, Row
    <3> QED
      BY <2>4, <3>1
  <2> QED
    BY <2>1, <2>5, <2>6 DEF JumpInv
<1>2. CASE Send
  <2> DEFINE f == [sentTime |-> hptl_get, at |-> time, offset |-> offset]
  <2>1. /\ flying' = Append(flying, f) /\ UNCHANGED <<offset, sets, latencyStats>>
    BY <1>2 DEF Send
  <2>2. f \in Flight
    <3>1. time \in Nat /\ Epoch + time + offset \in Int
      BY <1>0, Numbers DEF MeasureInv, ClockInv
    <3> QED
      BY <1>0, <3>1, StampType DEF Flight, hptl_get
  <2>3. f.offset = offset
    OBVIOUS
  <2> HIDE DEF f
  <2>4. /\ Len(Append(flying, f)) = Len(flying) + 1
        /\ \A i \in 1 .. Len(flying) : Append(flying, f)[i] = flying[i]
        /\ Append(flying, f)[Len(flying) + 1] = f
    BY <1>0, <2>2, AppendProperties
  <2>5. offset - offset <= sets * b
    BY <1>0
  <2>6. ASSUME NEW i \in 1 .. Len(flying') PROVE offset' - flying'[i].offset <= sets' * b
    <3>1. CASE i \in 1 .. Len(flying)
      BY <2>1, <2>4, <3>1 DEF JumpInv
    <3>2. CASE i = Len(flying) + 1
      BY <2>1, <2>3, <2>4, <2>5, <3>2
    <3> QED
      BY <1>0, <2>1, <2>4, <3>1, <3>2
  <2> QED
    BY <2>1, <2>6 DEF JumpInv
<1>5. ASSUME NEW n, Dropped(n), UNCHANGED <<offset, sets>>, NEW i \in 1 .. Len(flying')
      PROVE  offset' - flying'[i].offset <= sets' * b
  <2>1. n + i \in 1 .. Len(flying) /\ flying'[i] = flying[n + i]
    BY <1>0, <1>5 DEF Dropped
  <2> QED
    BY <1>5, <2>1 DEF JumpInv
<1>6. ASSUME NEW n \in 1 .. Min({BurstRx, Len(flying)}), Poll(n) PROVE JumpInv(b)'
  <2>1. UNCHANGED <<offset, sets, latencyStats>> /\ Dropped(n - 1)
    BY <1>6, PollDrops
  <2> QED
    BY <1>5, <2>1 DEF JumpInv
<1>3. CASE Receive
  <2>1. PICK slot \in Nat, row \in Row :
          /\ 1 \in 1 .. Len(flying)
          /\ row.jump = offset - flying[1].offset
          /\ latencyStats' = [i \in DOMAIN latencyStats \cup {slot} |->
                                IF i = slot THEN row ELSE latencyStats[i]]
    BY <1>3, NewRow
  <2>2. UNCHANGED <<offset, sets>> /\ Dropped(1)
    BY <1>3, ReceiveDrops
  <2>3. ASSUME NEW i \in DOMAIN latencyStats' PROVE latencyStats'[i].jump <= sets' * b
    <3>1. CASE i = slot
      <4>1. latencyStats'[i] = row
        BY <2>1, <3>1
      <4>2. offset - flying[1].offset <= sets * b
        BY <2>1 DEF JumpInv
      <4> QED
        BY <2>1, <2>2, <4>1, <4>2
    <3>2. CASE i # slot
      BY <2>1, <2>2, <3>2 DEF JumpInv
    <3> QED
      BY <3>1, <3>2
  <2> QED
    BY <1>5, <2>2, <2>3 DEF JumpInv
<1>4. CASE UNCHANGED <<offset, sets, flying, latencyStats>>
  BY <1>4 DEF JumpInv
<1> QED
  BY <1>1, <1>2, <1>3, <1>4, <1>6
     DEF Next, Tick, GiveUp, Report, PrintRow, PrintIgnored, PrintMeans, Done, vars, measureVars

LEMMA JumpAlways == ASSUME NEW b \in Nat, SetByAtMost(b) PROVE Spec => []JumpInv(b)
<1>1. Init => JumpInv(b)
  <2> SUFFICES ASSUME Init PROVE JumpInv(b)
    OBVIOUS
  <2>1. Len(flying) = 0 /\ DOMAIN latencyStats = {}
    BY EmptySeq DEF Init
  <2> QED
    BY <2>1 DEF JumpInv
<1>2. MeasureInv /\ JumpInv(b) /\ [Next]_vars => JumpInv(b)'
  BY JumpStep
<1> QED
  BY <1>1, <1>2, MeasureAlways, PTL DEF Spec

LEMMA ForwardLatency ==
  ASSUME NEW b \in Nat, HalfWord(b), MeasureInv, NEW row \in Row, RowOK(row),
         row.jump <= sets * b, row.recvAt - row.sentAt + row.jump >= 0
  PROVE  Latency(row) < Word \div 2
<1>1. PICK d \in Int :
        /\ Latency(row) = d % Word
        /\ -Resolution < Resolution * d - (row.recvAt - row.sentAt + row.jump)
        /\ Resolution * d - (row.recvAt - row.sentAt + row.jump) < Resolution
  BY RowLatency
<1>2. PICK t \in Nat : t = row.recvAt - row.sentAt + row.jump /\ t <= MaxTime + MaxSets * b
  <2>1. /\ row.recvAt \in Nat /\ row.sentAt \in Nat /\ row.sentAt <= row.recvAt
        /\ row.recvAt <= time /\ row.jump \in Int
    BY DEF Row, RowOK
  <2>2. time \in Nat /\ time <= MaxTime /\ sets \in Nat /\ sets <= MaxSets
    BY Numbers DEF MeasureInv, ClockInv
  <2>3. sets * b <= MaxSets * b /\ sets * b \in Int /\ MaxSets * b \in Int
    BY <2>2, Numbers
  <2>4. PICK x \in Int, y \in Int : x = sets * b /\ y = MaxSets * b
    BY <2>3
  <2> QED
    BY <2>1, <2>2, <2>3, <2>4, Numbers
<1>3. PICK R \in Nat \ {0}, W \in Nat \ {0}, h \in Nat, y \in Int :
        /\ R = Resolution /\ W = Word /\ h = Word \div 2 /\ y = MaxSets * b
        /\ MaxTime + y + R <= h * R /\ h <= W
  <2>1. Word \div 2 \in Nat /\ Word \div 2 <= Word /\ MaxSets * b \in Int
    BY Units, Numbers
  <2> QED
    BY <2>1, Units DEF HalfWord
<1>4. -R < R * d - t /\ R * d - t < R
  BY <1>1, <1>2, <1>3
<1>5. d > -1
  <2>1. d <= -1 => R * d <= R * (-1)
    OBVIOUS
  <2>2. R * (-1) = -R
    OBVIOUS
  <2> QED
    BY <1>4, <2>1, <2>2
<1>6. d < h
  <2>1. d >= h => R * h <= R * d
    OBVIOUS
  <2>2. R * h = h * R
    OBVIOUS
  <2>3. R * d < MaxTime + y + R
    BY <1>2, <1>3, <1>4, Numbers
  <2> QED
    BY <1>3, <2>1, <2>2, <2>3, Numbers
<1>7. d % W = d
  BY <1>3, <1>5, <1>6
<1> QED
  BY <1>1, <1>3, <1>6, <1>7

\* runtime.c:220.  The unsigned difference of two stamps only wraps if the
\* clock has been set back behind the stamp of the packet.
THEOREM LatenciesWrapBackwards ==
  ASSUME NEW b \in Nat, SetByAtMost(b), HalfWord(b)
  PROVE  Spec => []WrapsOnlyBackwards
<1>1. ASSUME ReportInv, JumpInv(b), NEW i \in Printed, Line(i).latency >= Word \div 2
      PROVE  TrueLatency(i) + latencyStats[i].jump < 0
  <2>1. MeasureInv
    BY <1>1 DEF ReportInv
  <2>2. /\ latencyStats[i] \in Row /\ RowOK(latencyStats[i]) /\ i \in DOMAIN latencyStats
        /\ Line(i).latency = Latency(latencyStats[i])
    BY <1>1, PrintedRows
  <2>3. latencyStats[i].jump <= sets * b
    BY <1>1, <2>2 DEF JumpInv
  <2>4. PICK t \in Int : t = TrueLatency(i) + latencyStats[i].jump
    BY <2>2 DEF TrueLatency, Row
  <2>5. PICK l \in Nat, h \in Nat : l = Latency(latencyStats[i]) /\ h = Word \div 2
    BY <2>2, LatencyType, Units
  <2>6. t >= 0 => l < h
    BY <2>1, <2>2, <2>3, <2>4, <2>5, ForwardLatency DEF TrueLatency
  <2> QED
    BY <1>1, <2>2, <2>4, <2>5, <2>6
<1>2. ReportInv /\ JumpInv(b) => WrapsOnlyBackwards
  BY <1>1 DEF WrapsOnlyBackwards
<1> QED
  BY <1>2, ReportAlways, JumpAlways, PTL

-----------------------------------------------------------------------------
(***************************************************************************)
(* The rows printed so far, one more with each line.                       *)
(***************************************************************************)
LEMMA PrintedFinite ==
  ASSUME PrintedInv
  PROVE  IsFiniteSet(Printed) /\ k \notin Printed /\ \A i \in Printed : i \in Nat /\ i < k
<1>1. k \in Nat
  BY DEF PrintedInv, LoopTypes
<1>2. Printed \subseteq 0 .. k - 1 /\ IsFiniteSet(0 .. k - 1)
  BY <1>1, FS_Interval DEF Printed
<1>3. k \notin 0 .. k - 1 /\ \A i \in 0 .. k - 1 : i \in Nat /\ i < k
  BY <1>1
<1>4. IsFiniteSet(Printed)
  BY <1>2, FS_Subset
<1> QED
  BY <1>2, <1>3, <1>4

LEMMA NothingPrinted ==
  ASSUME k = 0
  PROVE  Printed = {}
  BY DEF Printed

LEMMA PrintsMore ==
  ASSUME PrintedInv, NEW line, Prints(line)
  PROVE  /\ Printed' = IF line.kind = "row" THEN Printed \cup {k} ELSE Printed
         /\ printed'[k + 1] = line
         /\ \A i \in Printed : printed'[i + 1] = printed[i + 1]
         /\ UNCHANGED latencyStats
<1>1. /\ k \in Nat /\ k' = k + 1 /\ printed'[k + 1] = line
      /\ \A i \in 0 .. k - 1 : printed'[i + 1] = printed[i + 1]
      /\ UNCHANGED latencyStats
  BY PrintsOne DEF Prints, measureVars
<1>2. Printed' = {i \in 0 .. k : printed'[i + 1].kind = "row"}
  BY <1>1 DEF Printed, Line
<1>3. Printed = {i \in 0 .. k - 1 : printed[i + 1].kind = "row"}
  BY DEF Printed, Line
<1>4. 0 .. k = (0 .. k - 1) \cup {k} /\ k \notin 0 .. k - 1
  BY <1>1
<1> QED
  BY <1>1, <1>2, <1>3, <1>4

-----------------------------------------------------------------------------
(***************************************************************************)
(* The mean latency.  Each row adds an error of less than a unit, and the  *)
(* sum of the latencies does not wrap.                                     *)
(***************************************************************************)
TrueLatencies == SumFunction([i \in Printed |-> TrueLatency(i)])

\* The sum of the latencies of a table fits in a word.
LongTable == trainLen * (MaxTime + Resolution) <= Word * Resolution

\* The c rows printed so far are off by less than a unit each.
SumNear(c) ==
  /\ TrueLatencies \in 0 .. c * MaxTime
  /\ -Resolution * c <= sumLatency * Resolution - TrueLatencies
  /\ sumLatency * Resolution - TrueLatencies <= Resolution * c
  /\ c # 0 => /\ -Resolution * c < sumLatency * Resolution - TrueLatencies
              /\ sumLatency * Resolution - TrueLatencies < Resolution * c

MeanInv ==
  /\ Cardinality(Printed) + ignored = k
  /\ (\A i \in Printed : Undisturbed(i)) => SumNear(Cardinality(Printed))

MeansInv ==
  phase = "done" =>
    /\ k = trainLen
    /\ means = [interval |-> Double(lastTime) - Double(firstTime),
                latency  |-> sumLatency, packets |-> Divisor]

LEMMA ShortTable == LongTable => LongWord
<1> SUFFICES ASSUME LongTable PROVE LongWord
  OBVIOUS
<1>1. PICK a \in Nat, l \in Nat \ {0}, y \in Int :
        a = MaxTime + Resolution /\ l = trainLen /\ y = Word * Resolution
  BY Numbers, Units
<1>2. l * a >= a
  BY <1>1
<1>3. l * a \in Int /\ l * a <= y
  BY <1>1 DEF LongTable
<1> QED
  BY <1>1, <1>2, <1>3 DEF LongWord

LEMMA NothingSummed ==
  ASSUME k = 0, sumLatency = 0, ignored = 0
  PROVE  MeanInv
<1>1. Printed = {} /\ IsFiniteSet({}) /\ Cardinality(Printed) = 0
  BY NothingPrinted, FS_EmptySet
<1>2. TrueLatencies = 0
  <2>1. [i \in Printed |-> TrueLatency(i)] = [i \in {} |-> 0]
    BY <1>1
  <2> QED
    BY <1>1, <2>1, TotalZero DEF TrueLatencies
<1>3. SumNear(0)
  BY <1>2, Units, Numbers DEF SumNear
<1> QED
  BY <1>1, <1>3 DEF MeanInv

\* One more row.
LEMMA SumOneMore ==
  ASSUME NEW R \in Nat \ {0}, NEW W \in Nat \ {0}, NEW c \in Nat, NEW n \in Nat, c < n,
         NEW m \in Nat, n * (m + R) <= W * R,
         NEW s \in Nat, NEW T \in 0 .. c * m, NEW l \in Nat, NEW t \in 0 .. m,
         -R * c <= s * R - T, s * R - T <= R * c,
         -R < l * R - t, l * R - t < R
  PROVE  /\ s + l < W /\ T + t \in 0 .. (c + 1) * m
         /\ -R * (c + 1) < (s + l) * R - (T + t) /\ (s + l) * R - (T + t) < R * (c + 1)
<1>1. (s + l) * R = s * R + l * R /\ (c + 1) * m = c * m + m /\ R * (c + 1) = R * c + R
      /\ -R * c = -(R * c) /\ -R * (c + 1) = -(R * c + R)
  OBVIOUS
<1>2. PICK p \in Nat, q \in Nat, x \in Nat, y \in Nat :
        p = s * R /\ q = l * R /\ x = R * c /\ y = c * m
  OBVIOUS
<1>3. /\ T + t \in 0 .. y + m
      /\ -(x + R) < (p + q) - (T + t) /\ (p + q) - (T + t) < x + R
  BY <1>1, <1>2
<1>4. s + l < W
  <2>1. (c + 1) * (m + R) = y + m + x + R
    <3>1. (c + 1) * (m + R) = c * (m + R) + (m + R)
      OBVIOUS
    <3>2. c * (m + R) = c * m + c * R /\ c * R = R * c
      OBVIOUS
    <3> QED
      BY <1>2, <3>1, <3>2
  <2>2. (c + 1) * (m + R) <= n * (m + R)
    OBVIOUS
  <2>3. p + q < y + m + x + R
    BY <1>2, <1>3
  <2>4. PICK u \in Int, v \in Int, w \in Int : u = (c + 1) * (m + R) /\ v = n * (m + R) /\ w = W * R
    OBVIOUS
  <2>5. p + q < w
    BY <2>1, <2>2, <2>3, <2>4
  <2>6. s + l >= W => W * R <= (s + l) * R
    OBVIOUS
  <2> QED
    BY <1>1, <1>2, <2>4, <2>5, <2>6
<1> QED
  BY <1>1, <1>2, <1>3, <1>4

LEMMA MeanRow ==
  ASSUME LongTable, ReportInv, MeanInv, PrintRow
  PROVE  MeanInv'
<1> DEFINE row == latencyStats[k]
           t   == TrueLatency(k)
<1>0. MeasureInv /\ PrintedInv /\ LongWord
  BY ShortTable DEF ReportInv
<1>1. /\ Prints(RowLine(row)) /\ RowLine(row).kind = "row"
      /\ row \in Row /\ RowOK(row)
      /\ sumLatency' = Sum(row) /\ ignored' = ignored
  BY <1>0, PrintRowPrints DEF RowLine
<1>2. /\ Printed' = Printed \cup {k} /\ UNCHANGED latencyStats /\ k' = k + 1
      /\ IsFiniteSet(Printed) /\ k \notin Printed
  BY <1>0, <1>1, PrintsMore, PrintedFinite DEF Prints
<1>3. PICK c \in Nat : c = Cardinality(Printed) /\ Cardinality(Printed') = c + 1
  BY <1>2, FS_AddElement, FS_CardinalityType
<1>4. k \in Nat /\ k < trainLen /\ ignored \in Nat /\ sumLatency \in Nat /\ c + ignored = k
  BY <1>0, <1>1, <1>3 DEF PrintedInv, LoopTypes, Prints, MeanInv
<1>5. Cardinality(Printed') + ignored' = k'
  <2>1. PICK i \in Nat : i = ignored
    BY <1>4
  <2>2. c + i = k /\ (c + 1) + i = k + 1
    BY <1>4, <2>1
  <2> QED
    BY <1>1, <1>2, <1>3, <2>1, <2>2
<1>6. ASSUME \A i \in Printed' : Undisturbed(i)' PROVE SumNear(c + 1)'
  <2>1. (\A i \in Printed : Undisturbed(i)) /\ row.jump = 0
    BY <1>2, <1>6 DEF Undisturbed
  <2>2. SumNear(c)
    BY <1>3, <2>1 DEF MeanInv
  <2>3. /\ -Resolution < Latency(row) * Resolution - t
        /\ Latency(row) * Resolution - t < Resolution
        /\ t \in 0 .. MaxTime /\ Latency(row) \in Nat
    BY <1>0, <1>1, <2>1, UndisturbedLatency, LatencyType DEF TrueLatency
  <2>4. TrueLatencies' = TrueLatencies + t
    <3> DEFINE f == [i \in Printed |-> TrueLatency(i)]
               g == [i \in Printed' |-> TrueLatency(i)']
    <3>1. \A i \in Printed : TrueLatency(i) \in Nat
      <4>1. ASSUME NEW i \in Printed PROVE TrueLatency(i) \in Nat
        <5>1. latencyStats[i] \in Row /\ RowOK(latencyStats[i])
          BY PrintedRows
        <5> QED
          BY <5>1 DEF TrueLatency, Row, RowOK
      <4> QED
        BY <4>1
    <3>2. f \in [Printed -> Nat]
      BY <3>1
    <3>3. g = [y \in Printed \cup {k} |-> IF y = k THEN t ELSE f[y]]
      BY <1>2 DEF TrueLatency
    <3>4. TrueLatencies = SumFunction(f) /\ TrueLatencies' = SumFunction(g)
      BY DEF TrueLatencies
    <3>5. t \in Nat
      BY <2>3, Numbers
    <3> HIDE DEF f, g, t
    <3> QED
      BY <1>2, <3>2, <3>3, <3>4, <3>5, TotalGrow
  <2>5. PICK R \in Nat \ {0}, W \in Nat \ {0}, n \in Nat, m \in Nat, T \in Nat, l \in Nat :
          /\ R = Resolution /\ W = Word /\ n = trainLen /\ m = MaxTime
          /\ T = TrueLatencies /\ l = Latency(row)
    <3>1. TrueLatencies \in Nat
      BY <1>3, <2>2, Numbers DEF SumNear
    <3> QED
      BY <2>3, <3>1, Units, Numbers
  <2>6. /\ c < n /\ n * (m + R) <= W * R /\ T \in 0 .. c * m /\ t \in 0 .. m
        /\ -R * c <= sumLatency * R - T /\ sumLatency * R - T <= R * c
        /\ -R < l * R - t /\ l * R - t < R
    <3>1. c < n
      BY <1>3, <1>4, <2>5
    <3> QED
      BY <2>2, <2>3, <2>5, <3>1 DEF LongTable, SumNear
  <2> HIDE DEF t
  <2>7. /\ sumLatency + l < W /\ T + t \in 0 .. (c + 1) * m
        /\ -R * (c + 1) < (sumLatency + l) * R - (T + t)
        /\ (sumLatency + l) * R - (T + t) < R * (c + 1)
    <3>1. PICK s \in Nat : s = sumLatency
      BY <1>4
    <3>2. PICK u : u = t
      OBVIOUS
    <3> QED
      BY <1>3, <2>5, <2>6, <3>1, <3>2, SumOneMore
  <2>8. sumLatency' = sumLatency + l
    <3>1. PICK z \in Nat : z = sumLatency + l /\ z < W
      BY <1>4, <2>5, <2>7
    <3>2. z % W = z
      BY <2>5, <3>1
    <3> QED
      BY <1>1, <2>5, <3>1, <3>2 DEF Sum
  <2>9. TrueLatencies' = T + t /\ c + 1 # 0 /\ c + 1 \in Nat
    BY <1>3, <2>4, <2>5
  <2>10. PICK d \in Nat : d = c + 1
    BY <2>9
  <2>11. PICK X \in Int, Y \in Int, Z \in Int :
          X = R * d /\ Y = (sumLatency + l) * R - (T + t) /\ Z = -R * d
    <3>1. R * d \in Int /\ -R * d \in Int /\ (sumLatency + l) * R - (T + t) \in Int
      BY <1>4, <2>3, <2>5, <2>10
    <3> QED
      BY <3>1
  <2>12. Z < Y /\ Y < X
    BY <2>7, <2>10, <2>11
  <2>13. Z <= Y /\ Y <= X
    BY <2>11, <2>12
  <2>14. SumNear(d)'
    BY <2>5, <2>7, <2>8, <2>9, <2>10, <2>11, <2>12, <2>13 DEF SumNear
  <2> QED
    BY <2>10, <2>14
<1>7. (\A i \in Printed' : Undisturbed(i)') => SumNear(Cardinality(Printed))'
  BY <1>3, <1>6
<1> QED
  BY <1>5, <1>7 DEF MeanInv

LEMMA MeanIgnored ==
  ASSUME ReportInv, MeanInv, PrintIgnored
  PROVE  MeanInv'
<1>0. PrintedInv
  BY DEF ReportInv
<1>1. /\ Prints([kind |-> "ignored"]) /\ ignored' = ignored + 1 /\ sumLatency' = sumLatency
  BY PrintIgnoredPrints
<1>2. Printed' = Printed /\ UNCHANGED latencyStats /\ k' = k + 1 /\ IsFiniteSet(Printed)
  BY <1>0, <1>1, PrintsMore, PrintedFinite DEF Prints
<1>3. Cardinality(Printed) \in Nat /\ ignored \in Nat /\ k \in Nat
  BY <1>0, <1>2, FS_CardinalityType DEF PrintedInv, LoopTypes
<1>4. Cardinality(Printed') + ignored' = k'
  BY <1>1, <1>2, <1>3 DEF MeanInv
<1>5. TrueLatencies' = TrueLatencies
  BY <1>2 DEF TrueLatencies, TrueLatency
<1>6. (\A i \in Printed' : Undisturbed(i)') => SumNear(Cardinality(Printed))'
  BY <1>1, <1>2, <1>5 DEF MeanInv, Undisturbed, SumNear
<1> QED
  BY <1>4, <1>6 DEF MeanInv

LEMMA MeanStep == LongTable /\ ReportInv /\ MeanInv /\ [Next]_vars => MeanInv'
<1> SUFFICES ASSUME LongTable, ReportInv, MeanInv, [Next]_vars PROVE MeanInv'
  OBVIOUS
<1>1. CASE MeasuringStep
  <2>1. (k = 0 /\ sumLatency = 0 /\ ignored = 0)'
    BY <1>1 DEF MeasuringStep, Measuring, Poll, Receive, loopVars, ReportInv, PrintedInv
  <2> QED
    BY <2>1, NothingSummed, PTL
<1>2. CASE Report \/ PrintMeans \/ Done \/ UNCHANGED vars
  <2>1. UNCHANGED <<k, ignored, sumLatency, printed, latencyStats>>
    BY <1>2 DEF Report, PrintMeans, Done, loopVars, vars, measureVars
  <2>2. Printed' = Printed /\ TrueLatencies' = TrueLatencies
    BY <2>1 DEF Printed, Line, TrueLatencies, TrueLatency
  <2> QED
    BY <2>1, <2>2 DEF MeanInv, SumNear, Undisturbed
<1> QED
  BY <1>1, <1>2, MeanRow, MeanIgnored DEF MeasuringStep, Next, Tick, SetClock, Send, GiveUp

LEMMA MeansAlways == Spec => []MeansInv
<1>1. Init => MeansInv
  BY DEF Init, MeansInv
<1>2. ReportInv /\ MeansInv /\ [Next]_vars => MeansInv'
  <2> SUFFICES ASSUME ReportInv, MeansInv, [Next]_vars PROVE MeansInv'
    OBVIOUS
  <2>1. CASE PrintMeans
    BY <2>1 DEF PrintMeans, MeansInv, loopVars, Divisor
  <2>2. CASE phase = "done" /\ UNCHANGED vars
    BY <2>2 DEF MeansInv, vars, loopVars, Divisor
  <2>3. CASE phase' # "done"
    BY <2>3 DEF MeansInv
  <2> QED
    BY <2>1, <2>2, <2>3
       DEF Next, Tick, SetClock, Send, Poll, Receive, GiveUp, Measuring, Report, PrintRow,
           PrintIgnored, Done, vars, loopVars, measureVars
<1> QED
  BY <1>1, <1>2, ReportAlways, PTL DEF Spec

\* runtime.c:222, 261.  The mean is taken over the rows that were received
\* and is less than a unit off, however many packets were lost.
THEOREM MeanLatencyWithinUnit == LongTable => (Spec => []MeanWithinUnit)
<1> SUFFICES ASSUME LongTable PROVE Spec => []MeanWithinUnit
  OBVIOUS
<1>1. Init => MeanInv
  BY NothingSummed DEF Init
<1>2. ReportInv /\ MeanInv /\ [Next]_vars => MeanInv'
  BY MeanStep
<1>3. ReportInv /\ MeanInv /\ MeansInv => MeanWithinUnit
  <2> SUFFICES ASSUME ReportInv, MeanInv, MeansInv, phase = "done", Printed # {},
                      \A i \in Printed : Undisturbed(i)
               PROVE  LET error == means.latency * Resolution - TrueLatencies
                      IN  /\ means.packets = Cardinality(Printed)
                          /\ -Resolution * means.packets < error
                          /\ error < Resolution * means.packets
    BY DEF MeanWithinUnit, TrueLatencies
  <2>1. IsFiniteSet(Printed)
    BY PrintedFinite DEF ReportInv
  <2>2. Cardinality(Printed) \in Nat /\ Cardinality(Printed) # 0
    BY <2>1, FS_CardinalityType, FS_EmptySet
  <2>3. ignored \in Nat /\ trainLen \in Nat
    BY Numbers DEF ReportInv, PrintedInv, LoopTypes
  <2>4. means.latency = sumLatency /\ means.packets = trainLen - ignored /\ k = trainLen
    BY DEF MeansInv, Divisor
  <2>5. means.packets = Cardinality(Printed)
    BY <2>2, <2>3, <2>4 DEF MeanInv
  <2>6. SumNear(Cardinality(Printed))
    BY DEF MeanInv
  <2> QED
    BY <2>2, <2>4, <2>5, <2>6 DEF SumNear
<1> QED
  BY <1>1, <1>2, <1>3, ReportAlways, MeansAlways, PTL DEF Spec

-----------------------------------------------------------------------------
(***************************************************************************)
(* Stamps that neither are 0, which the loop takes for "no row yet", nor   *)
(* wrap: nobody sets the clock back to 1970 or forward by 5800 years.      *)
(***************************************************************************)
SetWithin(b) ==
  /\ \A d \in Jumps : -b <= d /\ d <= b
  /\ MaxSets * b + Resolution <= Epoch
  /\ Epoch + MaxTime + MaxSets * b < Word * Resolution

OffsetInv(b) ==
  /\ -(sets * b) <= offset /\ offset <= sets * b
  /\ \A i \in DOMAIN latencyStats :
       -(MaxSets * b) <= latencyStats[i].offset /\ latencyStats[i].offset <= MaxSets * b

LEMMA OffsetStep ==
  ASSUME NEW b \in Nat, SetWithin(b), MeasureInv, OffsetInv(b), [Next]_vars
  PROVE  OffsetInv(b)'
<1>0. /\ offset \in Int /\ sets \in Nat /\ sets <= MaxSets /\ MaxSets \in Nat
      /\ latencyStats \in [DOMAIN latencyStats -> Row]
  BY Numbers DEF MeasureInv, ClockInv, TableInv
<1>1. CASE SetClock
  <2>1. UNCHANGED latencyStats /\ sets' = sets + 1
    BY <1>1 DEF SetClock
  <2>2. PICK d \in Jumps : offset' = offset + d
    BY <1>1 DEF SetClock
  <2>3. d \in Int /\ -b <= d /\ d <= b
    BY <2>2, Numbers DEF SetWithin
  <2>4. PICK x \in Int : x = sets * b /\ sets' * b = x + b
    <3>1. (sets + 1) * b = sets * b + b /\ sets * b \in Int
      BY <1>0
    <3> QED
      BY <2>1, <3>1
  <2>5. -(sets' * b) <= offset' /\ offset' <= sets' * b
    BY <1>0, <2>2, <2>3, <2>4 DEF OffsetInv
  <2> QED
    BY <2>1, <2>5 DEF OffsetInv
<1>2. CASE Receive
  <2>1. PICK slot \in Nat, row \in Row :
          /\ row.offset = offset
          /\ latencyStats' = [i \in DOMAIN latencyStats \cup {slot} |->
                                IF i = slot THEN row ELSE latencyStats[i]]
    BY <1>2, NewRow
  <2>2. UNCHANGED <<offset, sets>>
    BY <1>2 DEF Receive
  <2>3. PICK x \in Int, y \in Int : x = sets * b /\ y = MaxSets * b /\ x <= y
    <3>1. sets * b \in Int /\ MaxSets * b \in Int /\ sets * b <= MaxSets * b
      BY <1>0
    <3> QED
      BY <3>1
  <2>4. -y <= row.offset /\ row.offset <= y
    BY <1>0, <2>1, <2>3 DEF OffsetInv
  <2>5. ASSUME NEW i \in DOMAIN latencyStats'
        PROVE  -(MaxSets * b) <= latencyStats'[i].offset /\ latencyStats'[i].offset <= MaxSets * b
    <3>1. CASE i = slot
      <4>1. latencyStats'[i] = row
        BY <2>1, <3>1
      <4> QED
        BY <2>3, <2>4, <4>1
    <3>2. CASE i # slot
      <4>1. i \in DOMAIN latencyStats /\ latencyStats'[i] = latencyStats[i]
        BY <2>1, <3>2
      <4> QED
        BY <4>1 DEF OffsetInv
    <3> QED
      BY <3>1, <3>2
  <2> QED
    BY <2>2, <2>5 DEF OffsetInv
<1>3. CASE UNCHANGED <<offset, sets, latencyStats>>
  BY <1>3 DEF OffsetInv
<1> QED
  BY <1>1, <1>2, <1>3
     DEF Next, Tick, Send, Poll, GiveUp, Report, PrintRow, PrintIgnored, PrintMeans, Done, vars,
         measureVars

LEMMA OffsetAlways == ASSUME NEW b \in Nat, SetWithin(b) PROVE Spec => []OffsetInv(b)
<1>1. Init => OffsetInv(b)
  <2> SUFFICES ASSUME Init PROVE OffsetInv(b)
    OBVIOUS
  <2>1. offset = 0 /\ sets = 0 /\ DOMAIN latencyStats = {}
    BY DEF Init
  <2> QED
    BY <2>1 DEF OffsetInv
<1>2. MeasureInv /\ OffsetInv(b) /\ [Next]_vars => OffsetInv(b)'
  BY OffsetStep
<1> QED
  BY <1>1, <1>2, MeasureAlways, PTL DEF Spec

\* The stamp of a time in range is the number of units until then.
LEMMA PlainStamp ==
  ASSUME NEW ns \in Int, Resolution <= ns, ns < Word * Resolution
  PROVE  /\ hptl_getTime(ns) \in Nat \ {0}
         /\ \E a \in 0 .. Resolution - 1 : ns = Resolution * hptl_getTime(ns) + a
<1>1. PICK u \in Int, a \in 0 .. Resolution - 1 :
        ns = Resolution * u + a /\ hptl_getTime(ns) = u % Word
  BY StampIs
<1>2. PICK R \in Nat \ {0}, W \in Nat \ {0} : R = Resolution /\ W = Word
  BY Units
<1>3. R <= R * u + a /\ R * u + a < W * R /\ 0 <= a /\ a < R
  BY <1>1, <1>2
<1>4. u > 0
  <2>1. u <= 0 => R * u <= 0
    OBVIOUS
  <2>2. R * u \in Int
    OBVIOUS
  <2> QED
    BY <1>3, <2>1, <2>2
<1>5. u < W
  <2>1. u >= W => R * W <= R * u
    OBVIOUS
  <2>2. R * W = W * R /\ R * u \in Int /\ R * W \in Int
    OBVIOUS
  <2> QED
    BY <1>3, <2>1, <2>2
<1>6. u % W = u
  BY <1>4, <1>5
<1>7. hptl_getTime(ns) = u /\ u \in Nat \ {0}
  BY <1>1, <1>2, <1>4, <1>6
<1> QED
  BY <1>1, <1>7

LEMMA RowStamp ==
  ASSUME NEW b \in Nat, SetWithin(b), MeasureInv, OffsetInv(b), NEW i \in DOMAIN latencyStats
  PROVE  /\ latencyStats[i].recvTime \in Nat \ {0} /\ latencyStats[i].recvTime < Word
         /\ \E a \in 0 .. Resolution - 1 :
              Epoch + latencyStats[i].recvAt + latencyStats[i].offset
                = Resolution * latencyStats[i].recvTime + a
<1> DEFINE row == latencyStats[i]
           ns  == Epoch + row.recvAt + row.offset
<1>1. row \in Row /\ RowOK(row) /\ row.recvTime < Word
  BY RowTimes
<1>2. PICK y \in Int : y = MaxSets * b
  BY Numbers
<1>3. -y <= row.offset /\ row.offset <= y /\ row.offset \in Int
  BY <1>1, <1>2 DEF OffsetInv, Row
<1>4. row.recvAt \in Nat /\ row.recvAt <= MaxTime
  <2>1. time \in Nat /\ time <= MaxTime /\ row.recvAt <= time /\ row.recvAt \in Nat
    BY <1>1, Numbers DEF MeasureInv, ClockInv, RowOK, Row
  <2> QED
    BY <2>1, Numbers
<1>5. PICK z \in Int : z = Word * Resolution
  BY Units
<1>6. y + Resolution <= Epoch /\ Epoch + MaxTime + y < z
  BY <1>2, <1>5 DEF SetWithin
<1>7. ns \in Int /\ Resolution <= ns /\ ns < z
  BY <1>3, <1>4, <1>6, Numbers, Units
<1>8. row.recvTime = hptl_getTime(ns)
  BY <1>1 DEF RowOK
<1> HIDE DEF ns
<1>9. /\ hptl_getTime(ns) \in Nat \ {0}
      /\ \E a \in 0 .. Resolution - 1 : ns = Resolution * hptl_getTime(ns) + a
  BY <1>5, <1>7, PlainStamp
<1> QED
  BY <1>1, <1>8, <1>9 DEF ns

-----------------------------------------------------------------------------
(***************************************************************************)
(* The times between rows.  Each row but the first is measured from the    *)
(* one printed before it.                                                  *)
(***************************************************************************)
Intervals == SumFunction([i \in Printed |-> Line(i).interval])

Follows(i, j) ==
  Line(i).interval = Double(latencyStats[i].recvTime) - Double(latencyStats[j].recvTime)

TimesInv ==
  /\ IF Printed = {}
     THEN firstTime = 0 /\ lastTime = 0
     ELSE /\ firstTime # 0 /\ lastTime # 0
          /\ \E i \in Printed :
               (\A j \in Printed : j <= i) /\ lastTime = latencyStats[i].recvTime
  /\ \A i \in Printed : Line(i).interval \in Int
  /\ Intervals = Double(lastTime) - Double(firstTime)
  /\ \A i \in Printed : (\E j \in Printed : j < i) => Follows(i, Previous(i))

LEMMA NoTimes ==
  ASSUME k = 0, firstTime = 0, lastTime = 0
  PROVE  TimesInv
<1>1. Printed = {} /\ IsFiniteSet({})
  BY NothingPrinted, FS_EmptySet
<1>2. Intervals = 0
  <2>1. [i \in Printed |-> Line(i).interval] = [i \in {} |-> 0]
    BY <1>1
  <2> QED
    BY <1>1, <2>1, TotalZero DEF Intervals
<1>3. Double(0) - Double(0) = 0
  <2>1. Double(0) \in Nat
    BY Units, DoubleNear
  <2> QED
    BY <2>1
<1> QED
  BY <1>1, <1>2, <1>3 DEF TimesInv

LEMMA TimesRow ==
  ASSUME NEW b \in Nat, SetWithin(b), ReportInv, OffsetInv(b), TimesInv, PrintRow
  PROVE  TimesInv'
<1> DEFINE row == latencyStats[k]
           v   == Interval(row)
<1>0. MeasureInv /\ PrintedInv
  BY DEF ReportInv
<1>1. /\ Prints(RowLine(row)) /\ RowLine(row).kind = "row" /\ RowLine(row).interval = v
      /\ k \in DOMAIN latencyStats
      /\ firstTime' = First(row) /\ lastTime' = row.recvTime
  BY <1>0, PrintRowPrints DEF RowLine
<1>2. row.recvTime \in Nat \ {0} /\ row.recvTime < Word
  BY <1>0, <1>1, RowStamp
<1>3. /\ Printed' = Printed \cup {k} /\ UNCHANGED latencyStats
      /\ printed'[k + 1] = RowLine(row)
      /\ \A i \in Printed : printed'[i + 1] = printed[i + 1]
  BY <1>0, <1>1, PrintsMore
<1>4. /\ IsFiniteSet(Printed) /\ k \notin Printed /\ k \in Nat
      /\ \A i \in Printed : i \in Nat /\ i < k
  BY <1>0, PrintedFinite DEF PrintedInv, LoopTypes
<1>5. /\ firstTime \in Nat /\ lastTime \in Nat
      /\ Double(firstTime) \in Nat /\ Double(lastTime) \in Nat /\ Double(row.recvTime) \in Nat
  BY <1>0, <1>2, DoubleNear DEF PrintedInv, LoopTypes
<1>6. v \in Int
  BY <1>5 DEF Interval
<1>7. printed'[k + 1].interval = v
  BY <1>1, <1>3
<1>8. Intervals' = Intervals + v
  <2> DEFINE f == [i \in Printed |-> printed[i + 1].interval]
             g == [i \in Printed' |-> printed'[i + 1].interval]
  <2>1. f \in [Printed -> Int]
    BY DEF TimesInv, Line
  <2>2. g = [y \in Printed \cup {k} |-> IF y = k THEN v ELSE f[y]]
    BY <1>3, <1>4, <1>7
  <2>3. Intervals = SumFunction(f) /\ Intervals' = SumFunction(g)
    BY DEF Intervals, Line
  <2> HIDE DEF f, g, v
  <2> QED
    BY <1>4, <1>6, <2>1, <2>2, <2>3, TotalGrowInt
<1>9. Intervals' = Double(lastTime') - Double(firstTime')
  <2>1. Intervals = Double(lastTime) - Double(firstTime)
    BY DEF TimesInv
  <2>2. CASE lastTime # 0
    <3>1. firstTime' = firstTime /\ v = Double(row.recvTime) - Double(lastTime)
      BY <1>1, <2>2 DEF First, Interval
    <3> QED
      BY <1>1, <1>5, <1>8, <2>1, <3>1
  <2>3. CASE lastTime = 0
    <3>1. firstTime' = row.recvTime /\ v = 0 /\ firstTime = 0
      BY <1>1, <2>3 DEF First, Interval, TimesInv
    <3>2. PICK x \in Nat, y \in Nat : x = Double(0) /\ y = Double(row.recvTime)
      BY <1>5, <2>3
    <3> QED
      BY <1>1, <1>8, <2>1, <2>3, <3>1, <3>2
  <2> QED
    BY <2>2, <2>3
<1>10. firstTime' # 0 /\ lastTime' # 0 /\ lastTime' = latencyStats'[k].recvTime
  <2>1. firstTime # 0 \/ lastTime = 0
    BY DEF TimesInv
  <2> QED
    BY <1>1, <1>2, <1>3, <2>1 DEF First
<1>11. ASSUME NEW i \in Printed' PROVE printed'[i + 1].interval \in Int
  BY <1>3, <1>6, <1>7 DEF TimesInv, Line
<1>12. ASSUME NEW i \in Printed', \E j \in Printed' : j < i
       PROVE  printed'[i + 1].interval
                = Double(latencyStats[i].recvTime)
                    - Double(latencyStats[Max({j \in Printed' : j < i})].recvTime)
  <2>1. CASE i = k
    <3>1. {j \in Printed' : j < i} = Printed
      <4>1. PICK P : P = Printed /\ Printed' = P \cup {k} /\ \A j \in P : j < k
        BY <1>3, <1>4
      <4>2. {j \in P \cup {k} : j < k} = P
        BY <1>4, <4>1
      <4> QED
        BY <2>1, <4>1, <4>2
    <3>2. Printed # {}
      BY <1>12, <3>1
    <3>3. PICK l \in Printed : (\A j \in Printed : j <= l) /\ lastTime = latencyStats[l].recvTime
      BY <3>2 DEF TimesInv
    <3>4. Max(Printed) = l
      <4>1. PICK P : P = Printed
        OBVIOUS
      <4>2. l \in P /\ \A j \in P : j \in Nat /\ j <= l
        BY <1>4, <3>3, <4>1
      <4>3. Max(P) \in P /\ \A j \in P : j <= Max(P)
        BY <4>2 DEF Max
      <4>4. Max(P) = l
        BY <4>2, <4>3
      <4> QED
        BY <4>1, <4>4
    <3>5. lastTime # 0
      BY <3>2 DEF TimesInv
    <3> QED
      BY <1>7, <2>1, <3>1, <3>3, <3>4, <3>5 DEF Interval
  <2>2. CASE i \in Printed
    <3>1. {j \in Printed' : j < i} = {j \in Printed : j < i}
      BY <1>3, <1>4, <2>2
    <3>2. \E j \in Printed : j < i
      BY <1>12, <3>1
    <3>3. Follows(i, Previous(i))
      BY <2>2, <3>2 DEF TimesInv
    <3> QED
      BY <1>3, <2>2, <3>1, <3>3 DEF Follows, Previous, Line
  <2> QED
    BY <1>3, <2>1, <2>2
<1>13. k \in Printed' /\ \A j \in Printed' : j <= k
  BY <1>3, <1>4
<1>14. IF Printed' = {}
       THEN firstTime' = 0 /\ lastTime' = 0
       ELSE /\ firstTime' # 0 /\ lastTime' # 0
            /\ \E i \in Printed' :
                 (\A j \in Printed' : j <= i) /\ lastTime' = latencyStats'[i].recvTime
  BY <1>10, <1>13
<1> QED
  BY <1>3, <1>9, <1>11, <1>12, <1>14 DEF TimesInv, Line, Follows, Previous

LEMMA TimesStep ==
  ASSUME NEW b \in Nat, SetWithin(b), ReportInv, OffsetInv(b), TimesInv, [Next]_vars
  PROVE  TimesInv'
<1>1. CASE MeasuringStep
  <2>1. (k = 0 /\ firstTime = 0 /\ lastTime = 0)'
    BY <1>1 DEF MeasuringStep, Measuring, Poll, Receive, loopVars, ReportInv, PrintedInv
  <2> QED
    BY <2>1, NoTimes, PTL
<1>2. CASE Report \/ PrintMeans \/ Done \/ UNCHANGED vars
  <2>1. UNCHANGED <<k, firstTime, lastTime, printed, latencyStats>>
    BY <1>2 DEF Report, PrintMeans, Done, loopVars, vars, measureVars
  <2>2. Printed' = Printed /\ Intervals' = Intervals
    BY <2>1 DEF Printed, Line, Intervals
  <2> QED
    BY <2>1, <2>2 DEF TimesInv, Follows, Previous, Line
<1>3. CASE PrintIgnored
  <2>1. Prints([kind |-> "ignored"]) /\ UNCHANGED <<firstTime, lastTime>> /\ PrintedInv
    BY <1>3, PrintIgnoredPrints DEF ReportInv
  <2>2. /\ Printed' = Printed /\ UNCHANGED latencyStats
        /\ \A i \in Printed : printed'[i + 1] = printed[i + 1]
    BY <2>1, PrintsMore
  <2>3. Intervals' = Intervals
    BY <2>2 DEF Intervals, Line
  <2>4. \A i \in Printed : Follows(i, Previous(i)) => Follows(i, Previous(i))'
    BY <2>2 DEF Follows, Previous, Line
  <2> QED
    BY <2>1, <2>2, <2>3, <2>4 DEF TimesInv, Line
<1> QED
  BY <1>1, <1>2, <1>3, TimesRow DEF MeasuringStep, Next, Tick, SetClock, Send, GiveUp

LEMMA TimesAlways == ASSUME NEW b \in Nat, SetWithin(b) PROVE Spec => []TimesInv
<1>1. Init => TimesInv
  BY NoTimes DEF Init
<1>2. ReportInv /\ OffsetInv(b) /\ TimesInv /\ [Next]_vars => TimesInv'
  BY TimesStep
<1> QED
  BY <1>1, <1>2, ReportAlways, OffsetAlways, PTL DEF Spec

\* runtime.c:242, 259.  What the bandwidths of the rows divide by adds up to
\* what the mean bandwidth divides by, in spite of rounding and ignored rows.
THEOREM IntervalsSum == ASSUME NEW b \in Nat, SetWithin(b) PROVE Spec => []IntervalsAddUp
<1>1. TimesInv /\ MeansInv => IntervalsAddUp
  BY DEF TimesInv, MeansInv, IntervalsAddUp, Intervals
<1> QED
  BY <1>1, TimesAlways, MeansAlways, PTL

\* The error of a difference of two stamps that were rounded.
LEMMA RoundedDifference ==
  ASSUME NEW R \in Nat \ {0}, NEW u \in Nat, NEW v \in Nat, NEW p \in Nat, NEW q \in Nat,
         NEW a \in 0 .. R - 1, NEW c \in 0 .. R - 1, NEW w \in Nat,
         2 * (p - u) <= w, 2 * (u - p) <= w, 2 * (q - v) <= w, 2 * (v - q) <= w
  PROVE  /\ -((w + 1) * R) < (q - p) * R - ((R * v + c) - (R * u + a))
         /\ (q - p) * R - ((R * v + c) - (R * u + a)) < (w + 1) * R
<1>1. PICK e \in Int : e = (q - v) - (p - u) /\ -w <= e /\ e <= w
  OBVIOUS
<1>2. (q - p) * R - ((R * v + c) - (R * u + a)) = R * e - (c - a)
  <2>1. q - p = e + (v - u)
    BY <1>1
  <2>2. (e + (v - u)) * R = e * R + (v - u) * R /\ (v - u) * R = v * R - u * R
    OBVIOUS
  <2>3. e * R = R * e /\ v * R = R * v /\ u * R = R * u
    OBVIOUS
  <2>4. PICK x \in Int, y \in Int, z \in Int : x = R * e /\ y = R * v /\ z = R * u
    OBVIOUS
  <2> QED
    BY <2>1, <2>2, <2>3, <2>4
<1>3. (w + 1) * R = R * w + R
  OBVIOUS
<1>4. R * e <= R * w /\ -(R * w) <= R * e
  <2>1. R * e <= R * w
    BY <1>1
  <2>2. R * (-w) <= R * e /\ R * (-w) = -(R * w)
    BY <1>1
  <2> QED
    BY <2>1, <2>2
<1>5. PICK x \in Int, y \in Int : x = R * e /\ y = R * w
  OBVIOUS
<1>6. -R < c - a /\ c - a < R
  OBVIOUS
<1> QED
  BY <1>2, <1>3, <1>4, <1>5, <1>6

\* runtime.c:242.  The time printed between two rows is off by less than the
\* last bit of the mantissa and a unit of the clock.
THEOREM IntervalsWithinUlp == ASSUME NEW b \in Nat, SetWithin(b) PROVE Spec => []IntervalWithinUlp
<1>1. ASSUME ReportInv, OffsetInv(b), TimesInv,
             NEW i \in Printed, \E j \in Printed : j < i,
             latencyStats[i].offset = latencyStats[Previous(i)].offset
      PROVE  LET row   == latencyStats[i]
                 last  == latencyStats[Previous(i)]
                 error == Line(i).interval * Resolution - (row.recvAt - last.recvAt)
                 bound == (Ulp(row.recvTime) + 1) * Resolution
             IN  -bound < error /\ error < bound
  <2>0. MeasureInv /\ PrintedInv
    BY <1>1 DEF ReportInv
  <2>1. Previous(i) \in Printed /\ Previous(i) < i
    <3>1. PICK P \in SUBSET Nat : P = {j \in Printed : j < i} /\ IsFiniteSet(P)
      <4>1. {j \in Printed : j < i} \in SUBSET Nat
        BY <2>0, PrintedFinite
      <4>2. IsFiniteSet({j \in Printed : j < i})
        BY <2>0, PrintedFinite, FS_Subset
      <4> QED
        BY <4>1, <4>2
    <3>2. i \in Nat /\ \A j \in P : j <= i
      BY <2>0, <3>1, PrintedFinite
    <3>3. \E x \in P : \A y \in P : x >= y
      <4> DEFINE T == {i - j : j \in P}
      <4>1. T \in SUBSET Nat /\ T # {}
        BY <1>1, <3>1, <3>2
      <4>2. PICK t \in T : \A y \in T : t <= y
        <5> HIDE DEF T
        <5> QED
          BY <4>1, Smallest
      <4>3. PICK x \in P : t = i - x
        BY <4>2
      <4>4. ASSUME NEW y \in P PROVE x >= y
        <5>1. i - x <= i - y
          BY <4>2, <4>3
        <5> QED
          BY <3>2, <5>1
      <4> QED
        BY <4>4
    <3>4. Max(P) \in P
      BY <3>3 DEF Max
    <3> QED
      BY <3>1, <3>4 DEF Previous
  <2>2. PICK j \in Printed : j = Previous(i) /\ j < i
    BY <2>1
  <2>3. /\ i \in DOMAIN latencyStats /\ latencyStats[i] \in Row
        /\ j \in DOMAIN latencyStats /\ latencyStats[j] \in Row
    BY <1>1, PrintedRows
  <2>4. latencyStats[j].recvAt <= latencyStats[i].recvAt
    BY <2>0, <2>2, <2>3 DEF MeasureInv, TableInv
  <2>5. PICK R \in Nat \ {0} : R = Resolution
    BY Units
  <2>6. PICK v \in Nat, c \in 0 .. R - 1 :
          /\ v = latencyStats[i].recvTime /\ v < Word
          /\ Epoch + latencyStats[i].recvAt + latencyStats[i].offset = R * v + c
    BY <1>1, <2>0, <2>3, <2>5, RowStamp
  <2>7. PICK u \in Nat, a \in 0 .. R - 1 :
          /\ u = latencyStats[j].recvTime /\ u < Word
          /\ Epoch + latencyStats[j].recvAt + latencyStats[j].offset = R * u + a
    BY <1>1, <2>0, <2>3, <2>5, RowStamp
  <2>8. PICK m \in Int, n \in Int, o \in Int :
          /\ m = latencyStats[i].recvAt /\ n = latencyStats[j].recvAt
          /\ o = latencyStats[i].offset /\ o = latencyStats[j].offset
    BY <1>1, <2>2, <2>3 DEF Row
  <2>9. PICK y \in Int, z \in Int : y = R * v /\ z = R * u
    OBVIOUS
  <2>10. m - n = (R * v + c) - (R * u + a) /\ z + a <= y + c
    <3>1. PICK E \in Nat : E = Epoch
      BY Numbers
    <3>2. E + m + o = y + c /\ E + n + o = z + a /\ n <= m
      BY <2>4, <2>6, <2>7, <2>8, <2>9, <3>1
    <3>3. m - n = (y + c) - (z + a) /\ z + a <= y + c
      BY <3>2
    <3> QED
      BY <2>9, <3>3
  <2>11. u <= v
    <3>1. u > v => R * u >= R * (v + 1)
      OBVIOUS
    <3>2. R * (v + 1) = R * v + R
      OBVIOUS
    <3>3. u > v => z >= y + R
      BY <2>9, <3>1, <3>2
    <3> QED
      BY <2>9, <2>10, <3>3
  <2>12. PICK w \in Nat, x \in Nat : w = Ulp(v) /\ x = Ulp(u) /\ x <= w
    BY <2>6, <2>7, <2>11, UlpGrows, UlpIs
  <2>13. PICK p \in Nat, q \in Nat :
           /\ p = Double(u) /\ q = Double(v)
           /\ 2 * (p - u) <= x /\ 2 * (u - p) <= x /\ 2 * (q - v) <= w /\ 2 * (v - q) <= w
    BY <2>6, <2>7, <2>12, DoubleNear
  <2>14. 2 * (p - u) <= w /\ 2 * (u - p) <= w
    BY <2>12, <2>13
  <2>15. /\ -((w + 1) * R) < (q - p) * R - ((R * v + c) - (R * u + a))
         /\ (q - p) * R - ((R * v + c) - (R * u + a)) < (w + 1) * R
    BY <2>13, <2>14, RoundedDifference
  <2>16. Line(i).interval = q - p
    BY <1>1, <2>2, <2>6, <2>7, <2>13 DEF TimesInv, Follows
  <2> QED
    BY <2>2, <2>5, <2>6, <2>8, <2>10, <2>12, <2>15, <2>16
<1>2. ReportInv /\ OffsetInv(b) /\ TimesInv => IntervalWithinUlp
  BY <1>1 DEF IntervalWithinUlp
<1> QED
  BY <1>2, ReportAlways, OffsetAlways, TimesAlways, PTL
=============================================================================
