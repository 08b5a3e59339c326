--------------------------- MODULE LatencyReport ---------------------------
(***************************************************************************)
(* The numbers of the report: the clock of HPTL as the Makefile builds it  *)
(* (HPTL_ONLYLINUXAPI), the stamps the transmitter and the receiver take   *)
(* from it, and the loop of app_lcore_io_rx that prints the table; the one *)
(* of app_lcore_io_rx_sts computes the same.                               *)
(*                                                                         *)
(* The clock is CLOCK_REALTIME, which somebody else may set at any moment. *)
(* A stamp is a number of units of 1/Precision seconds in 64 bits; a       *)
(* latency is a difference of stamps in 64 bits; the time between two rows *)
(* is a difference of stamps rounded to double.                            *)
(*                                                                         *)
(* time, the fields sentAt, recvAt, offset and jump of a row, and printed  *)
(* are only there for the properties: what happened, and what was printed. *)
(***************************************************************************)
EXTENDS Integers, Sequences, FiniteSetsExt

CONSTANTS
  Radix, NsDigits,  \* a second has Radix^NsDigits nanoseconds: 10 and 9
  precision,     \* of hptl_config, 8 in app_init
  WordBits,      \* 64
  Mantissa,      \* bits of the mantissa of a double, 53
  Epoch,         \* what the clock shows at first, in nanoseconds
  trainLen,      \* rows of the table
  BurstRx,       \* burst_size_io_rx_read
  MaxFlying,     \* bound: packets on their way
  MaxTime,       \* bound: nanoseconds the measurement takes
  Jumps,         \* by how much the clock may be set
  MaxSets        \* bound: how often

\* The powers of b, one factor after the other.
Power(b) == LET p[n \in Nat] == IF n = 0 THEN 1 ELSE b * p[n - 1] IN p

NsPerSec == Power(Radix)[NsDigits]
Word     == Power(2)[WordBits]

ASSUME ReportAssumption ==
  /\ Radix \in Nat \ {0, 1} /\ NsDigits \in Nat
  /\ precision \in 0 .. NsDigits
  /\ WordBits \in Nat \ {0} /\ Mantissa \in Nat \ {0}
  /\ Epoch \in Nat \ {0} /\ trainLen \in Nat \ {0} /\ BurstRx \in Nat \ {0}
  /\ MaxFlying \in Nat /\ MaxTime \in Nat /\ MaxSets \in Nat /\ Jumps \subseteq Int

VARIABLES
  time,          \* nanoseconds since the measurement began
  offset,        \* by how much the clock has been set
  sets,          \* how often
  flying,        \* the packets on their way, in order
  counter,       \* static counter of app_lcore_io_rx
  latencyStats,  \* the slots with recved = 1
  continueRX,
  phase,         \* "measure", "record" between a poll and its record, "report", "done"
  k, ignored, sumLatency, firstTime, lastTime,   \* variables of the loop
  printed,       \* the lines of the table printed so far
  means          \* the divisors and dividends of the last two lines

measureVars == <<time, offset, sets, flying, counter, latencyStats, continueRX>>
loopVars    == <<k, ignored, sumLatency, firstTime, lastTime>>
vars        == <<measureVars, phase, loopVars, printed, means>>

-----------------------------------------------------------------------------
\* hptl.c.

\* hptl_initclk: one factor for each digit.
Precision == Power(Radix)[precision]

\* hptl_getclkres: nanoseconds in a unit.
Resolution == NsPerSec \div Precision

\* clock_gettime, when the clock shows ns.
Timespec(ns) == [tv_sec |-> ns \div NsPerSec, tv_nsec |-> ns % NsPerSec]

SecondsAlone(ns) ==      \* mutant: the seconds are not scaled
  Timespec(ns).tv_nsec \div Resolution + Timespec(ns).tv_sec

\* hptl_getTime.
hptl_getTime(ns) ==
  (Timespec(ns).tv_nsec \div Resolution + Timespec(ns).tv_sec * Precision) % Word

\* What hptl_get returns now.
hptl_get == hptl_getTime(Epoch + time + offset)

-----------------------------------------------------------------------------
\* Conversion to double: to the nearest number with a mantissa of Mantissa
\* bits, ties to even.  Stamps have 58 bits.

Ulp(u) ==
  Min({Power(2)[e] : e \in {f \in 0 .. WordBits : u < Power(2)[Mantissa + f]}})

Double(u) ==
  LET ulp   == Ulp(u)
      above == 2 * (u % ulp) > ulp
      tie   == 2 * (u % ulp) = ulp /\ (u \div ulp) % 2 = 1
  IN  (u \div ulp) * ulp + (IF above \/ tie THEN ulp ELSE 0)

-----------------------------------------------------------------------------
Init ==
  /\ time = 0 /\ offset = 0 /\ sets = 0
  /\ flying = <<>>
  /\ counter = 0
  /\ latencyStats = [i \in {} |-> 0]
  /\ continueRX = TRUE
  /\ phase = "measure"
  /\ k = 0 /\ ignored = 0 /\ sumLatency = 0 /\ firstTime = 0 /\ lastTime = 0
  /\ printed = <<>>
  /\ means = [interval |-> 0, latency |-> 0, packets |-> 0]

Measuring == phase \in {"measure", "record"} /\ UNCHANGED <<phase, loopVars, printed, means>>

Tick ==
  /\ Measuring
  /\ time < MaxTime
  /\ time' = time + 1
  /\ UNCHANGED <<offset, sets, flying, counter, latencyStats, continueRX>>

\* Somebody sets the clock.
SetClock ==
  /\ Measuring
  /\ sets < MaxSets
  /\ sets' = sets + 1
  /\ \E d \in Jumps : offset' = offset + d
  /\ UNCHANGED <<time, flying, counter, latencyStats, continueRX>>

\* The stamp of app_lcore_io_tx.  A packet that gets lost is as if it had not
\* been sent: the receiver only counts what arrives.
Send ==
  /\ Measuring
  /\ Len(flying) < MaxFlying
  /\ flying' = Append(flying, [sentTime |-> hptl_get, at |-> time, offset |-> offset])
  /\ UNCHANGED <<time, offset, sets, counter, latencyStats, continueRX>>

\* The receiver finds continueRX at 1 and has polled a burst of n packets, of
\* which it records the last one.
\* Bound: no burst behind the end of the table, where the loop does not look.
Poll(n) ==
  /\ phase = "measure"
  /\ continueRX
  /\ counter < trainLen
  /\ flying' = SubSeq(flying, n, Len(flying))
  /\ counter' = counter + n - 1
  /\ phase' = "record"
  /\ UNCHANGED <<time, offset, sets, latencyStats, continueRX, loopVars, printed, means>>

\* It records that packet, even if continueRX has been cleared since.
Receive ==
  /\ phase = "record" /\ flying # <<>>
  /\ LET f   == Head(flying)
         row == [sentTime |-> f.sentTime, recvTime |-> hptl_get,
                 sentAt |-> f.at, recvAt |-> time,
                 offset |-> offset, jump |-> offset - f.offset]
     IN  latencyStats' = [i \in DOMAIN latencyStats \cup {counter} |->
                            IF i = counter THEN row ELSE latencyStats[i]]
  /\ flying' = Tail(flying)
  /\ counter' = counter + 1
  /\ continueRX' = (continueRX /\ counter' # trainLen)
  /\ phase' = "measure"
  /\ UNCHANGED <<time, offset, sets, loopVars, printed, means>>

\* The transmitter has waited long enough.
GiveUp ==
  /\ Measuring
  /\ continueRX' = FALSE
  /\ UNCHANGED <<time, offset, sets, flying, counter, latencyStats>>

\* The receiver polls and finds continueRX at 0.
Report ==
  /\ phase = "measure"
  /\ ~continueRX
  /\ phase' = "report"
  /\ UNCHANGED <<measureVars, loopVars, printed, means>>

-----------------------------------------------------------------------------
\* The loop over the table.

LatencySwapped(row) == (row.sentTime - row.recvTime) % Word     \* mutant: swapped

\* currentLatency, an unsigned difference.
Latency(row) == (row.recvTime - row.sentTime) % Word

IntervalFromFirst(row) ==      \* mutant: since the first row
  IF lastTime # 0 THEN Double(row.recvTime) - Double(firstTime) ELSE 0

\* The time since the last row, which insta-BandWidth divides by.
Interval(row) == IF lastTime # 0 THEN Double(row.recvTime) - Double(lastTime) ELSE 0

Sum(row) == (sumLatency + Latency(row)) % Word

FirstAlways(row) == row.recvTime                  \* mutant: every row is the first

First(row) == IF lastTime # 0 THEN firstTime ELSE row.recvTime

PrintRow ==
  /\ phase = "report" /\ k < trainLen
  /\ k \in DOMAIN latencyStats
  /\ LET row == latencyStats[k]
     IN  /\ printed' = Append(printed, [kind |-> "row", latency |-> Latency(row),
                                        interval |-> Interval(row)])
         /\ sumLatency' = Sum(row)
         /\ firstTime' = First(row)
         /\ lastTime' = row.recvTime
  /\ k' = k + 1
  /\ UNCHANGED <<measureVars, phase, ignored, means>>

PrintIgnored ==
  /\ phase = "report" /\ k < trainLen
  /\ k \notin DOMAIN latencyStats
  /\ printed' = Append(printed, [kind |-> "ignored"])
  /\ ignored' = ignored + 1
  /\ k' = k + 1
  /\ UNCHANGED <<measureVars, phase, sumLatency, firstTime, lastTime, means>>

DividedByAll == trainLen          \* mutant: ignored rows count

\* What Mean-Latency divides by.
Divisor == trainLen - ignored

\* The divisors may be 0, in which case nan or inf is printed.
PrintMeans ==
  /\ phase = "report" /\ k = trainLen
  /\ means' = [interval |-> Double(lastTime) - Double(firstTime),
               latency  |-> sumLatency,
               packets  |-> Divisor]
  /\ phase' = "done"
  /\ UNCHANGED <<measureVars, loopVars, printed>>

-----------------------------------------------------------------------------
\* exit(0).
Done == phase = "done" /\ UNCHANGED vars

Next ==
  \/ Tick \/ SetClock \/ Send
  \/ \E n \in 1 .. Min({BurstRx, Len(flying)}) : Poll(n)
  \/ Receive \/ GiveUp \/ Report
  \/ PrintRow \/ PrintIgnored \/ PrintMeans
  \/ Done

Spec == Init /\ [][Next]_vars

-----------------------------------------------------------------------------
\* What has been printed of slot i.
Line(i) == printed[i + 1]

\* The slots of the table that have been printed as rows.
Printed == {i \in 0 .. k - 1 : Line(i).kind = "row"}

Undisturbed(i) == latencyStats[i].jump = 0

TrueLatency(i) == latencyStats[i].recvAt - latencyStats[i].sentAt

(***************************************************************************)
(* A printed latency, in units of the clock, is less than one unit off the *)
(* true one, wherever the two stamps fall between seconds and units, if    *)
(* the clock shows at the end what it would have shown without being set   *)
(* (hptl.c:307, runtime.c:220).                                            *)
(***************************************************************************)
LatencyWithinUnit ==
  \A i \in Printed : Undisturbed(i) =>
    LET error == Line(i).latency * Resolution - TrueLatency(i)
    IN  -Resolution < error /\ error < Resolution

\* The unsigned difference wraps, and a latency of some centuries is printed,
\* only if the clock has been set back by more than the latency.
WrapsOnlyBackwards ==
  \A i \in Printed : Line(i).latency >= Word \div 2 =>
    TrueLatency(i) + latencyStats[i].jump < 0

(***************************************************************************)
(* The mean latency is the mean of the rows that were received, and so off *)
(* by less than a unit: lost packets do not shift it (runtime.c:222, 261). *)
(***************************************************************************)
MeanWithinUnit ==
  phase = "done" /\ Printed # {} /\ (\A i \in Printed : Undisturbed(i)) =>
    LET error == means.latency * Resolution - SumFunction([i \in Printed |-> TrueLatency(i)])
    IN  /\ means.packets = Cardinality(Printed)
        /\ -Resolution * means.packets < error /\ error < Resolution * means.packets

(***************************************************************************)
(* The time between two rows loses bits when the stamps become doubles;    *)
(* the error is bounded by the last bit of the mantissa (runtime.c:242).   *)
(***************************************************************************)
Previous(i) == Max({j \in Printed : j < i})

IntervalWithinUlp ==
  \A i \in Printed : (\E j \in Printed : j < i) =>
    LET row   == latencyStats[i]
        last  == latencyStats[Previous(i)]
        error == Line(i).interval * Resolution - (row.recvAt - last.recvAt)
        bound == (Ulp(row.recvTime) + 1) * Resolution
    IN  row.offset = last.offset => -bound < error /\ error < bound

(***************************************************************************)
(* The mean bandwidth is taken over exactly the times between the rows:    *)
(* what the rows' bandwidths divide by adds up to what the mean divides    *)
(* by, in spite of the rounding and of ignored rows (runtime.c:242, 259).  *)
(***************************************************************************)
IntervalsAddUp ==
  phase = "done" =>
    means.interval = SumFunction([i \in Printed |-> Line(i).interval])
=============================================================================
