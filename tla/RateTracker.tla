---------------------------- MODULE RateTracker ----------------------------
(***************************************************************************)
(* internal/stats/rate.go: events counted in a ring of buckets, each       *)
(* bucketSize long, and summed up over a sliding window.  The tracker's    *)
(* mutex makes Record, Total, Rate and Reset one step each; Record is      *)
(* RecordEvents here.  Time is a number of ticks and never goes back; a    *)
(* bucket is reset only when Record comes to it again.                     *)
(***************************************************************************)
EXTENDS Integers, Functions

CONSTANTS
  Windows, Sizes,  \* what NewRateTracker may be called with
  Minute, Second,  \* its defaults, in ticks
  Epoch,           \* ticks from the zero time to 1970, where UnixNano begins
  Starts,          \* when it may be called
  MaxTime,         \* bound of the runs: the last tick
  MaxBurst         \* bound of the runs: events in one tick

ASSUME RateAssumption ==
  /\ Windows \subseteq Int /\ Sizes \subseteq Int
  /\ Minute \in Nat \ {0} /\ Second \in Nat \ {0} /\ Second <= Minute
  /\ Epoch \in Nat
  /\ Starts \subseteq 0 .. MaxTime
  /\ MaxTime \in Nat /\ MaxBurst \in Nat

VARIABLES
  window, bucketSize,  \* rt.window, rt.bucketSize; they never change
  buckets,             \* rt.buckets
  now,                 \* the clock
  born,                \* history: when the tracker was made or last reset
  events               \* history: how many events each tick has had since

rateVars == <<window, bucketSize, buckets, now, born, events>>

-----------------------------------------------------------------------------

NumBuckets(w, b) == IF w \div b < 1 THEN 1 ELSE w \div b

Ring == 0 .. NumBuckets(window, bucketSize) - 1

AllAt(time) == [i \in Ring |-> [start |-> time, count |-> 0]]

NoEvents == [t \in 0 .. MaxTime |-> 0]

\* NewRateTracker puts defaults in the place of what makes no sense.
RateInit ==
  /\ \E w \in Windows, b \in Sizes :
       /\ window = IF w <= 0 THEN Minute ELSE w
       /\ bucketSize = IF b <= 0 \/ b > window THEN Second ELSE b
  /\ now \in Starts
  /\ born = now
  /\ buckets = AllAt(now)
  /\ events = NoEvents

bucketIndex == (now \div bucketSize) % NumBuckets(window, bucketSize)

\* Mutant: the bucket is kept for as long as the window.
ExpiredWithWindow(b) == now - b.start >= window

\* A bucket that began a bucketSize ago has expired.
Expired(b) == now - b.start >= bucketSize

\* Truncate counts from the zero time, and bucketIndex from 1970.
Truncated(t) == ((t + Epoch) \div bucketSize) * bucketSize - Epoch

\* Mutant: the old count stays.
RenewedStart(b, n) == [start |-> Truncated(now), count |-> b.count + n]

Renewed(b, n) == [start |-> Truncated(now), count |-> n]

RecordEvents(n) ==
  /\ events[now] + n <= MaxBurst
  /\ LET b == buckets[bucketIndex]
     IN buckets' = [buckets EXCEPT ![bucketIndex] =
          IF Expired(b) THEN Renewed(b, n) ELSE [b EXCEPT !.count = @ + n]]
  /\ events' = [events EXCEPT ![now] = @ + n]
  /\ UNCHANGED <<window, bucketSize, now, born>>

Reset ==
  /\ buckets' = AllAt(now)
  /\ born' = now
  /\ events' = NoEvents
  /\ UNCHANGED <<window, bucketSize, now>>

Tick ==
  /\ now < MaxTime
  /\ now' = now + 1
  /\ UNCHANGED <<window, bucketSize, buckets, born, events>>

RateNext == (\E n \in 1 .. MaxBurst : RecordEvents(n)) \/ Reset \/ Tick

RateSpec == RateInit /\ [][RateNext]_rateVars

-----------------------------------------------------------------------------

InWindow == {i \in Ring : buckets[i].start >= now - window}

Total == SumFunction([i \in InWindow |-> buckets[i].count])

\* Mutant: a bucket takes part in the divisor only when it is full.
ElapsedWhole(b) == IF now - b.start >= bucketSize THEN bucketSize ELSE 0

Elapsed(b) == IF now - b.start > bucketSize THEN bucketSize ELSE now - b.start

\* Rate is Total divided by this, or 0 if this is 0.
activeDuration == SumFunction([i \in InWindow |-> Elapsed(buckets[i])])

-----------------------------------------------------------------------------
(* Properties *)

RateTypeOK ==
  /\ window \in Nat \ {0} /\ bucketSize \in Nat \ {0}
  /\ buckets \in [Ring -> [start : -bucketSize .. now, count : Nat]]
  /\ now \in 0 .. MaxTime /\ born \in 0 .. now
  /\ events \in [0 .. MaxTime -> 0 .. MaxBurst]

EventsIn(ticks) == SumFunctionOnSet(events, ticks)

\* No event is counted after it has left the window: what stays in a bucket
\* that Record has not met again is not in Total.
NothingStale == Total <= EventsIn({t \in 0 .. now : t >= now - window})

\* The ticks of the bucket that was current when the tracker was made, and
\* those a bucketSize later or more whose bucket begins where Truncate says.
\* All others may be in a bucket that expires before the index moves on.
WellPlaced ==
  {t \in born .. now :
     \/ t \div bucketSize = born \div bucketSize
     \/ t >= born + bucketSize /\ Truncated(t) >= (t \div bucketSize) * bucketSize}

\* What is younger than all buckets but one is not lost, whether the window is
\* a multiple of the bucket size or not: the ring comes round no sooner.
KeepsRecent ==
  bucketSize <= window =>
    EventsIn({t \in WellPlaced :
                t >= now - (NumBuckets(window, bucketSize) - 1) * bucketSize}) <= Total

\* What Rate divides by is never more than the window, idle buckets or new
\* ones; nor so little that Rate exceeds the busiest tick of the window, but
\* for the events of this very tick, which no time has passed for yet.  If it
\* is 0, and Rate with it, only those are counted.
RateBounded ==
  /\ activeDuration <= window
  /\ \A peak \in 0 .. MaxBurst :
       (\A t \in 0 .. now : t >= now - window => events[t] <= peak)
         => Total <= peak * activeDuration + events[now]

-----------------------------------------------------------------------------
(* What the documentation says and the code does not do *)

\* rate.go: "Total returns the sum of all events in the current window", up to
\* the granularity of a bucket.
TotalIsComplete ==
  window % bucketSize = 0 =>
    EventsIn({t \in born .. now : t > now - (window - bucketSize)}) <= Total

\* rate.go: "If bucketSize > window or either is <= 0, sensible defaults are
\* applied": a bucket fits into the window.
SensibleDefaults == bucketSize <= window

\* rate.go: "Rate returns the average events per second over the configured
\* window": once that has passed, it is Total divided by the window.
RateIsAverage ==
  now - born >= window /\ Total > 0 => activeDuration > window - 2 * bucketSize

=============================================================================
