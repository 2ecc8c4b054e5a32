------------------------------ MODULE Counting ------------------------------
(***************************************************************************)
(* internal/counting: filters of m packed counters, so that items can be   *)
(* removed.  Every method holds the filter's lock from start to end (for   *)
(* the order in which Merge takes two, see MergeLocks), so a call is one   *)
(* step; one that returns an error changes nothing and is not a step.      *)
(* Packing is abstracted: a counter keeps the low counterBits bits of what *)
(* is written to it.                                                       *)
(***************************************************************************)
EXTENDS BloomFilter, FiniteSets, Functions

CONSTANTS
  CF,           \* the *CountingFilters of a program, all of one shape
  M, K,         \* their m and k
  CounterBits,  \* bits per counter: 1 to 8
  MaxInt32,     \* 2^31 - 1 in the program: the greatest count a snapshot can hold
  MaxItems      \* bound of the runs: the items in a filter, and its count

ASSUME CountingAssumption ==
  /\ M \in Nat \ {0}
  /\ K \in Nat \ {0}
  /\ CounterBits \in 1 .. 8
  /\ MaxInt32 \in Nat
  /\ MaxItems \in Nat

VARIABLES
  counters,  \* the counter at each position
  count,     \* cf.count
  net,       \* history: how often each item was added more than removed
  clamped,   \* history: a merge has cut a sum
  cut        \* history: a snapshot has cut the count

vars == <<counters, count, net, clamped, cut>>

MaxCount == 2 ^ CounterBits - 1

TypeOK ==
  /\ counters \in [CF -> [0 .. M - 1 -> 0 .. MaxCount]]
  /\ count \in [CF -> Int]
  /\ net \in [CF -> [Item -> Int]]
  /\ clamped \in [CF -> BOOLEAN] /\ cut \in [CF -> BOOLEAN]

\* setCounter: what is left of a value in CounterBits bits.
Packed(v) == v % (MaxCount + 1)

\* How often the position is among the k hashes of data.
Multiplicity(data, pos) ==
  Cardinality({i \in 0 .. K - 1 : Hash(data, i, M) = pos})

Test(f, data) == \A pos \in Positions(data, K, M) : counters[f][pos] > 0

Zero == [pos \in 0 .. M - 1 |-> 0]

Init ==
  /\ counters = [f \in CF |-> Zero]
  /\ count = [f \in CF |-> 0]
  /\ net = [f \in CF |-> [x \in Item |-> 0]]
  /\ clamped = [f \in CF |-> FALSE] /\ cut = [f \in CF |-> FALSE]

\* The bound of the runs, for a filter with more items, or fewer.
Bounded(f, items, n) ==
  /\ SumFunction(net[f]) + items \in -MaxItems .. MaxItems
  /\ count[f] + n \in -MaxItems .. MaxItems

\* Mutant: the check for overflow is left out.
NoOverflowCheck(f, data) == TRUE

\* A position that occurs twice is checked twice with the same value.
NoOverflow(f, data) == \A pos \in Positions(data, K, M) : counters[f][pos] < MaxCount

\* All counters are checked before the first is changed.
Add(f, data) ==
  /\ Bounded(f, 1, 1)
  /\ NoOverflow(f, data)
  /\ counters' = [counters EXCEPT ![f] =
       [pos \in 0 .. M - 1 |-> Packed(@[pos] + Multiplicity(data, pos))]]
  /\ count' = [count EXCEPT ![f] = @ + 1]
  /\ net' = [net EXCEPT ![f][data] = @ + 1]
  /\ UNCHANGED <<clamped, cut>>

\* An item that was never added, but is a false positive, can be removed.
Remove(f, data) ==
  /\ Bounded(f, -1, -1)
  /\ \A pos \in Positions(data, K, M) : counters[f][pos] > 0
  /\ counters' = [counters EXCEPT ![f] =
       [pos \in 0 .. M - 1 |-> Packed(@[pos] - Multiplicity(data, pos))]]
  /\ count' = [count EXCEPT ![f] = @ - 1]
  /\ net' = [net EXCEPT ![f][data] = @ - 1]
  /\ UNCHANGED <<clamped, cut>>

\* Mutant: the counters stay as they are.
NotCleared(f) == counters[f]

Cleared(f) == Zero

Reset(f) ==
  /\ counters' = [counters EXCEPT ![f] = Cleared(f)]
  /\ count' = [count EXCEPT ![f] = 0]
  /\ net' = [net EXCEPT ![f] = [x \in Item |-> 0]]
  /\ clamped' = [clamped EXCEPT ![f] = FALSE]
  /\ cut' = [cut EXCEPT ![f] = FALSE]

\* g = f.Clone().
Clone(f, g) ==
  /\ f # g
  /\ counters' = [counters EXCEPT ![g] = counters[f]]
  /\ count' = [count EXCEPT ![g] = count[f]]
  /\ net' = [net EXCEPT ![g] = net[f]]
  /\ clamped' = [clamped EXCEPT ![g] = clamped[f]]
  /\ cut' = [cut EXCEPT ![g] = cut[f]]

Word32 == 2 * (MaxInt32 + 1)

\* int(int32(uint32(v)))
Signed(v) == ((v + MaxInt32 + 1) % Word32) - (MaxInt32 + 1)

\* g is a snapshot of f, marshalled and read back.  An m of more than 32 bits is
\* cut, and the length it asks for is then not that of the data, where the CRC
\* is: an error.  (A k of more than 32 bits, too, is cut, without an error, and
\* the filter read back is none of CF.)
Snapshot(f, g) ==
  /\ f # g
  /\ M < Word32 /\ K < Word32
  /\ counters' = [counters EXCEPT ![g] = counters[f]]
  /\ count' = [count EXCEPT ![g] = Signed(count[f])]
  /\ net' = [net EXCEPT ![g] = net[f]]
  /\ clamped' = [clamped EXCEPT ![g] = clamped[f]]
  /\ cut' = [cut EXCEPT ![g] = cut[f] \/ Signed(count[f]) # count[f]]

SumAt(f, g, pos) == counters[f][pos] + counters[g][pos]

Clamped(v) == IF v > MaxCount THEN MaxCount ELSE v

\* f.Merge(g).  f.Merge(f) never returns: see MergeLocks.
Merge(f, g) ==
  /\ f # g
  /\ Bounded(f, SumFunction(net[g]), count[g])
  /\ counters' = [counters EXCEPT ![f] =
       [pos \in 0 .. M - 1 |-> Clamped(SumAt(f, g, pos))]]
  /\ count' = [count EXCEPT ![f] = @ + count[g]]
  /\ net' = [net EXCEPT ![f] = [x \in Item |-> net[f][x] + net[g][x]]]
  /\ clamped' = [clamped EXCEPT ![f] =
       @ \/ clamped[g] \/ \E pos \in 0 .. M - 1 : SumAt(f, g, pos) > MaxCount]
  /\ cut' = [cut EXCEPT ![f] = @ \/ cut[g]]

Next ==
  \E f \in CF :
    \/ \E data \in Item : Add(f, data) \/ Remove(f, data)
    \/ Reset(f)
    \/ \E g \in CF : Clone(f, g) \/ Snapshot(f, g) \/ Merge(f, g)

Spec == Init /\ [][Next]_vars

-----------------------------------------------------------------------------
(* Properties *)

\* What the counter at a position should be.
Due(f, pos) == SumFunction([x \in Item |-> net[f][x] * Multiplicity(x, pos)])

\* The counters are exact after any history of calls, removals of items that
\* were never added included, until a merge clamps one of them.  So with callers
\* that remove what they added, no item that is in the filter tests absent.
\* Items have k different positions: see AddNeverLowers.  The count is exact
\* until it goes through a snapshot that is too narrow for it, and its lowest 32
\* bits are exact after that too.
ExactCounters ==
  \A f \in CF :
    /\ (count[f] - SumFunction(net[f])) % Word32 = 0
    /\ ~cut[f] => count[f] = SumFunction(net[f])
    /\ ~clamped[f] => \A pos \in 0 .. M - 1 : counters[f][pos] = Due(f, pos)

\* Clamping loses, and never adds: when all items of a position are removed
\* nothing stays behind to make an absent item present.
NeverOvercounts == \A f \in CF, pos \in 0 .. M - 1 : counters[f][pos] <= Due(f, pos)

-----------------------------------------------------------------------------
(* What the documentation says and the code does not do *)

\* counting.go: "Returns ErrOverflow if any counter would exceed its maximum".
\* No Add that succeeds wraps a counter round to a smaller value.
AddNeverLowers ==
  [][\A f \in CF, data \in Item : Add(f, data) =>
       \A pos \in 0 .. M - 1 : counters'[f][pos] >= counters[f][pos]]_vars

\* snapshot.go: "UnmarshalSnapshot reconstructs a CountingFilter from a snapshot
\* produced by MarshalSnapshot".
SnapshotKeepsCount ==
  [][\A f, g \in CF : Snapshot(f, g) => count'[g] = count[f]]_vars

=============================================================================
