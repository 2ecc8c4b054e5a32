--------------------------- MODULE ScalableBloom ---------------------------
(***************************************************************************)
(* internal/filter/builder.go: the ScalableBloom, which puts a new filter  *)
(* behind the active one when that is at its capacity, and the Builder.    *)
(* The sizing formulas of filter.go are floating point and stay constants: *)
(* any functions that have the two properties of ScalableAssumption.  A    *)
(* false-positive rate is its level, the number of times targetFPR was     *)
(* multiplied by fprScale; from the level Tightest on it is 1e-10.  The    *)
(* filter has no lock and one caller; an allocation that fails ends the    *)
(* program.                                                                *)
(***************************************************************************)
EXTENDS BloomFilter, Sequences, Functions

CONSTANTS
  Uint,                   \* 2^64 in the program
  RequiredBits(_, _),     \* of a capacity and a level
  OptimalK(_, _),         \* of m and a capacity
  MaxInsertions(_, _, _), \* of m, k and a level
  Tightest,
  InitCap,                \* the initial capacities in use
  GrowthFactor,           \* and the growth factors
  MaxAdds                 \* bound of the runs

Level == 0 .. Tightest

\* A filter sized for n items takes at least one at the level it is sized for,
\* and a looser rate never allows fewer insertions.  The formulas do so for
\* every targetFPR in 1e-10 .. 1 - 1e-14.
ScalableAssumption ==
  /\ Uint \in Nat /\ Uint > 2
  /\ Tightest \in Nat
  /\ InitCap \subseteq 1 .. Uint - 1
  /\ GrowthFactor \subseteq 0 .. Uint - 1
  /\ MaxAdds \in Nat
  /\ \A n \in 1 .. Uint - 1, l \in Level :
       LET m == RequiredBits(n, l)
           k == OptimalK(m, n)
       IN  /\ m \in Nat \ {0} /\ k \in Nat \ {0}
           /\ \A r \in Level : /\ MaxInsertions(m, k, r) \in Nat
                               /\ MaxInsertions(m, k, r) <= MaxInsertions(m, k, 0)
           /\ MaxInsertions(m, k, l) > 0

ASSUME ScalableAssumption

VARIABLES
  initCap, growthFactor,  \* as given to NewScalableBloom
  filters,
  cap,                    \* the capacity the last filter was asked for
  currentN,               \* Adds to the last filter
  maxN,                   \* Adds it takes
  added,                  \* history: the items added
  held                    \* history: the number of Adds to each filter

vars == <<initCap, growthFactor, filters, cap, currentN, maxN, added, held>>

-----------------------------------------------------------------------------
(* The Builder *)

\* Build: the preloaded items are added to the new filter, if it is one.
Build(m, k, preload) ==
  IF ValidParams(m, k) THEN AddItems(NewFilter(m, k), preload) ELSE NilFilter

\* WithCapacity and Build, and NewFromCapacity; rates lie between 0 and 1.
NewFromCapacity(n, l, preload) ==
  IF n = 0 THEN NilFilter
  ELSE Build(RequiredBits(n, l), OptimalK(RequiredBits(n, l), n), preload)

-----------------------------------------------------------------------------
(* Growing *)

MostOf(f, l) == MaxInsertions(f.m, f.k, l)

\* Mutant: the limit is passed by one.
FullLate == currentN > maxN

Full == currentN >= maxN

\* grow multiplies initCap by growthFactor as often as there are filters.
NextCap == (cap * growthFactor) % Uint

NextLevel == IF Len(filters) < Tightest THEN Len(filters) ELSE Tightest

\* A capacity that has wrapped to 0 is an error, and the filter one of the
\* initial size.
NextFilter ==
  IF NextCap = 0 THEN NewFromCapacity(initCap, 0, {})
                 ELSE NewFromCapacity(NextCap, NextLevel, {})

\* int(cap) of a uint.
Int64(c) == IF 2 * c < Uint THEN c ELSE c - Uint

NextMaxN ==
  IF MostOf(NextFilter, NextLevel) > 0 THEN MostOf(NextFilter, NextLevel)
                                       ELSE Int64(NextCap)

-----------------------------------------------------------------------------

TypeOK ==
  /\ initCap \in InitCap
  /\ growthFactor \in 1 .. Uint - 1
  /\ filters \in Seq(Filter) /\ filters # <<>>
  /\ cap \in 0 .. Uint - 1
  /\ currentN \in Nat
  /\ maxN \in Int
  /\ added \subseteq Item
  /\ held \in Seq(Nat) /\ Len(held) = Len(filters)

\* A growth factor of 0 is taken as 2.
Init ==
  /\ initCap \in InitCap
  /\ \E g \in GrowthFactor : growthFactor = IF g < 1 THEN 2 ELSE g
  /\ filters = <<NewFromCapacity(initCap, 0, {})>>
  /\ cap = initCap
  /\ currentN = 0
  /\ maxN = MostOf(filters[1], 0)
  /\ added = {}
  /\ held = <<0>>

AddToActive(data) ==
  /\ ~Full
  /\ filters' = [filters EXCEPT ![Len(filters)] = AddItem(@, data)]
  /\ currentN' = currentN + 1
  /\ held' = [held EXCEPT ![Len(held)] = @ + 1]
  /\ UNCHANGED <<cap, maxN>>

\* grow, and the Add that it was called for.
Grow(data) ==
  /\ Full
  /\ filters' = Append(filters, AddItem(NextFilter, data))
  /\ cap' = NextCap
  /\ currentN' = 1
  /\ maxN' = NextMaxN
  /\ held' = Append(held, 1)

Add(data) ==
  /\ AddToActive(data) \/ Grow(data)
  /\ added' = added \cup {data}
  /\ UNCHANGED <<initCap, growthFactor>>

\* Mutant: only the active filter is asked.
TestActive(data) == TestItem(filters[Len(filters)], data)

Test(data) == \E i \in DOMAIN filters : TestItem(filters[i], data)

\* Mutant: the first filter is not counted.
OlderButFirst == 2 .. Len(filters) - 1

Older == 1 .. Len(filters) - 1

\* The method Len of the filter.
Length == currentN + SumFunction([i \in Older |-> MostOf(filters[i], 0)])

\* Bound of the runs.
Bounded == SumFunction(held) < MaxAdds

Next == Bounded /\ \E data \in Item : Add(data)

Spec == Init /\ [][Next]_vars

-----------------------------------------------------------------------------
(* Properties *)

\* Every item ever added is found, however often Add has grown the filter since,
\* with capacities that wrapped to 0 and filters of the fallback's size.
NoFalseNegatives == \A x \in added : Test(x)

\* No filter is given more items than keep its own rate at targetFPR or below:
\* capacities are taken from tighter rates, and from int(cap) after a failure.
WithinTarget == \A i \in DOMAIN filters : held[i] <= MostOf(filters[i], 0)

\* Len never misses an Add, though it does not count those to the older filters
\* but computes what they would hold at the rate of the first.
LenNeverBelow == Length >= SumFunction(held)

-----------------------------------------------------------------------------
(* What the documentation says and the code does not do *)

\* "Len returns the total number of items added".
LenExact == Length = SumFunction(held)

\* "a new larger filter is created": each takes more than the one before it.
GrowsLarger == \A i \in Older : filters[i + 1].m >= filters[i].m

=============================================================================
