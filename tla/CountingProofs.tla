--------------------------- MODULE CountingProofs ---------------------------
(***************************************************************************)
(* Counting filters of any shape and number, over any finite set of items. *)
(***************************************************************************)
EXTENDS Counting, MergeLocks, FilterProofs

-----------------------------------------------------------------------------
(* Words and positions *)

\* counting.go, New: there are eight greatest counts.
LEMMA MaxCountType == MaxCount \in Nat \ {0}
<1>1. CounterBits \in 1 .. 8
  BY CountingAssumption
<1>2. \/ CounterBits = 1 \/ CounterBits = 2 \/ CounterBits = 3 \/ CounterBits = 4
      \/ CounterBits = 5 \/ CounterBits = 6 \/ CounterBits = 7 \/ CounterBits = 8
  BY <1>1
<1>3. \/ 2 ^ CounterBits = 2 ^ 1 \/ 2 ^ CounterBits = 2 ^ 2 \/ 2 ^ CounterBits = 2 ^ 3
      \/ 2 ^ CounterBits = 2 ^ 4 \/ 2 ^ CounterBits = 2 ^ 5 \/ 2 ^ CounterBits = 2 ^ 6
      \/ 2 ^ CounterBits = 2 ^ 7 \/ 2 ^ CounterBits = 2 ^ 8
  BY <1>2, Zenon
<1>4. 2 ^ CounterBits \in {2, 4, 8, 16, 32, 64, 128, 256}
  BY <1>3
<1> DEFINE power == 2 ^ CounterBits
<1> HIDE DEF power
<1>5. power - 1 \in Nat \ {0}
  BY <1>4 DEF power
<1> QED BY <1>5 DEF MaxCount, power

\* What is written is cut to a counter.
LEMMA PackedType ==
  ASSUME NEW v \in Int
  PROVE  Packed(v) \in 0 .. MaxCount
<1> HIDE DEF MaxCount
<1> QED BY MaxCountType DEF Packed

\* What fits is written as it is.
LEMMA PackedFits ==
  ASSUME NEW v \in 0 .. MaxCount
  PROVE  Packed(v) = v
<1> DEFINE w == MaxCount + 1
<1>1. w \in Nat \ {0} /\ v \in 0 .. w - 1
  BY MaxCountType
<1> HIDE DEF w
<1>2. v % w = v
  BY <1>1, ModSmall
<1> QED BY <1>2 DEF Packed, w

\* How often an item hits a position is a number, and 0 just if it misses.
LEMMA MultiplicityType ==
  ASSUME NEW x, NEW pos
  PROVE  /\ Multiplicity(x, pos) \in Nat
         /\ Multiplicity(x, pos) = 0 <=> pos \notin Positions(x, K, M)
<1> DEFINE hits == {i \in 0 .. K - 1 : Hash(x, i, M) = pos}
<1>1. IsFiniteSet(0 .. K - 1) /\ hits \in SUBSET (0 .. K - 1)
  <2>1. 0 \in Int /\ K - 1 \in Int
    BY CountingAssumption
  <2> QED BY <2>1, FS_Interval
<1>2. IsFiniteSet(hits)
  BY <1>1, FS_Subset
<1>3. hits = {} <=> pos \notin Positions(x, K, M)
  BY DEF Positions
<1> HIDE DEF hits
<1>4. Cardinality(hits) \in Nat /\ (Cardinality(hits) = 0 <=> hits = {})
  BY <1>2, FS_CardinalityType, FS_EmptySet
<1> QED BY <1>3, <1>4 DEF Multiplicity, hits

\* The items whose k hashes are k positions.
DistinctPositions ==
  \A x \in Item : \A i, j \in 0 .. K - 1 : Hash(x, i, M) = Hash(x, j, M) => i = j

\* They hit each at most once.
LEMMA DistinctHitsOnce ==
  ASSUME DistinctPositions, NEW x \in Item, NEW pos
  PROVE  Multiplicity(x, pos) = IF pos \in Positions(x, K, M) THEN 1 ELSE 0
<1>1. CASE pos \notin Positions(x, K, M)
  BY <1>1, MultiplicityType
<1>2. CASE pos \in Positions(x, K, M)
  <2>1. PICK i \in 0 .. K - 1 : Hash(x, i, M) = pos
    BY <1>2 DEF Positions
  <2>2. {j \in 0 .. K - 1 : Hash(x, j, M) = pos} = {i}
    BY <2>1 DEF DistinctPositions
  <2> QED BY <1>2, <2>2, FS_Singleton DEF Multiplicity
<1> QED BY <1>1, <1>2

-----------------------------------------------------------------------------
(* Types *)

\* The types, those of the truth values apart.
Typed ==
  /\ counters \in [CF -> [0 .. M - 1 -> 0 .. MaxCount]]
  /\ count \in [CF -> Int]
  /\ net \in [CF -> [Item -> Int]]

\* A call changes one filter.
LEMMA AddFacts ==
  ASSUME Typed, NEW f \in CF, NEW data \in Item, Add(f, data)
  PROVE  /\ counters' = [counters EXCEPT ![f] =
              [pos \in 0 .. M - 1 |-> Packed(counters[f][pos] + Multiplicity(data, pos))]]
         /\ net' = [net EXCEPT ![f] = [net[f] EXCEPT ![data] = @ + 1]]
         /\ net' \in [CF -> [Item -> Int]]
         /\ count' = [count EXCEPT ![f] = @ + 1]
         /\ clamped' = clamped
BY DEF Add, Typed

LEMMA RemoveFacts ==
  ASSUME Typed, NEW f \in CF, NEW data \in Item, Remove(f, data)
  PROVE  /\ counters' = [counters EXCEPT ![f] =
              [pos \in 0 .. M - 1 |-> Packed(counters[f][pos] - Multiplicity(data, pos))]]
         /\ net' = [net EXCEPT ![f] = [net[f] EXCEPT ![data] = @ - 1]]
         /\ net' \in [CF -> [Item -> Int]]
         /\ count' = [count EXCEPT ![f] = @ - 1]
         /\ clamped' = clamped
BY DEF Remove, Typed

\* A merge clamps.
LEMMA ClampedType ==
  ASSUME NEW v \in Nat
  PROVE  /\ Clamped(v) \in 0 .. MaxCount
         /\ Clamped(v) <= v
         /\ v <= MaxCount => Clamped(v) = v
<1> HIDE DEF MaxCount
<1> QED BY MaxCountType DEF Clamped

\* A counter is read as a number.
LEMMA CounterType ==
  ASSUME Typed, NEW f \in CF, NEW pos \in 0 .. M - 1
  PROVE  counters[f][pos] \in 0 .. MaxCount /\ counters[f][pos] \in Nat
<1> DEFINE row == counters[f]
<1>1. row \in [0 .. M - 1 -> 0 .. MaxCount]
  BY DEF Typed
<1> HIDE DEF row, MaxCount
<1>2. row[pos] \in 0 .. MaxCount
  BY <1>1
<1>3. row[pos] \in Nat
  BY <1>2, MaxCountType
<1> QED BY <1>2, <1>3 DEF row

\* A clone, and a snapshot that was read back, have the counters and the history.
Copied(f, g) == Clone(f, g) \/ Snapshot(f, g)

LEMMA CopyFacts ==
  ASSUME NEW f \in CF, NEW g \in CF, Copied(f, g)
  PROVE  /\ counters' = [counters EXCEPT ![g] = counters[f]]
         /\ net' = [net EXCEPT ![g] = net[f]]
         /\ clamped' = [clamped EXCEPT ![g] = clamped[f]]
BY DEF Copied, Clone, Snapshot

\* Reading a count back cuts it to a signed word.
LEMMA SignedType ==
  ASSUME NEW v \in Int
  PROVE  /\ Signed(v) \in Int /\ Word32 \in Nat \ {0}
         /\ (Signed(v) - v) % Word32 = 0
<1> DEFINE n == Word32
           h == MaxInt32 + 1
           a == v + h
           q == a \div n
           r == a % n
<1>1. n \in Nat \ {0} /\ h \in Nat
  BY CountingAssumption DEF Word32
<1>2. a \in Int
  BY <1>1
<1>3. Signed(v) = r - h
  <2>1. v + MaxInt32 + 1 = v + (MaxInt32 + 1)
    BY CountingAssumption
  <2> QED BY <2>1 DEF Signed
<1> HIDE DEF n, h
<1>4. a = v + h
  OBVIOUS
<1> HIDE DEF a
<1>5. q \in Int /\ r \in Int /\ a = n * q + r
  <2>1. q \in Int /\ r \in 0 .. n - 1 /\ a = n * q + r
    BY <1>1, <1>2, ModParts
  <2> QED BY <1>1, <2>1
<1> HIDE DEF q, r
<1>6. Signed(v) - v = n * (-q) + 0 /\ -q \in Int
  <2>1. n * q \in Int /\ n * (-q) = -(n * q) /\ -q \in Int
    BY <1>1, <1>5
  <2> QED BY <1>1, <1>3, <1>4, <1>5, <2>1
<1>7. 0 \in 0 .. n - 1
  BY <1>1
<1>8. (Signed(v) - v) % n = 0
  BY <1>1, <1>6, <1>7, ModUnique
<1>9. Signed(v) \in Int
  BY <1>1, <1>3, <1>5
<1> QED BY <1>1, <1>8, <1>9 DEF n

\* A new filter's counters.
LEMMA ZeroType == Zero \in [0 .. M - 1 -> 0 .. MaxCount]
<1>1. 0 \in 0 .. MaxCount
  <2> HIDE DEF MaxCount
  <2> QED BY MaxCountType
<1> QED BY <1>1 DEF Zero

\* The new counters of one filter.
LEMMA CountersType ==
  ASSUME Typed, NEW f \in CF, NEW row \in [0 .. M - 1 -> 0 .. MaxCount],
         counters' = [counters EXCEPT ![f] = row]
  PROVE  counters' \in [CF -> [0 .. M - 1 -> 0 .. MaxCount]]
<1> DEFINE Row == [0 .. M - 1 -> 0 .. MaxCount]
<1>1. counters \in [CF -> Row] /\ row \in Row
  BY DEF Typed
<1> HIDE DEF Row
<1>2. counters' \in [CF -> Row]
  BY <1>1
<1> QED BY <1>2 DEF Row

LEMMA TypedStep == Typed /\ [Next]_vars => Typed'
<1> SUFFICES ASSUME Typed, [Next]_vars PROVE Typed'
  OBVIOUS
<1> USE CounterType
<1>1. ASSUME NEW f \in CF, NEW data \in Item, Add(f, data) PROVE Typed'
  <2> DEFINE row == [pos \in 0 .. M - 1 |-> Packed(counters[f][pos] + Multiplicity(data, pos))]
  <2>1. row \in [0 .. M - 1 -> 0 .. MaxCount]
    <3>1. ASSUME NEW pos \in 0 .. M - 1
          PROVE  Packed(counters[f][pos] + Multiplicity(data, pos)) \in 0 .. MaxCount
      <4>1. counters[f][pos] + Multiplicity(data, pos) \in Int
        BY MultiplicityType
      <4> QED BY <4>1, PackedType
    <3> QED BY <3>1
  <2> HIDE DEF row
  <2>2. counters' \in [CF -> [0 .. M - 1 -> 0 .. MaxCount]]
    <3>1. counters' = [counters EXCEPT ![f] = row]
      BY <1>1, AddFacts DEF row
    <3> QED BY <2>1, <3>1, CountersType
  <2>3. count' \in [CF -> Int]
    BY <1>1, AddFacts DEF Typed
  <2> QED BY <1>1, <2>2, <2>3, AddFacts DEF Typed
<1>2. ASSUME NEW f \in CF, NEW data \in Item, Remove(f, data) PROVE Typed'
  <2> DEFINE row == [pos \in 0 .. M - 1 |-> Packed(counters[f][pos] - Multiplicity(data, pos))]
  <2>1. row \in [0 .. M - 1 -> 0 .. MaxCount]
    <3>1. ASSUME NEW pos \in 0 .. M - 1
          PROVE  Packed(counters[f][pos] - Multiplicity(data, pos)) \in 0 .. MaxCount
      <4>1. counters[f][pos] - Multiplicity(data, pos) \in Int
        BY MultiplicityType
      <4> QED BY <4>1, PackedType
    <3> QED BY <3>1
  <2> HIDE DEF row
  <2>2. counters' \in [CF -> [0 .. M - 1 -> 0 .. MaxCount]]
    <3>1. counters' = [counters EXCEPT ![f] = row]
      BY <1>2, RemoveFacts DEF row
    <3> QED BY <2>1, <3>1, CountersType
  <2>3. count' \in [CF -> Int]
    BY <1>2, RemoveFacts DEF Typed
  <2> QED BY <1>2, <2>2, <2>3, RemoveFacts DEF Typed
<1>3. ASSUME NEW f \in CF, Reset(f) PROVE Typed'
  <2>1. counters' = [counters EXCEPT ![f] = Zero]
    BY <1>3 DEF Reset, Cleared
  <2>2. counters' \in [CF -> [0 .. M - 1 -> 0 .. MaxCount]]
    BY <2>1, ZeroType, CountersType
  <2>3. count' \in [CF -> Int] /\ net' \in [CF -> [Item -> Int]]
    BY <1>3 DEF Reset, Typed
  <2> QED BY <2>2, <2>3 DEF Typed
<1>4. ASSUME NEW f \in CF, NEW g \in CF, Copied(f, g) PROVE Typed'
  <2>1. counters[f] \in [0 .. M - 1 -> 0 .. MaxCount]
    BY DEF Typed
  <2>2. counters' \in [CF -> [0 .. M - 1 -> 0 .. MaxCount]]
    BY <1>4, <2>1, CopyFacts, CountersType
  <2>3. net' \in [CF -> [Item -> Int]]
    BY <1>4, CopyFacts DEF Typed
  <2>4. count' \in [CF -> Int]
    <3>1. count[f] \in Int /\ Signed(count[f]) \in Int
      BY SignedType DEF Typed
    <3> QED BY <1>4, <3>1 DEF Copied, Clone, Snapshot, Typed
  <2> QED BY <2>2, <2>3, <2>4 DEF Typed
<1>5. ASSUME NEW f \in CF, NEW g \in CF, Merge(f, g) PROVE Typed'
  <2> DEFINE row == [pos \in 0 .. M - 1 |-> Clamped(SumAt(f, g, pos))]
  <2>1. row \in [0 .. M - 1 -> 0 .. MaxCount]
    BY ClampedType DEF SumAt
  <2> HIDE DEF row
  <2>2. counters' \in [CF -> [0 .. M - 1 -> 0 .. MaxCount]]
    BY <1>5, <2>1, CountersType DEF Merge, row
  <2>3. count' \in [CF -> Int] /\ net' \in [CF -> [Item -> Int]]
    BY <1>5 DEF Merge, Typed
  <2> QED BY <2>2, <2>3 DEF Typed
<1>6. CASE UNCHANGED vars
  BY <1>6 DEF vars, Typed
<1> QED BY <1>1, <1>2, <1>3, <1>4, <1>5, <1>6 DEF Next, Copied

LEMMA TypedInvariant == Spec => []Typed
<1>1. Init => Typed
  BY ZeroType DEF Init, Typed
<1> QED BY <1>1, TypedStep, PTL DEF Spec

-----------------------------------------------------------------------------
(* What the counters should be *)

\* A sum over the items, each with its weight.
Weighted(r, w) == SumFunction([x \in Item |-> r[x] * w[x]])

Hits(pos) == [x \in Item |-> Multiplicity(x, pos)]

LEMMA HitsType == \A pos : Hits(pos) \in [Item -> Int]
BY MultiplicityType DEF Hits

LEMMA DueIsWeighted ==
  ASSUME NEW f, NEW pos
  PROVE  /\ Due(f, pos) = Weighted(net[f], Hits(pos))
         /\ Due(f, pos)' = Weighted(net'[f], Hits(pos))
<1>1. \A r : [x \in Item |-> r[x] * Multiplicity(x, pos)] = [x \in Item |-> r[x] * Hits(pos)[x]]
  <2> SUFFICES ASSUME NEW r
               PROVE  [x \in Item |-> r[x] * Multiplicity(x, pos)] = [x \in Item |-> r[x] * Hits(pos)[x]]
    OBVIOUS
  <2>1. \A x \in Item : r[x] * Multiplicity(x, pos) = r[x] * Hits(pos)[x]
    BY DEF Hits
  <2> QED BY <2>1, Zenon
<1> QED BY <1>1 DEF Due, Weighted

LEMMA WeightedAdds ==
  ASSUME IsFiniteSet(Item),
         NEW r \in [Item -> Int], NEW s \in [Item -> Int], NEW w \in [Item -> Int]
  PROVE  /\ Weighted(r, w) \in Int
         /\ Weighted([x \in Item |-> r[x] + s[x]], w) = Weighted(r, w) + Weighted(s, w)
<1> DEFINE t == [x \in Item |-> r[x] + s[x]]
           f == [x \in Item |-> r[x] * w[x]]
           g == [x \in Item |-> s[x] * w[x]]
           h == [x \in Item |-> t[x] * w[x]]
<1>1. \A x \in Item : f[x] \in Int /\ g[x] \in Int /\ h[x] = f[x] + g[x]
  OBVIOUS
<1>2. DOMAIN f = Item /\ DOMAIN g = Item /\ DOMAIN h = Item
  OBVIOUS
<1>3. Weighted(r, w) = SumFunction(f) /\ Weighted(s, w) = SumFunction(g) /\ Weighted(t, w) = SumFunction(h)
  BY DEF Weighted
<1> HIDE DEF t, f, g, h
<1>4. /\ SumFunctionOnSet(f, Item) \in Int
      /\ SumFunctionOnSet(h, Item) = SumFunctionOnSet(f, Item) + SumFunctionOnSet(g, Item)
  BY <1>1, SumAdds
<1>5. /\ Weighted(r, w) \in Int
      /\ Weighted(t, w) = Weighted(r, w) + Weighted(s, w)
  BY <1>2, <1>3, <1>4 DEF SumFunction
<1> QED BY <1>5 DEF t

\* One more, or one less, of an item.
LEMMA WeightedOne ==
  ASSUME IsFiniteSet(Item),
         NEW r \in [Item -> Int], NEW q \in [Item -> Int], NEW w \in [Item -> Int],
         NEW data \in Item, NEW d \in Int,
         q[data] = r[data] + d, \A x \in Item : x # data => q[x] = r[x]
  PROVE  Weighted(q, w) = Weighted(r, w) + d * w[data]
<1> DEFINE s == [x \in Item |-> IF x = data THEN d ELSE 0]
           f == [x \in Item |-> s[x] * w[x]]
<1>1. s \in [Item -> Int]
  OBVIOUS
<1>2. q = [x \in Item |-> r[x] + s[x]]
  <2>1. s[data] = d /\ \A x \in Item : x # data => s[x] = 0
    OBVIOUS
  <2>2. \A x \in Item : r[x] \in Int
    OBVIOUS
  <2> HIDE DEF s, f
  <2>3. ASSUME NEW x \in Item PROVE q[x] = r[x] + s[x]
    <3>1. CASE x = data
      BY <2>1, <3>1
    <3>2. CASE x # data
      <4>1. s[x] = 0 /\ q[x] = r[x] /\ r[x] \in Int
        BY <2>1, <3>2
      <4> QED BY <4>1
    <3> QED BY <3>1, <3>2
  <2>4. q = [x \in Item |-> q[x]]
    OBVIOUS
  <2> QED BY <2>3, <2>4
<1>3. f[data] = d * w[data] /\ f[data] \in Int /\ \A x \in Item : x # data => f[x] = 0
  <2>1. s[data] = d /\ \A x \in Item : x # data => s[x] = 0
    OBVIOUS
  <2>2. \A x \in Item : f[x] = s[x] * w[x]
    OBVIOUS
  <2>3. d \in Int /\ \A x \in Item : w[x] \in Int /\ 0 * w[x] = 0
    OBVIOUS
  <2> HIDE DEF s, f
  <2> QED BY <2>1, <2>2, <2>3
<1>4. DOMAIN f = Item /\ Weighted(s, w) = SumFunction(f)
  BY DEF Weighted
<1> HIDE DEF s, f
<1>5. SumFunctionOnSet(f, Item) = f[data]
  BY <1>3, SumOfOne
<1>6. Weighted(s, w) = d * w[data]
  BY <1>3, <1>4, <1>5 DEF SumFunction
<1>7. Weighted([x \in Item |-> r[x] + s[x]], w) = Weighted(r, w) + Weighted(s, w)
  BY <1>1, WeightedAdds
<1> QED BY <1>2, <1>6, <1>7

LEMMA WeightedZero ==
  ASSUME IsFiniteSet(Item), NEW w \in [Item -> Int]
  PROVE  Weighted([x \in Item |-> 0], w) = 0
<1> DEFINE z == [x \in Item |-> 0]
<1>1. z \in [Item -> Int] /\ [x \in Item |-> z[x] + z[x]] = z
  <2>1. \A x \in Item : z[x] + z[x] = 0
    OBVIOUS
  <2> QED BY <2>1
<1> HIDE DEF z
<1>2. Weighted(z, w) \in Int /\ Weighted(z, w) = Weighted(z, w) + Weighted(z, w)
  <2>1. /\ Weighted(z, w) \in Int
        /\ Weighted([x \in Item |-> z[x] + z[x]], w) = Weighted(z, w) + Weighted(z, w)
    BY <1>1, WeightedAdds
  <2> QED BY <1>1, <2>1
<1>3. Weighted(z, w) = 0
  <2>1. \A v \in Int : v = v + v => v = 0
    OBVIOUS
  <2> QED BY <1>2, <2>1, Zenon
<1> QED BY <1>3 DEF z

\* The count of a filter is a sum of the same kind.
Ones == [x \in Item |-> 1]

LEMMA CountIsWeighted ==
  ASSUME NEW r \in [Item -> Int]
  PROVE  SumFunction(r) = Weighted(r, Ones) /\ Ones \in [Item -> Int]
<1>1. \A x \in Item : r[x] * Ones[x] = r[x]
  BY DEF Ones
<1>2. Ones \in [Item -> Int]
  BY DEF Ones
<1>3. [x \in Item |-> r[x] * Ones[x]] = r
  BY <1>1
<1> QED BY <1>2, <1>3 DEF Weighted

-----------------------------------------------------------------------------
(* What a call does to what the counters should be *)

LEMMA DueType ==
  ASSUME IsFiniteSet(Item), Typed, NEW f \in CF, NEW pos
  PROVE  Due(f, pos) \in Int /\ SumFunction(net[f]) \in Int
<1>1. net[f] \in [Item -> Int] /\ Ones \in [Item -> Int] /\ Hits(pos) \in [Item -> Int]
  BY HitsType DEF Typed, Ones
<1>2. Weighted(net[f], Hits(pos)) \in Int /\ Weighted(net[f], Ones) \in Int
  BY <1>1, WeightedAdds
<1>3. SumFunction(net[f]) = Weighted(net[f], Ones)
  BY <1>1, CountIsWeighted
<1> QED BY <1>2, <1>3, DueIsWeighted

\* An item more, or an item less.
LEMMA DueOne ==
  ASSUME IsFiniteSet(Item), Typed, NEW f \in CF, NEW data \in Item, NEW d \in Int,
         net' = [net EXCEPT ![f] = [net[f] EXCEPT ![data] = @ + d]]
  PROVE  /\ \A pos : Due(f, pos)' = Due(f, pos) + d * Multiplicity(data, pos)
         /\ SumFunction(net'[f]) = SumFunction(net[f]) + d
<1>1. net[f] \in [Item -> Int] /\ net'[f] = [net[f] EXCEPT ![data] = @ + d]
  BY DEF Typed
<1>2. /\ net'[f] \in [Item -> Int]
      /\ net'[f][data] = net[f][data] + d /\ \A x \in Item : x # data => net'[f][x] = net[f][x]
  BY <1>1
<1>3. \A w \in [Item -> Int] : Weighted(net'[f], w) = Weighted(net[f], w) + d * w[data]
  BY <1>1, <1>2, WeightedOne
<1>4. ASSUME NEW pos PROVE Due(f, pos)' = Due(f, pos) + d * Multiplicity(data, pos)
  <2>1. Hits(pos)[data] = Multiplicity(data, pos)
    BY DEF Hits
  <2> QED BY <1>3, <2>1, HitsType, DueIsWeighted
<1>5. SumFunction(net'[f]) = SumFunction(net[f]) + d
  <2>1. Ones[data] = 1 /\ Ones \in [Item -> Int] /\ d * 1 = d
    BY DEF Ones
  <2> QED BY <1>1, <1>2, <1>3, <2>1, CountIsWeighted
<1> QED BY <1>4, <1>5

LEMMA DueAdded ==
  ASSUME IsFiniteSet(Item), Typed, NEW f \in CF, NEW data \in Item, Add(f, data)
  PROVE  /\ \A pos : Due(f, pos)' = Due(f, pos) + Multiplicity(data, pos)
         /\ SumFunction(net'[f]) = SumFunction(net[f]) + 1
<1>1. net' = [net EXCEPT ![f] = [net[f] EXCEPT ![data] = @ + 1]]
  BY AddFacts
<1>2. \A pos : 1 * Multiplicity(data, pos) = Multiplicity(data, pos)
  BY MultiplicityType
<1>3. 1 \in Int
  OBVIOUS
<1>4. /\ \A pos : Due(f, pos)' = Due(f, pos) + 1 * Multiplicity(data, pos)
      /\ SumFunction(net'[f]) = SumFunction(net[f]) + 1
  BY <1>1, <1>3, DueOne
<1> QED BY <1>2, <1>4

LEMMA DueRemoved ==
  ASSUME IsFiniteSet(Item), Typed, NEW f \in CF, NEW data \in Item, Remove(f, data)
  PROVE  /\ \A pos : Due(f, pos)' = Due(f, pos) - Multiplicity(data, pos)
         /\ SumFunction(net'[f]) = SumFunction(net[f]) - 1
<1> DEFINE d == -1
<1>1. net' = [net EXCEPT ![f] = [net[f] EXCEPT ![data] = @ + d]] /\ d \in Int
  BY RemoveFacts DEF Typed
<1> HIDE DEF d
<1>2. /\ \A pos : Due(f, pos)' = Due(f, pos) + d * Multiplicity(data, pos)
      /\ SumFunction(net'[f]) = SumFunction(net[f]) + d
  BY <1>1, DueOne
<1>3. \A pos : Due(f, pos) + d * Multiplicity(data, pos) = Due(f, pos) - Multiplicity(data, pos)
  BY MultiplicityType, DueType DEF d
<1>4. SumFunction(net[f]) + d = SumFunction(net[f]) - 1
  BY DueType DEF d
<1> QED BY <1>2, <1>3, <1>4

\* No item.
LEMMA DueNone ==
  ASSUME IsFiniteSet(Item), Typed, NEW f \in CF,
         net' = [net EXCEPT ![f] = [x \in Item |-> 0]]
  PROVE  /\ \A pos : Due(f, pos)' = 0
         /\ SumFunction(net'[f]) = 0
<1> DEFINE z == [x \in Item |-> 0]
<1>1. net'[f] = z /\ z \in [Item -> Int]
  BY DEF Typed
<1>2. \A w \in [Item -> Int] : Weighted(z, w) = 0
  BY WeightedZero
<1> HIDE DEF z
<1> QED BY <1>1, <1>2, HitsType, DueIsWeighted, CountIsWeighted

\* The items of both.
LEMMA DueBoth ==
  ASSUME IsFiniteSet(Item), Typed, NEW f \in CF, NEW g \in CF,
         net' = [net EXCEPT ![f] = [x \in Item |-> net[f][x] + net[g][x]]]
  PROVE  /\ \A pos : Due(f, pos)' = Due(f, pos) + Due(g, pos)
         /\ SumFunction(net'[f]) = SumFunction(net[f]) + SumFunction(net[g])
<1> DEFINE r == net[f]
           s == net[g]
           t == [x \in Item |-> r[x] + s[x]]
<1>1. r \in [Item -> Int] /\ s \in [Item -> Int] /\ net'[f] = t
  BY DEF Typed
<1>2. t \in [Item -> Int]
  BY <1>1
<1> HIDE DEF r, s
<1>3. \A w \in [Item -> Int] : Weighted(t, w) = Weighted(r, w) + Weighted(s, w)
  BY <1>1, WeightedAdds
<1> HIDE DEF t
<1>4. ASSUME NEW pos PROVE Due(f, pos)' = Due(f, pos) + Due(g, pos)
  <2>1. Due(f, pos) = Weighted(r, Hits(pos)) /\ Due(g, pos) = Weighted(s, Hits(pos))
    BY DueIsWeighted DEF r, s
  <2>2. Due(f, pos)' = Weighted(t, Hits(pos))
    BY <1>1, DueIsWeighted
  <2> QED BY <1>3, <2>1, <2>2, HitsType
<1>5. SumFunction(t) = SumFunction(r) + SumFunction(s)
  BY <1>1, <1>2, <1>3, CountIsWeighted
<1> QED BY <1>1, <1>4, <1>5 DEF r, s

\* The filters that are not changed, or the one that is a copy.
LEMMA DueSame ==
  ASSUME NEW f, NEW g, net'[g] = net[f]
  PROVE  /\ \A pos : Due(g, pos)' = Due(f, pos)
         /\ SumFunction(net'[g]) = SumFunction(net[f])
BY DueIsWeighted

-----------------------------------------------------------------------------
(* The count *)

\* Numbers that differ by whole words.
Whole(v) == v % Word32 = 0

LEMMA WholePlus ==
  ASSUME NEW v \in Int, NEW w \in Int, Whole(v), Whole(w)
  PROVE  Whole(v + w)
<1> DEFINE n == Word32
<1>1. n \in Nat \ {0}
  BY SignedType
<1> HIDE DEF n
<1>2. v % n = 0 /\ w % n = 0
  BY DEF Whole, n
<1>3. ((v % n) + w) % n = (v + w) % n
  BY <1>1, ModPlus
<1>4. (v + w) % n = 0
  BY <1>2, <1>3
<1> QED BY <1>4 DEF Whole, n

LEMMA NoneIsWhole == Whole(0)
<1> DEFINE n == Word32
<1>1. n \in Nat \ {0}
  BY SignedType
<1> HIDE DEF n
<1>2. 0 % n = 0
  BY <1>1, ModSmall
<1> QED BY <1>2 DEF Whole, n

\* By how much the count is wrong.
Gap(f) == count[f] - SumFunction(net[f])

CountFits(f) == Whole(Gap(f)) /\ (~cut[f] => Gap(f) = 0)

CountInv == \A f \in CF : CountFits(f)

\* Whether a snapshot has cut the count is true or false.
CutOK == cut \in [CF -> BOOLEAN]

LEMMA CutStep ==
  ASSUME CutOK, [Next]_vars
  PROVE  CutOK'
<1>1. ASSUME NEW f \in CF, Reset(f) PROVE CutOK'
  BY <1>1 DEF Reset, CutOK
<1>2. ASSUME NEW f \in CF, NEW g \in CF, Clone(f, g) PROVE CutOK'
  BY <1>2 DEF Clone, CutOK
<1>3. ASSUME NEW f \in CF, NEW g \in CF, Snapshot(f, g) PROVE CutOK'
  <2> DEFINE b == cut[f] \/ Signed(count[f]) # count[f]
  <2>1. b \in BOOLEAN
    BY Zenon
  <2>2. cut' = [cut EXCEPT ![g] = b]
    BY <1>3 DEF Snapshot
  <2> HIDE DEF b
  <2> QED BY <2>1, <2>2 DEF CutOK
<1>4. ASSUME NEW f \in CF, NEW g \in CF, Merge(f, g) PROVE CutOK'
  <2> DEFINE b == cut[f] \/ cut[g]
  <2>1. b \in BOOLEAN
    BY Zenon
  <2>2. cut' = [cut EXCEPT ![f] = b]
    BY <1>4 DEF Merge
  <2> HIDE DEF b
  <2> QED BY <2>1, <2>2 DEF CutOK
<1>5. ASSUME UNCHANGED cut PROVE CutOK'
  BY <1>5 DEF CutOK
<1> QED BY <1>1, <1>2, <1>3, <1>4, <1>5 DEF Next, Add, Remove, vars

\* One filter changed, and its count fits.
LEMMA CountOne ==
  ASSUME CountInv, NEW f \in CF, CountFits(f)',
         \A h \in CF : h # f => count'[h] = count[h] /\ net'[h] = net[h] /\ cut'[h] = cut[h]
  PROVE  CountInv'
<1> SUFFICES ASSUME NEW h \in CF PROVE CountFits(h)'
  BY DEF CountInv
<1>1. CASE h = f
  BY <1>1
<1>2. CASE h # f
  <2>1. Gap(h)' = Gap(h) /\ cut'[h] = cut[h]
    BY <1>2 DEF Gap
  <2> QED BY <2>1 DEF CountInv, CountFits
<1> QED BY <1>1, <1>2

LEMMA CountStep ==
  ASSUME IsFiniteSet(Item), Typed, CutOK, CountInv, [Next]_vars
  PROVE  CountInv'
<1> USE DEF CutOK
<1>0. \A f \in CF : count[f] \in Int /\ SumFunction(net[f]) \in Int /\ Gap(f) \in Int
  <2> SUFFICES ASSUME NEW f \in CF
               PROVE  count[f] \in Int /\ SumFunction(net[f]) \in Int /\ Gap(f) \in Int
    OBVIOUS
  <2>1. SumFunction(net[f]) \in Int
    BY DueType
  <2>2. count[f] \in Int
    BY DEF Typed
  <2> QED BY <2>1, <2>2 DEF Gap
<1>1. ASSUME NEW f \in CF, NEW data \in Item, Add(f, data) PROVE CountInv'
  <2>1. SumFunction(net'[f]) = SumFunction(net[f]) + 1
    BY <1>1, DueAdded
  <2>2. /\ count'[f] = count[f] + 1 /\ cut' = cut
        /\ \A h \in CF : h # f => count'[h] = count[h] /\ net'[h] = net[h]
    BY <1>1, AddFacts DEF Typed, Add
  <2>3. Gap(f)' = Gap(f)
    BY <1>0, <2>1, <2>2 DEF Gap
  <2>4. CountFits(f)'
    BY <2>2, <2>3 DEF CountInv, CountFits
  <2> QED BY <2>2, <2>4, CountOne
<1>2. ASSUME NEW f \in CF, NEW data \in Item, Remove(f, data) PROVE CountInv'
  <2>1. SumFunction(net'[f]) = SumFunction(net[f]) - 1
    BY <1>2, DueRemoved
  <2>2. /\ count'[f] = count[f] - 1 /\ cut' = cut
        /\ \A h \in CF : h # f => count'[h] = count[h] /\ net'[h] = net[h]
    BY <1>2, RemoveFacts DEF Typed, Remove
  <2>3. Gap(f)' = Gap(f)
    BY <1>0, <2>1, <2>2 DEF Gap
  <2>4. CountFits(f)'
    BY <2>2, <2>3 DEF CountInv, CountFits
  <2> QED BY <2>2, <2>4, CountOne
<1>3. ASSUME NEW f \in CF, Reset(f) PROVE CountInv'
  <2>1. SumFunction(net'[f]) = 0
    BY <1>3, DueNone DEF Reset
  <2>2. /\ count'[f] = 0
        /\ \A h \in CF : h # f => count'[h] = count[h] /\ net'[h] = net[h] /\ cut'[h] = cut[h]
    BY <1>3 DEF Reset, Typed
  <2>3. Gap(f)' = 0
    BY <2>1, <2>2 DEF Gap
  <2>4. CountFits(f)'
    BY <2>3, NoneIsWhole DEF CountFits, Whole
  <2> QED BY <2>2, <2>4, CountOne
<1>4. ASSUME NEW f \in CF, NEW g \in CF, Copied(f, g) PROVE CountInv'
  <2> DEFINE c == IF Clone(f, g) THEN count[f] ELSE Signed(count[f])
  <2>1. /\ net'[g] = net[f]
        /\ \A h \in CF : h # g => count'[h] = count[h] /\ net'[h] = net[h] /\ cut'[h] = cut[h]
    BY <1>4, CopyFacts DEF Copied, Clone, Snapshot, Typed
  <2>2. count'[g] \in Int /\ Whole(count'[g] - count[f])
    <3>1. CASE Clone(f, g)
      <4>1. count'[g] = count[f]
        BY <3>1 DEF Clone, Typed
      <4>2. count'[g] - count[f] = 0
        BY <1>0, <4>1
      <4> QED BY <1>0, <4>1, <4>2, NoneIsWhole
    <3>2. CASE Snapshot(f, g)
      <4>1. count'[g] = Signed(count[f])
        BY <3>2 DEF Snapshot, Typed
      <4> QED BY <1>0, <4>1, SignedType DEF Whole
    <3> QED BY <1>4, <3>1, <3>2 DEF Copied
  <2>3. ~cut'[g] => ~cut[f] /\ count'[g] = count[f]
    <3>1. CASE Clone(f, g)
      BY <3>1 DEF Clone, Typed
    <3>2. CASE Snapshot(f, g)
      <4> DEFINE b == cut[f] \/ Signed(count[f]) # count[f]
      <4>1. count'[g] = Signed(count[f])
        BY <3>2 DEF Snapshot, Typed
      <4>2. cut' = [cut EXCEPT ![g] = b]
        BY <3>2 DEF Snapshot
      <4>3. b <=> cut[f] \/ Signed(count[f]) # count[f]
        BY Zenon
      <4> HIDE DEF b
      <4>4. cut'[g] = b
        BY <4>2
      <4> QED BY <4>1, <4>3, <4>4, Zenon
    <3> QED BY <1>4, <3>1, <3>2 DEF Copied
  <2>4. Gap(g)' = (count'[g] - count[f]) + Gap(f)
    BY <1>0, <2>1, <2>2 DEF Gap
  <2>5. Whole(Gap(g)')
    <3>1. Whole(Gap(f)) /\ count'[g] - count[f] \in Int
      BY <1>0, <2>2 DEF CountInv, CountFits
    <3> QED BY <1>0, <2>2, <2>4, <3>1, WholePlus
  <2>6. ~cut'[g] => Gap(g)' = 0
    BY <1>0, <2>3, <2>4 DEF CountInv, CountFits
  <2>7. CountFits(g)'
    BY <2>5, <2>6 DEF CountFits, Whole
  <2> QED BY <2>1, <2>7, CountOne
<1>5. ASSUME NEW f \in CF, NEW g \in CF, Merge(f, g) PROVE CountInv'
  <2>1. SumFunction(net'[f]) = SumFunction(net[f]) + SumFunction(net[g])
    BY <1>5, DueBoth DEF Merge
  <2>2. /\ count'[f] = count[f] + count[g]
        /\ \A h \in CF : h # f => count'[h] = count[h] /\ net'[h] = net[h] /\ cut'[h] = cut[h]
    BY <1>5 DEF Merge, Typed
  <2>3. Gap(f)' = Gap(f) + Gap(g)
    BY <1>0, <2>1, <2>2 DEF Gap
  <2>4. Whole(Gap(f)')
    BY <1>0, <2>3, WholePlus DEF CountInv, CountFits
  <2>5. ~cut'[f] => ~cut[f] /\ ~cut[g]
    <3> DEFINE b == cut[f] \/ cut[g]
    <3>1. cut' = [cut EXCEPT ![f] = b]
      BY <1>5 DEF Merge
    <3>2. b <=> cut[f] \/ cut[g]
      BY Zenon
    <3> HIDE DEF b
    <3>3. cut'[f] = b
      BY <3>1
    <3> QED BY <3>2, <3>3, Zenon
  <2>6. ~cut'[f] => Gap(f)' = 0
    BY <1>0, <2>3, <2>5 DEF CountInv, CountFits
  <2>7. CountFits(f)'
    BY <2>4, <2>6 DEF CountFits, Whole
  <2> QED BY <2>2, <2>7, CountOne
<1>6. CASE UNCHANGED vars
  <2>1. \A f \in CF : Gap(f)' = Gap(f) /\ cut'[f] = cut[f]
    BY <1>6 DEF vars, Gap
  <2> QED BY <2>1 DEF CountInv, CountFits
<1> QED BY <1>1, <1>2, <1>3, <1>4, <1>5, <1>6 DEF Next, Copied

-----------------------------------------------------------------------------
(* The counters *)

\* What a call writes at a position.
LEMMA AddedCounter ==
  ASSUME Typed, NEW f \in CF, NEW data \in Item, Add(f, data), NEW pos \in 0 .. M - 1
  PROVE  /\ counters'[f][pos] = Packed(counters[f][pos] + Multiplicity(data, pos))
         /\ pos \in Positions(data, K, M) => counters[f][pos] < MaxCount
<1> DEFINE row == [i \in 0 .. M - 1 |-> Packed(counters[f][i] + Multiplicity(data, i))]
<1>1. counters'[f][pos] = Packed(counters[f][pos] + Multiplicity(data, pos))
  <2>1. counters' = [counters EXCEPT ![f] = row]
    BY AddFacts
  <2>2. row[pos] = Packed(counters[f][pos] + Multiplicity(data, pos))
    OBVIOUS
  <2> HIDE DEF row
  <2>3. counters'[f] = row
    BY <2>1 DEF Typed
  <2> QED BY <2>2, <2>3
<1>2. pos \in Positions(data, K, M) => counters[f][pos] < MaxCount
  BY DEF Add, NoOverflow
<1> QED BY <1>1, <1>2

LEMMA RemovedCounter ==
  ASSUME Typed, NEW f \in CF, NEW data \in Item, Remove(f, data), NEW pos \in 0 .. M - 1
  PROVE  /\ counters'[f][pos] = Packed(counters[f][pos] - Multiplicity(data, pos))
         /\ pos \in Positions(data, K, M) => counters[f][pos] > 0
<1> DEFINE row == [i \in 0 .. M - 1 |-> Packed(counters[f][i] - Multiplicity(data, i))]
<1>1. counters'[f][pos] = Packed(counters[f][pos] - Multiplicity(data, pos))
  <2>1. counters' = [counters EXCEPT ![f] = row]
    BY RemoveFacts
  <2>2. row[pos] = Packed(counters[f][pos] - Multiplicity(data, pos))
    OBVIOUS
  <2> HIDE DEF row
  <2>3. counters'[f] = row
    BY <2>1 DEF Typed
  <2> QED BY <2>2, <2>3
<1>2. pos \in Positions(data, K, M) => counters[f][pos] > 0
  BY DEF Remove
<1> QED BY <1>1, <1>2

LEMMA MergedCounter ==
  ASSUME Typed, NEW f \in CF, NEW g \in CF, Merge(f, g), NEW pos \in 0 .. M - 1
  PROVE  counters'[f][pos] = Clamped(counters[f][pos] + counters[g][pos])
BY DEF Merge, SumAt, Typed

\* Whether a merge has cut a sum is true or false.
ClampedOK == clamped \in [CF -> BOOLEAN]

\* What a merge notes of the sums it cuts.
LEMMA MergedClamped ==
  ASSUME ClampedOK, NEW f \in CF, NEW g \in CF, Merge(f, g)
  PROVE  /\ ClampedOK'
         /\ \A h \in CF : h # f => clamped'[h] = clamped[h]
         /\ ~clamped'[f] => /\ ~clamped[f] /\ ~clamped[g]
                            /\ \A pos \in 0 .. M - 1 : ~(SumAt(f, g, pos) > MaxCount)
<1> DEFINE over == \E pos \in 0 .. M - 1 : SumAt(f, g, pos) > MaxCount
           b == clamped[f] \/ clamped[g] \/ over
<1>1. b \in BOOLEAN
  BY Zenon
<1>2. clamped' = [clamped EXCEPT ![f] = b]
  BY DEF Merge
<1>3. b <=> clamped[f] \/ clamped[g] \/ over
  BY Zenon
<1>4. over <=> \E pos \in 0 .. M - 1 : SumAt(f, g, pos) > MaxCount
  BY Zenon
<1> HIDE DEF over, b
<1>5. ClampedOK'
  BY <1>1, <1>2 DEF ClampedOK
<1>6. clamped'[f] = b /\ \A h \in CF : h # f => clamped'[h] = clamped[h]
  BY <1>2, Zenon DEF ClampedOK
<1> QED BY <1>3, <1>4, <1>5, <1>6, Zenon

LEMMA ClampedStep == ClampedOK /\ [Next]_vars => ClampedOK'
<1> SUFFICES ASSUME ClampedOK, [Next]_vars PROVE ClampedOK'
  OBVIOUS
<1>1. ASSUME NEW f \in CF, Reset(f) PROVE ClampedOK'
  BY <1>1 DEF Reset, ClampedOK
<1>2. ASSUME NEW f \in CF, NEW g \in CF, Copied(f, g) PROVE ClampedOK'
  BY <1>2, CopyFacts DEF ClampedOK
<1>3. ASSUME UNCHANGED clamped PROVE ClampedOK'
  BY <1>3 DEF ClampedOK
<1> QED BY <1>1, <1>2, <1>3, MergedClamped DEF Next, Copied, Add, Remove, vars

\* The counters, the counts and the histories keep their types, for counters of
\* 1 to 8 bits: nothing that Add, Remove or Merge writes is wider than a counter.
THEOREM CountingTypeCorrect == Spec => []TypeOK
<1>1. Init => ClampedOK /\ CutOK
  BY DEF Init, ClampedOK, CutOK
<1>2. Spec => [](ClampedOK /\ CutOK)
  BY <1>1, ClampedStep, CutStep, PTL DEF Spec
<1>3. Typed /\ ClampedOK /\ CutOK => TypeOK
  BY DEF Typed, ClampedOK, CutOK, TypeOK
<1> QED BY <1>2, <1>3, TypedInvariant, PTL

\* What a call leaves alone.
Kept(h) == counters'[h] = counters[h] /\ net'[h] = net[h] /\ clamped'[h] = clamped[h]

LEMMA OthersKept ==
  ASSUME Typed, ClampedOK, NEW f \in CF
  PROVE  /\ \A data \in Item : Add(f, data) \/ Remove(f, data) =>
              clamped' = clamped /\ \A h \in CF : h # f => Kept(h)
         /\ Reset(f) => \A h \in CF : h # f => Kept(h)
         /\ \A g \in CF : Copied(g, f) =>
              /\ counters'[f] = counters[g] /\ net'[f] = net[g] /\ clamped'[f] = clamped[g]
              /\ \A h \in CF : h # f => Kept(h)
         /\ \A g \in CF : Merge(f, g) => \A h \in CF : h # f => Kept(h)
<1>1. /\ counters \in [CF -> [0 .. M - 1 -> 0 .. MaxCount]]
      /\ net \in [CF -> [Item -> Int]]
      /\ clamped \in [CF -> BOOLEAN]
  BY DEF Typed, ClampedOK
<1>2. ASSUME NEW data \in Item, Add(f, data) \/ Remove(f, data)
      PROVE  clamped' = clamped /\ \A h \in CF : h # f => Kept(h)
  BY <1>1, <1>2, AddFacts, RemoveFacts DEF Kept
<1>3. ASSUME Reset(f) PROVE \A h \in CF : h # f => Kept(h)
  BY <1>1, <1>3 DEF Reset, Kept
<1>4. ASSUME NEW g \in CF, Copied(g, f)
      PROVE  /\ counters'[f] = counters[g] /\ net'[f] = net[g] /\ clamped'[f] = clamped[g]
             /\ \A h \in CF : h # f => Kept(h)
  BY <1>1, <1>4, CopyFacts DEF Kept
<1>5. ASSUME NEW g \in CF, Merge(f, g) PROVE \A h \in CF : h # f => Kept(h)
  <2>1. \A h \in CF : h # f => counters'[h] = counters[h] /\ net'[h] = net[h]
    BY <1>1, <1>5 DEF Merge
  <2>2. \A h \in CF : h # f => clamped'[h] = clamped[h]
    BY <1>5, MergedClamped
  <2> QED BY <2>1, <2>2 DEF Kept
<1> QED BY <1>2, <1>3, <1>4, <1>5

-----------------------------------------------------------------------------
(* Counters of items with k positions each *)

\* A counter that is what it should be, or was cut.
Fits(f, pos) ==
  /\ counters[f][pos] <= Due(f, pos)
  /\ ~clamped[f] => counters[f][pos] = Due(f, pos)

FitsInv == \A f \in CF : \A pos \in 0 .. M - 1 : Fits(f, pos)

\* What was not changed fits as before, and what was copied fits the copy.
LEMMA FitsKept ==
  ASSUME FitsInv, NEW g \in CF, NEW f \in CF,
         counters'[f] = counters[g], net'[f] = net[g], clamped'[f] = clamped[g]
  PROVE  \A pos \in 0 .. M - 1 : Fits(f, pos)'
<1> SUFFICES ASSUME NEW pos \in 0 .. M - 1 PROVE Fits(f, pos)'
  OBVIOUS
<1>1. Fits(g, pos)
  BY DEF FitsInv
<1>2. Due(f, pos)' = Due(g, pos)
  BY DueSame
<1> QED BY <1>1, <1>2 DEF Fits

\* One filter changed, and fits.
LEMMA FitsOne ==
  ASSUME FitsInv, NEW f \in CF, \A h \in CF : h # f => Kept(h),
         \A pos \in 0 .. M - 1 : Fits(f, pos)'
  PROVE  FitsInv'
<1> SUFFICES ASSUME NEW h \in CF, NEW pos \in 0 .. M - 1 PROVE Fits(h, pos)'
  BY DEF FitsInv
<1>1. CASE h = f
  BY <1>1
<1>2. CASE h # f
  BY <1>2, FitsKept DEF Kept
<1> QED BY <1>1, <1>2

LEMMA FitsStep ==
  ASSUME IsFiniteSet(Item), DistinctPositions, Typed, ClampedOK, FitsInv, [Next]_vars
  PROVE  FitsInv'
<1> USE MaxCountType
<1> HIDE DEF MaxCount
<1>1. ASSUME NEW f \in CF, NEW data \in Item, Add(f, data) PROVE FitsInv'
  <2>1. ASSUME NEW pos \in 0 .. M - 1 PROVE Fits(f, pos)'
    <3> DEFINE n == Multiplicity(data, pos)
               c == counters[f][pos]
    <3>1. /\ n = IF pos \in Positions(data, K, M) THEN 1 ELSE 0
          /\ pos \in Positions(data, K, M) => c < MaxCount
          /\ counters'[f][pos] = Packed(c + n)
      BY <1>1, DistinctHitsOnce, AddedCounter
    <3>2. c \in 0 .. MaxCount
      BY CounterType
    <3>3. Due(f, pos) \in Int /\ Due(f, pos)' = Due(f, pos) + n
      BY <1>1, DueType, DueAdded
    <3>4. Fits(f, pos) /\ clamped'[f] = clamped[f]
      BY <1>1, AddFacts DEF FitsInv
    <3> HIDE DEF n, c
    <3>5. c + n \in 0 .. MaxCount /\ n \in Int
      BY <3>1, <3>2
    <3>6. counters'[f][pos] = c + n
      BY <3>1, <3>5, PackedFits
    <3> QED BY <3>2, <3>3, <3>4, <3>5, <3>6 DEF Fits, c
  <2> QED BY <1>1, <2>1, OthersKept, FitsOne
<1>2. ASSUME NEW f \in CF, NEW data \in Item, Remove(f, data) PROVE FitsInv'
  <2>1. ASSUME NEW pos \in 0 .. M - 1 PROVE Fits(f, pos)'
    <3> DEFINE n == Multiplicity(data, pos)
               c == counters[f][pos]
    <3>1. /\ n = IF pos \in Positions(data, K, M) THEN 1 ELSE 0
          /\ pos \in Positions(data, K, M) => c > 0
          /\ counters'[f][pos] = Packed(c - n)
      BY <1>2, DistinctHitsOnce, RemovedCounter
    <3>2. c \in 0 .. MaxCount
      BY CounterType
    <3>3. Due(f, pos) \in Int /\ Due(f, pos)' = Due(f, pos) - n
      BY <1>2, DueType, DueRemoved
    <3>4. Fits(f, pos) /\ clamped'[f] = clamped[f]
      BY <1>2, RemoveFacts DEF FitsInv
    <3> HIDE DEF n, c
    <3>5. c - n \in 0 .. MaxCount /\ n \in Int
      BY <3>1, <3>2
    <3>6. counters'[f][pos] = c - n
      BY <3>1, <3>5, PackedFits
    <3> QED BY <3>2, <3>3, <3>4, <3>5, <3>6 DEF Fits, c
  <2> QED BY <1>2, <2>1, OthersKept, FitsOne
<1>3. ASSUME NEW f \in CF, Reset(f) PROVE FitsInv'
  <2>1. ASSUME NEW pos \in 0 .. M - 1 PROVE Fits(f, pos)'
    <3>1. counters'[f] = Zero
      BY <1>3 DEF Reset, Cleared, Typed
    <3>2. counters'[f][pos] = 0
      BY <3>1 DEF Zero
    <3>3. Due(f, pos)' = 0
      BY <1>3, DueNone DEF Reset
    <3> QED BY <3>2, <3>3 DEF Fits
  <2> QED BY <1>3, <2>1, OthersKept, FitsOne
<1>4. ASSUME NEW f \in CF, NEW g \in CF, Copied(f, g) PROVE FitsInv'
  <2>1. \A pos \in 0 .. M - 1 : Fits(g, pos)'
    BY <1>4, OthersKept, FitsKept
  <2> QED BY <1>4, <2>1, OthersKept, FitsOne
<1>5. ASSUME NEW f \in CF, NEW g \in CF, Merge(f, g) PROVE FitsInv'
  <2>1. ASSUME NEW pos \in 0 .. M - 1 PROVE Fits(f, pos)'
    <3> DEFINE a == counters[f][pos]
               b == counters[g][pos]
    <3>1. a \in Nat /\ b \in Nat
      BY CounterType
    <3>2. counters'[f][pos] = Clamped(a + b)
      BY <1>5, MergedCounter
    <3>3. /\ Due(f, pos) \in Int /\ Due(g, pos) \in Int
          /\ Due(f, pos)' = Due(f, pos) + Due(g, pos)
      BY <1>5, DueType, DueBoth DEF Merge
    <3>4. Fits(f, pos) /\ Fits(g, pos)
      BY DEF FitsInv
    <3>5. ~clamped'[f] => ~clamped[f] /\ ~clamped[g] /\ ~(a + b > MaxCount)
      BY <1>5, MergedClamped DEF SumAt
    <3>6. a <= Due(f, pos) /\ b <= Due(g, pos)
      BY <3>4 DEF Fits
    <3>7. ~clamped'[f] => a = Due(f, pos) /\ b = Due(g, pos)
      BY <3>4, <3>5 DEF Fits
    <3> HIDE DEF a, b
    <3>8. /\ Clamped(a + b) \in Int /\ Clamped(a + b) <= a + b
          /\ a + b <= MaxCount => Clamped(a + b) = a + b
      BY <3>1, ClampedType
    <3>9. Clamped(a + b) <= Due(f, pos) + Due(g, pos)
      BY <3>1, <3>3, <3>6, <3>8
    <3>10. ASSUME ~clamped'[f] PROVE Clamped(a + b) = Due(f, pos) + Due(g, pos)
      <4>1. a = Due(f, pos) /\ b = Due(g, pos) /\ ~(a + b > MaxCount)
        BY <3>5, <3>7, <3>10
      <4> QED BY <3>1, <3>8, <4>1
    <3> QED BY <3>2, <3>3, <3>9, <3>10 DEF Fits
  <2> QED BY <1>5, <2>1, OthersKept, FitsOne
<1>6. CASE UNCHANGED vars
  <2>1. \A h \in CF : Kept(h)
    BY <1>6 DEF vars, Kept
  <2> QED BY <2>1, FitsKept DEF Kept, FitsInv
<1> QED BY <1>1, <1>2, <1>3, <1>4, <1>5, <1>6 DEF Next, Copied

\* A new filter should have, and has, counters and a count of 0.
LEMMA DueInit ==
  ASSUME IsFiniteSet(Item), Init, NEW f \in CF
  PROVE  /\ count[f] = 0 /\ SumFunction(net[f]) = 0
         /\ \A pos : Due(f, pos) = 0
         /\ \A pos \in 0 .. M - 1 : counters[f][pos] = 0
<1> DEFINE z == [x \in Item |-> 0]
<1>1. net[f] = z /\ z \in [Item -> Int] /\ count[f] = 0
  BY DEF Init
<1>2. \A w \in [Item -> Int] : Weighted(z, w) = 0
  BY WeightedZero
<1>3. counters[f] = Zero
  BY DEF Init
<1>4. \A pos \in 0 .. M - 1 : counters[f][pos] = 0
  BY <1>3 DEF Zero
<1> HIDE DEF z
<1> QED BY <1>1, <1>2, <1>4, HitsType, DueIsWeighted, CountIsWeighted

\* The counters of a filter are exact after any history of calls, until a merge
\* cuts one, if every item has k different positions: counters of any size, any
\* number of filters, hashes that collide in any way between items.  The count is
\* exact until a snapshot cuts it, and in its lowest 32 bits after that.
THEOREM CountersExact ==
  ASSUME IsFiniteSet(Item), DistinctPositions
  PROVE  Spec => []ExactCounters
<1> DEFINE Inv == Typed /\ ClampedOK /\ CutOK /\ CountInv /\ FitsInv
<1>1. Init => Inv
  <2> SUFFICES ASSUME Init PROVE Inv
    OBVIOUS
  <2>1. Typed
    BY ZeroType DEF Init, Typed
  <2>2. ClampedOK
    BY DEF Init, ClampedOK
  <2>3. CountInv
    <3> SUFFICES ASSUME NEW f \in CF PROVE CountFits(f)
      BY DEF CountInv
    <3>1. Gap(f) = 0
      BY DueInit DEF Gap
    <3> QED BY <3>1, NoneIsWhole DEF CountFits
  <2>4. FitsInv
    BY DueInit DEF FitsInv, Fits
  <2>5. CutOK
    BY DEF Init, CutOK
  <2> QED BY <2>1, <2>2, <2>3, <2>4, <2>5
<1>2. Inv /\ [Next]_vars => Inv'
  BY TypedStep, ClampedStep, CutStep, CountStep, FitsStep
<1>3. Inv => ExactCounters
  <2> SUFFICES ASSUME Inv, NEW f \in CF
               PROVE  /\ (count[f] - SumFunction(net[f])) % Word32 = 0
                      /\ ~cut[f] => count[f] = SumFunction(net[f])
                      /\ ~clamped[f] => \A pos \in 0 .. M - 1 : counters[f][pos] = Due(f, pos)
    BY DEF ExactCounters
  <2>1. count[f] \in Int /\ SumFunction(net[f]) \in Int
    BY DueType DEF Typed
  <2>2. Gap(f) % Word32 = 0 /\ (~cut[f] => Gap(f) = 0)
    BY DEF CountInv, CountFits, Whole
  <2>3. ~clamped[f] => \A pos \in 0 .. M - 1 : counters[f][pos] = Due(f, pos)
    BY DEF FitsInv, Fits
  <2> QED BY <2>1, <2>2, <2>3 DEF Gap
<1> QED BY <1>1, <1>2, <1>3, PTL DEF Spec

\* No counter is ever higher than the items account for, clamping merges
\* included, under the same assumptions.
THEOREM CountersNeverTooHigh ==
  ASSUME IsFiniteSet(Item), DistinctPositions
  PROVE  Spec => []NeverOvercounts
<1> DEFINE Inv == Typed /\ ClampedOK /\ FitsInv
<1>1. Init => Inv
  <2> SUFFICES ASSUME Init PROVE Inv
    OBVIOUS
  <2>1. Typed
    BY ZeroType DEF Init, Typed
  <2>2. ClampedOK
    BY DEF Init, ClampedOK
  <2>3. FitsInv
    BY DueInit DEF FitsInv, Fits
  <2> QED BY <2>1, <2>2, <2>3
<1>2. Inv /\ [Next]_vars => Inv'
  BY TypedStep, ClampedStep, FitsStep
<1>3. Inv => NeverOvercounts
  BY DEF NeverOvercounts, FitsInv, Fits
<1> QED BY <1>1, <1>2, <1>3, PTL DEF Spec

\* Of numbers, a sum is no less than any one of its terms.
LEMMA WeightedAtLeast ==
  ASSUME IsFiniteSet(Item), NEW r \in [Item -> Nat], NEW w \in [Item -> Nat], NEW y \in Item
  PROVE  Weighted(r, w) >= r[y] * w[y]
<1> DEFINE rest == [r EXCEPT ![y] = 0]
           f == [x \in Item |-> rest[x] * w[x]]
<1>1. rest \in [Item -> Nat] /\ rest[y] = 0 /\ \A x \in Item : x # y => r[x] = rest[x]
  OBVIOUS
<1> HIDE DEF rest
<1>2. ASSUME NEW x \in Item PROVE f[x] \in Nat
  <2>1. rest[x] \in Nat /\ w[x] \in Nat
    BY <1>1
  <2>2. \A a, b \in Nat : a * b \in Nat
    OBVIOUS
  <2> QED BY <2>1, <2>2
<1>3. DOMAIN f = Item /\ Weighted(rest, w) = SumFunction(f)
  BY DEF Weighted
<1> HIDE DEF f
<1>4. Weighted(rest, w) \in Nat
  BY <1>2, <1>3, SumOfNumbers DEF SumFunction
<1>5. /\ r \in [Item -> Int] /\ rest \in [Item -> Int] /\ w \in [Item -> Int]
      /\ r[y] \in Int /\ r[y] = rest[y] + r[y]
  BY <1>1
<1>6. Weighted(r, w) = Weighted(rest, w) + r[y] * w[y]
  BY <1>1, <1>5, WeightedOne
<1>7. r[y] * w[y] \in Int
  OBVIOUS
<1> QED BY <1>4, <1>6, <1>7

\* No false negatives, for callers that keep the rules: if every item was
\* removed from the filter at most as often as it was added, and no merge cut a
\* counter, an item that was added more often than removed tests present.
THEOREM PresentItemsFound ==
  ASSUME IsFiniteSet(Item), DistinctPositions
  PROVE  Spec => [](\A f \in CF : ~clamped[f] /\ (\A x \in Item : net[f][x] >= 0) =>
                     \A x \in Item : net[f][x] > 0 => Test(f, x))
<1> DEFINE Found == \A f \in CF : ~clamped[f] /\ (\A x \in Item : net[f][x] >= 0) =>
                      \A x \in Item : net[f][x] > 0 => Test(f, x)
<1>1. Typed /\ ExactCounters => Found
  <2> SUFFICES ASSUME Typed, ExactCounters, NEW f \in CF, ~clamped[f],
                      \A x \in Item : net[f][x] >= 0,
                      NEW x \in Item, net[f][x] > 0, NEW pos \in Positions(x, K, M)
               PROVE  counters[f][pos] > 0
    BY DEF Test
  <2>1. pos \in 0 .. M - 1
    <3>1. K \in Nat /\ M \in Nat \ {0}
      BY CountingAssumption
    <3> QED BY <3>1, PositionsRange
  <2>2. counters[f][pos] = Due(f, pos)
    BY <2>1 DEF ExactCounters
  <2>3. net[f] \in [Item -> Nat] /\ Hits(pos) \in [Item -> Nat]
    BY MultiplicityType DEF Typed, Hits
  <2>4. net[f][x] \in Nat \ {0} /\ Hits(pos)[x] = 1
    BY <2>3, DistinctHitsOnce DEF Hits
  <2>5. net[f][x] * Hits(pos)[x] >= 1
    BY <2>4
  <2>6. Weighted(net[f], Hits(pos)) >= net[f][x] * Hits(pos)[x]
    BY <2>3, WeightedAtLeast
  <2>7. Due(f, pos) \in Int /\ Due(f, pos) = Weighted(net[f], Hits(pos))
    BY DueType, DueIsWeighted
  <2>8. net[f][x] * Hits(pos)[x] \in Int
    BY <2>4
  <2> QED BY <2>2, <2>5, <2>6, <2>7, <2>8
<1> QED BY <1>1, CountersExact, TypedInvariant, PTL

-----------------------------------------------------------------------------
(* Counters of any items *)

\* What is left of a counter that went round.
Rest(f, pos) == ~clamped[f] => counters[f][pos] = Packed(Due(f, pos))

RestInv == \A f \in CF : \A pos \in 0 .. M - 1 : Rest(f, pos)

\* Cutting before adding is cutting after it.
LEMMA PackedPlus ==
  ASSUME NEW a \in Int, NEW b \in Int
  PROVE  /\ Packed(Packed(a) + b) = Packed(a + b)
         /\ Packed(Packed(a) - b) = Packed(a - b)
<1> DEFINE n == MaxCount + 1
<1>1. n \in Nat \ {0}
  BY MaxCountType
<1>2. \A v : Packed(v) = v % n
  BY DEF Packed
<1> HIDE DEF n
<1>3. -b \in Int /\ (a % n) \in Int
  BY <1>1
<1>4. ((a % n) + b) % n = (a + b) % n
  BY <1>1, ModPlus
<1>5. ((a % n) + (-b)) % n = (a + (-b)) % n
  BY <1>1, <1>3, ModPlus
<1>6. (a % n) + (-b) = (a % n) - b /\ a + (-b) = a - b
  BY <1>3
<1> QED BY <1>2, <1>4, <1>5, <1>6

LEMMA RestKept ==
  ASSUME RestInv, NEW g \in CF, NEW f \in CF,
         counters'[f] = counters[g], net'[f] = net[g], clamped'[f] = clamped[g]
  PROVE  \A pos \in 0 .. M - 1 : Rest(f, pos)'
<1> SUFFICES ASSUME NEW pos \in 0 .. M - 1 PROVE Rest(f, pos)'
  OBVIOUS
<1>1. Rest(g, pos)
  BY DEF RestInv
<1>2. Due(f, pos)' = Due(g, pos)
  BY DueSame
<1> QED BY <1>1, <1>2 DEF Rest

LEMMA RestOne ==
  ASSUME RestInv, NEW f \in CF, \A h \in CF : h # f => Kept(h),
         \A pos \in 0 .. M - 1 : Rest(f, pos)'
  PROVE  RestInv'
<1> SUFFICES ASSUME NEW h \in CF, NEW pos \in 0 .. M - 1 PROVE Rest(h, pos)'
  BY DEF RestInv
<1>1. CASE h = f
  BY <1>1
<1>2. CASE h # f
  BY <1>2, RestKept DEF Kept
<1> QED BY <1>1, <1>2

LEMMA RestStep ==
  ASSUME IsFiniteSet(Item), Typed, ClampedOK, RestInv, [Next]_vars
  PROVE  RestInv'
<1>1. ASSUME NEW f \in CF, NEW data \in Item, Add(f, data) PROVE RestInv'
  <2>1. ASSUME NEW pos \in 0 .. M - 1 PROVE Rest(f, pos)'
    <3> DEFINE n == Multiplicity(data, pos)
    <3>1. counters'[f][pos] = Packed(counters[f][pos] + n) /\ n \in Int
      BY <1>1, AddedCounter, MultiplicityType
    <3>2. Due(f, pos) \in Int /\ Due(f, pos)' = Due(f, pos) + n
      BY <1>1, DueType, DueAdded
    <3>3. Rest(f, pos) /\ clamped'[f] = clamped[f]
      BY <1>1, AddFacts DEF RestInv
    <3> HIDE DEF n
    <3>4. Packed(Packed(Due(f, pos)) + n) = Packed(Due(f, pos) + n)
      BY <3>1, <3>2, PackedPlus
    <3> QED BY <3>1, <3>2, <3>3, <3>4 DEF Rest
  <2> QED BY <1>1, <2>1, OthersKept, RestOne
<1>2. ASSUME NEW f \in CF, NEW data \in Item, Remove(f, data) PROVE RestInv'
  <2>1. ASSUME NEW pos \in 0 .. M - 1 PROVE Rest(f, pos)'
    <3> DEFINE n == Multiplicity(data, pos)
    <3>1. counters'[f][pos] = Packed(counters[f][pos] - n) /\ n \in Int
      BY <1>2, RemovedCounter, MultiplicityType
    <3>2. Due(f, pos) \in Int /\ Due(f, pos)' = Due(f, pos) - n
      BY <1>2, DueType, DueRemoved
    <3>3. Rest(f, pos) /\ clamped'[f] = clamped[f]
      BY <1>2, RemoveFacts DEF RestInv
    <3> HIDE DEF n
    <3>4. Packed(Packed(Due(f, pos)) - n) = Packed(Due(f, pos) - n)
      BY <3>1, <3>2, PackedPlus
    <3> QED BY <3>1, <3>2, <3>3, <3>4 DEF Rest
  <2> QED BY <1>2, <2>1, OthersKept, RestOne
<1>3. ASSUME NEW f \in CF, Reset(f) PROVE RestInv'
  <2>1. ASSUME NEW pos \in 0 .. M - 1 PROVE Rest(f, pos)'
    <3>1. counters'[f] = Zero
      BY <1>3 DEF Reset, Cleared, Typed
    <3>2. counters'[f][pos] = 0
      BY <3>1 DEF Zero
    <3>3. Due(f, pos)' = 0
      BY <1>3, DueNone DEF Reset
    <3>4. 0 \in 0 .. MaxCount
      <4> HIDE DEF MaxCount
      <4> QED BY MaxCountType
    <3>5. Packed(0) = 0
      BY <3>4, PackedFits
    <3> QED BY <3>2, <3>3, <3>5 DEF Rest
  <2> QED BY <1>3, <2>1, OthersKept, RestOne
<1>4. ASSUME NEW f \in CF, NEW g \in CF, Copied(f, g) PROVE RestInv'
  <2>1. \A pos \in 0 .. M - 1 : Rest(g, pos)'
    BY <1>4, OthersKept, RestKept
  <2> QED BY <1>4, <2>1, OthersKept, RestOne
<1>5. ASSUME NEW f \in CF, NEW g \in CF, Merge(f, g) PROVE RestInv'
  <2>1. ASSUME NEW pos \in 0 .. M - 1 PROVE Rest(f, pos)'
    <3> DEFINE a == counters[f][pos]
               b == counters[g][pos]
               p == Due(f, pos)
               q == Due(g, pos)
    <3> SUFFICES ASSUME ~clamped'[f] PROVE counters'[f][pos] = Packed(Due(f, pos)')
      BY DEF Rest
    <3>1. a \in Nat /\ b \in Nat
      BY CounterType
    <3>2. counters'[f][pos] = Clamped(a + b)
      BY <1>5, MergedCounter
    <3>3. p \in Int /\ q \in Int /\ Due(f, pos)' = p + q
      BY <1>5, DueType, DueBoth DEF Merge
    <3>4. ~clamped[f] /\ ~clamped[g] /\ ~(a + b > MaxCount)
      BY <1>5, MergedClamped DEF SumAt
    <3>5. a = Packed(p) /\ b = Packed(q)
      BY <3>4 DEF RestInv, Rest
    <3> HIDE DEF a, b, p, q, MaxCount
    <3>6. a + b \in 0 .. MaxCount /\ a + b <= MaxCount /\ a + b \in Nat
      BY <3>1, <3>4, MaxCountType
    <3>7. Clamped(a + b) = a + b /\ Packed(a + b) = a + b
      BY <3>6, ClampedType, PackedFits
    <3>8. Packed(a + b) = Packed(p + b)
      BY <3>1, <3>3, <3>5, PackedPlus
    <3>9. Packed(b + p) = Packed(q + p)
      BY <3>1, <3>3, <3>5, PackedPlus
    <3>10. p + b = b + p /\ q + p = p + q
      BY <3>1, <3>3
    <3> QED BY <3>2, <3>3, <3>7, <3>8, <3>9, <3>10
  <2> QED BY <1>5, <2>1, OthersKept, RestOne
<1>6. CASE UNCHANGED vars
  <2>1. \A h \in CF : Kept(h)
    BY <1>6 DEF vars, Kept
  <2> QED BY <2>1, RestKept DEF Kept, RestInv
<1> QED BY <1>1, <1>2, <1>3, <1>4, <1>5, <1>6 DEF Next, Copied

\* Where the documentation promises ErrOverflow and an item that has a position
\* twice wraps a counter round, nothing but whole rounds is lost: until a merge
\* cuts one, every counter is what it should be modulo 2^counterBits, and exact
\* again as soon as what it should be fits.
THEOREM CountersExactInWord ==
  ASSUME IsFiniteSet(Item)
  PROVE  Spec => [](\A f \in CF : ~clamped[f] =>
                     \A pos \in 0 .. M - 1 :
                       /\ counters[f][pos] = Packed(Due(f, pos))
                       /\ Due(f, pos) \in 0 .. MaxCount => counters[f][pos] = Due(f, pos))
<1> DEFINE Inv == Typed /\ ClampedOK /\ RestInv
           Exact == \A f \in CF : ~clamped[f] =>
                      \A pos \in 0 .. M - 1 :
                        /\ counters[f][pos] = Packed(Due(f, pos))
                        /\ Due(f, pos) \in 0 .. MaxCount => counters[f][pos] = Due(f, pos)
<1>1. Init => Inv
  <2> SUFFICES ASSUME Init PROVE Inv
    OBVIOUS
  <2>1. Typed
    BY ZeroType DEF Init, Typed
  <2>2. ClampedOK
    BY DEF Init, ClampedOK
  <2>3. 0 \in 0 .. MaxCount
    <3> HIDE DEF MaxCount
    <3> QED BY MaxCountType
  <2>4. RestInv
    BY <2>3, DueInit, PackedFits DEF RestInv, Rest
  <2> QED BY <2>1, <2>2, <2>4
<1>2. Inv /\ [Next]_vars => Inv'
  BY TypedStep, ClampedStep, RestStep
<1>3. Inv => Exact
  BY PackedFits DEF RestInv, Rest
<1> QED BY <1>1, <1>2, <1>3, PTL DEF Spec

-----------------------------------------------------------------------------
(* The locks around the calls *)

Labels == {"idle", "lock", "drain", "rlock", "in"}

LocksTyped ==
  /\ pc \in [Thread -> Labels]
  /\ op \in [Thread -> Ops \cup {<<None, None>>}]
  /\ writer \in [Filters -> Thread \cup {None}]
  /\ readers \in [Filters -> SUBSET Thread]

\* What a call needs where it is, it has, and has for itself.
Holds(t) ==
  /\ pc[t] \in {"lock", "drain"} => First(t) # None
  /\ pc[t] = "rlock" => Second(t) # None
  /\ First(t) # None =>
       /\ pc[t] \in {"drain", "rlock", "in"} => writer[First(t)] = t
       /\ pc[t] \in {"rlock", "in"} => readers[First(t)] = {}
  /\ pc[t] = "in" /\ Second(t) # None => t \in readers[Second(t)]

\* What is held is held by a call that needs it.
Held(f) ==
  /\ writer[f] # None =>
       /\ First(writer[f]) = f
       /\ pc[writer[f]] \in {"drain", "rlock", "in"}
  /\ \A t \in readers[f] : Second(t) = f /\ pc[t] = "in"

LocksInv ==
  /\ LocksTyped
  /\ \A t \in Thread : Holds(t)
  /\ \A f \in Filters : Held(f)

\* A call takes filters' locks or none.
LEMMA OpsType ==
         /\ \A o \in Ops \cup {<<None, None>>} :
              o[1] \in Filters \cup {None} /\ o[2] \in Filters \cup {None}
         /\ \A o \in Ops : o[1] = None => o[2] # None
         /\ None \notin Filters /\ None \notin Thread
<1>1. /\ \A o \in Merges : o[1] \in Filters /\ o[2] \in Filters
      /\ None \notin Filters /\ None \notin Thread
  BY LocksAssumption
<1>2. /\ \A o \in {<<f, None>> : f \in Filters} : o[1] \in Filters /\ o[2] = None
      /\ \A o \in {<<None, f>> : f \in Filters} : o[1] = None /\ o[2] \in Filters
  OBVIOUS
<1>3. \A o \in {<<None, None>>} : o[1] = None /\ o[2] = None
  OBVIOUS
<1>4. \A o \in Ops : o \in Merges \/ o \in {<<f, None>> : f \in Filters}
                                        \/ o \in {<<None, f>> : f \in Filters}
  BY DEF Ops
<1> QED BY <1>1, <1>2, <1>3, <1>4

LEMMA LocksInit == InitLocks => LocksInv
<1> SUFFICES ASSUME InitLocks PROVE LocksInv
  OBVIOUS
<1>1. LocksTyped
  BY DEF InitLocks, LocksTyped, Labels
<1>2. \A t \in Thread : pc[t] = "idle" /\ First(t) = None
  BY DEF InitLocks, First
<1>3. \A f \in Filters : writer[f] = None /\ readers[f] = {}
  BY DEF InitLocks
<1> QED BY <1>1, <1>2, <1>3 DEF LocksInv, Holds, Held

\* What the locks of a call are, before and after a step of it or another.
LEMMA OpKept ==
  ASSUME LocksTyped
  PROVE  /\ \A t \in Thread :
              First(t) \in Filters \cup {None} /\ Second(t) \in Filters \cup {None}
         /\ op' = op => \A t : First(t)' = First(t) /\ Second(t)' = Second(t)
         /\ \A t \in Thread : \A label :
              Goto(t, label) => pc'[t] = label /\ \A u \in Thread : u # t => pc'[u] = pc[u]
<1>1. \A t \in Thread :
        First(t) \in Filters \cup {None} /\ Second(t) \in Filters \cup {None}
  BY OpsType DEF LocksTyped, First, Second
<1>2. op' = op => \A t : First(t)' = First(t) /\ Second(t)' = Second(t)
  BY DEF First, Second
<1>3. \A t \in Thread : \A label :
        Goto(t, label) => pc'[t] = label /\ \A u \in Thread : u # t => pc'[u] = pc[u]
  BY DEF LocksTyped, Goto
<1> QED BY <1>1, <1>2, <1>3

LEMMA LocksStep ==
  ASSUME LocksInv, [NextLocks]_(lockVars)
  PROVE  LocksInv'
<1> USE OpsType, OpKept DEF LocksInv
<1>1. ASSUME NEW t \in Thread, Call(t) PROVE LocksInv'
  <2>1. PICK o \in Ops :
          /\ op' = [op EXCEPT ![t] = o]
          /\ Goto(t, IF o[1] = None THEN "rlock" ELSE "lock")
    BY <1>1 DEF Call
  <2>2. pc[t] = "idle" /\ writer' = writer /\ readers' = readers
    BY <1>1 DEF Call
  <2>3. LocksTyped'
    BY <2>1, <2>2 DEF LocksTyped, Labels, Goto
  <2>4. /\ First(t)' = o[1] /\ Second(t)' = o[2]
        /\ \A u \in Thread : u # t => /\ First(u)' = First(u)
                                      /\ Second(u)' = Second(u)
    BY <2>1 DEF LocksTyped, First, Second
  <2>5. /\ pc'[t] = IF o[1] = None THEN "rlock" ELSE "lock"
        /\ \A u \in Thread : u # t => pc'[u] = pc[u]
    BY <2>1
  <2>6. \A u \in Thread : Holds(u)'
    BY <2>1, <2>2, <2>4, <2>5 DEF Holds
  <2>7. \A f \in Filters : Held(f)'
    BY <2>2, <2>4, <2>5 DEF Held, LocksTyped
  <2> QED BY <2>3, <2>6, <2>7
<1>2. ASSUME NEW t \in Thread, Lock(t) PROVE LocksInv'
  <2> DEFINE g == First(t)
  <2>1. /\ pc[t] = "lock" /\ writer[g] = None
        /\ writer' = [writer EXCEPT ![g] = t] /\ op' = op /\ readers' = readers
        /\ Goto(t, "drain")
    BY <1>2 DEF Lock
  <2>2. g \in Filters
    BY <2>1 DEF Holds
  <2>3. LocksTyped'
    BY <2>1 DEF LocksTyped, Labels, Goto
  <2>4. writer'[g] = t /\ \A f \in Filters : f # g => writer'[f] = writer[f]
    BY <2>1, <2>2 DEF LocksTyped
  <2>5. pc'[t] = "drain" /\ \A u \in Thread : u # t => pc'[u] = pc[u]
    BY <2>1
  <2>6. \A u \in Thread : Holds(u)'
    BY <2>1, <2>2, <2>4, <2>5 DEF Holds
  <2>7. \A f \in Filters : Held(f)'
    BY <2>1, <2>4, <2>5 DEF Held, LocksTyped
  <2> QED BY <2>3, <2>6, <2>7
<1>3. ASSUME NEW t \in Thread, Drain(t) PROVE LocksInv'
  <2>1. /\ pc[t] = "drain" /\ readers[First(t)] = {}
        /\ op' = op /\ writer' = writer /\ readers' = readers
        /\ Goto(t, IF Second(t) = None THEN "in" ELSE "rlock")
    BY <1>3 DEF Drain, ReadersGone, AfterLock
  <2>2. LocksTyped'
    BY <2>1 DEF LocksTyped, Labels, Goto
  <2>3. /\ pc'[t] = IF Second(t) = None THEN "in" ELSE "rlock"
        /\ \A u \in Thread : u # t => pc'[u] = pc[u]
    BY <2>1
  <2>4. \A u \in Thread : Holds(u)'
    BY <2>1, <2>3 DEF Holds
  <2>5. \A f \in Filters : Held(f)'
    BY <2>1, <2>3 DEF Held, LocksTyped
  <2> QED BY <2>2, <2>4, <2>5
<1>4. ASSUME NEW t \in Thread, RLock(t) PROVE LocksInv'
  <2> DEFINE g == Second(t)
  <2>1. /\ pc[t] = "rlock" /\ writer[g] = None
        /\ readers' = [readers EXCEPT ![g] = @ \cup {t}] /\ op' = op /\ writer' = writer
        /\ Goto(t, "in")
    BY <1>4 DEF RLock
  <2>2. g \in Filters
    BY <2>1 DEF Holds
  <2>3. LocksTyped'
    <3>1. readers[g] \cup {t} \in SUBSET Thread
      BY <2>2 DEF LocksTyped
    <3> HIDE DEF g
    <3>2. readers' \in [Filters -> SUBSET Thread]
      BY <2>1, <3>1 DEF LocksTyped
    <3> QED BY <2>1, <3>2 DEF LocksTyped, Labels, Goto
  <2>4. readers'[g] = readers[g] \cup {t} /\ \A f \in Filters : f # g => readers'[f] = readers[f]
    BY <2>1, <2>2 DEF LocksTyped
  <2>5. pc'[t] = "in" /\ \A u \in Thread : u # t => pc'[u] = pc[u]
    BY <2>1
  <2>6. \A u \in Thread : Holds(u)'
    BY <2>1, <2>2, <2>4, <2>5 DEF Holds
  <2>7. \A f \in Filters : Held(f)'
    BY <2>1, <2>4, <2>5 DEF Held, LocksTyped
  <2> QED BY <2>3, <2>6, <2>7
<1>5. ASSUME NEW t \in Thread, Return(t) PROVE LocksInv'
  <2>1. /\ pc[t] = "in"
        /\ writer' = [f \in Filters |-> IF f = First(t) THEN None ELSE writer[f]]
        /\ readers' = [f \in Filters |-> IF f = Second(t) THEN readers[f] \ {t} ELSE readers[f]]
        /\ op' = [op EXCEPT ![t] = <<None, None>>]
        /\ Goto(t, "idle")
    BY <1>5 DEF Return, RUnlocked
  <2>2. LocksTyped'
    BY <2>1 DEF LocksTyped, Labels, Goto
  <2>3. /\ First(t)' = None /\ Second(t)' = None
        /\ \A u \in Thread : u # t => /\ First(u)' = First(u)
                                      /\ Second(u)' = Second(u)
    BY <2>1 DEF LocksTyped, First, Second
  <2>4. pc'[t] = "idle" /\ \A u \in Thread : u # t => pc'[u] = pc[u]
    BY <2>1
  <2>5. \A u \in Thread : Holds(u)'
    BY <2>1, <2>3, <2>4 DEF Holds
  <2>6. \A f \in Filters : Held(f)'
    BY <2>1, <2>3, <2>4 DEF Held, LocksTyped
  <2> QED BY <2>2, <2>5, <2>6
<1>6. CASE UNCHANGED lockVars
  <2>1. pc' = pc /\ op' = op /\ writer' = writer /\ readers' = readers
    BY <1>6 DEF lockVars
  <2> QED BY <2>1 DEF LocksTyped, Holds, Held
<1> QED BY <1>1, <1>2, <1>3, <1>4, <1>5, <1>6 DEF NextLocks, Step

\* The locks are held by the calls that need them and by no others, wherever the
\* goroutines are.
THEOREM LocksTypeCorrect == LocksSpec => []LocksTypeOK
<1>1. LocksInv => LocksTypeOK
  BY DEF LocksInv, LocksTyped, Held, Labels, LocksTypeOK
<1> QED BY <1>1, LocksInit, LocksStep, PTL DEF LocksSpec

\* The locks exclude: while a call changes a filter no other reads or changes it,
\* for any number of goroutines and filters and any merges, those in rings and of
\* a filter with itself included.
THEOREM CallsExclude == LocksSpec => []Exclusive
<1>1. LocksInv => Exclusive
  <2> SUFFICES ASSUME LocksInv, NEW t \in Thread, NEW u \in Thread,
                      t # u, pc[t] = "in", pc[u] = "in", First(t) # None
               PROVE  First(t) # First(u) /\ First(t) # Second(u)
    BY DEF Exclusive
  <2>1. Holds(t) /\ Holds(u)
    BY DEF LocksInv
  <2> QED BY <2>1 DEF Holds
<1> QED BY <1>1, LocksInit, LocksStep, PTL DEF LocksSpec

\* A call that has locked its filter and waits to read another is a merge, and
\* whoever locks it out merges that other.
LEMMA WaitingMerges ==
  ASSUME LocksInv, NEW t \in Thread, pc[t] = "rlock", writer[Second(t)] # None,
         pc[writer[Second(t)]] = "rlock"
  PROVE  /\ Second(t) \in Filters /\ writer[Second(t)] \in Thread
         /\ LET u == writer[Second(t)]
            IN First(u) = Second(t) /\ <<First(u), Second(u)>> \in Merges
<1> DEFINE u == writer[Second(t)]
<1>1. Second(t) \in Filters
  BY OpKept DEF LocksInv, Holds
<1>2. u \in Thread /\ First(u) = Second(t)
  BY <1>1 DEF LocksInv, LocksTyped, Held
<1>3. First(u) # None /\ Second(u) # None
  BY <1>1, <1>2, OpsType DEF LocksInv, Holds
<1>4. op[u] \in Merges
  <2>1. op[u] \in Ops \cup {<<None, None>>}
    BY <1>2 DEF LocksInv, LocksTyped
  <2>2. op[u][1] # None /\ op[u][2] # None
    BY <1>3 DEF First, Second
  <2>3. \A o \in {<<f, None>> : f \in Filters} \cup {<<None, f>> : f \in Filters}
                  \cup {<<None, None>>} : o[1] = None \/ o[2] = None
    OBVIOUS
  <2> QED BY <2>1, <2>2, <2>3 DEF Ops
<1>5. op[u] = <<First(u), Second(u)>>
  BY <1>4, LocksAssumption DEF First, Second
<1> QED BY <1>1, <1>2, <1>4, <1>5

\* Where no call can go on, all that have begun wait to read a filter which
\* another of them has locked.
LEMMA HungInARing == LocksInv => OnlyRingsBlock
<1> SUFFICES ASSUME LocksInv, Hung PROVE MergeCycle
  BY DEF OnlyRingsBlock
<1> DEFINE ring == {t \in Thread : pc[t] = "rlock"}
<1>1. \A t \in Thread : ~CanStep(t) /\ Holds(t)
  BY DEF Hung, LocksInv
<1>2. \A f \in Filters : readers[f] = {}
  <2>1. \A t \in Thread : pc[t] # "in"
    BY <1>1 DEF CanStep
  <2>2. \A f \in Filters : \A t \in readers[f] : t \in Thread /\ pc[t] = "in"
    BY DEF LocksInv, LocksTyped, Held
  <2> QED BY <2>1, <2>2
<1>3. \A t \in Thread : pc[t] # "drain"
  <2> SUFFICES ASSUME NEW t \in Thread, pc[t] = "drain" PROVE FALSE
    OBVIOUS
  <2>1. First(t) \in Filters
    BY <1>1, OpKept DEF LocksInv, Holds
  <2> QED BY <1>1, <1>2, <2>1 DEF CanStep, ReadersGone
<1>4. ASSUME NEW f \in Filters, writer[f] # None PROVE writer[f] \in ring
  BY <1>1, <1>3, <1>4 DEF LocksInv, LocksTyped, Held, CanStep
<1>5. \A t \in ring : writer[Second(t)] \in ring
  <2> SUFFICES ASSUME NEW t \in ring PROVE writer[Second(t)] \in ring
    OBVIOUS
  <2>1. Second(t) \in Filters
    BY <1>1, OpKept DEF LocksInv, Holds
  <2> QED BY <1>1, <1>4, <2>1 DEF CanStep
<1>6. ring # {}
  <2>1. PICK t \in Thread : pc[t] # "idle"
    BY DEF Hung
  <2>2. pc[t] = "lock" \/ pc[t] = "rlock"
    BY <1>1, <1>3, <2>1 DEF LocksInv, LocksTyped, Labels, CanStep
  <2>3. CASE pc[t] = "lock"
    <3>1. First(t) \in Filters /\ writer[First(t)] # None
      BY <1>1, <2>3, OpKept DEF LocksInv, Holds, CanStep
    <3> QED BY <1>4, <3>1
  <2> QED BY <2>2, <2>3
<1> QED BY <1>5, <1>6 DEF MergeCycle

\* snapshot.go, Merge: nothing but a ring of merges stops the calls for good,
\* whatever else the goroutines of the program call, and how many there are.
THEOREM OnlyMergesHang == LocksSpec => []OnlyRingsBlock
BY HungInARing, LocksInit, LocksStep, PTL DEF LocksSpec

\* snapshot.go, Merge: a program that merges filters in one direction only, so
\* that no filter is merged, over others, into itself, is never stopped by the
\* locks: some call can always go on.
THEOREM OneWayMergesNeverHang ==
  ASSUME IsWellFoundedOn({<<m[2], m[1]>> : m \in Merges}, Filters)
  PROVE  LocksSpec => []~Hung
<1> DEFINE Into == {<<m[2], m[1]>> : m \in Merges}
<1>1. ASSUME LocksInv, MergeCycle PROVE FALSE
  <2>1. PICK ring \in (SUBSET Thread) \ {{}} :
          \A t \in ring : pc[t] = "rlock" /\ writer[Second(t)] \in ring
    BY <1>1 DEF MergeCycle
  <2> DEFINE wanted == {Second(t) : t \in ring}
  <2>2. \A t \in ring : writer[Second(t)] # None
    BY <2>1, LocksAssumption
  <2>3. ASSUME NEW t \in ring
        PROVE  /\ Second(t) \in Filters
               /\ <<Second(writer[Second(t)]), Second(t)>> \in Into
    <3> DEFINE u == writer[Second(t)]
    <3>1. /\ Second(t) \in Filters
          /\ First(u) = Second(t) /\ <<First(u), Second(u)>> \in Merges
      BY <1>1, <2>1, <2>2, WaitingMerges
    <3> HIDE DEF u
    <3>2. <<Second(u), First(u)>> \in Into
      BY <3>1
    <3> QED BY <3>1, <3>2 DEF u
  <2>4. wanted \subseteq Filters /\ wanted # {}
    <3>1. PICK t \in ring : TRUE
      BY <2>1
    <3> QED BY <2>3, <3>1
  <2> HIDE DEF Into
  <2>5. PICK f \in wanted : \A g \in wanted : <<g, f>> \notin Into
    <3>1. IsWellFoundedOn(Into, Filters)
      BY DEF Into
    <3> HIDE DEF wanted
    <3> QED BY <2>4, <3>1, WFMin
  <2>6. PICK t \in ring : f = Second(t)
    BY <2>5
  <2>7. Second(writer[Second(t)]) \in wanted
    BY <2>1
  <2> QED BY <2>3, <2>5, <2>6, <2>7
<1>2. LocksInv => ~Hung
  BY <1>1, HungInARing DEF OnlyRingsBlock
<1> QED BY <1>2, LocksInit, LocksStep, PTL DEF LocksSpec

=============================================================================
