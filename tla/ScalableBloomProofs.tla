------------------------ MODULE ScalableBloomProofs ------------------------
(***************************************************************************)
(* However far a ScalableBloom has grown it finds what was added, none of  *)
(* its filters holds more than the target rate allows, and Len is never    *)
(* below the number of Adds: for every hash, every sizing formula with the *)
(* properties of ScalableAssumption, and every width of the capacities.    *)
(***************************************************************************)
EXTENDS ScalableBloom, FilterProofs

\* builder.go, Build: every preloaded item is found, and invalid parameters
\* give no filter.
LEMMA BuildFacts ==
  ASSUME NEW m \in Nat, NEW k \in Nat, NEW S \in SUBSET Item
  PROVE  /\ m > 0 /\ k > 0 =>
              /\ Build(m, k, S) \in Filter
              /\ Build(m, k, S).m = m /\ Build(m, k, S).k = k
              /\ \A x \in S : TestItem(Build(m, k, S), x)
         /\ m = 0 \/ k = 0 => Build(m, k, S) = NilFilter
<1>1. CASE m > 0 /\ k > 0
  <2>1. NewFilter(m, k) \in Filter /\ NewFilter(m, k).m = m /\ NewFilter(m, k).k = k
    BY <1>1, NewFilterType DEF NewFilter, ValidParams
  <2>2. Build(m, k, S) = AddItems(NewFilter(m, k), S)
    BY <1>1 DEF Build, ValidParams
  <2> QED BY <1>1, <2>1, <2>2, AddItemsFacts
<1>2. CASE m = 0 \/ k = 0
  BY <1>2 DEF Build, ValidParams
<1> QED BY <1>1, <1>2

\* filter.go, NewFromCapacity: the filter has the size the formulas give.
LEMMA Sized ==
  ASSUME NEW n \in 1 .. Uint - 1, NEW l \in Level
  PROVE  LET f == NewFromCapacity(n, l, {})
         IN  /\ f \in Filter
             /\ \A r \in Level : /\ MostOf(f, r) \in Nat
                                 /\ MostOf(f, r) <= MostOf(f, 0)
             /\ MostOf(f, l) > 0
<1> DEFINE m == RequiredBits(n, l)
           k == OptimalK(m, n)
           f == NewFromCapacity(n, l, {})
<1>1. /\ m \in Nat \ {0} /\ k \in Nat \ {0}
      /\ \A r \in Level : /\ MaxInsertions(m, k, r) \in Nat
                          /\ MaxInsertions(m, k, r) <= MaxInsertions(m, k, 0)
      /\ MaxInsertions(m, k, l) > 0
  BY ScalableAssumption DEF ScalableAssumption
<1>2. n # 0
  BY ScalableAssumption DEF ScalableAssumption
<1>3. f = Build(m, k, {})
  BY <1>2 DEF NewFromCapacity
<1> HIDE DEF m, k, f
<1>4. f \in Filter /\ f.m = m /\ f.k = k
  BY <1>1, <1>3, BuildFacts
<1>5. QED
  BY <1>1, <1>4 DEF MostOf, f

\* The levels of the first filter and of the next one.
LEMMA Levels ==
  ASSUME NEW n \in Nat
  PROVE  /\ 0 \in Level
         /\ (IF n < Tightest THEN n ELSE Tightest) \in Level
BY ScalableAssumption DEF ScalableAssumption, Level

\* How many Adds a filter may take before the next one is made.
Room == IF maxN > 1 THEN maxN ELSE 1

\* Each filter but the last one is full, and was never given more than it holds
\* at the target rate; the last one is filled up to maxN only, which is no more.
IInv ==
  /\ TypeOK
  /\ initCap \in 1 .. Uint - 1
  /\ held[Len(held)] = currentN
  /\ \A i \in 1 .. Len(filters) : /\ MostOf(filters[i], 0) \in Nat
                                  /\ held[i] <= MostOf(filters[i], 0)
  /\ Room <= MostOf(filters[Len(filters)], 0)

LEMMA InitIInv == Init => IInv
<1> SUFFICES ASSUME Init PROVE IInv
  OBVIOUS
<1> DEFINE f == NewFromCapacity(initCap, 0, {})
<1>1. initCap \in 1 .. Uint - 1 /\ initCap \in InitCap /\ Uint \in Nat
  BY ScalableAssumption DEF Init, ScalableAssumption
<1>2. 0 \in Level
  BY Levels
<1>3. f \in Filter /\ MostOf(f, 0) \in Nat /\ MostOf(f, 0) > 0
  BY <1>1, <1>2, Sized
<1>4. growthFactor \in 1 .. Uint - 1
  BY <1>1, ScalableAssumption DEF Init, ScalableAssumption
<1> HIDE DEF f
<1>5. filters = <<f>> /\ held = <<0>> /\ maxN = MostOf(f, 0) /\ currentN = 0
      /\ cap = initCap /\ added = {}
  BY DEF Init, f
<1>6. TypeOK
  <2>1. filters \in Seq(Filter) /\ filters # <<>> /\ Len(filters) = 1 /\ filters[1] = f
    BY <1>3, <1>5
  <2>2. held \in Seq(Nat) /\ Len(held) = 1 /\ held[1] = 0
    BY <1>5
  <2> QED BY <1>1, <1>3, <1>4, <1>5, <2>1, <2>2 DEF TypeOK
<1> QED BY <1>1, <1>3, <1>5, <1>6 DEF IInv, Room

\* builder.go, grow: the next filter takes at least one item, also when the
\* capacity has wrapped to 0 and it has the size of the first one.
LEMMA NextFits ==
  ASSUME TypeOK
  PROVE  /\ NextCap \in 0 .. Uint - 1
         /\ NextFilter \in Filter
         /\ NextMaxN \in Int
         /\ MostOf(NextFilter, 0) \in Nat /\ MostOf(NextFilter, 0) > 0
         /\ NextMaxN <= MostOf(NextFilter, 0)
<1> DEFINE l == NextLevel
           f == NextFilter
           g == NewFromCapacity(initCap, 0, {})
           h == NewFromCapacity(NextCap, l, {})
<1>0. Uint \in Nat /\ Uint > 2
  BY ScalableAssumption DEF ScalableAssumption
<1>1. NextCap \in 0 .. Uint - 1
  <2> DEFINE p == cap * growthFactor
  <2>1. cap \in Int /\ growthFactor \in Int
    BY <1>0 DEF TypeOK
  <2>2. p \in Int
    BY <2>1
  <2> HIDE DEF p
  <2>3. p % Uint \in 0 .. Uint - 1
    BY <1>0, <2>2
  <2> QED BY <2>3 DEF NextCap, p
<1>2. l \in Level /\ 0 \in Level
  BY Levels DEF TypeOK, NextLevel
<1>3. initCap \in 1 .. Uint - 1
  BY ScalableAssumption DEF TypeOK, ScalableAssumption
<1>4. CASE NextCap = 0
  <2>1. f = g
    BY <1>4 DEF NextFilter
  <2>2. /\ g \in Filter
        /\ MostOf(g, l) \in Nat /\ MostOf(g, l) <= MostOf(g, 0)
        /\ MostOf(g, 0) \in Nat /\ MostOf(g, 0) > 0
    BY <1>2, <1>3, Sized
  <2>3. Int64(NextCap) = 0
    BY <1>0, <1>4 DEF Int64
  <2>4. NextMaxN = IF MostOf(f, l) > 0 THEN MostOf(f, l) ELSE 0
    BY <2>3 DEF NextMaxN
  <2> HIDE DEF f, g, l
  <2> QED BY <1>1, <2>1, <2>2, <2>4 DEF f
<1>5. CASE NextCap # 0
  <2>1. f = h
    BY <1>5 DEF NextFilter
  <2>2. NextCap \in 1 .. Uint - 1
    BY <1>0, <1>1, <1>5
  <2>3. /\ h \in Filter
        /\ MostOf(h, l) \in Nat /\ MostOf(h, l) <= MostOf(h, 0)
        /\ MostOf(h, 0) \in Nat /\ MostOf(h, l) > 0
    BY <1>2, <2>2, Sized
  <2>4. NextMaxN = MostOf(f, l)
    BY <2>1, <2>3 DEF NextMaxN
  <2> HIDE DEF f, h, l
  <2> QED BY <1>1, <2>1, <2>3, <2>4 DEF f
<1> QED BY <1>4, <1>5

\* An Add to the active filter, which is not full.
LEMMA ActivePreserves ==
  ASSUME IInv, NEW data \in Item, AddToActive(data)
  PROVE  /\ filters' \in Seq(Filter) /\ Len(filters') = Len(filters)
         /\ held' \in Seq(Nat) /\ Len(held') = Len(filters)
         /\ \A i \in 1 .. Len(filters) :
              /\ filters'[i] = IF i = Len(filters) THEN AddItem(filters[i], data) ELSE filters[i]
              /\ MostOf(filters'[i], 0) = MostOf(filters[i], 0)
              /\ held'[i] = IF i = Len(filters) THEN held[i] + 1 ELSE held[i]
              /\ held'[i] <= MostOf(filters'[i], 0)
         /\ currentN' \in Nat /\ held'[Len(filters)] = currentN'
<1> DEFINE n == Len(filters)
<1>1. /\ filters \in Seq(Filter) /\ n \in Nat /\ n >= 1
      /\ held \in Seq(Nat) /\ Len(held) = n /\ currentN \in Nat /\ maxN \in Int
      /\ held[n] = currentN
  BY DEF IInv, TypeOK
<1>2. AddItem(filters[n], data) \in Filter
      /\ AddItem(filters[n], data).m = filters[n].m /\ AddItem(filters[n], data).k = filters[n].k
  <2>1. filters[n] \in Filter
    BY <1>1
  <2>2. AddItem(filters[n], data) = AddItems(filters[n], {data})
    BY <2>1, AddItemIsAddItems
  <2> QED BY <2>1, <2>2, AddItemsFacts
<1>3. /\ filters' = [filters EXCEPT ![n] = AddItem(filters[n], data)]
      /\ currentN' = currentN + 1 /\ held' = [held EXCEPT ![n] = held[n] + 1]
      /\ currentN < maxN
  BY <1>1 DEF AddToActive, Full
<1>4. \A i \in 1 .. n : MostOf(filters[i], 0) \in Nat /\ held[i] <= MostOf(filters[i], 0)
  BY DEF IInv
<1>5. maxN <= MostOf(filters[n], 0)
  BY <1>1, <1>4 DEF IInv, Room
<1>6. filters' \in Seq(Filter) /\ Len(filters') = n
      /\ \A i \in 1 .. n : filters'[i] = IF i = n THEN AddItem(filters[i], data) ELSE filters[i]
  <2> DEFINE g == AddItem(filters[n], data)
  <2>1. g \in Filter /\ filters' = [filters EXCEPT ![n] = g]
    BY <1>2, <1>3
  <2>2. n \in 1 .. Len(filters)
    BY <1>1
  <2> HIDE DEF g
  <2>3. /\ filters' \in Seq(Filter) /\ Len(filters') = n
        /\ \A i \in 1 .. n : filters'[i] = IF i = n THEN g ELSE filters[i]
    BY <1>1, <2>1, <2>2
  <2> QED BY <2>3 DEF g
<1>7. held' \in Seq(Nat) /\ Len(held') = n
      /\ \A i \in 1 .. n : held'[i] = IF i = n THEN held[i] + 1 ELSE held[i]
  BY <1>1, <1>3
<1>8. \A i \in 1 .. n : MostOf(filters'[i], 0) = MostOf(filters[i], 0)
  BY <1>1, <1>2, <1>6 DEF MostOf
<1>9. ASSUME NEW i \in 1 .. n PROVE held'[i] <= MostOf(filters'[i], 0)
  <2>1. MostOf(filters'[i], 0) = MostOf(filters[i], 0)
    BY <1>8
  <2>2. CASE i = n
    <3>1. held'[i] = currentN + 1 /\ currentN + 1 <= maxN
      BY <1>1, <1>3, <1>7, <2>2
    <3> QED BY <1>1, <1>4, <1>5, <2>1, <2>2, <3>1
  <2>3. CASE i # n
    BY <1>4, <1>7, <2>1, <2>3
  <2> QED BY <2>2, <2>3
<1> QED BY <1>1, <1>3, <1>6, <1>7, <1>8, <1>9

\* An Add for which the filter grows.
LEMMA GrowPreserves ==
  ASSUME IInv, NEW data \in Item, Grow(data)
  PROVE  /\ filters' \in Seq(Filter) /\ Len(filters') = Len(filters) + 1
         /\ held' \in Seq(Nat) /\ Len(held') = Len(filters) + 1
         /\ \A i \in 1 .. Len(filters) : filters'[i] = filters[i] /\ held'[i] = held[i]
         /\ filters'[Len(filters) + 1] = AddItem(NextFilter, data)
         /\ AddItem(NextFilter, data) \in Filter
         /\ MostOf(AddItem(NextFilter, data), 0) = MostOf(NextFilter, 0)
         /\ held'[Len(filters) + 1] = 1 /\ currentN' = 1
<1>1. /\ filters \in Seq(Filter) /\ held \in Seq(Nat) /\ Len(held) = Len(filters)
  BY DEF IInv, TypeOK
<1>2. NextFilter \in Filter
  BY NextFits DEF IInv
<1>3. AddItem(NextFilter, data) = AddItems(NextFilter, {data})
  BY <1>2, AddItemIsAddItems
<1>4. /\ AddItem(NextFilter, data) \in Filter
      /\ AddItem(NextFilter, data).m = NextFilter.m
      /\ AddItem(NextFilter, data).k = NextFilter.k
  BY <1>2, <1>3, AddItemsFacts
<1>5. /\ filters' = Append(filters, AddItem(NextFilter, data))
      /\ held' = Append(held, 1) /\ currentN' = 1
  BY DEF Grow
<1>6. MostOf(AddItem(NextFilter, data), 0) = MostOf(NextFilter, 0)
  BY <1>4 DEF MostOf
<1> DEFINE f == AddItem(NextFilter, data)
<1>7. f \in Filter /\ filters' = Append(filters, f)
  BY <1>4, <1>5
<1> HIDE DEF f
<1>8. /\ filters' \in Seq(Filter) /\ Len(filters') = Len(filters) + 1
      /\ \A i \in 1 .. Len(filters) : filters'[i] = filters[i]
      /\ filters'[Len(filters) + 1] = f
  BY <1>1, <1>7
<1>9. /\ held' \in Seq(Nat) /\ Len(held') = Len(filters) + 1
      /\ \A i \in 1 .. Len(filters) : held'[i] = held[i]
      /\ held'[Len(filters) + 1] = 1
  BY <1>1, <1>5
<1> QED BY <1>4, <1>5, <1>6, <1>8, <1>9 DEF f

LEMMA NextIInv == IInv /\ [Next]_vars => IInv'
<1> SUFFICES ASSUME IInv, [Next]_vars PROVE IInv'
  OBVIOUS
<1> USE DEF IInv
<1>0. /\ filters \in Seq(Filter) /\ Len(filters) \in Nat /\ Len(filters) >= 1
      /\ Len(held) = Len(filters) /\ added \subseteq Item
      /\ initCap \in InitCap /\ growthFactor \in 1 .. Uint - 1
  BY DEF TypeOK
<1>1. ASSUME NEW data \in Item, Add(data) PROVE IInv'
  <2>0. added' \subseteq Item /\ initCap' = initCap /\ growthFactor' = growthFactor
    BY <1>0, <1>1 DEF Add
  <2>1. CASE AddToActive(data)
    <3>1. cap' = cap /\ maxN' = maxN
      BY <2>1 DEF AddToActive
    <3>2. TypeOK'
      <4>1. filters' # <<>>
        BY <1>0, <2>1, ActivePreserves
      <4> QED BY <1>0, <2>0, <2>1, <3>1, <4>1, ActivePreserves DEF TypeOK
    <3>3. held'[Len(held')] = currentN'
      BY <1>0, <2>1, ActivePreserves
    <3>4. \A i \in 1 .. Len(filters') : /\ MostOf(filters'[i], 0) \in Nat
                                       /\ held'[i] <= MostOf(filters'[i], 0)
      BY <1>0, <2>1, ActivePreserves
    <3>5. Room' <= MostOf(filters'[Len(filters')], 0)
      <4>1. Room' = Room
        BY <3>1 DEF Room
      <4>2. MostOf(filters'[Len(filters')], 0) = MostOf(filters[Len(filters)], 0)
        BY <1>0, <2>1, ActivePreserves
      <4> QED BY <4>1, <4>2
    <3>6. (MostOf(filters[Len(filters)], 0))' = MostOf(filters'[Len(filters')], 0)
      BY DEF MostOf
    <3> QED BY <2>0, <3>2, <3>3, <3>4, <3>5, <3>6 DEF MostOf
  <2>2. CASE Grow(data)
    <3> DEFINE n == Len(filters)
               f == AddItem(NextFilter, data)
    <3>1. cap' = NextCap /\ maxN' = NextMaxN
      BY <2>2 DEF Grow
    <3>2. /\ NextCap \in 0 .. Uint - 1 /\ NextMaxN \in Int
          /\ MostOf(f, 0) \in Nat /\ MostOf(f, 0) > 0 /\ NextMaxN <= MostOf(f, 0)
      BY <2>2, NextFits, GrowPreserves
    <3>3. TypeOK'
      <4>1. filters' # <<>>
        BY <1>0, <2>2, GrowPreserves
      <4>2. /\ filters' \in Seq(Filter) /\ held' \in Seq(Nat) /\ Len(held') = Len(filters')
            /\ currentN' = 1
        BY <1>0, <2>2, GrowPreserves
      <4>3. cap' \in 0 .. Uint - 1 /\ maxN' \in Int /\ currentN' \in Nat
        BY <3>1, <3>2, <4>2
      <4> QED BY <1>0, <2>0, <4>1, <4>2, <4>3 DEF TypeOK
    <3>4. held'[Len(held')] = currentN'
      BY <1>0, <2>2, GrowPreserves
    <3>5. \A i \in 1 .. Len(filters') : /\ MostOf(filters'[i], 0) \in Nat
                                       /\ held'[i] <= MostOf(filters'[i], 0)
      <4>1. ASSUME NEW i \in 1 .. n
            PROVE  MostOf(filters'[i], 0) \in Nat /\ held'[i] <= MostOf(filters'[i], 0)
        <5>1. filters'[i] = filters[i] /\ held'[i] = held[i]
          BY <2>2, GrowPreserves
        <5> QED BY <5>1
      <4>2. MostOf(filters'[n + 1], 0) \in Nat /\ held'[n + 1] <= MostOf(filters'[n + 1], 0)
        <5>1. filters'[n + 1] = f /\ held'[n + 1] = 1
          BY <2>2, GrowPreserves
        <5> HIDE DEF f
        <5> QED BY <3>2, <5>1
      <4>3. Len(filters') = n + 1
        BY <2>2, GrowPreserves
      <4> HIDE DEF f
      <4> QED BY <1>0, <4>1, <4>2, <4>3
    <3>6. Room' <= MostOf(filters'[Len(filters')], 0)
      <4>1. filters'[Len(filters')] = f
        BY <2>2, GrowPreserves
      <4> HIDE DEF f
      <4> QED BY <3>1, <3>2, <4>1 DEF Room
    <3> QED BY <2>0, <3>3, <3>4, <3>5, <3>6 DEF MostOf
  <2> QED BY <1>1, <2>1, <2>2 DEF Add
<1>2. CASE UNCHANGED vars
  BY <1>2 DEF vars, TypeOK, Room, MostOf
<1> QED BY <1>1, <1>2 DEF Next

\* What the filter keeps: its type, and the bound on the items of each filter.
THEOREM ScalableTypeCorrect == Spec => []TypeOK
<1>1. IInv => TypeOK
  BY DEF IInv
<1> QED BY InitIInv, NextIInv, <1>1, PTL DEF Spec

\* No filter is given more items than the target rate allows, whatever the
\* growth factor, and also when capacities wrap.
THEOREM FiltersWithinTarget == Spec => []WithinTarget
<1>1. IInv => WithinTarget
  BY DEF IInv, TypeOK, WithinTarget
<1> QED BY InitIInv, NextIInv, <1>1, PTL DEF Spec

\* An Add makes its item present in the last filter, and takes no other away.
LEMMA AddPreservesFound ==
  ASSUME IInv, NoFalseNegatives, NEW data \in Item, Add(data)
  PROVE  NoFalseNegatives'
<1> DEFINE n == Len(filters)
<1>1. /\ filters \in Seq(Filter) /\ n \in Nat /\ n >= 1 /\ added \subseteq Item
      /\ added' = added \cup {data}
  BY DEF IInv, TypeOK, Add
<1>2. /\ \A i \in DOMAIN filters : i \in DOMAIN filters'
      /\ \A i \in DOMAIN filters, x \in Item :
           TestItem(filters[i], x) => TestItem(filters'[i], x)
      /\ \E i \in DOMAIN filters' : TestItem(filters'[i], data)
  <2>1. ASSUME NEW f \in Filter
        PROVE  /\ TestItem(AddItem(f, data), data)
               /\ \A x \in Item : TestItem(f, x) => TestItem(AddItem(f, data), x)
    <3>1. AddItem(f, data) = AddItems(f, {data})
      BY AddItemIsAddItems
    <3>2. {data} \in SUBSET Item /\ data \in {data}
      OBVIOUS
    <3> QED BY <3>1, <3>2, AddItemsFacts
  <2>2. CASE AddToActive(data)
    <3>1. /\ Len(filters') = n /\ filters' \in Seq(Filter)
          /\ \A i \in 1 .. n :
               filters'[i] = IF i = n THEN AddItem(filters[i], data) ELSE filters[i]
      BY <2>2, ActivePreserves
    <3>2. DOMAIN filters = 1 .. n /\ DOMAIN filters' = 1 .. n
      BY <1>1, <3>1
    <3>3. n \in 1 .. n /\ \A i \in 1 .. n : filters[i] \in Filter
      BY <1>1
    <3> HIDE DEF n
    <3> QED BY <2>1, <3>1, <3>2, <3>3
  <2>3. CASE Grow(data)
    <3>1. /\ Len(filters') = n + 1 /\ filters' \in Seq(Filter)
          /\ \A i \in 1 .. n : filters'[i] = filters[i]
          /\ filters'[n + 1] = AddItem(NextFilter, data)
      BY <2>3, GrowPreserves
    <3>2. DOMAIN filters = 1 .. n /\ DOMAIN filters' = 1 .. n + 1
      BY <1>1, <3>1
    <3>3. TestItem(filters'[n + 1], data)
      BY <2>1, <3>1, NextFits DEF IInv
    <3>4. n + 1 \in 1 .. n + 1 /\ \A i \in 1 .. n : i \in 1 .. n + 1
      BY <1>1
    <3> HIDE DEF n
    <3> QED BY <3>1, <3>2, <3>3, <3>4
  <2> QED BY <2>2, <2>3 DEF Add
<1>3. SUFFICES ASSUME NEW x \in added'
               PROVE  \E i \in DOMAIN filters' : TestItem(filters'[i], x)
  BY DEF NoFalseNegatives, Test, TestItem
<1>4. CASE x \in added
  <2>1. PICK i \in DOMAIN filters : TestItem(filters[i], x)
    BY <1>4 DEF NoFalseNegatives, Test
  <2> QED BY <1>1, <1>2, <1>4, <2>1
<1>5. CASE x = data
  BY <1>2, <1>5
<1> QED BY <1>1, <1>4, <1>5

\* Whatever was added is found for good, in one of the filters.
THEOREM ItemsFound == Spec => []NoFalseNegatives
<1>1. Init => NoFalseNegatives
  BY DEF Init, NoFalseNegatives
<1>2. IInv /\ NoFalseNegatives /\ [Next]_vars => NoFalseNegatives'
  <2>1. ASSUME NoFalseNegatives, UNCHANGED vars PROVE NoFalseNegatives'
    BY <2>1 DEF NoFalseNegatives, Test, TestItem, vars
  <2> QED BY <2>1, AddPreservesFound DEF Next
<1> QED BY InitIInv, NextIInv, <1>1, <1>2, PTL DEF Spec

\* builder.go, Len: what it counts for the full filters is at least what each
\* was given, and the last one is counted exactly; so Len never misses an Add.
THEOREM LenCountsAll == Spec => []LenNeverBelow
<1>1. IInv => LenNeverBelow
  <2> SUFFICES ASSUME IInv PROVE LenNeverBelow
    OBVIOUS
  <2> DEFINE n == Len(filters)
             most == [i \in Older |-> MostOf(filters[i], 0)]
             rest == (1 .. n) \ {n}
  <2>1. /\ n \in Nat /\ n >= 1 /\ held \in Seq(Nat) /\ Len(held) = n
        /\ held[n] = currentN /\ currentN \in Nat
    BY DEF IInv, TypeOK
  <2>2. /\ DOMAIN held = 1 .. n /\ Older = rest /\ DOMAIN most = rest
        /\ \A i \in 1 .. n : held[i] \in Int
    BY <2>1 DEF Older
  <2>3. IsFiniteSet(1 .. n) /\ IsFiniteSet(rest)
    <3>1. IsFiniteSet(1 .. n)
      BY <2>1, FS_Interval
    <3> QED BY <3>1, FS_Subset
  <2>4. \A i \in rest : held[i] \in Int /\ most[i] \in Int /\ held[i] <= most[i]
    <3>1. \A i \in rest : most[i] = MostOf(filters[i], 0)
      BY <2>2
    <3> HIDE DEF most
    <3> QED BY <2>2, <3>1 DEF IInv
  <2>5. n \in 1 .. n
    BY <2>1
  <2> HIDE DEF n, most, rest
  <2>6. SumFunctionOnSet(held, 1 .. n) = held[n] + SumFunctionOnSet(held, (1 .. n) \ {n})
    BY <2>2, <2>3, <2>5, SumFirst
  <2>7. /\ SumFunctionOnSet(held, rest) \in Int /\ SumFunctionOnSet(most, rest) \in Int
        /\ SumFunctionOnSet(held, rest) <= SumFunctionOnSet(most, rest)
    BY <2>3, <2>4, SumAtMost
  <2>8. Length = currentN + SumFunctionOnSet(most, rest)
    BY <2>2 DEF Length, SumFunction, most
  <2>9. SumFunction(held) = currentN + SumFunctionOnSet(held, rest)
    BY <2>1, <2>2, <2>6 DEF SumFunction, rest
  <2> QED BY <2>1, <2>7, <2>8, <2>9 DEF LenNeverBelow
<1> QED BY InitIInv, NextIInv, <1>1, PTL DEF Spec

=============================================================================
