--------------------------- MODULE RotationProofs ---------------------------
(***************************************************************************)
(* Rotation with any number of partitions, loops, clients and items.       *)
(***************************************************************************)
EXTENDS Rotation, FilterProofs, FiniteSetTheorems

Bits == SUBSET (0 .. M - 1)

EventRecord == [partition : Part, saturation : 0 .. M]

Label == {"off", "select", "done", "idle", "rotate", "scan", "reset",
          "snapshot", "copy", "copying", "restore", "put"}

LocalRecord == [next : 0 .. N, idx : Part, bits : 0 .. M, base : Bits]

\* Where a goroutine holds mu.
Inside == {"scan", "reset", "copy", "copying", "put"}

-----------------------------------------------------------------------------
(* The inductive invariants, each one on top of those before *)

\* The types of the variables.
Typed ==
  /\ partitions \in [Part -> Bits]
  /\ strategy \in Strategies
  /\ current \in Part
  /\ stopped \in BOOLEAN
  /\ history \in Seq(EventRecord)
  /\ mu \in Thread \cup {NoOne}
  /\ pc \in [Thread -> Label]
  /\ local \in [Thread -> LocalRecord]
  /\ snap \in [Part -> Bits] \cup {NoSnapshot}
  /\ live \in SUBSET Item
  /\ snapLive \in SUBSET Item
  /\ since \in [Item -> 0 .. N]
  /\ snapItems \in SUBSET Item

\* mu is held by the goroutine that is inside, and by no other; who wants to
\* restore, or is at it, has a snapshot.
LockInv ==
  /\ Typed
  /\ \A t \in Thread : pc[t] \in Inside <=> mu = t
  /\ \A t \in Thread :
       pc[t] \in {"restore", "put", "copy", "copying"} => snap \in [Part -> Bits]
  /\ \A t \in Thread : pc[t] = "copying" => local[t].next < N
  /\ \A t \in Thread : pc[t] \notin Inside => local[t] = Start0

\* A round robin that has looked has looked at the current partition, and the
\* one it is about to reset is that of the last event.
TurnInv ==
  strategy = "RoundRobin" =>
    /\ RoundRobinOrder
    /\ \A t \in Thread :
         /\ pc[t] = "scan" /\ local[t].next > 0 => local[t].idx = current
         /\ pc[t] = "reset" =>
              Len(history) > 0 /\ local[t].idx = (Len(history) - 1) % N

Resetting == \E t \in Thread : pc[t] = "reset"

\* The partitions reset so far.
Resets == Len(history) - (IF Resetting THEN 1 ELSE 0)

BitsOf(S) == UNION {Positions(x, K, M) : x \in S}

\* The items of a partition that it will be reset before N rotations have passed
\* over: those done already and those still to come before its own.
Due(i) == {x \in Routed(i) : since[x] + ((i - Resets) % N) < N}

\* EverythingExpires is not inductive, as it does not say when a partition will
\* be reset, nor what a snapshot puts back.
DueInv == strategy = "RoundRobin" => \A i \in Part : partitions[i] \subseteq BitsOf(Due(i))

\* Nor is what a snapshot has older than what its partition had.
SnapInv ==
  strategy = "RoundRobin" =>
    /\ \A t \in Thread, i \in Part :
         pc[t] = "copying" /\ local[t].next = i => local[t].base \subseteq BitsOf(Recent(i))
    /\ snap \in [Part -> Bits] =>
         \A i \in Part : snap[i] \subseteq BitsOf(snapItems \cap Routed(i))

Holds(bits, x) == Positions(x, K, M) \subseteq bits

Copying(t) == pc[t] \in {"copy", "copying"}

\* Every item of the snapshot is in its partition's copy, once that is made, and
\* until then in the filter.
CopyInv ==
  /\ Present
  /\ \A t \in Thread :
       Copying(t) =>
         /\ snapLive \subseteq live
         /\ \A x \in snapLive : Route(x) < local[t].next => Holds(snap[Route(x)], x)
         /\ pc[t] = "copying" =>
              \A x \in snapLive \cap Routed(local[t].next) : Holds(local[t].base, x)
  /\ (\A t \in Thread : ~Copying(t)) => \A x \in snapLive : Holds(snap[Route(x)], x)

\* What t saw of a partition is still in it.
Seen(t) ==
  /\ pc[t] \in {"scan", "reset"} => local[t].bits <= Saturation(local[t].idx)
  /\ pc[t] = "reset" /\ strategy = "Saturation" => local[t].bits >= Limit

SeenInv == \A t \in Thread : Seen(t)

-----------------------------------------------------------------------------
(* Partitions and bits *)

\* partition.go, route: the partition of an item is one of the N.
LEMMA RouteRange ==
  ASSUME NEW x \in Item
  PROVE  Route(x) \in Part
<1> DEFINE m == N * 1000
<1>1. N \in Nat \ {0}
  BY RotationAssumption
<1>2. m \in Nat \ {0}
  BY <1>1
<1>3. Hash(x, 0, m) \in 0 .. m - 1
  BY <1>2, HashRange
<1>4. Hash(x, 0, m) \in Nat
  <2> HIDE DEF m
  <2> QED BY <1>2, <1>3
<1> QED BY <1>1, <1>4 DEF Route, Part

\* In particular, it is a number below N.
LEMMA RouteNumber ==
  ASSUME NEW x \in Item
  PROVE  Route(x) \in Nat /\ Route(x) < N /\ ~(Route(x) < 0)
<1> DEFINE r == Route(x)
<1>1. r \in 0 .. N - 1 /\ N \in Nat
  BY RouteRange, RotationAssumption DEF Part
<1> HIDE DEF r
<1>2. r \in Nat /\ r < N /\ ~(r < 0)
  BY <1>1
<1> QED BY <1>2 DEF r

\* The bits of an item are bits of a partition.
LEMMA ItemBits ==
  ASSUME NEW x \in Item
  PROVE  Positions(x, K, M) \in Bits
BY PositionsRange, RotationAssumption DEF Bits

\* A partition's bits are counted, and more bits are at least as many.
LEMMA BitsCounted ==
  ASSUME NEW S \in Bits, NEW T \in SUBSET S
  PROVE  /\ Cardinality(S) \in 0 .. M
         /\ Cardinality(T) \in 0 .. M
         /\ Cardinality(T) <= Cardinality(S)
<1>1. M \in Nat /\ 0 \in Int /\ M - 1 \in Int
  BY RotationAssumption
<1>2. IsFiniteSet(0 .. M - 1) /\ Cardinality(0 .. M - 1) = M
  BY <1>1, FS_Interval
<1>3. IsFiniteSet(S) /\ Cardinality(S) <= Cardinality(0 .. M - 1)
  BY <1>2, FS_Subset DEF Bits
<1>4. IsFiniteSet(T) /\ Cardinality(T) <= Cardinality(S)
  BY <1>3, FS_Subset
<1>5. Cardinality(S) \in Nat /\ Cardinality(T) \in Nat
  BY <1>3, <1>4, FS_CardinalityType
<1> QED BY <1>1, <1>2, <1>3, <1>4, <1>5

-----------------------------------------------------------------------------
(* The lock *)

\* A goroutine goes where its action sends it, and no other goes anywhere.
LEMMA GotoFacts ==
  ASSUME Typed, NEW t \in Thread, NEW label \in Label, Goto(t, label)
  PROVE  /\ pc' \in [Thread -> Label]
         /\ pc'[t] = label
         /\ \A u \in Thread : u # t => pc'[u] = pc[u]
BY DEF Typed, Goto

\* The variables of no call.
LEMMA Start0Type == Start0 \in LocalRecord
BY RotationAssumption DEF Start0, LocalRecord, Part, Bits

\* Returning gives mu back.
LEMMA ReturnFacts ==
  ASSUME Typed, NEW t \in Thread, Return(t)
  PROVE  /\ mu' = NoOne
         /\ pc' \in [Thread -> Label]
         /\ pc'[t] = IF t \in Loop THEN "select" ELSE "idle"
         /\ \A u \in Thread : u # t => pc'[u] = pc[u]
         /\ local' \in [Thread -> LocalRecord]
         /\ local'[t] = Start0
         /\ \A u \in Thread : u # t => local'[u] = local[u]
<1>1. (IF t \in Loop THEN "select" ELSE "idle") \in Label
  BY DEF Label
<1>2. local \in [Thread -> LocalRecord] /\ local' = [local EXCEPT ![t] = Start0]
  BY DEF Return, Typed
<1> QED BY <1>1, <1>2, GotoFacts, Start0Type DEF Return

\* One look: what it changes of the goroutine's variables.
LEMMA ScanFacts ==
  ASSUME LockInv, NEW t \in Thread, Scan(t)
  PROVE  LET idx == IF strategy = "RoundRobin" THEN current ELSE local[t].next
             better == strategy = "RoundRobin" \/ Saturation(idx) > local[t].bits
         IN  /\ pc[t] = "scan"
             /\ idx \in Part
             /\ local' \in [Thread -> LocalRecord]
             /\ local'[t].next = local[t].next + 1
             /\ local'[t].idx = IF better THEN idx ELSE local[t].idx
             /\ local'[t].bits = IF better THEN Saturation(idx) ELSE local[t].bits
             /\ \A u \in Thread : u # t => local'[u] = local[u]
<1> DEFINE idx == IF strategy = "RoundRobin" THEN current ELSE local[t].next
           sat == Saturation(idx)
           next == local[t].next + 1
<1>1. local \in [Thread -> LocalRecord] /\ local[t] \in LocalRecord
  BY DEF LockInv, Typed
<1>2. local[t].next < N
  BY <1>1, RotationAssumption DEF Scan, LocalRecord
<1>3. idx \in Part
  BY <1>1, <1>2, RotationAssumption DEF LockInv, Typed, LocalRecord, Part
<1>4. sat \in 0 .. M
  BY <1>3, BitsCounted DEF LockInv, Typed, Saturation
<1>5. next \in 0 .. N
  BY <1>1, <1>2, RotationAssumption DEF LocalRecord
<1>6. local' = IF strategy = "RoundRobin" \/ sat > local[t].bits
                 THEN [local EXCEPT ![t].next = next, ![t].idx = idx, ![t].bits = sat]
                 ELSE [local EXCEPT ![t].next = next]
  BY DEF Scan
<1> HIDE DEF idx, sat, next
<1>7. CASE strategy = "RoundRobin" \/ sat > local[t].bits
  <2>1. local' = [local EXCEPT ![t].next = next, ![t].idx = idx, ![t].bits = sat]
    BY <1>6, <1>7
  <2>2. /\ local' \in [Thread -> LocalRecord]
        /\ local'[t].next = next /\ local'[t].idx = idx /\ local'[t].bits = sat
        /\ \A u \in Thread : u # t => local'[u] = local[u]
    BY <2>1, <1>1, <1>3, <1>4, <1>5 DEF LocalRecord
  <2> QED BY <1>3, <1>7, <2>2 DEF idx, sat, next, Scan
<1>8. CASE ~(strategy = "RoundRobin" \/ sat > local[t].bits)
  <2>1. local' = [local EXCEPT ![t].next = next]
    BY <1>6, <1>8
  <2>2. /\ local' \in [Thread -> LocalRecord]
        /\ local'[t].next = next /\ local'[t].idx = local[t].idx
        /\ local'[t].bits = local[t].bits
        /\ \A u \in Thread : u # t => local'[u] = local[u]
    BY <2>1, <1>1, <1>5 DEF LocalRecord
  <2> QED BY <1>3, <1>8, <2>2 DEF idx, sat, next, Scan
<1> QED BY <1>7, <1>8

\* A copy begins with the bits the partition has.
LEMMA CopyBeginFacts ==
  ASSUME LockInv, NEW t \in Thread, CopyBegin(t)
  PROVE  /\ pc[t] = "copy" /\ local[t].next \in Part
         /\ local' \in [Thread -> LocalRecord]
         /\ local'[t].next = local[t].next
         /\ local'[t].base = partitions[local[t].next]
         /\ \A u \in Thread : u # t => local'[u] = local[u]
         /\ pc' \in [Thread -> Label]
         /\ pc'[t] = "copying"
         /\ \A u \in Thread : u # t => pc'[u] = pc[u]
<1> DEFINE base == partitions[local[t].next]
<1>1. local \in [Thread -> LocalRecord] /\ local[t] \in LocalRecord /\ local[t].next < N
  BY DEF LockInv, Typed, CopyBegin
<1>2. local[t].next \in Part
  BY <1>1, RotationAssumption DEF LocalRecord, Part
<1>3. base \in Bits
  BY <1>2 DEF LockInv, Typed
<1>4. local' = [local EXCEPT ![t].base = base]
  BY DEF CopyBegin
<1> HIDE DEF base
<1>5. /\ local' \in [Thread -> LocalRecord]
      /\ local'[t].next = local[t].next /\ local'[t].base = base
      /\ \A u \in Thread : u # t => local'[u] = local[u]
  BY <1>1, <1>3, <1>4 DEF LocalRecord
<1>6. "copying" \in Label
  BY DEF Label
<1> QED BY <1>2, <1>5, <1>6, GotoFacts DEF base, LockInv, CopyBegin

\* It ends with those bits, and perhaps some that were set since.
LEMMA CopyEndFacts ==
  ASSUME LockInv, NEW t \in Thread, CopyEnd(t)
  PROVE  LET idx == local[t].next
         IN  /\ pc[t] = "copying" /\ idx \in Part
             /\ local' \in [Thread -> LocalRecord]
             /\ local'[t].next = idx + 1
             /\ \A u \in Thread : u # t => local'[u] = local[u]
             /\ pc' \in [Thread -> Label]
             /\ pc'[t] = "copy"
             /\ \A u \in Thread : u # t => pc'[u] = pc[u]
             /\ snap' \in [Part -> Bits]
             /\ local[t].base \subseteq snap'[idx]
             /\ \A i \in Part : i # idx => snap'[i] = snap[i]
<1> DEFINE next == local[t].next + 1
<1>1. local \in [Thread -> LocalRecord] /\ local[t] \in LocalRecord /\ pc[t] = "copying"
  BY DEF LockInv, Typed, CopyEnd
<1>2. local[t].next < N /\ snap \in [Part -> Bits]
  BY <1>1 DEF LockInv
<1>3. local[t].next \in Part /\ next \in 0 .. N
  BY <1>1, <1>2, RotationAssumption DEF LocalRecord, Part
<1>4. PICK seen \in SUBSET (partitions[local[t].next] \ local[t].base) :
        snap' = [snap EXCEPT ![local[t].next] = local[t].base \cup seen]
  BY DEF CopyEnd
<1>5. local[t].base \cup seen \in Bits
  BY <1>1, <1>3, <1>4 DEF LockInv, Typed, LocalRecord, Bits
<1>6. /\ snap' \in [Part -> Bits]
      /\ local[t].base \subseteq snap'[local[t].next]
      /\ \A i \in Part : i # local[t].next => snap'[i] = snap[i]
  BY <1>2, <1>3, <1>4, <1>5
<1>7. local' = [local EXCEPT ![t].next = next, ![t].base = {}]
  BY DEF CopyEnd
<1>8. {} \in Bits
  BY DEF Bits
<1> HIDE DEF next
<1>9. /\ local' \in [Thread -> LocalRecord]
      /\ local'[t].next = next
      /\ \A u \in Thread : u # t => local'[u] = local[u]
  BY <1>1, <1>3, <1>7, <1>8 DEF LocalRecord
<1>10. "copy" \in Label
  BY DEF Label
<1> QED BY <1>1, <1>3, <1>6, <1>9, <1>10, GotoFacts DEF next, LockInv, CopyEnd

\* A partition is put back.
LEMMA PutFacts ==
  ASSUME LockInv, NEW t \in Thread, Put(t)
  PROVE  /\ pc[t] = "put" /\ local[t].next \in Part
         /\ local' \in [Thread -> LocalRecord]
         /\ local'[t].next = local[t].next + 1
         /\ \A u \in Thread : u # t => local'[u] = local[u]
         /\ partitions' \in [Part -> Bits]
         /\ partitions' = [partitions EXCEPT ![local[t].next] = snap[local[t].next]]
<1> DEFINE next == local[t].next + 1
<1>1. local \in [Thread -> LocalRecord] /\ local[t] \in LocalRecord /\ pc[t] = "put"
  BY DEF LockInv, Typed, Put
<1>2. local[t].next < N /\ snap \in [Part -> Bits]
  BY <1>1 DEF LockInv, Put
<1>3. local[t].next \in Part /\ next \in 0 .. N
  BY <1>1, <1>2, RotationAssumption DEF LocalRecord, Part
<1>4. local' = [local EXCEPT ![t].next = next]
  BY DEF Put
<1> HIDE DEF next
<1>5. /\ local' \in [Thread -> LocalRecord]
      /\ local'[t].next = next
      /\ \A u \in Thread : u # t => local'[u] = local[u]
  BY <1>1, <1>3, <1>4 DEF LocalRecord
<1>6. partitions' = [partitions EXCEPT ![local[t].next] = snap[local[t].next]]
  BY DEF Put
<1>7. partitions' \in [Part -> Bits]
  BY <1>2, <1>3, <1>6 DEF LockInv, Typed
<1> QED BY <1>1, <1>3, <1>5, <1>6, <1>7 DEF next

LEMMA NoOneIsNoThread == \A t \in Thread : t # NoOne
BY RotationAssumption

\* A new RotatingFilter has no event, no snapshot, and mu is free.
LEMMA LockInit == Init => LockInv
<1> SUFFICES ASSUME Init PROVE LockInv
  OBVIOUS
<1>1. local \in [Thread -> LocalRecord]
  BY Start0Type DEF Init
<1>2. pc \in [Thread -> Label] /\ \A t \in Thread : pc[t] \in {"off", "idle"}
  BY DEF Init, Label
<1>3. partitions \in [Part -> Bits] /\ current \in Part /\ since \in [Item -> 0 .. N]
  BY RotationAssumption DEF Init, Part, Bits
<1>4. stopped \in BOOLEAN
  BY Zenon DEF Init
<1>5. history \in Seq(EventRecord) /\ mu \in Thread \cup {NoOne}
  BY DEF Init
<1>6. Typed
  BY <1>1, <1>2, <1>3, <1>4, <1>5 DEF Init, Typed
<1> QED BY <1>2, <1>6, NoOneIsNoThread DEF LockInv, Init, Inside

\* Add does not take mu.
LEMMA LockAdd ==
  ASSUME LockInv, NEW data \in Item, Add(data)
  PROVE  LockInv'
<1>1. Route(data) \in Part /\ Positions(data, K, M) \in Bits
  BY RouteRange, ItemBits
<1>2. partitions' \in [Part -> Bits]
  BY <1>1 DEF LockInv, Typed, Add, Bits
<1>3. live' \in SUBSET Item /\ since' \in [Item -> 0 .. N]
  BY RotationAssumption DEF LockInv, Typed, Add
<1>4. Typed'
  BY <1>2, <1>3 DEF LockInv, Typed, Add
<1> QED BY <1>4 DEF LockInv, Add

LEMMA LockLock ==
  ASSUME LockInv, NEW t \in Thread, Lock(t)
  PROVE  LockInv'
<1> DEFINE label == [rotate |-> "scan", snapshot |-> "copy", restore |-> "put"][pc[t]]
<1>1. pc[t] \in {"rotate", "snapshot", "restore"} /\ mu = NoOne /\ mu' = t /\ Goto(t, label)
  BY DEF Lock, MuFree
<1>2. /\ label \in {"scan", "copy", "put"}
      /\ label = "put" => pc[t] = "restore"
      /\ label = "copy" => pc[t] = "snapshot"
  BY <1>1
<1> HIDE DEF label
<1>3. label \in Label /\ label \in Inside
  BY <1>2 DEF Label, Inside
<1>4. /\ pc' \in [Thread -> Label]
      /\ pc'[t] = label
      /\ \A u \in Thread : u # t => pc'[u] = pc[u]
  BY <1>1, <1>3, GotoFacts DEF LockInv
<1>5. /\ snap' \in [Part -> Bits] \cup {NoSnapshot}
      /\ snap \in [Part -> Bits] \/ pc[t] = "snapshot" => snap' \in [Part -> Bits]
  BY DEF LockInv, Typed, Lock, Bits
<1>6. Typed'
  BY <1>4, <1>5, <1>1 DEF LockInv, Typed, Lock
<1>7. \A u \in Thread : pc'[u] \in Inside <=> mu' = u
  BY <1>1, <1>3, <1>4, NoOneIsNoThread DEF LockInv
<1>8. \A u \in Thread :
        pc'[u] \in {"restore", "put", "copy", "copying"} => snap' \in [Part -> Bits]
  BY <1>1, <1>2, <1>4, <1>5 DEF LockInv
<1>9. \A u \in Thread : pc'[u] = "copying" => local'[u].next < N
  BY <1>2, <1>4 DEF LockInv, Lock
<1>10. \A u \in Thread : pc'[u] \notin Inside => local'[u] = Start0
  BY <1>3, <1>4 DEF LockInv, Lock
<1> QED BY <1>6, <1>7, <1>8, <1>9, <1>10 DEF LockInv

LEMMA LockScan ==
  ASSUME LockInv, NEW t \in Thread, Scan(t)
  PROVE  LockInv'
<1>1. /\ local' \in [Thread -> LocalRecord] /\ pc[t] = "scan"
      /\ \A u \in Thread : u # t => local'[u] = local[u]
  BY ScanFacts
<1>2. Typed'
  BY <1>1 DEF LockInv, Typed, Scan, ghosts
<1> QED BY <1>1, <1>2 DEF LockInv, Scan, Inside

LEMMA LockSkip ==
  ASSUME LockInv, NEW t \in Thread, Skip(t)
  PROVE  LockInv'
<1>1. Return(t) /\ pc[t] \in Inside
  BY DEF Skip, ReturnEarly, Scanned, Inside
<1>2. Typed'
  BY <1>1, ReturnFacts DEF LockInv, Typed, Skip, ghosts
<1> QED BY <1>1, <1>2, ReturnFacts, NoOneIsNoThread DEF LockInv, Skip, Inside

LEMMA LockAllCopied ==
  ASSUME LockInv, NEW t \in Thread, AllCopied(t)
  PROVE  LockInv'
<1>1. Return(t) /\ pc[t] \in Inside
  BY DEF AllCopied, Inside
<1>2. Typed'
  BY <1>1, ReturnFacts DEF LockInv, Typed, AllCopied, ghosts
<1> QED BY <1>1, <1>2, ReturnFacts, NoOneIsNoThread DEF LockInv, AllCopied, Inside

LEMMA LockRecord ==
  ASSUME LockInv, NEW t \in Thread, Record(t)
  PROVE  LockInv'
<1>1. current' \in Part
  BY RotationAssumption DEF LockInv, Typed, Record, NextPartition, Part
<1>2. Event(t) \in EventRecord
  BY DEF LockInv, Typed, LocalRecord, Event, EventRecord
<1>3. history' \in Seq(EventRecord)
  BY <1>2 DEF LockInv, Typed, Record
<1>4. pc[t] = "scan" /\ "reset" \in Label /\ Goto(t, "reset")
  BY DEF Record, Scanned, Label
<1>5. /\ pc' \in [Thread -> Label]
      /\ pc'[t] = "reset"
      /\ \A u \in Thread : u # t => pc'[u] = pc[u]
  BY <1>4, GotoFacts DEF LockInv
<1>6. Typed'
  BY <1>1, <1>3, <1>5 DEF LockInv, Typed, Record, ghosts
<1> QED BY <1>4, <1>5, <1>6 DEF LockInv, Record, Inside

LEMMA LockReset ==
  ASSUME LockInv, NEW t \in Thread, Reset(t)
  PROVE  LockInv'
<1>1. Return(t) /\ pc[t] \in Inside
  BY DEF Reset, Inside
<1>2. partitions' \in [Part -> Bits]
  BY DEF LockInv, Typed, Reset, Cleared, Bits
<1>3. live' \in SUBSET Item /\ since' \in [Item -> 0 .. N]
  <2>1. \A n \in 0 .. N : OneMore(n) \in 0 .. N
    BY RotationAssumption DEF OneMore
  <2> QED BY <2>1 DEF LockInv, Typed, Reset
<1>4. Typed'
  BY <1>1, <1>2, <1>3, ReturnFacts DEF LockInv, Typed, Reset
<1> QED BY <1>1, <1>4, ReturnFacts, NoOneIsNoThread DEF LockInv, Reset, Inside

LEMMA LockCopy ==
  ASSUME LockInv, NEW t \in Thread, CopyBegin(t) \/ CopyEnd(t)
  PROVE  LockInv'
<1>1. ASSUME CopyBegin(t) PROVE LockInv'
  <2>1. Typed'
    BY <1>1, CopyBeginFacts DEF LockInv, Typed, CopyBegin, ghosts
  <2>2. local'[t].next < N
    BY <1>1, CopyBeginFacts, RotationAssumption DEF Part
  <2>3. mu' = mu /\ snap' = snap
    BY <1>1 DEF CopyBegin
  <2>4. /\ pc[t] = "copy" /\ pc'[t] = "copying" /\ \A u \in Thread : u # t => pc'[u] = pc[u]
        /\ \A u \in Thread : u # t => local'[u] = local[u]
    BY <1>1, CopyBeginFacts
  <2>5. \A u \in Thread : pc'[u] \in Inside <=> mu' = u
    BY <2>3, <2>4 DEF LockInv, Inside
  <2>6. \A u \in Thread : pc'[u] \in {"restore", "put", "copy", "copying"} => snap' \in [Part -> Bits]
    BY <2>3, <2>4 DEF LockInv
  <2>7. \A u \in Thread : pc'[u] = "copying" => local'[u].next < N
    BY <2>2, <2>4 DEF LockInv
  <2>8. \A u \in Thread : pc'[u] \notin Inside => local'[u] = Start0
    BY <2>4 DEF LockInv, Inside
  <2> QED BY <2>1, <2>5, <2>6, <2>7, <2>8 DEF LockInv
<1>2. ASSUME CopyEnd(t) PROVE LockInv'
  <2>1. Typed'
    <3>1. snapItems' \in SUBSET Item
      BY <1>2 DEF LockInv, Typed, CopyEnd, Recent, Routed
    <3> QED BY <1>2, <3>1, CopyEndFacts DEF LockInv, Typed, CopyEnd
  <2> QED BY <1>2, <2>1, CopyEndFacts DEF LockInv, CopyEnd, Inside
<1> QED BY <1>1, <1>2

LEMMA LockPut ==
  ASSUME LockInv, NEW t \in Thread, Put(t)
  PROVE  LockInv'
<1>1. live' \in SUBSET Item /\ since' \in [Item -> 0 .. N]
  BY RotationAssumption DEF LockInv, Typed, Put, Routed
<1>2. Typed'
  BY <1>1, PutFacts DEF LockInv, Typed, Put
<1> QED BY <1>2, PutFacts DEF LockInv, Put, Inside

\* Calls, loops that begin, tick and end: one goroutine goes elsewhere.
LEMMA LockGo ==
  ASSUME LockInv, NEW t \in Thread,
         Call(t) \/ Start(t) \/ Tick(t) \/ LoopEnds(t)
  PROVE  LockInv'
<1>1. PICK label \in {"rotate", "snapshot", "restore", "select", "done"} :
        /\ Goto(t, label)
        /\ label = "restore" => snap # NoSnapshot
  BY DEF Call, Start, Tick, LoopEnds
<1>2. label \in Label /\ label \notin Inside /\ label # "copying"
  BY <1>1 DEF Label, Inside
<1>3. /\ pc' \in [Thread -> Label]
      /\ pc'[t] = label
      /\ \A u \in Thread : u # t => pc'[u] = pc[u]
  BY <1>1, <1>2, GotoFacts DEF LockInv
<1>4. pc[t] \notin Inside
  BY DEF Call, Start, Tick, LoopEnds, Inside
<1>5. /\ local' = local /\ snap' = snap /\ mu' = mu /\ history' = history
      /\ <<partitions, strategy, current, stopped, live, snapLive, since, snapItems>>' =
           <<partitions, strategy, current, stopped, live, snapLive, since, snapItems>>
  BY DEF Call, Start, Tick, LoopEnds, ghosts
<1>6. Typed'
  BY <1>3, <1>5 DEF LockInv, Typed
<1>7. label \in {"restore", "put", "copy", "copying"} => snap \in [Part -> Bits]
  BY <1>1, <1>2 DEF LockInv, Typed, Inside
<1> QED BY <1>2, <1>3, <1>4, <1>5, <1>6, <1>7 DEF LockInv

LEMMA LockStep == LockInv /\ [Next]_vars => LockInv'
<1> SUFFICES ASSUME LockInv, [Next]_vars PROVE LockInv'
  OBVIOUS
<1>1. CASE UNCHANGED vars
  <2>1. Typed'
    BY <1>1 DEF LockInv, Typed, vars, ghosts
  <2> QED BY <1>1, <2>1 DEF LockInv, vars
<1>2. CASE Stop
  <2>1. Typed'
    BY <1>2 DEF LockInv, Typed, Stop, ghosts
  <2> QED BY <1>2, <2>1 DEF LockInv, Stop
<1>3. CASE \E data \in Item : Add(data)
  BY <1>3, LockAdd
<1>4. CASE \E t \in Thread : Lock(t) \/ Step(t)
  BY <1>4, LockLock, LockScan, LockSkip, LockRecord, LockReset, LockCopy, LockPut,
     LockAllCopied DEF Step, Rotate
<1>5. CASE \/ \E c \in Client : Call(c)
           \/ \E l \in Loop : Start(l) \/ Tick(l) \/ LoopEnds(l)
  BY <1>5, LockGo DEF Thread
<1> QED BY <1>1, <1>2, <1>3, <1>4, <1>5 DEF Next

LEMMA LockInvariant == Spec => []LockInv
BY LockInit, LockStep, PTL DEF Spec

LEMMA LockInvTypes == LockInv => TypeOK
<1> SUFFICES ASSUME Typed PROVE TypeOK
  BY DEF LockInv
<1>1. \A i \in DOMAIN history : history[i] \in EventRecord
  BY DEF Typed
<1>2. pc \in [Thread -> Label] /\ local \in [Thread -> LocalRecord]
  BY DEF Typed
<1> QED BY <1>1, <1>2 DEF Typed, TypeOK, Bits, Label, LocalRecord, EventRecord

\* rotation.go: the fields have their types in every reachable state, whoever
\* adds, rotates, saves and restores.
THEOREM RotationTypeCorrect == Spec => []TypeOK
BY LockInvariant, LockInvTypes, PTL

\* Two goroutines are never inside.
LEMMA Alone ==
  ASSUME LockInv, NEW t \in Thread, NEW u \in Thread, pc[t] \in Inside, pc[u] \in Inside
  PROVE  t = u
BY DEF LockInv

-----------------------------------------------------------------------------
(* The steps that change no partition *)

Quiet(t) ==
  \/ Lock(t) \/ Skip(t) \/ CopyBegin(t) \/ CopyEnd(t) \/ AllCopied(t)
  \/ Call(t) \/ Start(t) \/ Tick(t) \/ LoopEnds(t)

\* Who comes from outside has not looked yet, and nothing is to be reset.
LEMMA QuietFacts ==
  ASSUME LockInv, NEW t \in Thread, Quiet(t)
  PROVE  /\ pc[t] # "reset" /\ pc'[t] # "reset"
         /\ pc'[t] = "scan" => local'[t] = Start0
         /\ \A u \in Thread : u # t => pc'[u] = pc[u] /\ local'[u] = local[u]
         /\ <<partitions, strategy, current, history, live, since>>' =
              <<partitions, strategy, current, history, live, since>>
<1> DEFINE Same == <<partitions, strategy, current, history, live, since>>' =
                     <<partitions, strategy, current, history, live, since>>
           Others == \A u \in Thread : u # t => pc'[u] = pc[u] /\ local'[u] = local[u]
<1> SUFFICES /\ pc[t] # "reset" /\ pc'[t] # "reset"
             /\ pc'[t] = "scan" => local'[t] = Start0
             /\ Others
             /\ Same
  OBVIOUS
<1>1. Same
  BY DEF Quiet, Lock, Skip, CopyBegin, CopyEnd, AllCopied, Call, Start, Tick, LoopEnds, ghosts
<1> HIDE DEF Same
<1>2. CASE Lock(t)
  <2> DEFINE label == [rotate |-> "scan", snapshot |-> "copy", restore |-> "put"][pc[t]]
  <2>1. pc[t] \in {"rotate", "snapshot", "restore"} /\ Goto(t, label) /\ local' = local
    BY <1>2 DEF Lock
  <2>2. label \in Label /\ label # "reset"
    BY <2>1 DEF Label
  <2> HIDE DEF label
  <2>3. local[t] = Start0
    BY <2>1 DEF LockInv, Inside
  <2> QED BY <1>1, <2>1, <2>2, <2>3, GotoFacts DEF LockInv
<1>3. CASE Skip(t) \/ AllCopied(t)
  <2>1. Return(t) /\ pc[t] # "reset"
    BY <1>3 DEF Skip, ReturnEarly, Scanned, AllCopied
  <2> QED BY <1>1, <2>1, ReturnFacts DEF LockInv
<1>4. CASE CopyBegin(t)
  BY <1>1, <1>4, CopyBeginFacts
<1>5. CASE CopyEnd(t)
  BY <1>1, <1>5, CopyEndFacts
<1>6. CASE Call(t) \/ Start(t) \/ Tick(t) \/ LoopEnds(t)
  <2>1. PICK label \in {"rotate", "snapshot", "restore", "select", "done"} : Goto(t, label)
    BY <1>6 DEF Call, Start, Tick, LoopEnds
  <2>2. label \in Label /\ label \notin {"scan", "reset"}
    BY DEF Label
  <2>3. pc[t] # "reset" /\ local' = local
    BY <1>6 DEF Call, Start, Tick, LoopEnds
  <2> QED BY <1>1, <2>1, <2>2, <2>3, GotoFacts DEF LockInv
<1> QED BY <1>2, <1>3, <1>4, <1>5, <1>6 DEF Quiet

\* Every step is one of these.
LEMMA StepCases ==
  ASSUME [Next]_vars,
         NEW P,
         \A t \in Thread : Quiet(t) \/ Scan(t) \/ Record(t) \/ Reset(t) \/ Put(t) => P,
         \A data \in Item : Add(data) => P,
         Stop \/ UNCHANGED vars => P
  PROVE  P
BY DEF Next, Step, Rotate, Quiet, Thread

-----------------------------------------------------------------------------
(* The partitions take turns *)

LEMMA TurnInit == Init => TurnInv
<1> SUFFICES ASSUME Init PROVE TurnInv
  OBVIOUS
<1>1. \A t \in Thread : pc[t] \notin {"scan", "reset"}
  BY DEF Init
<1>2. DOMAIN history = {} /\ Len(history) = 0 /\ current = 0
  BY DEF Init
<1>3. 0 % N = 0
  BY RotationAssumption, ModSmall
<1> QED BY <1>1, <1>2, <1>3 DEF TurnInv, RoundRobinOrder

\* A look is at the current partition.
LEMMA TurnScan ==
  ASSUME LockInv, TurnInv, NEW t \in Thread, Scan(t)
  PROVE  TurnInv'
<1> SUFFICES ASSUME strategy = "RoundRobin" PROVE TurnInv'
  BY DEF TurnInv, Scan
<1>1. local'[t].idx = current
  BY ScanFacts
<1>2. \A u \in Thread : u # t => local'[u] = local[u]
  BY ScanFacts
<1>3. pc' = pc /\ current' = current /\ history' = history /\ strategy' = strategy /\ pc[t] = "scan"
  BY DEF Scan
<1> QED BY <1>1, <1>2, <1>3 DEF TurnInv, RoundRobinOrder

\* The event is of the partition whose turn it is, and the turn passes on.
LEMMA TurnRecord ==
  ASSUME LockInv, TurnInv, NEW t \in Thread, Record(t)
  PROVE  TurnInv'
<1> SUFFICES ASSUME strategy = "RoundRobin" PROVE TurnInv'
  BY DEF TurnInv, Record
<1> DEFINE n == Len(history)
<1>1. n \in Nat /\ history \in Seq(EventRecord)
  BY DEF LockInv, Typed
<1>2. pc[t] = "scan" /\ local[t].next = 1
  BY DEF Record, Scanned
<1>3. local[t].idx = current /\ current = n % N
  BY <1>2 DEF TurnInv, RoundRobinOrder
<1>4. history' = Append(history, Event(t)) /\ Event(t).partition = current
  BY <1>3 DEF Record, Event
<1>5. Len(history') = n + 1 /\ DOMAIN history' = 1 .. n + 1
  BY <1>1, <1>4
<1>6. ASSUME NEW i \in DOMAIN history' PROVE history'[i].partition = (i - 1) % N
  <2>1. CASE i \in 1 .. n
    <3>1. history'[i] = history[i] /\ i \in DOMAIN history
      BY <1>1, <1>4, <2>1
    <3> QED BY <3>1 DEF TurnInv, RoundRobinOrder
  <2>2. CASE i = n + 1
    <3>1. history'[i] = Event(t) /\ i - 1 = n
      BY <1>1, <1>4, <2>2
    <3> QED BY <3>1, <1>3, <1>4
  <2> QED BY <1>5, <1>1, <2>1, <2>2
<1>7. current' = (current + 1) % N
  BY DEF Record, NextPartition
<1>8. current' = (n + 1) % N
  <2>1. ((n % N) + 1) % N = (n + 1) % N
    <3>1. n \in Int /\ N \in Nat \ {0}
      BY <1>1, RotationAssumption
    <3> HIDE DEF n
    <3> QED BY <3>1, ModSucc
  <2> QED BY <2>1, <1>3, <1>7
<1>9. "reset" \in Label /\ Goto(t, "reset")
  BY DEF Record, Label
<1>10. pc'[t] = "reset" /\ \A u \in Thread : u # t => pc'[u] = pc[u]
  BY <1>9, GotoFacts DEF LockInv
<1>11. \A u \in Thread : u # t => pc'[u] \notin {"scan", "reset"}
  BY <1>2, <1>10, Alone DEF Inside
<1>12. local' = local /\ strategy' = strategy
  BY DEF Record
<1>13. Len(history') > 0 /\ local[t].idx = (Len(history') - 1) % N
  <2>1. Len(history') - 1 = n /\ Len(history') > 0
    BY <1>1, <1>5
  <2> QED BY <2>1, <1>3
<1>14. RoundRobinOrder'
  BY <1>5, <1>6, <1>8 DEF RoundRobinOrder
<1> HIDE DEF n
<1> QED BY <1>10, <1>11, <1>12, <1>13, <1>14 DEF TurnInv

\* Nothing else touches the history or the turn, and who comes from outside
\* has not looked.
LEMMA TurnOther ==
  ASSUME LockInv, TurnInv, NEW t \in Thread,
         \A u \in Thread : u # t => pc'[u] = pc[u] /\ local'[u] = local[u],
         pc'[t] # "reset",
         pc'[t] = "scan" => local'[t].next = 0,
         <<strategy, current, history>>' = <<strategy, current, history>>
  PROVE  TurnInv'
BY DEF TurnInv, RoundRobinOrder

LEMMA TurnStep == LockInv /\ TurnInv /\ [Next]_vars => TurnInv'
<1> SUFFICES ASSUME LockInv, TurnInv, [Next]_vars PROVE TurnInv'
  OBVIOUS
<1>1. CASE UNCHANGED vars \/ Stop \/ \E data \in Item : Add(data)
  <2>1. <<pc, local, strategy, current, history>>' = <<pc, local, strategy, current, history>>
    BY <1>1 DEF vars, Stop, Add
  <2> QED BY <2>1 DEF TurnInv, RoundRobinOrder
<1>2. ASSUME NEW t \in Thread, Quiet(t) PROVE TurnInv'
  <2>1. Start0.next = 0
    BY DEF Start0
  <2> QED BY <1>2, <2>1, QuietFacts, TurnOther
<1>3. ASSUME NEW t \in Thread, Reset(t) PROVE TurnInv'
  <2>1. Return(t) /\ <<strategy, current, history>>' = <<strategy, current, history>>
    BY <1>3 DEF Reset
  <2> QED BY <2>1, ReturnFacts, TurnOther DEF LockInv
<1>4. ASSUME NEW t \in Thread, Put(t) PROVE TurnInv'
  <2>1. <<strategy, current, history, pc>>' = <<strategy, current, history, pc>>
    BY <1>4 DEF Put
  <2> QED BY <1>4, <2>1, PutFacts, TurnOther
<1> QED BY <1>1, <1>2, <1>3, <1>4, TurnScan, TurnRecord, StepCases

LEMMA TurnInvariant == Spec => []TurnInv
BY LockInvariant, TurnInit, TurnStep, PTL DEF Spec

\* rotation.go, rotateOnce: the n-th reset is of partition n % N, however many
\* loops and clients ask for it, and whatever is saved and restored meanwhile.
THEOREM TurnsInOrder == Spec => []RoundRobinOrder
<1>1. TurnInv => RoundRobinOrder
  BY DEF TurnInv, RoundRobinOrder
<1> QED BY <1>1, TurnInvariant, PTL

-----------------------------------------------------------------------------
(* Nothing outlives its turn *)

\* A remainder of N is below N.
LEMMA TurnBelow ==
  ASSUME NEW a \in Int
  PROVE  a % N \in Int /\ a % N >= 0 /\ a % N < N
<1>1. N \in Nat \ {0}
  BY RotationAssumption
<1> QED BY <1>1

LEMMA BitsOfMore ==
  ASSUME NEW S, NEW T, S \subseteq T
  PROVE  BitsOf(S) \subseteq BitsOf(T)
BY DEF BitsOf

LEMMA ResetsInt ==
  ASSUME LockInv
  PROVE  Resets \in Int
BY DEF LockInv, Typed, Resets

\* What is due is recent.
LEMMA DueRecent ==
  ASSUME LockInv, NEW i \in Part
  PROVE  Due(i) \subseteq Recent(i)
<1> SUFFICES ASSUME NEW x \in Due(i) PROVE since[x] < N
  BY DEF Due, Recent
<1> DEFINE r == (i - Resets) % N
<1>1. x \in Item /\ since[x] \in Nat /\ N \in Nat
  BY RotationAssumption DEF Due, Routed, LockInv, Typed
<1>2. i - Resets \in Int
  BY ResetsInt, RotationAssumption DEF Part
<1>3. r \in Int /\ r >= 0
  BY <1>2, TurnBelow
<1>4. since[x] + r < N
  BY DEF Due
<1> HIDE DEF r
<1> QED BY <1>1, <1>3, <1>4

\* Without a reset no item gets older.
LEMMA DueOther ==
  ASSUME LockInv, Resets' = Resets,
         \A x \in Item : since'[x] = 0 \/ since'[x] = since[x], NEW i \in Part
  PROVE  /\ Due(i) \subseteq Due(i)'
         /\ \A x \in Routed(i) : since'[x] = 0 => x \in Due(i)'
<1> DEFINE r == (i - Resets) % N
<1>1. i - Resets \in Int
  BY ResetsInt, RotationAssumption DEF Part
<1>2. r \in Int /\ r < N
  BY <1>1, TurnBelow
<1>3. Due(i)' = {x \in Routed(i) : since'[x] + r < N}
  BY DEF Due, Routed
<1>4. Due(i) = {x \in Routed(i) : since[x] + r < N} /\ Routed(i) \subseteq Item
  BY DEF Due, Routed
<1> HIDE DEF r
<1>5. 0 + r < N
  BY <1>2
<1> QED BY <1>3, <1>4, <1>5

\* The reset of one partition brings the others one nearer to theirs.
LEMMA DueReset ==
  ASSUME LockInv, LockInv', TurnInv, DueInv, NEW t \in Thread, Reset(t)
  PROVE  DueInv'
<1> SUFFICES ASSUME strategy = "RoundRobin", NEW i \in Part
             PROVE  partitions'[i] \subseteq BitsOf(Due(i)')
  BY DEF DueInv, Reset, BitsOf
<1>1. /\ pc[t] = "reset" /\ Return(t) /\ history' = history
      /\ partitions' = [partitions EXCEPT ![local[t].idx] = {}]
      /\ since' = [x \in Item |-> OneMore(since[x])]
      /\ partitions \in [Part -> Bits] /\ since \in [Item -> 0 .. N]
  BY DEF Reset, ToReset, Cleared, LockInv, Typed
<1>2. Resetting
  BY <1>1 DEF Resetting
<1>3. ~Resetting'
  BY <1>1, ReturnFacts, Alone DEF Resetting, Inside, LockInv
<1>4. Len(history) \in Nat
  BY DEF LockInv, Typed
<1>5. Resets' = Resets + 1 /\ Resets = Len(history) - 1 /\ Resets \in Int
  BY <1>1, <1>2, <1>3, <1>4 DEF Resets
<1>6. local[t].idx = Resets % N
  BY <1>1, <1>5 DEF TurnInv
<1>7. CASE i = local[t].idx
  BY <1>1, <1>7
<1>8. CASE i # local[t].idx
  <2>1. N \in Nat \ {0} /\ i \in 0 .. N - 1
    BY RotationAssumption DEF Part
  <2> DEFINE a == i - Resets
  <2>2. a \in Int /\ i - Resets' = a - 1
    BY <1>5, <2>1
  <2>3. a % N # 0
    BY <1>5, <1>6, <1>8, <2>1, ModDifference
  <2> HIDE DEF a
  <2>4. (a - 1) % N = (a % N) - 1
    BY <2>1, <2>2, <2>3, ModPred
  <2>5. a % N \in Int /\ a % N >= 0
    BY <2>2, TurnBelow
  <2>6. Due(i) \subseteq Due(i)'
    <3> SUFFICES ASSUME NEW x \in Due(i) PROVE x \in Due(i)'
      OBVIOUS
    <3>1. x \in Routed(i) /\ x \in Item /\ since[x] + (a % N) < N
      BY DEF Due, Routed, a
    <3>2. since[x] \in Nat /\ since[x] < N
      BY <1>1, <2>1, <2>5, <3>1
    <3>3. since'[x] = since[x] + 1
      BY <1>1, <3>1, <3>2 DEF OneMore
    <3>4. since'[x] + ((i - Resets') % N) < N
      BY <2>1, <2>2, <2>4, <2>5, <3>1, <3>2, <3>3
    <3> QED BY <3>1, <3>4 DEF Due, Routed
  <2>7. partitions'[i] = partitions[i] /\ partitions[i] \subseteq BitsOf(Due(i))
    BY <1>1, <1>8 DEF DueInv
  <2> QED BY <2>6, <2>7, BitsOfMore
<1> QED BY <1>7, <1>8

LEMMA DueStep ==
  LockInv /\ LockInv' /\ TurnInv /\ DueInv /\ SnapInv /\ [Next]_vars => DueInv'
<1> SUFFICES ASSUME LockInv, LockInv', TurnInv, DueInv, SnapInv, [Next]_vars PROVE DueInv'
  OBVIOUS
<1>1. /\ partitions \in [Part -> Bits] /\ since \in [Item -> 0 .. N]
      /\ pc \in [Thread -> Label] /\ snapItems \in SUBSET Item
  BY DEF LockInv, Typed
<1>2. ASSUME strategy' = strategy, Resets' = Resets, partitions' = partitions, since' = since
      PROVE  DueInv'
  <2> SUFFICES ASSUME strategy = "RoundRobin", NEW i \in Part
               PROVE  partitions[i] \subseteq BitsOf(Due(i)')
    BY <1>2 DEF DueInv, BitsOf
  <2>1. Due(i) \subseteq Due(i)'
    BY <1>2, DueOther
  <2> QED BY <2>1, BitsOfMore DEF DueInv
<1>3. ASSUME UNCHANGED vars \/ Stop PROVE DueInv'
  <2>1. <<strategy, history, pc, partitions, since>>' = <<strategy, history, pc, partitions, since>>
    BY <1>3 DEF vars, ghosts, Stop
  <2>2. Resets' = Resets
    BY <2>1 DEF Resets, Resetting
  <2> QED BY <1>2, <2>1, <2>2
<1>4. ASSUME NEW data \in Item, Add(data) PROVE DueInv'
  <2> SUFFICES ASSUME strategy = "RoundRobin", NEW i \in Part
               PROVE  partitions'[i] \subseteq BitsOf(Due(i)')
    BY <1>4 DEF DueInv, Add, BitsOf
  <2>1. /\ <<strategy, history, pc>>' = <<strategy, history, pc>>
        /\ partitions' = [partitions EXCEPT ![Route(data)] = @ \cup Positions(data, K, M)]
        /\ since' = [since EXCEPT ![data] = 0]
    BY <1>4 DEF Add
  <2>2. Resets' = Resets
    BY <2>1 DEF Resets, Resetting
  <2>3. /\ \A x \in Item : since'[x] = 0 \/ since'[x] = since[x]
        /\ since'[data] = 0
    BY <1>1, <2>1
  <2>4. Due(i) \subseteq Due(i)' /\ \A x \in Routed(i) : since'[x] = 0 => x \in Due(i)'
    BY <2>2, <2>3, DueOther
  <2>5. partitions[i] \subseteq BitsOf(Due(i)')
    BY <2>4, BitsOfMore DEF DueInv
  <2>6. CASE i = Route(data)
    <3>1. data \in Due(i)'
      BY <2>3, <2>4, <2>6 DEF Routed
    <3>2. Positions(data, K, M) \subseteq BitsOf(Due(i)')
      BY <3>1 DEF BitsOf
    <3>3. partitions'[i] = partitions[i] \cup Positions(data, K, M)
      BY <1>1, <2>1, <2>6
    <3> QED BY <2>5, <3>2, <3>3
  <2>7. CASE i # Route(data)
    BY <1>1, <2>1, <2>5, <2>7
  <2> QED BY <2>6, <2>7
<1>5. ASSUME NEW t \in Thread, Quiet(t) \/ Scan(t) PROVE DueInv'
  <2>1. /\ <<strategy, history, partitions, since>>' = <<strategy, history, partitions, since>>
        /\ pc[t] # "reset" /\ pc'[t] # "reset" /\ \A u \in Thread : u # t => pc'[u] = pc[u]
    BY <1>5, QuietFacts DEF Scan, ghosts
  <2>2. Resetting' <=> Resetting
    BY <2>1 DEF Resetting
  <2>3. Resets' = Resets
    BY <2>1, <2>2 DEF Resets
  <2> QED BY <1>2, <2>1, <2>3
<1>6. ASSUME NEW t \in Thread, Put(t) PROVE DueInv'
  <2> DEFINE idx == local[t].next
  <2> SUFFICES ASSUME strategy = "RoundRobin", NEW i \in Part
               PROVE  partitions'[i] \subseteq BitsOf(Due(i)')
    BY <1>6 DEF DueInv, Put, BitsOf
  <2>1. /\ <<strategy, history, pc>>' = <<strategy, history, pc>>
        /\ since' = [x \in Item |-> IF x \in snapItems \cap Routed(idx) THEN 0 ELSE since[x]]
    BY <1>6 DEF Put
  <2>2. Resets' = Resets
    BY <2>1 DEF Resets, Resetting
  <2>3. \A x \in Item : since'[x] = 0 \/ since'[x] = since[x]
    BY <2>1
  <2>4. Due(i) \subseteq Due(i)' /\ \A x \in Routed(i) : since'[x] = 0 => x \in Due(i)'
    BY <2>2, <2>3, DueOther
  <2>5. pc[t] = "put" /\ idx \in Part /\ partitions' = [partitions EXCEPT ![idx] = snap[idx]]
    BY <1>6, PutFacts
  <2>6. CASE i = idx
    <3>1. snap \in [Part -> Bits]
      BY <2>5 DEF LockInv
    <3>2. snap[i] \subseteq BitsOf(snapItems \cap Routed(i))
      BY <3>1 DEF SnapInv
    <3>3. snapItems \cap Routed(i) \subseteq Due(i)'
      BY <1>1, <2>1, <2>4, <2>6
    <3>4. partitions'[i] = snap[i]
      BY <1>1, <2>5, <2>6
    <3> QED BY <3>2, <3>3, <3>4, BitsOfMore
  <2>7. CASE i # idx
    <3>1. partitions'[i] = partitions[i] /\ partitions[i] \subseteq BitsOf(Due(i))
      BY <1>1, <2>5, <2>7 DEF DueInv
    <3> QED BY <2>4, <3>1, BitsOfMore
  <2> QED BY <2>6, <2>7
<1>7. ASSUME NEW t \in Thread, Record(t) PROVE DueInv'
  <2>1. /\ <<strategy, partitions, since>>' = <<strategy, partitions, since>>
        /\ history' = Append(history, Event(t)) /\ Goto(t, "reset") /\ pc[t] = "scan"
    BY <1>7 DEF Record, ghosts, Scanned
  <2>2. ~Resetting
    BY <2>1, Alone DEF Resetting, Inside
  <2>3. Resetting'
    BY <1>1, <2>1 DEF Resetting, Goto
  <2>4. Len(history) \in Nat /\ Len(history') = Len(history) + 1
    BY <2>1 DEF LockInv, Typed
  <2>5. Resets' = Resets
    BY <2>2, <2>3, <2>4 DEF Resets
  <2> QED BY <1>2, <2>1, <2>5
<1> QED BY <1>3, <1>4, <1>5, <1>6, <1>7, DueReset, StepCases

\* A snapshot that is not being copied stays as it is; one that is, is of a
\* partition that nobody resets.
LEMMA SnapOther ==
  ASSUME SnapInv, <<strategy, snap, snapItems>>' = <<strategy, snap, snapItems>>,
         \A u \in Thread, i \in Part :
           pc'[u] = "copying" =>
             /\ pc[u] = "copying" /\ local'[u] = local[u]
             /\ Recent(i) \subseteq Recent(i)'
  PROVE  SnapInv'
<1> SUFFICES ASSUME strategy = "RoundRobin"
             PROVE  /\ \A t \in Thread, i \in Part : pc'[t] = "copying" /\ local'[t].next = i =>
                          local'[t].base \subseteq BitsOf(Recent(i)')
                    /\ snap \in [Part -> Bits] =>
                         \A i \in Part : snap[i] \subseteq BitsOf(snapItems \cap Routed(i))
  BY DEF SnapInv, BitsOf, Routed
<1>1. ASSUME NEW t \in Thread, NEW i \in Part, pc'[t] = "copying", local'[t].next = i
      PROVE  local'[t].base \subseteq BitsOf(Recent(i)')
  <2>1. local[t].base \subseteq BitsOf(Recent(i)) /\ local'[t] = local[t]
    BY <1>1 DEF SnapInv
  <2>2. Recent(i) \subseteq Recent(i)'
    BY <1>1
  <2> QED BY <2>1, <2>2, BitsOfMore
<1> QED BY <1>1 DEF SnapInv

LEMMA SnapStep ==
  LockInv /\ DueInv /\ SnapInv /\ [Next]_vars => SnapInv'
<1> SUFFICES ASSUME LockInv, DueInv, SnapInv, [Next]_vars PROVE SnapInv'
  OBVIOUS
<1>1. /\ since \in [Item -> 0 .. N] /\ N \in Nat \ {0} /\ partitions \in [Part -> Bits]
      /\ pc \in [Thread -> Label]
  BY RotationAssumption DEF LockInv, Typed
<1>2. ASSUME UNCHANGED vars \/ Stop PROVE SnapInv'
  <2>1. <<strategy, snap, snapItems, pc, local, since>>' = <<strategy, snap, snapItems, pc, local, since>>
    BY <1>2 DEF vars, ghosts, Stop
  <2>2. \A i : Recent(i)' = Recent(i)
    BY <2>1 DEF Recent, Routed
  <2> QED BY <2>1, <2>2, SnapOther
<1>3. ASSUME NEW data \in Item, Add(data) PROVE SnapInv'
  <2>1. /\ <<strategy, snap, snapItems, pc, local>>' = <<strategy, snap, snapItems, pc, local>>
        /\ since' = [since EXCEPT ![data] = 0]
    BY <1>3 DEF Add
  <2>2. \A i : Recent(i) \subseteq Recent(i)'
    BY <1>1, <2>1 DEF Recent, Routed
  <2> QED BY <2>1, <2>2, SnapOther
<1>4. ASSUME NEW t \in Thread, <<strategy, snap, snapItems>>' = <<strategy, snap, snapItems>>,
             pc'[t] # "copying", \A u \in Thread : u # t => pc'[u] = pc[u] /\ local'[u] = local[u],
             since' = since \/ pc[t] \in Inside
      PROVE  SnapInv'
  <2>1. CASE since' = since
    <3>1. \A i : Recent(i)' = Recent(i)
      BY <2>1 DEF Recent, Routed
    <3> QED BY <1>4, <3>1, SnapOther
  <2>2. CASE pc[t] \in Inside
    <3>1. \A u \in Thread : u # t => pc[u] # "copying"
      BY <2>2, Alone DEF Inside
    <3> QED BY <1>4, <3>1, SnapOther
  <2> QED BY <1>4, <2>1, <2>2
<1>5. ASSUME NEW t \in Thread, Lock(t) PROVE SnapInv'
  <2>1. /\ mu = NoOne /\ pc[t] \in {"rotate", "snapshot", "restore"}
        /\ Goto(t, [rotate |-> "scan", snapshot |-> "copy", restore |-> "put"][pc[t]])
        /\ <<strategy, since>>' = <<strategy, since>>
    BY <1>5 DEF Lock, MuFree
  <2>2. pc'[t] # "copying"
    BY <1>1, <2>1 DEF Goto
  <2>3. \A u \in Thread : u # t => pc'[u] = pc[u] /\ local'[u] = local[u]
    BY <1>5, QuietFacts DEF Quiet
  <2>4. CASE pc[t] # "snapshot"
    <3>1. <<snap, snapItems>>' = <<snap, snapItems>>
      BY <1>5, <2>4 DEF Lock
    <3> QED BY <1>4, <2>1, <2>2, <2>3, <3>1
  <2>5. CASE pc[t] = "snapshot"
    <3>1. snap' = [i \in Part |-> {}]
      BY <1>5, <2>5 DEF Lock
    <3>2. \A u \in Thread : pc'[u] # "copying"
      BY <2>1, <2>2, <2>3, NoOneIsNoThread DEF LockInv, Inside
    <3> QED BY <3>1, <3>2 DEF SnapInv
  <2> QED BY <2>4, <2>5
<1>6. ASSUME NEW t \in Thread, CopyBegin(t) PROVE SnapInv'
  <2> DEFINE idx == local[t].next
  <2>1. /\ idx \in Part /\ pc[t] = "copy"
        /\ local'[t].next = idx /\ local'[t].base = partitions[idx]
        /\ \A u \in Thread : u # t => pc'[u] = pc[u]
    BY <1>6, CopyBeginFacts
  <2>2. <<strategy, snap, snapItems, since>>' = <<strategy, snap, snapItems, since>>
    BY <1>6 DEF CopyBegin, ghosts
  <2>3. \A u \in Thread : u # t => pc'[u] # "copying"
    BY <2>1, Alone DEF Inside
  <2> HIDE DEF idx
  <2>4. strategy = "RoundRobin" => local'[t].base \subseteq BitsOf(Recent(idx))
    BY <2>1, DueRecent, BitsOfMore DEF DueInv
  <2>5. \A i \in Part : Recent(i)' = Recent(i)
    BY <2>2 DEF Recent, Routed
  <2>6. strategy = "RoundRobin" => \A i \in Part : pc'[t] = "copying" /\ local'[t].next = i =>
          local'[t].base \subseteq BitsOf(Recent(i)')
    BY <2>1, <2>4, <2>5
  <2>7. strategy' = "RoundRobin" => \A u \in Thread, i \in Part :
          pc'[u] = "copying" /\ local'[u].next = i => local'[u].base \subseteq BitsOf(Recent(i)')
    BY <2>2, <2>3, <2>6
  <2> QED BY <2>2, <2>7 DEF SnapInv, BitsOf, Routed
<1>7. ASSUME NEW t \in Thread, CopyEnd(t) PROVE SnapInv'
  <2> DEFINE idx == local[t].next
  <2>1. /\ idx \in Part /\ pc[t] = "copying" /\ pc'[t] = "copy"
        /\ \A u \in Thread : u # t => pc'[u] = pc[u]
        /\ \A i \in Part : i # idx => snap'[i] = snap[i]
    BY <1>7, CopyEndFacts
  <2>2. strategy' = strategy /\ snapItems' = snapItems \cup Recent(idx)
    BY <1>7 DEF CopyEnd
  <2>3. snap \in [Part -> Bits]
    BY <2>1 DEF LockInv
  <2>4. PICK seen \in SUBSET (partitions[idx] \ local[t].base) :
          snap' = [snap EXCEPT ![idx] = local[t].base \cup seen]
    BY <1>7 DEF CopyEnd
  <2>5. \A u \in Thread : pc'[u] # "copying"
    BY <2>1, Alone DEF Inside
  <2> HIDE DEF idx
  <2>6. ASSUME strategy = "RoundRobin", NEW i \in Part
        PROVE  snap'[i] \subseteq BitsOf(snapItems' \cap Routed(i))
    <3>1. snap[i] \subseteq BitsOf(snapItems \cap Routed(i))
      BY <2>3, <2>6 DEF SnapInv
    <3>2. snapItems \cap Routed(i) \subseteq snapItems' \cap Routed(i)
      BY <2>2
    <3>3. CASE i # idx
      BY <2>1, <3>1, <3>2, <3>3, BitsOfMore
    <3>4. CASE i = idx
      <4>1. local[t].base \subseteq BitsOf(Recent(i))
        BY <2>1, <2>6, <3>4 DEF SnapInv, idx
      <4>2. partitions[i] \subseteq BitsOf(Recent(i))
        BY <2>6, DueRecent, BitsOfMore DEF DueInv
      <4>3. snap'[i] \subseteq BitsOf(Recent(i))
        BY <2>3, <2>4, <3>4, <4>1, <4>2
      <4>4. Recent(i) \subseteq snapItems' \cap Routed(i)
        BY <2>2, <3>4 DEF Recent
      <4> QED BY <4>3, <4>4, BitsOfMore
    <3> QED BY <3>3, <3>4
  <2> QED BY <2>2, <2>5, <2>6 DEF SnapInv, BitsOf, Routed
<1>8. ASSUME NEW t \in Thread, Scan(t) \/ Record(t) PROVE SnapInv'
  <2>1. /\ <<strategy, snap, snapItems, since>>' = <<strategy, snap, snapItems, since>>
        /\ pc[t] = "scan"
    BY <1>8 DEF Scan, Record, Scanned, ghosts
  <2>2. /\ pc'[t] # "copying"
        /\ \A u \in Thread : u # t => pc'[u] = pc[u] /\ local'[u] = local[u]
    <3>1. CASE Scan(t)
      BY <2>1, <3>1, ScanFacts DEF Scan
    <3>2. CASE Record(t)
      BY <1>1, <3>2 DEF Record, Goto
    <3> QED BY <1>8, <3>1, <3>2
  <2> QED BY <1>4, <2>1, <2>2
<1>9. ASSUME NEW t \in Thread, Reset(t) \/ Put(t) PROVE SnapInv'
  <2>1. /\ <<strategy, snap, snapItems>>' = <<strategy, snap, snapItems>>
        /\ pc[t] \in Inside
    BY <1>9 DEF Reset, Put, Inside
  <2>2. /\ pc'[t] # "copying"
        /\ \A u \in Thread : u # t => pc'[u] = pc[u] /\ local'[u] = local[u]
    <3>1. CASE Reset(t)
      BY <3>1, ReturnFacts DEF Reset, LockInv
    <3>2. CASE Put(t)
      BY <3>2, PutFacts DEF Put
    <3> QED BY <1>9, <3>1, <3>2
  <2> QED BY <1>4, <2>1, <2>2
<1>10. ASSUME NEW t \in Thread, Skip(t) \/ AllCopied(t) \/ Call(t) \/ Start(t) \/ Tick(t) \/ LoopEnds(t)
       PROVE  SnapInv'
  <2>1. <<strategy, snap, snapItems, since>>' = <<strategy, snap, snapItems, since>>
    BY <1>10 DEF Skip, AllCopied, Call, Start, Tick, LoopEnds, ghosts
  <2>2. \A u \in Thread : u # t => pc'[u] = pc[u] /\ local'[u] = local[u]
    BY <1>10, QuietFacts DEF Quiet
  <2>3. pc'[t] # "copying"
    <3>1. CASE Skip(t) \/ AllCopied(t)
      <4>1. Return(t)
        BY <3>1 DEF Skip, ReturnEarly, AllCopied
      <4> QED BY <4>1, ReturnFacts DEF LockInv
    <3>2. CASE Call(t) \/ Start(t) \/ Tick(t) \/ LoopEnds(t)
      <4>1. PICK label \in {"rotate", "snapshot", "restore", "select", "done"} : Goto(t, label)
        BY <3>2 DEF Call, Start, Tick, LoopEnds
      <4> QED BY <1>1, <4>1 DEF Goto
    <3> QED BY <1>10, <3>1, <3>2
  <2> QED BY <1>4, <2>1, <2>2, <2>3
<1> QED BY <1>2, <1>3, <1>5, <1>6, <1>7, <1>8, <1>9, <1>10, StepCases DEF Quiet

LEMMA ExpiryInvariant == Spec => [](DueInv /\ SnapInv)
<1>1. Init => DueInv /\ SnapInv
  <2>1. ASSUME Init PROVE snap \notin [Part -> Bits]
    BY <2>1, RotationAssumption DEF Init, Bits
  <2>2. ASSUME Init, NEW t \in Thread PROVE pc[t] # "copying"
    BY <2>2 DEF Init
  <2>3. ASSUME Init, NEW i \in Part PROVE partitions[i] = {}
    BY <2>3 DEF Init
  <2> QED BY <2>1, <2>2, <2>3 DEF DueInv, SnapInv
<1>2. LockInv /\ LockInv' /\ TurnInv /\ (DueInv /\ SnapInv) /\ [Next]_vars => (DueInv /\ SnapInv)'
  BY DueStep, SnapStep
<1> QED BY <1>1, <1>2, LockInvariant, TurnInvariant, PTL DEF Spec

\* rotation.go, partition.go: with round robin no bit stays for N rotations,
\* whoever rotates, and whatever is added and saved meanwhile; what a snapshot
\* puts back begins anew.
THEOREM NothingOutlivesTurns == Spec => []EverythingExpires
<1>1. LockInv /\ DueInv => EverythingExpires
  <2> SUFFICES ASSUME LockInv, DueInv, strategy = "RoundRobin", NEW i \in Part
               PROVE  partitions[i] \subseteq BitsOf(Recent(i))
    BY DEF EverythingExpires, BitsOf
  <2> QED BY DueRecent, BitsOfMore DEF DueInv
<1> QED BY <1>1, LockInvariant, ExpiryInvariant, PTL

-----------------------------------------------------------------------------
(* Live items are present *)

LEMMA PresentMeans ==
  Present <=> \A x \in live : Holds(partitions[Route(x)], x)
BY DEF Present, Test, Holds

\* What touches neither the items nor the copy.
LEMMA CopyOther ==
  ASSUME CopyInv,
         <<partitions, live, snap, snapLive>>' = <<partitions, live, snap, snapLive>>,
         \A u \in Thread :
           \/ pc'[u] = pc[u] /\ local'[u] = local[u]
           \/ ~Copying(u) /\ ~Copying(u)'
  PROVE  CopyInv'
BY DEF CopyInv, Copying, Present, Test

\* An Add sets bits only, and the item is present.
LEMMA CopyAdd ==
  ASSUME LockInv, CopyInv, NEW data \in Item, Add(data)
  PROVE  CopyInv'
<1>1. partitions \in [Part -> Bits] /\ live \in SUBSET Item
  BY DEF LockInv, Typed
<1>2. /\ partitions' = [partitions EXCEPT ![Route(data)] = @ \cup Positions(data, K, M)]
      /\ live' = live \cup {data}
      /\ <<snap, snapLive, pc, local>>' = <<snap, snapLive, pc, local>>
  BY DEF Add
<1>3. ASSUME NEW x \in live' PROVE Holds(partitions'[Route(x)], x)
  <2>1. x \in Item /\ Route(x) \in Part /\ Route(data) \in Part
    BY <1>1, <1>2, RouteRange
  <2>2. CASE x = data
    BY <1>1, <1>2, <2>1, <2>2 DEF Holds
  <2>3. CASE x \in live
    <3>1. Holds(partitions[Route(x)], x)
      BY <2>3, PresentMeans DEF CopyInv
    <3>2. partitions[Route(x)] \subseteq partitions'[Route(x)]
      BY <1>1, <1>2, <2>1
    <3> QED BY <3>1, <3>2 DEF Holds
  <2> QED BY <1>2, <2>2, <2>3
<1>4. Present'
  BY <1>3 DEF Present, Test, Holds
<1> QED BY <1>2, <1>4 DEF CopyInv, Copying

\* A snapshot begins with no copy; nobody else is copying.
LEMMA CopyLock ==
  ASSUME LockInv, CopyInv, NEW t \in Thread, Lock(t)
  PROVE  CopyInv'
<1> DEFINE label == [rotate |-> "scan", snapshot |-> "copy", restore |-> "put"][pc[t]]
<1>1. /\ pc[t] \in {"rotate", "snapshot", "restore"} /\ mu = NoOne /\ Goto(t, label)
      /\ <<partitions, live, local>>' = <<partitions, live, local>>
  BY DEF Lock, MuFree
<1>2. label \in Label /\ (pc[t] = "snapshot" \/ label \notin {"copy", "copying"})
  BY <1>1 DEF Label
<1>3. pc[t] = "snapshot" => label = "copy"
  OBVIOUS
<1> HIDE DEF label
<1>4. pc'[t] = label /\ \A u \in Thread : u # t => pc'[u] = pc[u]
  BY <1>1, <1>2, GotoFacts DEF LockInv
<1>5. \A u \in Thread : ~Copying(u)
  BY <1>1, NoOneIsNoThread DEF LockInv, Copying, Inside
<1>6. CASE pc[t] # "snapshot"
  <2>1. <<snap, snapLive>>' = <<snap, snapLive>>
    BY <1>6 DEF Lock
  <2>2. \A u \in Thread : ~Copying(u)'
    BY <1>2, <1>4, <1>5, <1>6 DEF Copying
  <2> QED BY <1>1, <1>5, <2>1, <2>2, CopyOther
<1>7. CASE pc[t] = "snapshot"
  <2>1. snapLive' = live
    BY <1>7 DEF Lock
  <2>2. local[t].next = 0
    BY <1>7 DEF LockInv, Inside, Start0
  <2>3. live \in SUBSET Item
    BY DEF LockInv, Typed
  <2>4. pc'[t] = "copy" /\ \A u \in Thread : u # t => ~Copying(u)'
    BY <1>3, <1>4, <1>5, <1>7 DEF Copying
  <2>5. Present'
    BY <1>1 DEF CopyInv, Present, Test
  <2>6. \A x \in live : ~(Route(x) < 0)
    BY <2>3, RouteNumber
  <2> QED BY <1>1, <2>1, <2>2, <2>4, <2>5, <2>6 DEF CopyInv, Copying
<1> QED BY <1>6, <1>7

\* The copy begins with the bits of the items.
LEMMA CopyCopyBegin ==
  ASSUME LockInv, CopyInv, NEW t \in Thread, CopyBegin(t)
  PROVE  CopyInv'
<1>1. /\ pc[t] = "copy" /\ pc'[t] = "copying"
      /\ local'[t].next = local[t].next /\ local'[t].base = partitions[local[t].next]
      /\ \A u \in Thread : u # t => pc'[u] = pc[u] /\ local'[u] = local[u]
  BY CopyBeginFacts
<1>2. <<partitions, live, snap, snapLive>>' = <<partitions, live, snap, snapLive>>
  BY DEF CopyBegin, ghosts
<1>3. \A u \in Thread : u # t => ~Copying(u)'
  BY <1>1, Alone DEF Copying, Inside
<1>4. snapLive \subseteq live
  BY <1>1 DEF CopyInv, Copying
<1>5. \A x \in snapLive \cap Routed(local'[t].next) : Holds(local'[t].base, x)
  BY <1>1, <1>4, PresentMeans DEF CopyInv, Routed
<1>6. \A x \in snapLive : Route(x) < local[t].next => Holds(snap[Route(x)], x)
  BY <1>1 DEF CopyInv, Copying
<1>7. Present'
  BY <1>2 DEF CopyInv, Present, Test
<1> QED BY <1>1, <1>2, <1>3, <1>4, <1>5, <1>6, <1>7 DEF CopyInv, Copying

\* It ends with them, whatever was added meanwhile.
LEMMA CopyCopyEnd ==
  ASSUME LockInv, CopyInv, NEW t \in Thread, CopyEnd(t)
  PROVE  CopyInv'
<1> DEFINE idx == local[t].next
<1>1. /\ pc[t] = "copying" /\ idx \in Part /\ pc'[t] = "copy"
      /\ local'[t].next = idx + 1 /\ local[t].base \subseteq snap'[idx]
      /\ \A u \in Thread : u # t => pc'[u] = pc[u] /\ local'[u] = local[u]
      /\ \A i \in Part : i # idx => snap'[i] = snap[i]
  BY CopyEndFacts
<1>2. <<partitions, live, snapLive>>' = <<partitions, live, snapLive>>
  BY DEF CopyEnd, ghosts
<1>3. \A u \in Thread : u # t => ~Copying(u)'
  BY <1>1, Alone DEF Copying, Inside
<1>4. snapLive \subseteq live /\ snapLive \in SUBSET Item
  BY <1>1 DEF CopyInv, Copying, LockInv, Typed
<1>5. ASSUME NEW x \in snapLive, Route(x) < local'[t].next
      PROVE  Holds(snap'[Route(x)], x)
  <2>1. x \in Item /\ Route(x) \in Part
    BY <1>4, RouteRange
  <2>2. CASE Route(x) = idx
    <3>1. x \in Routed(idx)
      BY <2>1, <2>2 DEF Routed
    <3>2. Holds(local[t].base, x)
      BY <1>1, <3>1 DEF CopyInv, Copying
    <3> QED BY <1>1, <2>2, <3>2 DEF Holds
  <2>3. CASE Route(x) # idx
    <3>1. Route(x) < idx
      BY <1>1, <1>5, <2>1, <2>3, RotationAssumption DEF Part
    <3>2. Holds(snap[Route(x)], x)
      BY <1>1, <3>1 DEF CopyInv, Copying
    <3> QED BY <1>1, <2>1, <2>3, <3>2
  <2> QED BY <2>2, <2>3
<1>6. Present'
  BY <1>2 DEF CopyInv, Present, Test
<1> QED BY <1>1, <1>2, <1>3, <1>4, <1>5, <1>6 DEF CopyInv, Copying

\* With all partitions copied, every item is in the copy of its own.
LEMMA CopyAllCopied ==
  ASSUME LockInv, CopyInv, NEW t \in Thread, AllCopied(t)
  PROVE  CopyInv'
<1>1. Return(t) /\ local[t].next = N /\ pc[t] \in {"copy", "put"}
  BY DEF AllCopied
<1>2. <<partitions, live, snap, snapLive>>' = <<partitions, live, snap, snapLive>>
  BY DEF AllCopied, ghosts
<1>3. \A u \in Thread : ~Copying(u)'
  BY <1>1, ReturnFacts, Alone DEF Copying, Inside, LockInv
<1>4. \A x \in snapLive : Holds(snap[Route(x)], x)
  <2>1. CASE pc[t] = "put"
    <3>1. \A u \in Thread : ~Copying(u)
      BY <2>1, Alone DEF Copying, Inside
    <3> QED BY <3>1 DEF CopyInv
  <2>2. CASE pc[t] = "copy"
    <3>1. snapLive \in SUBSET Item
      BY DEF LockInv, Typed
    <3>2. \A x \in snapLive : Route(x) < N
      BY <3>1, RouteNumber
    <3> QED BY <1>1, <2>2, <3>2 DEF CopyInv, Copying
  <2> QED BY <1>1, <2>1, <2>2
<1>5. Present'
  BY <1>2 DEF CopyInv, Present, Test
<1> QED BY <1>2, <1>3, <1>4, <1>5 DEF CopyInv

\* A reset takes the bits of the items it forgets only.
LEMMA CopyReset ==
  ASSUME LockInv, CopyInv, NEW t \in Thread, Reset(t)
  PROVE  CopyInv'
<1>1. /\ pc[t] = "reset" /\ Return(t)
      /\ partitions' = [partitions EXCEPT ![local[t].idx] = {}]
      /\ live' = live \ Routed(local[t].idx)
      /\ <<snap, snapLive>>' = <<snap, snapLive>>
  BY DEF Reset, ToReset, Cleared
<1>2. (\A u \in Thread : ~Copying(u)) /\ (\A u \in Thread : ~Copying(u)')
  BY <1>1, ReturnFacts, Alone DEF Copying, Inside, LockInv
<1>3. \A x \in live' : x \in live /\ Route(x) \in Part /\ Route(x) # local[t].idx
  BY <1>1, RouteRange DEF LockInv, Typed, Routed
<1>4. \A x \in live' : Holds(partitions'[Route(x)], x)
  BY <1>1, <1>3, PresentMeans DEF CopyInv, LockInv, Typed
<1>5. Present'
  BY <1>4 DEF Present, Test, Holds
<1> QED BY <1>1, <1>2, <1>5 DEF CopyInv

\* A partition put back has the bits of the items it had.
LEMMA CopyPut ==
  ASSUME LockInv, CopyInv, NEW t \in Thread, Put(t)
  PROVE  CopyInv'
<1> DEFINE idx == local[t].next
<1>1. /\ pc[t] = "put" /\ idx \in Part
      /\ partitions' = [partitions EXCEPT ![idx] = snap[idx]]
      /\ partitions \in [Part -> Bits]
      /\ live \in SUBSET Item /\ snapLive \in SUBSET Item
  BY PutFacts DEF LockInv, Typed
<1>2. /\ live' = (live \ Routed(idx)) \cup (snapLive \cap Routed(idx))
      /\ <<snap, snapLive, pc>>' = <<snap, snapLive, pc>>
  BY DEF Put
<1>3. (\A u \in Thread : ~Copying(u)) /\ (\A u \in Thread : ~Copying(u)')
  BY <1>1, <1>2, Alone DEF Copying, Inside
<1>4. ASSUME NEW x \in live' PROVE Holds(partitions'[Route(x)], x)
  <2>1. x \in Item /\ Route(x) \in Part
    BY <1>1, <1>2, RouteRange
  <2>2. CASE x \in snapLive /\ Route(x) = idx
    <3>1. Holds(snap[Route(x)], x)
      BY <1>3, <2>2 DEF CopyInv
    <3> QED BY <1>1, <2>2, <3>1
  <2>3. CASE x \in live /\ Route(x) # idx
    <3>1. Holds(partitions[Route(x)], x)
      BY <2>3, PresentMeans DEF CopyInv
    <3> QED BY <1>1, <2>1, <2>3, <3>1
  <2> QED BY <1>2, <2>1, <2>2, <2>3 DEF Routed
<1>5. Present'
  BY <1>4 DEF Present, Test, Holds
<1> QED BY <1>2, <1>3, <1>5 DEF CopyInv

LEMMA CopyStep == LockInv /\ CopyInv /\ [Next]_vars => CopyInv'
<1> SUFFICES ASSUME LockInv, CopyInv, [Next]_vars PROVE CopyInv'
  OBVIOUS
<1>1. ASSUME UNCHANGED vars \/ Stop PROVE CopyInv'
  <2>1. <<partitions, live, snap, snapLive, pc, local>>' =
          <<partitions, live, snap, snapLive, pc, local>>
    BY <1>1 DEF vars, ghosts, Stop
  <2> QED BY <2>1, CopyOther
<1>2. ASSUME NEW t \in Thread,
             Scan(t) \/ Record(t) \/ Skip(t) \/ Call(t) \/ Start(t) \/ Tick(t) \/ LoopEnds(t)
      PROVE  CopyInv'
  <2>1. <<partitions, live, snap, snapLive>>' = <<partitions, live, snap, snapLive>>
    BY <1>2 DEF Scan, Record, Skip, Call, Start, Tick, LoopEnds, ghosts
  <2>2. ~Copying(t)
    BY <1>2 DEF Copying, Scan, Record, Scanned, Skip, Call, Start, Tick, LoopEnds
  <2>3. \A u \in Thread : u # t => pc'[u] = pc[u] /\ local'[u] = local[u]
    <3>1. CASE Scan(t)
      BY <3>1, ScanFacts DEF Scan
    <3>2. CASE Record(t)
      BY <3>2 DEF Record, Goto, LockInv, Typed
    <3>3. CASE Skip(t) \/ Call(t) \/ Start(t) \/ Tick(t) \/ LoopEnds(t)
      BY <3>3, QuietFacts DEF Quiet
    <3> QED BY <1>2, <3>1, <3>2, <3>3
  <2>4. ~Copying(t)'
    <3>1. CASE Scan(t)
      BY <2>2, <3>1 DEF Scan, Copying
    <3>2. CASE Record(t)
      BY <3>2 DEF Record, Goto, LockInv, Typed, Copying
    <3>3. CASE Skip(t)
      BY <3>3, ReturnFacts DEF Skip, ReturnEarly, LockInv, Copying
    <3>4. CASE Call(t) \/ Start(t) \/ Tick(t) \/ LoopEnds(t)
      <4>1. PICK label \in {"rotate", "snapshot", "restore", "select", "done"} : Goto(t, label)
        BY <3>4 DEF Call, Start, Tick, LoopEnds
      <4> QED BY <4>1 DEF Goto, LockInv, Typed, Copying
    <3> QED BY <1>2, <3>1, <3>2, <3>3, <3>4
  <2> QED BY <2>1, <2>2, <2>3, <2>4, CopyOther
<1> QED BY <1>1, <1>2, CopyAdd, CopyLock, CopyCopyBegin, CopyCopyEnd, CopyAllCopied,
           CopyReset, CopyPut, StepCases DEF Quiet

LEMMA CopyInvariant == Spec => []CopyInv
<1>1. Init => CopyInv
  BY DEF Init, CopyInv, Present
<1> QED BY <1>1, CopyStep, LockInvariant, PTL DEF Spec

\* rotation.go, partition.go: no item is lost before the reset of its
\* partition, whatever Add runs between the steps of a rotation, a snapshot or
\* a restore, and a restore brings back what the snapshot began with.
THEOREM LiveItemsPresent == Spec => []Present
<1>1. CopyInv => Present
  BY DEF CopyInv
<1> QED BY <1>1, CopyInvariant, PTL

-----------------------------------------------------------------------------
(* Only saturated partitions are reset *)

LEMMA SaturationNat ==
  ASSUME LockInv, NEW i \in Part
  PROVE  Saturation(i) \in Nat
<1>1. partitions[i] \in Bits
  BY DEF LockInv, Typed
<1>2. Saturation(i) \in 0 .. M
  BY <1>1, BitsCounted DEF Saturation
<1> QED BY <1>2, RotationAssumption

\* An Add only adds to a saturation.
LEMMA SeenAdd ==
  ASSUME LockInv, SeenInv, NEW data \in Item, Add(data)
  PROVE  SeenInv'
<1>1. /\ partitions \in [Part -> Bits] /\ local \in [Thread -> LocalRecord]
      /\ partitions' = [partitions EXCEPT ![Route(data)] = @ \cup Positions(data, K, M)]
      /\ <<pc, local, strategy>>' = <<pc, local, strategy>>
      /\ partitions' \in [Part -> Bits]
  BY LockAdd DEF LockInv, Typed, Add
<1>2. ASSUME NEW i \in Part PROVE Saturation(i) <= Saturation(i)' /\ Saturation(i)' \in Nat
  <2>1. partitions'[i] \in Bits /\ partitions[i] \in SUBSET partitions'[i]
    BY <1>1
  <2>2. /\ Cardinality(partitions[i]) <= Cardinality(partitions'[i])
        /\ Cardinality(partitions'[i]) \in 0 .. M
    BY <2>1, BitsCounted
  <2> QED BY <2>2, RotationAssumption DEF Saturation
<1>3. ASSUME NEW u \in Thread PROVE Seen(u)'
  <2>1. local[u].idx \in Part /\ local[u].bits \in Int
    BY <1>1, RotationAssumption DEF LocalRecord
  <2>2. /\ Saturation(local[u].idx) <= Saturation(local[u].idx)' 
        /\ Saturation(local[u].idx)' \in Nat /\ Saturation(local[u].idx) \in Nat
    <3>1. local'[u].idx = local[u].idx
      BY <1>1
    <3> QED BY <1>2, <2>1, <3>1, SaturationNat DEF Saturation
  <2>3. Seen(u)
    BY DEF SeenInv
  <2>4. pc[u] \in {"scan", "reset"} => local[u].bits <= Saturation(local[u].idx)'
    BY <2>1, <2>2, <2>3 DEF Seen
  <2> QED BY <1>1, <2>3, <2>4 DEF Seen
<1> QED BY <1>3 DEF SeenInv

\* What changes no partition, or what does so while nobody looks.
LEMMA SeenOther ==
  ASSUME SeenInv, strategy' = strategy,
         \A u \in Thread :
           \/ pc'[u] \notin {"scan", "reset"}
           \/ Seen(u)'
           \/ pc'[u] = pc[u] /\ local'[u] = local[u] /\ partitions' = partitions
  PROVE  SeenInv'
BY DEF SeenInv, Seen, Saturation

LEMMA SeenStep == LockInv /\ SeenInv /\ [Next]_vars => SeenInv'
<1> SUFFICES ASSUME LockInv, SeenInv, [Next]_vars PROVE SeenInv'
  OBVIOUS
<1>1. ASSUME UNCHANGED vars \/ Stop PROVE SeenInv'
  <2>1. <<partitions, strategy, pc, local>>' = <<partitions, strategy, pc, local>>
    BY <1>1 DEF vars, Stop
  <2> QED BY <2>1, SeenOther
<1>2. ASSUME NEW t \in Thread, Quiet(t) PROVE SeenInv'
  <2>1. /\ pc'[t] # "reset"
        /\ pc'[t] = "scan" => local'[t] = Start0
        /\ \A u \in Thread : u # t => pc'[u] = pc[u] /\ local'[u] = local[u]
        /\ partitions' = partitions /\ strategy' = strategy
    BY <1>2, QuietFacts
  <2>2. pc'[t] = "scan" => Seen(t)'
    <3>1. 0 \in Part /\ Start0.idx = 0 /\ Start0.bits = 0
      BY RotationAssumption DEF Part, Start0
    <3>2. 0 <= Saturation(0)
      BY <3>1, SaturationNat
    <3> QED BY <2>1, <3>1, <3>2 DEF Seen, Saturation
  <2> QED BY <2>1, <2>2, SeenOther
<1>3. ASSUME NEW t \in Thread, Scan(t) PROVE SeenInv'
  <2> DEFINE idx == IF strategy = "RoundRobin" THEN current ELSE local[t].next
             better == strategy = "RoundRobin" \/ Saturation(idx) > local[t].bits
  <2>1. /\ pc[t] = "scan" /\ idx \in Part
        /\ local'[t].idx = IF better THEN idx ELSE local[t].idx
        /\ local'[t].bits = IF better THEN Saturation(idx) ELSE local[t].bits
        /\ \A u \in Thread : u # t => local'[u] = local[u]
    BY <1>3, ScanFacts
  <2> HIDE DEF idx, better
  <2>2. <<partitions, strategy, pc>>' = <<partitions, strategy, pc>>
    BY <1>3 DEF Scan
  <2>3. local[t].bits <= Saturation(local[t].idx)
    BY <2>1 DEF SeenInv, Seen
  <2>4. Saturation(idx) <= Saturation(idx)
    BY <2>1, SaturationNat
  <2>5. local'[t].bits <= Saturation(local'[t].idx)
    BY <2>1, <2>3, <2>4
  <2>6. Seen(t)'
    BY <2>1, <2>2, <2>5 DEF Seen, Saturation
  <2> QED BY <2>1, <2>2, <2>6, SeenOther
<1>4. ASSUME NEW t \in Thread, Record(t) PROVE SeenInv'
  <2>1. /\ <<partitions, strategy, local>>' = <<partitions, strategy, local>>
        /\ pc[t] = "scan" /\ Goto(t, "reset") /\ SaturatedEnough(t)
    BY <1>4 DEF Record, Scanned
  <2>2. pc'[t] = "reset" /\ \A u \in Thread : u # t => pc'[u] = pc[u]
    BY <2>1 DEF Goto, LockInv, Typed
  <2>3. Seen(t)'
    BY <2>1, <2>2 DEF SeenInv, Seen, Saturation, SaturatedEnough
  <2> QED BY <2>1, <2>2, <2>3, SeenOther
<1>5. ASSUME NEW t \in Thread, Reset(t) \/ Put(t) PROVE SeenInv'
  <2>1. strategy' = strategy /\ pc[t] \in {"reset", "put"}
    BY <1>5 DEF Reset, Put
  <2>2. \A u \in Thread : u # t => pc[u] \notin {"scan", "reset"}
    BY <2>1, Alone DEF Inside
  <2>3. CASE Reset(t)
    <3>1. Return(t)
      BY <2>3 DEF Reset
    <3> QED BY <2>1, <2>2, <3>1, ReturnFacts, SeenOther DEF LockInv
  <2>4. CASE Put(t)
    <3>1. pc' = pc /\ pc[t] = "put"
      BY <2>4 DEF Put
    <3> QED BY <2>1, <2>2, <3>1, SeenOther
  <2> QED BY <1>5, <2>3, <2>4
<1> QED BY <1>1, <1>2, <1>3, <1>4, <1>5, SeenAdd, StepCases

LEMMA SeenInvariant == Spec => []SeenInv
<1>1. Init => SeenInv
  BY DEF Init, SeenInv, Seen
<1> QED BY <1>1, SeenStep, LockInvariant, PTL DEF Spec

\* rotation.go, rotateOnce: the Saturation strategy never resets a partition
\* below the limit, though items are added between the look and the reset.
THEOREM ResetsOnlySaturated == Spec => OnlySaturatedReset
<1>1. ASSUME LockInv, SeenInv, NEW t \in Thread, strategy = "Saturation", Reset(t)
      PROVE  Saturation(local[t].idx) >= Limit
  <2>1. pc[t] = "reset"
    BY <1>1 DEF Reset
  <2>2. local[t].bits <= Saturation(local[t].idx) /\ local[t].bits >= Limit
    BY <1>1, <2>1 DEF SeenInv, Seen
  <2>3. local[t].idx \in Part /\ local[t].bits \in Int /\ Limit \in Nat
    BY <1>1, RotationAssumption DEF LockInv, Typed, LocalRecord
  <2>4. Saturation(local[t].idx) \in Nat
    BY <1>1, <2>3, SaturationNat
  <2> QED BY <2>2, <2>3, <2>4
<1>2. LockInv /\ SeenInv =>
        \A t \in Thread :
          strategy = "Saturation" /\ Reset(t) => Saturation(local[t].idx) >= Limit
  BY <1>1
<1> QED BY <1>2, LockInvariant, SeenInvariant, PTL DEF OnlySaturatedReset

=============================================================================
