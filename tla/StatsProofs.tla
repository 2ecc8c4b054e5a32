---------------------------- MODULE StatsProofs -----------------------------
(***************************************************************************)
(* Statistics of any number of goroutines, and rates of any window.        *)
(***************************************************************************)
EXTENDS Collector, RateTracker, FilterProofs

-----------------------------------------------------------------------------
(* Fields *)

\* The order of the fields.
LEMMA FieldsOrder ==
  /\ Len(Fields) = 7 /\ DOMAIN Fields = 1 .. 7
  /\ FieldAt(1) = "adds" /\ FieldAt(2) = "tests" /\ FieldAt(3) = "hits" /\ FieldAt(4) = "misses"
  /\ FieldAt(5) = "removes" /\ FieldAt(6) = "overflows" /\ FieldAt(7) = "underflows"
BY DEF Fields, FieldAt

LEMMA FieldNames ==
  /\ Field = {"adds", "tests", "hits", "misses", "removes", "overflows", "underflows"}
  /\ \A i \in 1 .. 7 : FieldAt(i) \in Field
<1>1. \A i \in 1 .. 7 : FieldAt(i) \in Field
  BY FieldsOrder DEF Field, FieldAt
<1>2. Field \subseteq {"adds", "tests", "hits", "misses", "removes", "overflows", "underflows"}
  <2> SUFFICES ASSUME NEW i \in 1 .. 7
               PROVE  FieldAt(i) \in {"adds", "tests", "hits", "misses", "removes", "overflows", "underflows"}
    BY FieldsOrder DEF Field, FieldAt
  <2>1. i = 1 \/ i = 2 \/ i = 3 \/ i = 4 \/ i = 5 \/ i = 6 \/ i = 7
    OBVIOUS
  <2> QED BY <2>1, FieldsOrder
<1>3. {"adds", "tests", "hits", "misses", "removes", "overflows", "underflows"} \subseteq Field
  <2>1. 1 \in 1 .. 7 /\ 2 \in 1 .. 7 /\ 3 \in 1 .. 7 /\ 4 \in 1 .. 7 /\ 5 \in 1 .. 7 /\ 6 \in 1 .. 7 /\ 7 \in 1 .. 7
    OBVIOUS
  <2> QED BY <2>1, <1>1, FieldsOrder
<1> QED BY <1>1, <1>2, <1>3

\* Each field has its turn.
LEMMA FieldTurns ==
  ASSUME NEW i \in 1 .. 7
  PROVE  /\ FieldAt(i) = "tests" <=> i = 2
         /\ FieldAt(i) = "hits" <=> i = 3
         /\ FieldAt(i) = "misses" <=> i = 4
<1>1. i = 1 \/ i = 2 \/ i = 3 \/ i = 4 \/ i = 5 \/ i = 6 \/ i = 7
  OBVIOUS
<1> QED BY <1>1, FieldsOrder

-----------------------------------------------------------------------------
(* Types and places *)

LocalRecord ==
  [next : 1 .. 8, metrics : [Field -> Nat], created : Nat \X Nat, stamp : Nat, era : Nat]

Labels == {"idle", "tested", "load", "wall", "ext", "append", "store", "clear", "setWall", "setExt"}

Calls == {"none", "TakeSnapshot", "Metrics", "Reset", "Uptime"}

Typed ==
  /\ counters \in [Field -> Nat]
  /\ history \in Seq(Snapshots)
  /\ created \in Nat \X Nat
  /\ pc \in [Thread -> Labels]
  /\ call \in [Thread -> Calls]
  /\ local \in [Thread -> LocalRecord]
  /\ clock \in Nat /\ resets \in Nat

\* Where a goroutine is in its call.
Place(t) ==
  /\ pc[t] \in {"idle", "tested"} => call[t] = "none" /\ local[t].next = 1
  /\ pc[t] = "load" => call[t] \in {"Metrics", "TakeSnapshot"}
  /\ pc[t] \in {"wall", "ext", "append"} =>
       /\ call[t] \in {"TakeSnapshot", "Uptime"}
       /\ call[t] = "TakeSnapshot" => local[t].next = 8
  /\ pc[t] \in {"store", "clear", "setWall", "setExt"} => call[t] = "Reset"
  /\ pc[t] = "store" => local[t].next <= 7
  /\ pc[t] \in {"setWall", "setExt"} => resets >= 1

PlaceInv == Typed /\ HistoryBounded /\ \A t \in Thread : Place(t)

\* A step moves one goroutine.
Still(u) == pc'[u] = pc[u] /\ call'[u] = call[u] /\ local'[u] = local[u]

LEMMA UnreadType == Unread \in LocalRecord /\ Unread.next = 1 /\ Zero \in [Field -> Nat]
<1>1. Zero \in [Field -> Nat]
  BY DEF Zero
<1> HIDE DEF Zero
<1>2. <<0, 0>> \in Nat \X Nat
  OBVIOUS
<1> QED BY <1>1, <1>2 DEF Unread, LocalRecord

\* A call returns.
LEMMA Returned ==
  ASSUME Typed, NEW t \in Thread, Return(t)
  PROVE  /\ pc'[t] = "idle" /\ call'[t] = "none" /\ local'[t] = Unread
         /\ \A u \in Thread : u # t => Still(u)
         /\ pc' \in [Thread -> Labels] /\ call' \in [Thread -> Calls]
         /\ local' \in [Thread -> LocalRecord]
<1> USE UnreadType
<1>1. pc' \in [Thread -> Labels] /\ pc'[t] = "idle" /\ \A u \in Thread : u # t => pc'[u] = pc[u]
  BY DEF Return, Goto, Typed, Labels
<1>2. call' \in [Thread -> Calls] /\ call'[t] = "none" /\ \A u \in Thread : u # t => call'[u] = call[u]
  BY DEF Return, Typed, Calls
<1>3. /\ local' \in [Thread -> LocalRecord] /\ local'[t] = Unread
      /\ \A u \in Thread : u # t => local'[u] = local[u]
  <2> HIDE DEF Unread
  <2> QED BY DEF Return, Typed
<1> QED BY <1>1, <1>2, <1>3 DEF Still

LEMMA Gone ==
  ASSUME Typed, NEW t \in Thread, NEW label \in Labels, Goto(t, label)
  PROVE  /\ pc' \in [Thread -> Labels] /\ pc'[t] = label
         /\ \A u \in Thread : u # t => pc'[u] = pc[u]
BY DEF Goto, Typed

\* A counter is incremented.
LEMMA Incremented ==
  ASSUME Typed, NEW f \in Field, Increment(f)
  PROVE  /\ counters' \in [Field -> Nat] /\ counters'[f] = counters[f] + 1
         /\ \A g \in Field : g # f => counters'[g] = counters[g]
BY DEF Increment, Typed

\* What the steps do that read a counter into a record of their own.
LEMMA LoadFacts ==
  ASSUME Typed, NEW t \in Thread, Load(t)
  PROVE  /\ local[t].next \in 1 .. 7
         /\ local' \in [Thread -> LocalRecord]
         /\ local'[t].next = local[t].next + 1
         /\ local'[t].era = local[t].era
         /\ LET f == FieldAt(local[t].next)
            IN  /\ local'[t].metrics[f] = counters[f]
                /\ \A g \in Field : g # f => local'[t].metrics[g] = local[t].metrics[g]
         /\ \A u \in Thread : u # t => Still(u)
         /\ pc' = pc /\ call' = call /\ pc[t] = "load"
<1> DEFINE i == local[t].next
           f == FieldAt(i)
           m == [local[t].metrics EXCEPT ![f] = counters[f]]
           r == [local[t] EXCEPT !.metrics = m, !.next = i + 1]
<1>1. local[t] \in LocalRecord
  BY DEF Typed
<1>2. i \in 1 .. 7 /\ local[t].metrics \in [Field -> Nat]
  BY <1>1, FieldsOrder DEF Load, LocalRecord
<1>3. f \in Field
  BY <1>2, FieldNames
<1>4. /\ m \in [Field -> Nat] /\ m[f] = counters[f]
      /\ \A g \in Field : g # f => m[g] = local[t].metrics[g]
  <2> HIDE DEF f
  <2> QED BY <1>2, <1>3 DEF Typed
<1>5. local' = [local EXCEPT ![t] = r]
  BY DEF Load
<1> HIDE DEF m, f
<1>6. r \in LocalRecord /\ r.next = i + 1 /\ r.metrics = m /\ r.era = local[t].era
  <2>1. i + 1 \in 1 .. 8
    BY <1>2
  <2> DEFINE n == i + 1
  <2> HIDE DEF n, i
  <2>2. ASSUME NEW l \in LocalRecord, NEW q, q = [l EXCEPT !.metrics = m, !.next = n]
        PROVE  q \in LocalRecord /\ q.next = n /\ q.metrics = m /\ q.era = l.era
    BY <1>4, <2>1, <2>2 DEF LocalRecord, n
  <2> QED BY <1>1, <2>2 DEF r, n
<1> HIDE DEF r
<1>7. local' \in [Thread -> LocalRecord] /\ local'[t] = r /\ \A u \in Thread : u # t => local'[u] = local[u]
  BY <1>5, <1>6 DEF Typed
<1>8. pc' = pc /\ call' = call /\ pc[t] = "load"
  BY DEF Load
<1> QED BY <1>2, <1>4, <1>6, <1>7, <1>8 DEF Still, f

\* A call begins.
LEMMA CallFacts ==
  ASSUME Typed, NEW t \in Thread, Call(t)
  PROVE  /\ pc[t] = "idle"
         /\ call'[t] \in {"TakeSnapshot", "Metrics", "Reset", "Uptime"}
         /\ pc'[t] = IF call'[t] = "Uptime" THEN "wall"
                     ELSE IF call'[t] = "Reset" THEN "store" ELSE "load"
         /\ local'[t].next = local[t].next /\ local'[t].era = resets
         /\ local'[t].metrics = local[t].metrics
         /\ \A u \in Thread : u # t => Still(u)
         /\ pc' \in [Thread -> Labels] /\ call' \in [Thread -> Calls]
         /\ local' \in [Thread -> LocalRecord]
<1>1. PICK name \in Others :
        /\ call' = [call EXCEPT ![t] = name]
        /\ Goto(t, CASE name \in {"Metrics", "TakeSnapshot"} -> "load"
                     [] name = "Uptime" -> "wall"
                     [] name = "Reset" -> "store")
  BY DEF Call
<1>2. name \in {"TakeSnapshot", "Metrics", "Reset", "Uptime"}
  BY CollectorAssumption
<1>3. Goto(t, IF name = "Uptime" THEN "wall" ELSE IF name = "Reset" THEN "store" ELSE "load")
  <2>1. CASE name \in {"Metrics", "TakeSnapshot"}
    BY <1>1, <2>1
  <2>2. CASE name = "Uptime"
    BY <1>1, <2>2
  <2>3. CASE name = "Reset"
    BY <1>1, <2>3
  <2> QED BY <1>2, <2>1, <2>2, <2>3
<1> DEFINE label == IF name = "Uptime" THEN "wall" ELSE IF name = "Reset" THEN "store" ELSE "load"
<1>4. label \in Labels
  BY DEF Labels
<1>5. /\ pc' \in [Thread -> Labels] /\ pc'[t] = label
      /\ \A u \in Thread : u # t => pc'[u] = pc[u]
  <2> HIDE DEF label
  <2>1. Goto(t, label)
    BY <1>3 DEF label
  <2> QED BY <1>4, <2>1, Gone
<1>6. /\ call' \in [Thread -> Calls] /\ call'[t] = name
      /\ \A u \in Thread : u # t => call'[u] = call[u]
  BY <1>1, <1>2 DEF Typed, Calls
<1>7. /\ local' \in [Thread -> LocalRecord]
      /\ local'[t].next = local[t].next /\ local'[t].era = resets
      /\ local'[t].metrics = local[t].metrics
      /\ \A u \in Thread : u # t => local'[u] = local[u]
  <2> DEFINE r == [local[t] EXCEPT !.era = resets]
  <2>1. local[t] \in LocalRecord
    BY DEF Typed
  <2>2. /\ r \in LocalRecord /\ r.next = local[t].next /\ r.era = resets
        /\ r.metrics = local[t].metrics
    BY <2>1 DEF LocalRecord, Typed
  <2>3. local' = [local EXCEPT ![t] = r]
    BY DEF Call
  <2> HIDE DEF r
  <2> QED BY <2>2, <2>3 DEF Typed
<1>8. pc[t] = "idle"
  BY DEF Call, Begin
<1> QED BY <1>2, <1>5, <1>6, <1>7, <1>8 DEF Still

\* What a step writes behind the record of the counters.
LEMMA ReadFacts ==
  ASSUME Typed, NEW t \in Thread,
         \/ ReadWall(t) \/ ReadExt(t)
         \/ Loaded(t) /\ call[t] # "Metrics"
  PROVE  /\ local' \in [Thread -> LocalRecord]
         /\ local'[t].next = local[t].next /\ local'[t].era = local[t].era
         /\ local'[t].metrics = local[t].metrics
         /\ pc' \in [Thread -> Labels] /\ call' = call
         /\ ReadWall(t) => pc[t] = "wall" /\ pc'[t] = "ext"
         /\ ReadExt(t) => pc[t] = "ext" /\ pc'[t] = "append"
         /\ Loaded(t) => pc[t] = "load" /\ pc'[t] = "wall" /\ local[t].next = 8
         /\ \A u \in Thread : u # t => Still(u)
<1>1. local[t] \in LocalRecord
  BY DEF Typed
<1>2. /\ "ext" \in Labels /\ "append" \in Labels /\ "wall" \in Labels
  BY DEF Labels
<1>3. /\ local' \in [Thread -> LocalRecord]
      /\ local'[t].next = local[t].next /\ local'[t].era = local[t].era
      /\ local'[t].metrics = local[t].metrics
      /\ \A u \in Thread : u # t => local'[u] = local[u]
  <2>1. ASSUME NEW r, local' = [local EXCEPT ![t] = r], r \in LocalRecord,
               r.next = local[t].next, r.era = local[t].era, r.metrics = local[t].metrics
        PROVE  <1>3!:
    BY <2>1 DEF Typed
  <2>2. ASSUME NEW v \in Nat \X Nat, NEW r, r = [local[t] EXCEPT !.created = v]
        PROVE  /\ r \in LocalRecord
               /\ r.next = local[t].next /\ r.era = local[t].era /\ r.metrics = local[t].metrics
    BY <1>1, <2>2 DEF LocalRecord
  <2>3. created[1] \in Nat /\ created[2] \in Nat /\ local[t].created \in Nat \X Nat
    BY <1>1 DEF Typed, LocalRecord
  <2>4. /\ [local[t].created EXCEPT ![1] = created[1]] \in Nat \X Nat
        /\ [local[t].created EXCEPT ![2] = created[2]] \in Nat \X Nat
    BY <2>3
  <2>5. CASE ReadWall(t)
    <3> DEFINE v == [local[t].created EXCEPT ![1] = created[1]]
               r == [local[t] EXCEPT !.created = v]
    <3>1. local' = [local EXCEPT ![t] = r] /\ v \in Nat \X Nat
      BY <2>4, <2>5 DEF ReadWall
    <3> HIDE DEF v
    <3>2. /\ r \in LocalRecord
          /\ r.next = local[t].next /\ r.era = local[t].era /\ r.metrics = local[t].metrics
      BY <2>2, <3>1
    <3> HIDE DEF r
    <3> QED BY <2>1, <3>1, <3>2
  <2>6. CASE ReadExt(t)
    <3> DEFINE v == [local[t].created EXCEPT ![2] = created[2]]
               r == [local[t] EXCEPT !.created = v]
    <3>1. local' = [local EXCEPT ![t] = r] /\ v \in Nat \X Nat
      BY <2>4, <2>6 DEF ReadExt
    <3> HIDE DEF v
    <3>2. /\ r \in LocalRecord
          /\ r.next = local[t].next /\ r.era = local[t].era /\ r.metrics = local[t].metrics
      BY <2>2, <3>1
    <3> HIDE DEF r
    <3> QED BY <2>1, <3>1, <3>2
  <2>7. CASE Loaded(t) /\ call[t] # "Metrics"
    <3> DEFINE r == [local[t] EXCEPT !.stamp = clock + 1]
    <3>1. local' = [local EXCEPT ![t] = r]
      BY <2>7 DEF Loaded
    <3>2. clock + 1 \in Nat
      BY DEF Typed
    <3>3. /\ r \in LocalRecord
          /\ r.next = local[t].next /\ r.era = local[t].era /\ r.metrics = local[t].metrics
      BY <1>1, <3>2 DEF LocalRecord
    <3> HIDE DEF r
    <3> QED BY <2>1, <3>1, <3>3
  <2> QED BY <2>5, <2>6, <2>7
<1>4. /\ pc' \in [Thread -> Labels] /\ call' = call
      /\ ReadWall(t) => pc[t] = "wall" /\ pc'[t] = "ext"
      /\ ReadExt(t) => pc[t] = "ext" /\ pc'[t] = "append"
      /\ Loaded(t) => pc[t] = "load" /\ pc'[t] = "wall"
      /\ \A u \in Thread : u # t => pc'[u] = pc[u]
  BY <1>2, Gone DEF ReadWall, ReadExt, Loaded
<1>5. Loaded(t) => local[t].next = 8
  <2>1. local[t].next \in 1 .. 8
    BY <1>1 DEF LocalRecord
  <2> QED BY <2>1, FieldsOrder DEF Loaded
<1> QED BY <1>3, <1>4, <1>5 DEF Still

\* Reset zeroes a counter.
LEMMA StoreFacts ==
  ASSUME Typed, NEW t \in Thread, local[t].next <= 7, Store(t)
  PROVE  /\ pc[t] = "store"
         /\ local[t].next \in 1 .. 7
         /\ counters' \in [Field -> Nat] /\ counters'[FieldAt(local[t].next)] = 0
         /\ \A g \in Field : g # FieldAt(local[t].next) => counters'[g] = counters[g]
         /\ local' \in [Thread -> LocalRecord] /\ local'[t].next = local[t].next + 1
         /\ local'[t].era = local[t].era
         /\ pc' \in [Thread -> Labels] /\ call' = call
         /\ pc'[t] = IF local[t].next = 7 THEN "clear" ELSE "store"
         /\ \A u \in Thread : u # t => Still(u)
<1> DEFINE i == local[t].next
           r == [local[t] EXCEPT !.next = i + 1]
<1>1. local[t] \in LocalRecord
  BY DEF Typed
<1>2. i \in 1 .. 7
  BY <1>1 DEF LocalRecord
<1>3. FieldAt(i) \in Field
  BY <1>2, FieldNames
<1>4. counters' = [counters EXCEPT ![FieldAt(i)] = 0] /\ local' = [local EXCEPT ![t] = r]
  BY DEF Store
<1>5. r \in LocalRecord /\ r.next = i + 1 /\ r.era = local[t].era
  <2>1. i + 1 \in 1 .. 8
    BY <1>2
  <2> DEFINE n == i + 1
  <2> HIDE DEF n, i
  <2>2. r = [local[t] EXCEPT !.next = n]
    BY DEF n, r
  <2> HIDE DEF r
  <2> QED BY <1>1, <2>1, <2>2 DEF LocalRecord, n
<1>6. Goto(t, IF i = 7 THEN "clear" ELSE "store") /\ pc[t] = "store" /\ call' = call
  BY FieldsOrder DEF Store
<1>7. (IF i = 7 THEN "clear" ELSE "store") \in Labels
  BY DEF Labels
<1>8. /\ pc' \in [Thread -> Labels] /\ pc'[t] = IF i = 7 THEN "clear" ELSE "store"
      /\ \A u \in Thread : u # t => pc'[u] = pc[u]
  BY <1>6, <1>7, Gone
<1> HIDE DEF r, i
<1>9. /\ counters' \in [Field -> Nat] /\ counters'[FieldAt(i)] = 0
      /\ \A g \in Field : g # FieldAt(i) => counters'[g] = counters[g]
  BY <1>3, <1>4 DEF Typed
<1>10. /\ local' \in [Thread -> LocalRecord] /\ local'[t] = r
       /\ \A u \in Thread : u # t => local'[u] = local[u]
  BY <1>4, <1>5 DEF Typed
<1> QED BY <1>2, <1>5, <1>6, <1>8, <1>9, <1>10 DEF Still, i

\* A snapshot is a snapshot, and the history a sequence of them, as long as it
\* may be.
LEMMA AppendFacts ==
  ASSUME Typed, NEW t \in Thread, AppendSnapshot(t), HistoryBounded
  PROVE  /\ Snapshot(t) \in Snapshots
         /\ history' \in Seq(Snapshots)
         /\ Len(history') <= MaxHist
         /\ \E cut \in Nat :
              /\ cut <= Len(history)
              /\ Len(history') = Len(history) - cut + 1
              /\ \A j \in 1 .. Len(history) - cut : history'[j] = history[j + cut]
              /\ history'[Len(history')] = Snapshot(t)
<1> DEFINE s == Snapshot(t)
           cut == IF HistoryFull THEN Evicted ELSE 0
           kept == IF HistoryFull THEN SubSeq(history, Evicted + 1, Len(history)) ELSE history
<1>1. s \in Snapshots
  <2>1. local[t] \in LocalRecord
    BY DEF Typed
  <2> QED BY <2>1 DEF Snapshot, Snapshots, LocalRecord
<1>2. history \in Seq(Snapshots) /\ Len(history) \in Nat
  BY DEF Typed
<1>3. Evicted \in 1 .. MaxHist
  <2>1. MaxHist \in Nat \ {0}
    BY CollectorAssumption
  <2>2. MaxHist \div 10 \in Nat /\ MaxHist \div 10 <= MaxHist
    BY <2>1
  <2> QED BY <2>1, <2>2 DEF Evicted
<1>4. cut \in Nat /\ cut <= Len(history)
  BY <1>2, <1>3, CollectorAssumption DEF HistoryFull
<1>5. Len(history) - cut + 1 <= MaxHist
  BY <1>2, <1>3, CollectorAssumption DEF HistoryFull, HistoryBounded
<1>6. history' = Append(kept, s)
  BY DEF AppendSnapshot
<1>7. /\ kept \in Seq(Snapshots) /\ Len(kept) = Len(history) - cut
      /\ \A j \in 1 .. Len(history) - cut : kept[j] = history[j + cut]
  <2>1. CASE HistoryFull
    <3>1. cut = Evicted /\ kept = SubSeq(history, cut + 1, Len(history))
      BY <2>1
    <3> HIDE DEF kept, cut
    <3> QED BY <1>2, <1>4, <3>1
  <2>2. CASE ~HistoryFull
    <3>1. cut = 0 /\ kept = history
      BY <2>2
    <3> HIDE DEF kept, cut
    <3> QED BY <1>2, <3>1
  <2> QED BY <2>1, <2>2
<1> HIDE DEF kept, cut, s
<1>8. /\ history' \in Seq(Snapshots) /\ Len(history') = Len(kept) + 1
      /\ \A j \in 1 .. Len(kept) : history'[j] = kept[j]
      /\ history'[Len(kept) + 1] = s
  BY <1>1, <1>6, <1>7
<1>9. Len(history') = Len(history) - cut + 1 /\ history'[Len(history')] = s
  BY <1>7, <1>8
<1>10. \A j \in 1 .. Len(history) - cut : history'[j] = history[j + cut]
  BY <1>7, <1>8
<1> QED BY <1>1, <1>4, <1>5, <1>8, <1>9, <1>10 DEF s

\* What the steps of RecordTest move.
LEMMA TestFacts ==
  ASSUME Typed, NEW t \in Thread, RecordTest(t) \/ RecordOutcome(t)
  PROVE  /\ pc' \in [Thread -> Labels] /\ call' = call /\ local' = local
         /\ RecordTest(t) => pc[t] = "idle" /\ pc'[t] = "tested"
         /\ RecordOutcome(t) => pc[t] = "tested" /\ pc'[t] = "idle"
         /\ \A u \in Thread : u # t => Still(u)
<1>1. "idle" \in Labels /\ "tested" \in Labels
  BY DEF Labels
<1>2. CASE RecordTest(t)
  <2>1. pc[t] = "idle" /\ Goto(t, "tested") /\ call' = call /\ local' = local
    BY <1>2 DEF RecordTest, Begin
  <2>2. pc' \in [Thread -> Labels] /\ pc'[t] = "tested" /\ \A u \in Thread : u # t => pc'[u] = pc[u]
    BY <1>1, <2>1, Gone
  <2>3. ~RecordOutcome(t)
    BY <2>1 DEF RecordOutcome
  <2> QED BY <2>1, <2>2, <2>3 DEF Still
<1>3. CASE RecordOutcome(t)
  <2>1. pc[t] = "tested" /\ Goto(t, "idle") /\ call' = call /\ local' = local
    BY <1>3 DEF RecordOutcome
  <2>2. pc' \in [Thread -> Labels] /\ pc'[t] = "idle" /\ \A u \in Thread : u # t => pc'[u] = pc[u]
    BY <1>1, <2>1, Gone
  <2>3. ~RecordTest(t)
    BY <2>1 DEF RecordTest, Begin
  <2> QED BY <2>1, <2>2, <2>3 DEF Still
<1> QED BY <1>2, <1>3

\* What Reset moves behind the counters.
LEMMA ClearFacts ==
  ASSUME Typed, NEW t \in Thread, Clear(t) \/ SetWall(t) \/ SetExt(t)
  PROVE  /\ pc' \in [Thread -> Labels] /\ call' \in [Thread -> Calls]
         /\ local' \in [Thread -> LocalRecord]
         /\ Clear(t) => pc[t] = "clear" /\ pc'[t] = "setWall" /\ resets' = resets + 1
         /\ SetWall(t) => pc[t] = "setWall" /\ pc'[t] = "setExt"
         /\ SetExt(t) => /\ pc[t] = "setExt" /\ pc'[t] = "idle" /\ call'[t] = "none"
                         /\ local'[t].next = 1
         /\ ~SetExt(t) => call' = call /\ local' = local
         /\ ~Clear(t) => resets' = resets /\ history' = history
         /\ Clear(t) => history' = <<>>
         /\ counters' = counters
         /\ created' \in Nat \X Nat
         /\ \A u \in Thread : u # t => Still(u)
<1>1. "setWall" \in Labels /\ "setExt" \in Labels
  BY DEF Labels
<1>2. \A n \in Nat : [created EXCEPT ![1] = n] \in Nat \X Nat /\ [created EXCEPT ![2] = n] \in Nat \X Nat
  BY DEF Typed
<1>3. CASE Clear(t)
  <2>1. /\ pc[t] = "clear" /\ Goto(t, "setWall") /\ call' = call /\ local' = local
        /\ resets' = resets + 1 /\ counters' = counters /\ created' = created /\ history' = <<>>
    BY <1>3 DEF Clear, HistoryCleared
  <2>2. pc' \in [Thread -> Labels] /\ pc'[t] = "setWall" /\ \A u \in Thread : u # t => pc'[u] = pc[u]
    BY <1>1, <2>1, Gone
  <2>3. ~SetWall(t) /\ ~SetExt(t)
    BY <2>1 DEF SetWall, SetExt
  <2> QED BY <1>3, <2>1, <2>2, <2>3 DEF Still, Typed
<1>4. CASE SetWall(t)
  <2>1. /\ pc[t] = "setWall" /\ Goto(t, "setExt") /\ call' = call /\ local' = local
        /\ resets' = resets /\ counters' = counters /\ created' = [created EXCEPT ![1] = resets]
        /\ history' = history
    BY <1>4 DEF SetWall, ghosts
  <2>2. pc' \in [Thread -> Labels] /\ pc'[t] = "setExt" /\ \A u \in Thread : u # t => pc'[u] = pc[u]
    BY <1>1, <2>1, Gone
  <2>3. ~Clear(t) /\ ~SetExt(t)
    BY <2>1 DEF Clear, SetExt
  <2>4. created' \in Nat \X Nat
    BY <1>2, <2>1 DEF Typed
  <2> QED BY <1>4, <2>1, <2>2, <2>3, <2>4 DEF Still, Typed
<1>5. CASE SetExt(t)
  <2>1. /\ pc[t] = "setExt" /\ Return(t)
        /\ resets' = resets /\ counters' = counters /\ created' = [created EXCEPT ![2] = resets]
        /\ history' = history
    BY <1>5 DEF SetExt, ghosts
  <2>2. ~Clear(t) /\ ~SetWall(t)
    BY <2>1 DEF Clear, SetWall
  <2>3. created' \in Nat \X Nat
    BY <1>2, <2>1 DEF Typed
  <2> QED BY <1>5, <2>1, <2>2, <2>3, Returned, UnreadType
<1> QED BY <1>3, <1>4, <1>5

\* Each step keeps every goroutine at its place.
LEMMA PlaceKept ==
  ASSUME NEW t \in Thread, \A u \in Thread : Place(u),
         \A u \in Thread : u # t => Still(u),
         resets' = resets \/ (resets \in Nat /\ resets' = resets + 1), Place(t)'
  PROVE  \A u \in Thread : Place(u)'
<1> SUFFICES ASSUME NEW u \in Thread PROVE Place(u)'
  OBVIOUS
<1>1. CASE u = t
  BY <1>1
<1>2. CASE u # t
  BY <1>2 DEF Place, Still
<1> QED BY <1>1, <1>2

LEMMA PlaceStep == PlaceInv /\ [Next]_vars => PlaceInv'
<1> SUFFICES ASSUME PlaceInv, [Next]_vars PROVE PlaceInv'
  OBVIOUS
<1> USE UnreadType
<1>t. Typed /\ \A t \in Thread : Place(t)
  BY DEF PlaceInv
<1>1. ASSUME NEW t \in Thread, Record(t) PROVE PlaceInv'
  <2>1. PICK f \in Recorded : Increment(f)
    BY <1>1 DEF Record
  <2>2. f \in Field
    BY CollectorAssumption
  <2>3. counters' \in [Field -> Nat]
    BY <1>t, <2>1, <2>2, Incremented
  <2> QED BY <1>1, <2>3 DEF Record, PlaceInv, Typed, HistoryBounded, Place
<1>2. ASSUME NEW t \in Thread, RecordTest(t) \/ RecordOutcome(t) PROVE PlaceInv'
  <2>1. PICK f \in Recorded : Increment(f)
    BY <1>2 DEF RecordTest, RecordOutcome, CountedFirst
  <2>2. f \in Field
    BY CollectorAssumption
  <2>3. counters' \in [Field -> Nat]
    BY <1>t, <2>1, <2>2, Incremented
  <2>4. history' = history /\ created' = created /\ clock' = clock /\ resets' = resets
    BY <1>2 DEF RecordTest, RecordOutcome, ghosts
  <2>5. Place(t)'
    BY <1>2, <1>t, <2>4, TestFacts DEF Place
  <2>6. \A u \in Thread : Place(u)'
    BY <1>2, <1>t, <2>4, <2>5, TestFacts, PlaceKept
  <2> QED BY <1>2, <1>t, <2>3, <2>4, <2>6, TestFacts DEF PlaceInv, Typed, HistoryBounded
<1>3. ASSUME NEW t \in Thread, Call(t) PROVE PlaceInv'
  <2>1. /\ counters' = counters /\ history' = history /\ created' = created
        /\ clock' = clock /\ resets' = resets
    BY <1>3 DEF Call
  <2>2. Place(t)'
    BY <1>3, <1>t, CallFacts DEF Place
  <2>3. \A u \in Thread : Place(u)'
    BY <1>3, <1>t, <2>1, <2>2, CallFacts, PlaceKept
  <2> QED BY <1>3, <1>t, <2>1, <2>3, CallFacts DEF PlaceInv, Typed, HistoryBounded
<1>4. ASSUME NEW t \in Thread, Load(t) PROVE PlaceInv'
  <2>1. /\ counters' = counters /\ history' = history /\ created' = created
        /\ clock' = clock /\ resets' = resets
    BY <1>4 DEF Load, ghosts
  <2>2. Place(t)'
    BY <1>4, <1>t, LoadFacts DEF Place
  <2>3. \A u \in Thread : Place(u)'
    BY <1>4, <1>t, <2>1, <2>2, LoadFacts, PlaceKept
  <2>4. pc' \in [Thread -> Labels] /\ call' \in [Thread -> Calls] /\ local' \in [Thread -> LocalRecord]
    BY <1>4, <1>t, LoadFacts DEF Typed
  <2> QED BY <1>t, <2>1, <2>3, <2>4 DEF PlaceInv, Typed, HistoryBounded
<1>5. ASSUME NEW t \in Thread,
             ReadWall(t) \/ ReadExt(t) \/ (Loaded(t) /\ call[t] # "Metrics")
      PROVE  PlaceInv'
  <2>1. /\ counters' = counters /\ history' = history /\ created' = created
        /\ clock' \in Nat /\ resets' = resets
    BY <1>5, <1>t DEF ReadWall, ReadExt, Loaded, ghosts, Typed
  <2>2. Place(t)'
    BY <1>5, <1>t, <2>1, ReadFacts DEF Place
  <2>3. \A u \in Thread : Place(u)'
    BY <1>5, <1>t, <2>1, <2>2, ReadFacts, PlaceKept
  <2> QED BY <1>5, <1>t, <2>1, <2>3, ReadFacts DEF PlaceInv, Typed, HistoryBounded
<1>6. ASSUME NEW t \in Thread, UptimeReturns(t) \/ (Loaded(t) /\ call[t] = "Metrics")
      PROVE  PlaceInv'
  <2>1. /\ counters' = counters /\ history' = history /\ created' = created
        /\ clock' = clock /\ resets' = resets /\ Return(t)
    BY <1>6 DEF UptimeReturns, Loaded, ghosts
  <2>2. Place(t)'
    BY <1>t, <2>1, Returned DEF Place
  <2>3. \A u \in Thread : Place(u)'
    BY <1>t, <2>1, <2>2, Returned, PlaceKept
  <2> QED BY <1>t, <2>1, <2>3, Returned DEF PlaceInv, Typed, HistoryBounded
<1>7. ASSUME NEW t \in Thread, AppendSnapshot(t) PROVE PlaceInv'
  <2>1. /\ counters' = counters /\ created' = created
        /\ clock' = clock /\ resets' = resets /\ Return(t)
    BY <1>7 DEF AppendSnapshot, ghosts
  <2>2. Place(t)'
    BY <1>t, <2>1, Returned DEF Place
  <2>3. \A u \in Thread : Place(u)'
    BY <1>t, <2>1, <2>2, Returned, PlaceKept
  <2>4. history' \in Seq(Snapshots) /\ HistoryBounded'
    BY <1>7, <1>t, AppendFacts DEF PlaceInv, HistoryBounded
  <2> QED BY <1>t, <2>1, <2>3, <2>4, Returned DEF PlaceInv, Typed
<1>8. ASSUME NEW t \in Thread, Store(t) PROVE PlaceInv'
  <2>1. /\ history' = history /\ created' = created /\ clock' = clock /\ resets' = resets
    BY <1>8 DEF Store, ghosts
  <2>2. local[t].next <= 7
    BY <1>8, <1>t DEF Place, Store
  <2>3. Place(t)'
    BY <1>8, <1>t, <2>2, StoreFacts DEF Place
  <2>4. \A u \in Thread : Place(u)'
    BY <1>8, <1>t, <2>1, <2>2, <2>3, StoreFacts, PlaceKept
  <2>5. call' \in [Thread -> Calls]
    BY <1>8, <1>t, <2>2, StoreFacts DEF Typed
  <2> QED BY <1>8, <1>t, <2>1, <2>2, <2>4, <2>5, StoreFacts DEF PlaceInv, Typed, HistoryBounded
<1>9. ASSUME NEW t \in Thread, Clear(t) \/ SetWall(t) \/ SetExt(t) PROVE PlaceInv'
  <2>1. clock' = clock
    BY <1>9 DEF Clear, SetWall, SetExt, ghosts
  <2>2. resets \in Nat /\ (resets' = resets \/ resets' = resets + 1)
    BY <1>9, <1>t, ClearFacts DEF Typed
  <2>3. Place(t)'
    BY <1>9, <1>t, <2>2, ClearFacts DEF Place
  <2>4. \A u \in Thread : Place(u)'
    BY <1>9, <1>t, <2>2, <2>3, ClearFacts, PlaceKept
  <2>5. history' \in Seq(Snapshots) /\ HistoryBounded'
    <3>1. <<>> \in Seq(Snapshots) /\ Len(<<>>) <= MaxHist
      BY CollectorAssumption
    <3> QED BY <1>9, <1>t, <3>1, ClearFacts DEF PlaceInv, Typed, HistoryBounded
  <2>6. counters' \in [Field -> Nat] /\ resets' \in Nat
    BY <1>9, <1>t, <2>2, ClearFacts DEF Typed
  <2> QED BY <1>9, <1>t, <2>1, <2>4, <2>5, <2>6, ClearFacts DEF PlaceInv, Typed
<1>10. CASE UNCHANGED vars
  BY <1>10 DEF vars, ghosts, PlaceInv, Typed, HistoryBounded, Place
<1> QED BY <1>1, <1>2, <1>3, <1>4, <1>5, <1>6, <1>7, <1>8, <1>9, <1>10 DEF Next

LEMMA PlaceInit == Init => PlaceInv
<1> SUFFICES ASSUME Init PROVE PlaceInv
  OBVIOUS
<1>1. Typed
  <2>1. <<>> \in Seq(Snapshots) /\ <<0, 0>> \in Nat \X Nat /\ "idle" \in Labels /\ "none" \in Calls
    BY DEF Labels, Calls
  <2> HIDE DEF Unread, Zero
  <2> QED BY <2>1, UnreadType DEF Init, Typed
<1>2. HistoryBounded
  <2>1. Len(<<>>) <= MaxHist
    BY CollectorAssumption
  <2> QED BY <2>1 DEF Init, HistoryBounded
<1>3. \A t \in Thread : Place(t)
  <2> HIDE DEF Unread
  <2> QED BY UnreadType DEF Init, Place
<1> QED BY <1>1, <1>2, <1>3 DEF PlaceInv

LEMMA PlaceInvariant == Spec => []PlaceInv
BY PlaceInit, PlaceStep, PTL DEF Spec

\* The history never holds more snapshots than it may, for any number of
\* goroutines that take and reset them and any size of the history.
THEOREM HistoryStaysBounded == Spec => []HistoryBounded
<1>1. PlaceInv => HistoryBounded
  BY DEF PlaceInv
<1> QED BY <1>1, PlaceInvariant, PTL

-----------------------------------------------------------------------------
(* Tests and outcomes *)

Tests == counters["tests"]
Hits == counters["hits"]
Misses == counters["misses"]

\* The goroutines between a test and its outcome.
Testing == {t \in Thread : pc[t] = "tested"}

\* A Reset is about to zero this field.
Zeroing(i) == \E t \in Thread : pc[t] = "store" /\ local[t].next = i

\* No Reset was or is under way.
NoReset == resets = 0 /\ \A t \in Thread : call[t] # "Reset"

LEMMA CountsType ==
  ASSUME Typed
  PROVE  Tests \in Nat /\ Hits \in Nat /\ Misses \in Nat
BY FieldNames DEF Typed, Tests, Hits, Misses

\* One that is elsewhere is not testing.
LEMMA TestingType ==
  ASSUME IsFiniteSet(Thread)
  PROVE  /\ IsFiniteSet(Testing) /\ Cardinality(Testing) \in Nat /\ Cardinality(Thread) \in Nat
         /\ \A t \in Thread : t \notin Testing => Cardinality(Testing) < Cardinality(Thread)
<1>1. Testing \subseteq Thread
  BY DEF Testing
<1>2. IsFiniteSet(Testing) /\ Cardinality(Testing) \in Nat /\ Cardinality(Thread) \in Nat
  BY <1>1, FS_Subset, FS_CardinalityType
<1>3. ASSUME NEW t \in Thread, t \notin Testing PROVE Cardinality(Testing) < Cardinality(Thread)
  <2>1. Testing # Thread
    BY <1>3
  <2>2. /\ Cardinality(Testing) <= Cardinality(Thread)
        /\ Cardinality(Thread) = Cardinality(Testing) => Thread = Testing
    BY <1>1, FS_Subset
  <2> QED BY <1>2, <2>1, <2>2
<1> QED BY <1>2, <1>3

LEMMA TestingMoves ==
  ASSUME IsFiniteSet(Thread), Typed, NEW t \in Thread, \A u \in Thread : u # t => Still(u)
  PROVE  /\ pc[t] # "tested" /\ pc'[t] = "tested" =>
              Cardinality(Testing') = Cardinality(Testing) + 1
         /\ pc[t] = "tested" /\ pc'[t] # "tested" =>
              Cardinality(Testing') = Cardinality(Testing) - 1
         /\ pc[t] # "tested" /\ pc'[t] # "tested" => Testing' = Testing
<1>1. \A u \in Thread : u # t => pc'[u] = pc[u]
  BY DEF Still
<1>2. IsFiniteSet(Testing) /\ Cardinality(Testing) \in Nat
  BY TestingType
<1>3. ASSUME pc[t] # "tested", pc'[t] = "tested"
      PROVE  Cardinality(Testing') = Cardinality(Testing) + 1
  <2>1. Testing' = Testing \cup {t} /\ t \notin Testing
    BY <1>1, <1>3 DEF Testing
  <2> QED BY <1>2, <2>1, FS_AddElement
<1>4. ASSUME pc[t] = "tested", pc'[t] # "tested"
      PROVE  Cardinality(Testing') = Cardinality(Testing) - 1
  <2>1. Testing' = Testing \ {t} /\ t \in Testing
    BY <1>1, <1>4 DEF Testing
  <2> QED BY <1>2, <2>1, FS_RemoveElement
<1>5. ASSUME pc[t] # "tested", pc'[t] # "tested" PROVE Testing' = Testing
  BY <1>1, <1>5 DEF Testing
<1> QED BY <1>3, <1>4, <1>5

\* Four kinds of steps: a test is counted,
TestStep ==
  /\ Tests' = Tests + 1 /\ Hits' = Hits /\ Misses' = Misses
  /\ Cardinality(Testing') = Cardinality(Testing) + 1

\* an outcome is counted,
OutcomeStep ==
  /\ Tests' = Tests
  /\ \/ Hits' = Hits + 1 /\ Misses' = Misses
     \/ Hits' = Hits /\ Misses' = Misses + 1
  /\ Cardinality(Testing') = Cardinality(Testing) - 1

\* nothing of that,
QuietStep ==
  Tests' = Tests /\ Hits' = Hits /\ Misses' = Misses /\ Testing' = Testing

\* and no Reset moves between the fields,
NoStore ==
  /\ Zeroing(3)' <=> Zeroing(3)
  /\ Zeroing(4)' <=> Zeroing(4)
  /\ NoReset' => NoReset

\* or a Reset zeroes a field.
LEMMA NotStoring ==
  ASSUME PlaceInv, NEW t \in Thread, \A u \in Thread : u # t => Still(u),
         pc[t] # "store", pc'[t] = "store" => local'[t].next = 1,
         resets' = resets \/ (resets \in Nat /\ resets' = resets + 1),
         call[t] = "Reset" => call'[t] = "Reset" \/ resets >= 1
  PROVE  NoStore
<1>1. \A u \in Thread : u # t => pc'[u] = pc[u] /\ local'[u] = local[u] /\ call'[u] = call[u]
  BY DEF Still
<1>2. Zeroing(3)' <=> Zeroing(3)
  BY <1>1 DEF Zeroing
<1>3. Zeroing(4)' <=> Zeroing(4)
  BY <1>1 DEF Zeroing
<1>4. NoReset' => NoReset
  BY <1>1 DEF NoReset
<1> QED BY <1>2, <1>3, <1>4 DEF NoStore

LEMMA StepKinds ==
  ASSUME IsFiniteSet(Thread), PlaceInv, [Next]_vars
  PROVE  \/ TestStep /\ NoStore
         \/ OutcomeStep /\ NoStore
         \/ QuietStep /\ NoStore
         \/ \E t \in Thread : Store(t)
<1>t. Typed /\ \A t \in Thread : Place(t)
  BY DEF PlaceInv
<1>f. "tests" \in Field /\ "hits" \in Field /\ "misses" \in Field
  BY FieldNames
<1>1. ASSUME NEW t \in Thread, Record(t) PROVE QuietStep /\ NoStore
  <2>1. PICK f \in Recorded \ {"tests", "hits", "misses"} : Increment(f)
    BY <1>1 DEF Record
  <2>2. f \in Field
    BY CollectorAssumption
  <2>3. Tests' = Tests /\ Hits' = Hits /\ Misses' = Misses
    BY <1>t, <1>f, <2>1, <2>2, Incremented DEF Tests, Hits, Misses
  <2> QED BY <1>1, <2>3 DEF Record, QuietStep, NoStore, Testing, Zeroing, NoReset
<1>2. ASSUME NEW t \in Thread, RecordTest(t) PROVE TestStep /\ NoStore
  <2>1. PICK f \in {"tests"} : Increment(f)
    BY <1>2 DEF RecordTest, CountedFirst
  <2>2. Tests' = Tests + 1 /\ Hits' = Hits /\ Misses' = Misses
    BY <1>t, <1>f, <2>1, Incremented DEF Tests, Hits, Misses
  <2>3. Cardinality(Testing') = Cardinality(Testing) + 1
    BY <1>2, <1>t, TestFacts, TestingMoves
  <2>4. resets' = resets
    BY <1>2 DEF RecordTest
  <2>5. NoStore
    BY <1>2, <1>t, <2>4, TestFacts, NotStoring
  <2> QED BY <2>2, <2>3, <2>5 DEF TestStep
<1>3. ASSUME NEW t \in Thread, RecordOutcome(t) PROVE OutcomeStep /\ NoStore
  <2>1. PICK f \in {"hits", "misses"} : Increment(f)
    BY <1>3 DEF RecordOutcome
  <2>2. Tests' = Tests
    BY <1>t, <1>f, <2>1, Incremented DEF Tests
  <2>3. Cardinality(Testing') = Cardinality(Testing) - 1
    BY <1>3, <1>t, TestFacts, TestingMoves
  <2>4. resets' = resets
    BY <1>3 DEF RecordOutcome, ghosts
  <2>5. NoStore
    BY <1>3, <1>t, <2>4, TestFacts, NotStoring
  <2>6. (Hits' = Hits + 1 /\ Misses' = Misses) \/ (Hits' = Hits /\ Misses' = Misses + 1)
    <3>1. ASSUME f = "hits" PROVE Hits' = Hits + 1 /\ Misses' = Misses
      BY <1>t, <1>f, <2>1, <3>1, Incremented DEF Hits, Misses
    <3>2. ASSUME f = "misses" PROVE Hits' = Hits /\ Misses' = Misses + 1
      BY <1>t, <1>f, <2>1, <3>2, Incremented DEF Hits, Misses
    <3> QED BY <2>1, <3>1, <3>2
  <2> QED BY <2>2, <2>3, <2>5, <2>6 DEF OutcomeStep
<1>4. ASSUME NEW t \in Thread, counters' = counters, \A u \in Thread : u # t => Still(u),
             pc[t] # "tested", pc'[t] # "tested", NoStore
      PROVE  QuietStep /\ NoStore
  <2>1. Testing' = Testing
    BY <1>4, <1>t, TestingMoves
  <2> QED BY <1>4, <2>1 DEF QuietStep, Tests, Hits, Misses
<1>5. ASSUME NEW t \in Thread, Call(t) PROVE QuietStep /\ NoStore
  <2>1. /\ counters' = counters /\ resets' = resets
        /\ pc[t] = "idle" /\ pc'[t] \in {"wall", "store", "load"}
        /\ call[t] = "none" /\ local'[t].next = 1
        /\ \A u \in Thread : u # t => Still(u)
    <3>1. counters' = counters /\ resets' = resets
      BY <1>5 DEF Call
    <3>2. /\ pc[t] = "idle" /\ pc'[t] \in {"wall", "store", "load"}
          /\ local'[t].next = local[t].next /\ \A u \in Thread : u # t => Still(u)
      BY <1>5, <1>t, CallFacts
    <3>3. call[t] = "none" /\ local[t].next = 1
      BY <1>t, <3>2 DEF Place
    <3> QED BY <3>1, <3>2, <3>3
  <2>2. NoStore
    BY <2>1, NotStoring
  <2> QED BY <1>4, <2>1, <2>2
<1>6. ASSUME NEW t \in Thread, Load(t) PROVE QuietStep /\ NoStore
  <2>1. /\ counters' = counters /\ resets' = resets
        /\ pc[t] = "load" /\ pc'[t] = "load" /\ call' = call
        /\ \A u \in Thread : u # t => Still(u)
    BY <1>6, <1>t, LoadFacts DEF Load, ghosts
  <2>2. NoStore
    BY <2>1, NotStoring
  <2> QED BY <1>4, <2>1, <2>2
<1>7. ASSUME NEW t \in Thread,
             ReadWall(t) \/ ReadExt(t) \/ (Loaded(t) /\ call[t] # "Metrics")
      PROVE  QuietStep /\ NoStore
  <2>1. counters' = counters /\ resets' = resets
    BY <1>7 DEF ReadWall, ReadExt, Loaded, ghosts
  <2>2. /\ pc[t] \in {"load", "wall", "ext"} /\ pc'[t] \in {"wall", "ext", "append"} /\ call' = call
        /\ \A u \in Thread : u # t => Still(u)
    BY <1>7, <1>t, ReadFacts
  <2>3. NoStore
    BY <2>1, <2>2, NotStoring
  <2> QED BY <1>4, <2>1, <2>2, <2>3
<1>8. ASSUME NEW t \in Thread,
             UptimeReturns(t) \/ AppendSnapshot(t) \/ (Loaded(t) /\ call[t] = "Metrics")
      PROVE  QuietStep /\ NoStore
  <2>1. /\ counters' = counters /\ resets' = resets /\ Return(t)
        /\ pc[t] \in {"append", "load"} /\ call[t] \in {"Uptime", "TakeSnapshot", "Metrics"}
    BY <1>8 DEF UptimeReturns, AppendSnapshot, Loaded, ghosts
  <2>2. pc'[t] = "idle" /\ \A u \in Thread : u # t => Still(u)
    BY <1>t, <2>1, Returned
  <2>3. NoStore
    BY <2>1, <2>2, NotStoring
  <2> QED BY <1>4, <2>1, <2>2, <2>3
<1>9. ASSUME NEW t \in Thread, Clear(t) \/ SetWall(t) \/ SetExt(t) PROVE QuietStep /\ NoStore
  <2>1. /\ counters' = counters /\ \A u \in Thread : u # t => Still(u)
        /\ pc[t] \in {"clear", "setWall", "setExt"} /\ pc'[t] \in {"setWall", "setExt", "idle"}
        /\ resets' = resets \/ resets' = resets + 1
        /\ ~SetExt(t) => call' = call
        /\ SetExt(t) => pc[t] = "setExt"
    BY <1>9, <1>t, ClearFacts
  <2>2. resets \in Nat /\ (SetExt(t) => resets >= 1)
    BY <1>t, <2>1 DEF Place, Typed
  <2>3. NoStore
    BY <2>1, <2>2, NotStoring
  <2> QED BY <1>4, <2>1, <2>3
<1>10. CASE UNCHANGED vars
  <2>1. QuietStep /\ NoStore
    BY <1>10 DEF vars, ghosts, QuietStep, NoStore, Tests, Hits, Misses, Testing, Zeroing, NoReset
  <2> QED BY <2>1
<1> QED BY <1>1, <1>2, <1>3, <1>5, <1>6, <1>7, <1>8, <1>9, <1>10 DEF Next

\* What a Reset does to the counters: it zeroes the tests, then the hits, then
\* the misses.
LEMMA ZeroFacts ==
  ASSUME IsFiniteSet(Thread), PlaceInv, NEW t \in Thread, Store(t)
  PROVE  /\ Testing' = Testing /\ t \notin Testing /\ call[t] = "Reset" /\ call' = call
         /\ local[t].next \in 1 .. 7
         /\ local[t].next = 2 => Zeroing(3)'
         /\ local[t].next # 2 => Tests' = Tests
         /\ IF local[t].next = 3 THEN Zeroing(3) /\ Zeroing(4)' /\ Hits' = 0 ELSE Hits' = Hits
         /\ IF local[t].next = 4 THEN Misses' = 0 ELSE Misses' = Misses
         /\ local[t].next # 3 => (Zeroing(3) => Zeroing(3)')
         /\ local[t].next # 4 => (Zeroing(4) => Zeroing(4)')
<1>t. Typed /\ Place(t)
  BY DEF PlaceInv
<1>1. pc[t] = "store" /\ local[t].next \in 1 .. 7
  BY <1>t, StoreFacts DEF Place, Store
<1> DEFINE i == local[t].next
<1>2. /\ counters'[FieldAt(i)] = 0
      /\ \A g \in Field : g # FieldAt(i) => counters'[g] = counters[g]
      /\ pc'[t] \in {"clear", "store"} /\ (i # 7 => pc'[t] = "store")
      /\ local'[t].next = i + 1
      /\ call' = call
      /\ \A u \in Thread : u # t => Still(u)
  <2>1. local[t].next <= 7
    BY <1>1
  <2> QED BY <1>t, <2>1, StoreFacts
<1>3. \A u \in Thread : u # t => pc'[u] = pc[u] /\ local'[u] = local[u]
  BY <1>2 DEF Still
<1>4. Testing' = Testing /\ t \notin Testing
  <2>1. pc'[t] # "tested"
    BY <1>2
  <2> QED BY <1>t, <1>1, <1>2, <2>1, TestingMoves DEF Testing
<1>5. call[t] = "Reset"
  BY <1>t, <1>1 DEF Place
<1>6. /\ FieldAt(i) = "tests" <=> i = 2
      /\ FieldAt(i) = "hits" <=> i = 3
      /\ FieldAt(i) = "misses" <=> i = 4
  BY <1>1, FieldTurns
<1> HIDE DEF i
<1>7. /\ i # 2 => Tests' = Tests
      /\ IF i = 3 THEN Hits' = 0 ELSE Hits' = Hits
      /\ IF i = 4 THEN Misses' = 0 ELSE Misses' = Misses
  BY <1>2, <1>6, FieldNames DEF Tests, Hits, Misses
<1>8. (i = 2 => Zeroing(3)') /\ (i = 3 => Zeroing(4)')
  BY <1>2 DEF Zeroing
<1>9. i = 3 => Zeroing(3)
  BY <1>1 DEF Zeroing, i
<1>10. (i # 3 => (Zeroing(3) => Zeroing(3)')) /\ (i # 4 => (Zeroing(4) => Zeroing(4)'))
  BY <1>3 DEF Zeroing, i
<1> QED BY <1>1, <1>2, <1>4, <1>5, <1>7, <1>8, <1>9, <1>10 DEF i

\* Since the last Reset that has zeroed the tests began to, no more outcomes
\* were counted than tests, but for the tests under way then.  Of a counter that
\* it has yet to zero nothing is known.
ExcessInv ==
  /\ ~Zeroing(3) => Hits - Tests + Cardinality(Testing) < Cardinality(Thread)
  /\ ~Zeroing(3) /\ ~Zeroing(4) =>
       Hits + Misses - Tests + Cardinality(Testing) < Cardinality(Thread)

\* Until a Reset begins, the tests are the outcomes and those under way.
ExactInv == NoReset => Tests - (Hits + Misses) = Cardinality(Testing)

LEMMA ExcessStep ==
  ASSUME IsFiniteSet(Thread), PlaceInv, ExcessInv, ExactInv, [Next]_vars
  PROVE  ExcessInv' /\ ExactInv'
<1>t. Typed /\ \A t \in Thread : Place(t)
  BY DEF PlaceInv
<1> DEFINE n == Cardinality(Testing)
           N == Cardinality(Thread)
<1>n. Tests \in Nat /\ Hits \in Nat /\ Misses \in Nat /\ n \in Nat /\ N \in Nat
  BY <1>t, CountsType, TestingType
<1>c. n' = Cardinality(Testing') /\ (Testing' = Testing => n' = n)
  OBVIOUS
<1> HIDE DEF n
<1>e. /\ ~Zeroing(3) => Hits - Tests + n < N
      /\ ~Zeroing(3) /\ ~Zeroing(4) => Hits + Misses - Tests + n < N
      /\ NoReset => Tests - (Hits + Misses) = n
  BY DEF ExcessInv, ExactInv, n
<1>g. ASSUME /\ ~Zeroing(3)' => Hits' - Tests' + n' < N
             /\ ~Zeroing(3)' /\ ~Zeroing(4)' => Hits' + Misses' - Tests' + n' < N
             /\ NoReset' => Tests' - (Hits' + Misses') = n'
      PROVE  ExcessInv' /\ ExactInv'
  BY <1>g DEF ExcessInv, ExactInv, n
<1>1. CASE TestStep /\ NoStore
  <2>1. Tests' = Tests + 1 /\ Hits' = Hits /\ Misses' = Misses /\ n' = n + 1
    BY <1>1, <1>c DEF TestStep, n
  <2> QED BY <1>1, <1>n, <1>e, <1>g, <2>1 DEF NoStore
<1>2. CASE OutcomeStep /\ NoStore
  <2>1. /\ Tests' = Tests /\ n' = n - 1
        /\ \/ Hits' = Hits + 1 /\ Misses' = Misses
           \/ Hits' = Hits /\ Misses' = Misses + 1
    BY <1>2, <1>c DEF OutcomeStep, n
  <2> QED BY <1>2, <1>n, <1>e, <1>g, <2>1 DEF NoStore
<1>3. CASE QuietStep /\ NoStore
  <2>1. Tests' = Tests /\ Hits' = Hits /\ Misses' = Misses /\ n' = n
    BY <1>3, <1>c DEF QuietStep
  <2> QED BY <1>3, <1>n, <1>e, <1>g, <2>1 DEF NoStore
<1>4. ASSUME NEW t \in Thread, Store(t) PROVE ExcessInv' /\ ExactInv'
  <2> DEFINE i == local[t].next
  <2>1. /\ n' = n /\ n < N /\ ~NoReset'
        /\ i \in 1 .. 7
        /\ i = 2 => Zeroing(3)'
        /\ i # 2 => Tests' = Tests
        /\ IF i = 3 THEN Zeroing(3) /\ Zeroing(4)' /\ Hits' = 0 ELSE Hits' = Hits
        /\ IF i = 4 THEN Misses' = 0 ELSE Misses' = Misses
        /\ i # 3 => (Zeroing(3) => Zeroing(3)')
        /\ i # 4 => (Zeroing(4) => Zeroing(4)')
    BY <1>4, <1>c, ZeroFacts, TestingType DEF NoReset, n
  <2> HIDE DEF i
  <2>2. ~Zeroing(3)' => Hits' - Tests' + n' < N
    BY <1>n, <1>e, <2>1
  <2>3. ~Zeroing(3)' /\ ~Zeroing(4)' => Hits' + Misses' - Tests' + n' < N
    BY <1>n, <1>e, <2>1
  <2> QED BY <1>g, <2>1, <2>2, <2>3
<1> QED BY <1>1, <1>2, <1>3, <1>4, StepKinds

LEMMA ExcessInvariant ==
  ASSUME IsFiniteSet(Thread), Thread # {}
  PROVE  Spec => [](PlaceInv /\ ExcessInv /\ ExactInv)
<1>1. Init => ExcessInv /\ ExactInv
  <2> SUFFICES ASSUME Init PROVE ExcessInv /\ ExactInv
    OBVIOUS
  <2>1. Testing = {}
    BY DEF Init, Testing
  <2>2. Tests = 0 /\ Hits = 0 /\ Misses = 0
    BY FieldNames DEF Init, Zero, Tests, Hits, Misses
  <2>3. Cardinality(Testing) = 0 /\ Cardinality(Thread) \in Nat /\ Cardinality(Thread) # 0
    BY <2>1, FS_EmptySet, FS_CardinalityType
  <2> QED BY <2>2, <2>3 DEF ExcessInv, ExactInv
<1> QED BY <1>1, PlaceInit, PlaceStep, ExcessStep, PTL DEF Spec

\* Without Reset, hits and misses are the tests but for those under way, for any
\* number of goroutines.
THEOREM OutcomesAccounted ==
  ASSUME IsFiniteSet(Thread), Thread # {}
  PROVE  Spec => []OutcomesFollowTests
<1>1. ExactInv => OutcomesFollowTests
  BY DEF ExactInv, NoReset, OutcomesFollowTests, Tests, Hits, Misses, Testing
<1> QED BY <1>1, ExcessInvariant, PTL

\* However many Resets overlap with tests and with each other, once none is under
\* way the outcomes exceed the tests by fewer than there are goroutines.
THEOREM ExcessStaysBounded ==
  ASSUME IsFiniteSet(Thread), Thread # {}
  PROVE  Spec => []ExcessBounded
<1>1. PlaceInv /\ ExcessInv => ExcessBounded
  <2> SUFFICES ASSUME PlaceInv, ExcessInv, \A t \in Thread : call[t] # "Reset"
               PROVE  Hits + Misses - Tests < Cardinality(Thread)
    BY DEF ExcessBounded, Tests, Hits, Misses
  <2>1. ~Zeroing(3) /\ ~Zeroing(4)
    BY DEF Zeroing, PlaceInv, Place
  <2>2. /\ Tests \in Nat /\ Hits \in Nat /\ Misses \in Nat
        /\ Cardinality(Testing) \in Nat /\ Cardinality(Thread) \in Nat
    BY CountsType, TestingType DEF PlaceInv
  <2> QED BY <2>1, <2>2 DEF ExcessInv
<1> QED BY <1>1, ExcessInvariant, PTL

-----------------------------------------------------------------------------
(* Snapshots *)

\* What has been read of the counters is not short of outcomes by more than the
\* tests that were under way when the tests were read: the counters that are yet
\* to be read can only have gone up since.
Gap(t) ==
  LET m == local[t].metrics
      k == local[t].next
      N == Cardinality(Thread)
  IN  call[t] \in {"Metrics", "TakeSnapshot"} =>
        /\ k = 3 => m["tests"] < Hits + Misses + N
        /\ k = 4 => m["tests"] < m["hits"] + Misses + N
        /\ k >= 5 => m["tests"] < m["hits"] + m["misses"] + N

\* So is what is kept.
KeptGap ==
  \A j \in 1 .. Len(history) :
    LET m == history[j].metrics
    IN  m["tests"] < m["hits"] + m["misses"] + Cardinality(Thread)

GapInv == NoReset => (\A t \in Thread : Gap(t)) /\ KeptGap

LEMMA MetricsType ==
  ASSUME Typed, NEW t \in Thread
  PROVE  /\ local[t].metrics["tests"] \in Nat /\ local[t].metrics["hits"] \in Nat
         /\ local[t].metrics["misses"] \in Nat /\ local[t].next \in 1 .. 8
<1>1. local[t] \in LocalRecord
  BY DEF Typed
<1>2. local[t].metrics \in [Field -> Nat] /\ local[t].next \in 1 .. 8
  BY <1>1 DEF LocalRecord
<1> QED BY <1>2, FieldNames

\* A goroutine that does not move sees the counters go up.
LEMMA GapStill ==
  ASSUME IsFiniteSet(Thread), Typed, NEW t \in Thread, Still(t), Gap(t),
         Hits' >= Hits, Misses' >= Misses, Hits' \in Nat, Misses' \in Nat
  PROVE  Gap(t)'
<1>1. /\ local'[t].metrics = local[t].metrics /\ local'[t].next = local[t].next
      /\ call'[t] = call[t]
  BY DEF Still
<1>2. /\ local[t].metrics["tests"] \in Nat /\ local[t].metrics["hits"] \in Nat
      /\ local[t].metrics["misses"] \in Nat
      /\ Hits \in Nat /\ Misses \in Nat /\ Cardinality(Thread) \in Nat
  BY MetricsType, CountsType, TestingType
<1> QED BY <1>1, <1>2 DEF Gap

\* What a reader reads.
LEMMA GapLoad ==
  ASSUME IsFiniteSet(Thread), PlaceInv, ExactInv, NoReset, NEW t \in Thread, Load(t), Gap(t)
  PROVE  Gap(t)'
<1>t. Typed /\ Place(t)
  BY DEF PlaceInv
<1> DEFINE k == local[t].next
           N == Cardinality(Thread)
           m == local[t].metrics
           q == local'[t].metrics
<1>1. /\ k \in 1 .. 7 /\ local'[t].next = k + 1 /\ pc[t] = "load" /\ call' = call
      /\ q[FieldAt(k)] = counters[FieldAt(k)]
      /\ \A g \in Field : g # FieldAt(k) => q[g] = m[g]
      /\ counters' = counters
  BY <1>t, LoadFacts DEF Load
<1>2. /\ FieldAt(k) = "tests" <=> k = 2
      /\ FieldAt(k) = "hits" <=> k = 3
      /\ FieldAt(k) = "misses" <=> k = 4
  BY <1>1, FieldTurns
<1>3. call[t] \in {"Metrics", "TakeSnapshot"} /\ t \notin Testing
  BY <1>t, <1>1 DEF Place, Testing
<1>4. /\ Tests \in Nat /\ Hits \in Nat /\ Misses \in Nat /\ N \in Nat
      /\ m["tests"] \in Nat /\ m["hits"] \in Nat /\ m["misses"] \in Nat
      /\ Hits' = Hits /\ Misses' = Misses
  BY <1>t, <1>1, CountsType, TestingType, MetricsType DEF Hits, Misses
<1>5. Tests < Hits + Misses + N
  <2>1. Cardinality(Testing) \in Nat /\ Cardinality(Testing) < N
    BY <1>3, TestingType
  <2>2. Tests - (Hits + Misses) = Cardinality(Testing)
    BY DEF ExactInv
  <2> QED BY <1>4, <2>1, <2>2
<1>6. /\ k = 3 => m["tests"] < Hits + Misses + N
      /\ k = 4 => m["tests"] < m["hits"] + Misses + N
      /\ k >= 5 => m["tests"] < m["hits"] + m["misses"] + N
  BY <1>3 DEF Gap
<1>7. /\ IF k = 2 THEN q["tests"] = Tests ELSE q["tests"] = m["tests"]
      /\ IF k = 3 THEN q["hits"] = Hits ELSE q["hits"] = m["hits"]
      /\ IF k = 4 THEN q["misses"] = Misses ELSE q["misses"] = m["misses"]
  BY <1>1, <1>2, FieldNames DEF Tests, Hits, Misses
<1> HIDE DEF k, m, N, q
<1>8. /\ k + 1 = 3 => q["tests"] < Hits + Misses + N
      /\ k + 1 = 4 => q["tests"] < q["hits"] + Misses + N
      /\ k + 1 >= 5 => q["tests"] < q["hits"] + q["misses"] + N
  <2>1. CASE k = 1
    BY <2>1
  <2>2. CASE k = 2
    BY <2>2, <1>5, <1>7
  <2>3. CASE k = 3
    BY <2>3, <1>6, <1>7
  <2>4. CASE k = 4
    BY <2>4, <1>6, <1>7
  <2>5. CASE k >= 5
    BY <2>5, <1>1, <1>6, <1>7
  <2> QED BY <1>1, <2>1, <2>2, <2>3, <2>4, <2>5
<1> QED BY <1>1, <1>4, <1>8 DEF Gap, k, N, q

LEMMA GapStep ==
  ASSUME IsFiniteSet(Thread), PlaceInv, ExactInv, GapInv, [Next]_vars
  PROVE  GapInv'
<1> SUFFICES ASSUME NoReset' PROVE (\A t \in Thread : Gap(t)') /\ KeptGap'
  BY DEF GapInv
<1>t. Typed /\ \A t \in Thread : Place(t)
  BY DEF PlaceInv
<1>a. ASSUME NEW t \in Thread, Store(t) PROVE FALSE
  BY <1>a, ZeroFacts DEF NoReset
<1>b. (TestStep \/ OutcomeStep \/ QuietStep) /\ NoStore
  BY <1>a, StepKinds
<1>c. NoReset /\ (\A t \in Thread : Gap(t)) /\ KeptGap
  BY <1>b DEF NoStore, GapInv
<1>d. Hits' >= Hits /\ Misses' >= Misses /\ Hits' \in Nat /\ Misses' \in Nat
  BY <1>b, <1>t, CountsType DEF TestStep, OutcomeStep, QuietStep
<1>e. ASSUME NEW t \in Thread, \A u \in Thread : u # t => Still(u), Gap(t)'
      PROVE  \A u \in Thread : Gap(u)'
  <2> SUFFICES ASSUME NEW u \in Thread PROVE Gap(u)'
    OBVIOUS
  <2>1. CASE u = t
    BY <1>e, <2>1
  <2>2. CASE u # t
    BY <1>c, <1>d, <1>e, <1>t, <2>2, GapStill
  <2> QED BY <2>1, <2>2
<1>f. ASSUME history' = history PROVE KeptGap'
  BY <1>c, <1>f DEF KeptGap
<1>1. ASSUME NEW t \in Thread, Record(t) PROVE GapInv'
  <2>1. (\A u \in Thread : Still(u)) /\ history' = history
    BY <1>1 DEF Record, Still
  <2>2. \A u \in Thread : Gap(u)'
    BY <1>c, <1>d, <1>t, <2>1, GapStill
  <2> QED BY <1>f, <2>1, <2>2 DEF GapInv
<1>2. ASSUME NEW t \in Thread, RecordTest(t) \/ RecordOutcome(t) PROVE GapInv'
  <2>1. /\ call' = call /\ local' = local /\ \A u \in Thread : u # t => Still(u)
        /\ call[t] = "none" /\ history' = history
    BY <1>2, <1>t, TestFacts DEF Place, RecordTest, RecordOutcome
  <2>2. Gap(t)'
    BY <2>1 DEF Gap
  <2> QED BY <1>e, <1>f, <2>1, <2>2 DEF GapInv
<1>3. ASSUME NEW t \in Thread, Call(t) PROVE GapInv'
  <2>1. /\ local'[t].next = 1 /\ \A u \in Thread : u # t => Still(u)
        /\ history' = history
    <3>1. pc[t] = "idle" /\ local'[t].next = local[t].next /\ \A u \in Thread : u # t => Still(u)
      BY <1>3, <1>t, CallFacts
    <3>2. local[t].next = 1
      BY <1>t, <3>1 DEF Place
    <3>3. history' = history
      BY <1>3 DEF Call
    <3> QED BY <3>1, <3>2, <3>3
  <2>2. Gap(t)'
    BY <2>1 DEF Gap
  <2> QED BY <1>e, <1>f, <2>1, <2>2 DEF GapInv
<1>4. ASSUME NEW t \in Thread, Load(t) PROVE GapInv'
  <2>1. history' = history /\ \A u \in Thread : u # t => Still(u)
    BY <1>4, <1>t, LoadFacts DEF Load
  <2>2. Gap(t)'
    BY <1>4, <1>c, GapLoad
  <2> QED BY <1>e, <1>f, <2>1, <2>2 DEF GapInv
<1>5. ASSUME NEW t \in Thread,
             ReadWall(t) \/ ReadExt(t) \/ (Loaded(t) /\ call[t] # "Metrics")
      PROVE  GapInv'
  <2>1. /\ history' = history /\ counters' = counters
    BY <1>5 DEF ReadWall, ReadExt, Loaded
  <2>2. /\ \A u \in Thread : u # t => Still(u)
        /\ local'[t].next = local[t].next /\ local'[t].metrics = local[t].metrics /\ call' = call
    BY <1>5, <1>t, ReadFacts
  <2>3. Gap(t)'
    BY <1>c, <2>1, <2>2 DEF Gap, Hits, Misses
  <2> QED BY <1>e, <1>f, <2>1, <2>2, <2>3 DEF GapInv
<1>6. ASSUME NEW t \in Thread, UptimeReturns(t) \/ (Loaded(t) /\ call[t] = "Metrics")
      PROVE  GapInv'
  <2>1. history' = history /\ Return(t)
    BY <1>6 DEF UptimeReturns, Loaded
  <2>2. call'[t] = "none" /\ \A u \in Thread : u # t => Still(u)
    BY <1>t, <2>1, Returned
  <2>3. Gap(t)'
    BY <2>2 DEF Gap
  <2> QED BY <1>e, <1>f, <2>1, <2>2, <2>3 DEF GapInv
<1>7. ASSUME NEW t \in Thread, AppendSnapshot(t) PROVE GapInv'
  <2>1. Return(t) /\ pc[t] = "append" /\ call[t] = "TakeSnapshot"
    BY <1>7 DEF AppendSnapshot
  <2>2. call'[t] = "none" /\ \A u \in Thread : u # t => Still(u)
    BY <1>t, <2>1, Returned
  <2>3. Gap(t)'
    BY <2>2 DEF Gap
  <2>4. LET m == local[t].metrics
        IN  m["tests"] < m["hits"] + m["misses"] + Cardinality(Thread)
    BY <1>c, <1>t, <2>1 DEF Place, Gap
  <2>5. PICK cut \in Nat :
          /\ cut <= Len(history)
          /\ Len(history') = Len(history) - cut + 1
          /\ \A j \in 1 .. Len(history) - cut : history'[j] = history[j + cut]
          /\ history'[Len(history')] = Snapshot(t)
    BY <1>7, <1>t, AppendFacts DEF PlaceInv
  <2>6. Len(history) \in Nat
    BY <1>t DEF Typed
  <2>7. ASSUME NEW j \in 1 .. Len(history')
        PROVE  LET m == history'[j].metrics
               IN  m["tests"] < m["hits"] + m["misses"] + Cardinality(Thread)
    <3>1. CASE j = Len(history')
      BY <2>4, <2>5, <3>1 DEF Snapshot
    <3>2. CASE j # Len(history')
      <4>1. j + cut \in 1 .. Len(history) /\ j \in 1 .. Len(history) - cut
        BY <2>5, <2>6, <3>2
      <4>2. history'[j] = history[j + cut]
        BY <2>5, <4>1
      <4> QED BY <1>c, <4>1, <4>2 DEF KeptGap
    <3> QED BY <3>1, <3>2
  <2>8. KeptGap'
    BY <2>7 DEF KeptGap
  <2> QED BY <1>e, <2>2, <2>3, <2>8 DEF GapInv
<1>8. ASSUME NEW t \in Thread, Clear(t) \/ SetWall(t) \/ SetExt(t) PROVE GapInv'
  <2>1. pc[t] \in {"clear", "setWall", "setExt"}
    BY <1>8, <1>t, ClearFacts
  <2>2. call[t] = "Reset"
    BY <1>t, <2>1 DEF Place
  <2> QED BY <1>c, <2>2 DEF NoReset
<1>9. CASE UNCHANGED vars
  <2>1. (\A u \in Thread : Still(u)) /\ history' = history
    BY <1>9 DEF vars, Still
  <2>2. \A u \in Thread : Gap(u)'
    BY <1>c, <1>d, <1>t, <2>1, GapStill
  <2> QED BY <1>f, <2>1, <2>2 DEF GapInv
<1>10. GapInv'
  <2>1. CASE UNCHANGED vars
    BY <1>9, <2>1 DEF GapInv
  <2>2. ASSUME NEW t \in Thread,
               \/ Record(t) \/ RecordTest(t) \/ RecordOutcome(t)
               \/ Call(t)
               \/ Load(t) \/ Loaded(t) \/ ReadWall(t) \/ ReadExt(t)
               \/ UptimeReturns(t) \/ AppendSnapshot(t)
               \/ Store(t) \/ Clear(t) \/ SetWall(t) \/ SetExt(t)
        PROVE  GapInv'
    BY <1>a, <1>1, <1>2, <1>3, <1>4, <1>5, <1>6, <1>7, <1>8, <2>2, Zenon
  <2> QED BY <2>1, <2>2 DEF Next
<1> QED BY <1>10 DEF GapInv

\* Without Reset, a snapshot lacks fewer outcomes than there are goroutines,
\* however much is recorded while its fields are read, for any history.
THEOREM SnapshotsNearlyWhole ==
  ASSUME IsFiniteSet(Thread), Thread # {}
  PROVE  Spec => []UndercountBounded
<1>1. Init => GapInv
  <2> SUFFICES ASSUME Init PROVE GapInv
    OBVIOUS
  <2>1. \A t \in Thread : call[t] = "none"
    BY DEF Init
  <2>2. Len(history) = 0
    BY DEF Init
  <2> QED BY <2>1, <2>2 DEF GapInv, Gap, KeptGap
<1>2. PlaceInv /\ GapInv => UndercountBounded
  <2> SUFFICES ASSUME PlaceInv, GapInv, NoReset, NEW j \in DOMAIN history
               PROVE  LET m == history[j].metrics
                      IN  m["tests"] - (m["hits"] + m["misses"]) < Cardinality(Thread)
    BY DEF UndercountBounded, NoReset
  <2>1. history \in Seq(Snapshots)
    BY DEF PlaceInv, Typed
  <2>2. j \in 1 .. Len(history) /\ history[j] \in Snapshots
    BY <2>1
  <2>3. history[j].metrics \in [Field -> Nat]
    BY <2>2 DEF Snapshots
  <2> DEFINE m == history[j].metrics
  <2>4. m["tests"] \in Nat /\ m["hits"] \in Nat /\ m["misses"] \in Nat
    BY <2>3, FieldNames
  <2>5. m["tests"] < m["hits"] + m["misses"] + Cardinality(Thread)
    BY <2>2 DEF GapInv, KeptGap
  <2>6. Cardinality(Thread) \in Nat
    BY TestingType
  <2> HIDE DEF m
  <2>7. m["tests"] - (m["hits"] + m["misses"]) < Cardinality(Thread)
    BY <2>4, <2>5, <2>6
  <2> QED BY <2>7 DEF m
<1>3. PlaceInv /\ ExcessInv /\ ExactInv /\ GapInv /\ [Next]_vars => GapInv'
  BY GapStep
<1> QED BY <1>1, <1>2, <1>3, ExcessInvariant, PTL DEF Spec

-----------------------------------------------------------------------------
(* Snapshots that a Reset overtook *)

\* Those in the history,
Stale == {j \in 1 .. Len(history) : history[j].era < resets}

\* and those on their way to it.
Late == {t \in Thread : call[t] = "TakeSnapshot" /\ local[t].era < resets}

StaleInv == Cardinality(Stale) + Cardinality(Late) < Cardinality(Thread)

LEMMA StaleType ==
  ASSUME IsFiniteSet(Thread), Typed
  PROVE  /\ IsFiniteSet(Stale) /\ Cardinality(Stale) \in Nat
         /\ IsFiniteSet(Late) /\ Cardinality(Late) \in Nat /\ Cardinality(Thread) \in Nat
<1>1. Stale \subseteq 1 .. Len(history) /\ Late \subseteq Thread /\ Len(history) \in Int
  BY DEF Stale, Late, Typed
<1>2. IsFiniteSet(1 .. Len(history))
  BY <1>1, FS_Interval
<1> QED BY <1>1, <1>2, FS_Subset, FS_CardinalityType

\* Appending evicts from the front, and adds at most the one at the end.
LEMMA StaleAppended ==
  ASSUME IsFiniteSet(Thread), PlaceInv, NEW t \in Thread, AppendSnapshot(t)
  PROVE  /\ Cardinality(Stale') \in Nat
         /\ Cardinality(Stale') <= Cardinality(Stale) + 1
         /\ ~(local[t].era < resets) => Cardinality(Stale') <= Cardinality(Stale)
<1>t. Typed
  BY DEF PlaceInv
<1>1. PICK cut \in Nat :
        /\ cut <= Len(history)
        /\ Len(history') = Len(history) - cut + 1
        /\ \A j \in 1 .. Len(history) - cut : history'[j] = history[j + cut]
        /\ history'[Len(history')] = Snapshot(t)
  BY <1>t, AppendFacts DEF PlaceInv
<1>2. Len(history) \in Nat /\ resets' = resets
  BY <1>t DEF Typed, AppendSnapshot, ghosts
<1> DEFINE last == Len(history')
           old == {j \in 1 .. Len(history) - cut : history[j + cut].era < resets}
           shift == [j \in old |-> j + cut]
<1>3. shift \in [old -> Stale] /\ \A a, b \in old : shift[a] = shift[b] => a = b
  <2>1. \A j \in old : j \in Int /\ j + cut \in 1 .. Len(history) /\ history[j + cut].era < resets
    BY <1>1, <1>2
  <2>2. \A j \in old : j + cut \in Stale
    BY <2>1 DEF Stale
  <2>3. \A a, b \in old : a + cut = b + cut => a = b
    BY <2>1
  <2> HIDE DEF old
  <2> QED BY <2>2, <2>3
<1>4. shift \in Injection(old, Stale)
  BY <1>3 DEF Injection, IsInjective
<1>5. IsFiniteSet(Stale) /\ Cardinality(Stale) \in Nat
  BY <1>t, StaleType
<1>6. IsFiniteSet(old) /\ Cardinality(old) <= Cardinality(Stale) /\ Cardinality(old) \in Nat
  <2> HIDE DEF old, shift
  <2> QED BY <1>4, <1>5, FS_Injection, FS_CardinalityType
<1>7. /\ last \notin old
      /\ Stale' = IF local[t].era < resets THEN old \cup {last} ELSE old
  <2>1. last \notin old /\ last \in 1 .. last /\ 1 .. last = (1 .. Len(history) - cut) \cup {last}
    BY <1>1, <1>2
  <2>2. \A j \in 1 .. Len(history) - cut : history'[j].era < resets' <=> history[j + cut].era < resets
    BY <1>1, <1>2
  <2>3. history'[last].era < resets' <=> local[t].era < resets
    BY <1>1, <1>2 DEF Snapshot
  <2>4. Stale' = {j \in 1 .. last : history'[j].era < resets'}
    BY DEF Stale
  <2>5. \A j : j \in Stale' <=> j \in old \/ (j = last /\ local[t].era < resets)
    BY <2>1, <2>2, <2>3, <2>4
  <2> HIDE DEF old, last
  <2> QED BY <2>1, <2>5
<1> HIDE DEF old, last, shift
<1>8. Cardinality(old \cup {last}) = Cardinality(old) + 1
  BY <1>6, <1>7, FS_AddElement
<1> QED BY <1>5, <1>6, <1>7, <1>8

\* No goroutine becomes late but by a Reset.
LEMMA LateKept ==
  ASSUME IsFiniteSet(Thread), Typed, NEW t \in Thread, \A u \in Thread : u # t => Still(u),
         resets' = resets,
         call'[t] = "TakeSnapshot" =>
           \/ ~(local'[t].era < resets)
           \/ call[t] = "TakeSnapshot" /\ local'[t].era = local[t].era
  PROVE  /\ Cardinality(Late') \in Nat /\ Cardinality(Late') <= Cardinality(Late)
         /\ t \in Late /\ call'[t] = "none" => Cardinality(Late') <= Cardinality(Late) - 1
<1>1. Late' \subseteq Late /\ (t \in Late /\ call'[t] = "none" => Late' \subseteq Late \ {t})
  BY DEF Late, Still
<1>2. IsFiniteSet(Late) /\ Cardinality(Late) \in Nat
  BY StaleType
<1>3. /\ IsFiniteSet(Late \ {t})
      /\ t \in Late => Cardinality(Late \ {t}) = Cardinality(Late) - 1
  BY <1>2, FS_RemoveElement
<1>4. Cardinality(Late') \in Nat /\ Cardinality(Late') <= Cardinality(Late)
  BY <1>1, <1>2, FS_Subset, FS_CardinalityType
<1>5. ASSUME t \in Late, call'[t] = "none" PROVE Cardinality(Late') <= Cardinality(Late) - 1
  <2>1. Cardinality(Late') <= Cardinality(Late \ {t})
    BY <1>1, <1>3, <1>5, FS_Subset
  <2> QED BY <1>3, <1>5, <2>1
<1> QED BY <1>4, <1>5

LEMMA StaleStep ==
  ASSUME IsFiniteSet(Thread), PlaceInv, StaleInv, [Next]_vars
  PROVE  StaleInv'
<1>t. Typed /\ \A t \in Thread : Place(t)
  BY DEF PlaceInv
<1>c. /\ Cardinality(Stale) \in Nat /\ Cardinality(Late) \in Nat /\ Cardinality(Thread) \in Nat
      /\ Cardinality(Stale) + Cardinality(Late) < Cardinality(Thread)
  BY <1>t, StaleType DEF StaleInv
<1>k. ASSUME NEW t \in Thread, \A u \in Thread : u # t => Still(u),
             resets' = resets, history' = history,
             call'[t] = "TakeSnapshot" =>
               \/ ~(local'[t].era < resets)
               \/ call[t] = "TakeSnapshot" /\ local'[t].era = local[t].era
      PROVE  StaleInv'
  <2>1. Cardinality(Late') \in Nat /\ Cardinality(Late') <= Cardinality(Late)
    BY <1>k, <1>t, LateKept
  <2>2. Stale' = Stale
    BY <1>k DEF Stale
  <2> QED BY <1>c, <2>1, <2>2 DEF StaleInv
<1>1. ASSUME NEW t \in Thread, Record(t) PROVE StaleInv'
  BY <1>1 DEF Record, StaleInv, Stale, Late
<1>2. ASSUME NEW t \in Thread, RecordTest(t) \/ RecordOutcome(t) PROVE StaleInv'
  <2>1. history' = history /\ resets' = resets
    BY <1>2 DEF RecordTest, RecordOutcome, ghosts
  <2>2. call' = call /\ local' = local /\ \A u \in Thread : u # t => Still(u)
    BY <1>2, <1>t, TestFacts
  <2> QED BY <1>k, <2>1, <2>2
<1>3. ASSUME NEW t \in Thread, Call(t) PROVE StaleInv'
  <2>1. /\ history' = history /\ resets' = resets /\ local'[t].era = resets
        /\ \A u \in Thread : u # t => Still(u)
    BY <1>3, <1>t, CallFacts DEF Call
  <2>2. ~(resets < resets)
    BY <1>t DEF Typed
  <2> QED BY <1>k, <2>1, <2>2
<1>4. ASSUME NEW t \in Thread, Load(t) PROVE StaleInv'
  <2>1. history' = history /\ resets' = resets
    BY <1>4 DEF Load, ghosts
  <2>2. call' = call /\ local'[t].era = local[t].era /\ \A u \in Thread : u # t => Still(u)
    BY <1>4, <1>t, LoadFacts
  <2> QED BY <1>k, <2>1, <2>2
<1>5. ASSUME NEW t \in Thread,
             ReadWall(t) \/ ReadExt(t) \/ (Loaded(t) /\ call[t] # "Metrics")
      PROVE  StaleInv'
  <2>1. history' = history /\ resets' = resets
    BY <1>5 DEF ReadWall, ReadExt, Loaded, ghosts
  <2>2. call' = call /\ local'[t].era = local[t].era /\ \A u \in Thread : u # t => Still(u)
    BY <1>5, <1>t, ReadFacts
  <2> QED BY <1>k, <2>1, <2>2
<1>6. ASSUME NEW t \in Thread, UptimeReturns(t) \/ (Loaded(t) /\ call[t] = "Metrics")
      PROVE  StaleInv'
  <2>1. history' = history /\ resets' = resets /\ Return(t)
    BY <1>6 DEF UptimeReturns, Loaded, ghosts
  <2>2. call'[t] = "none" /\ \A u \in Thread : u # t => Still(u)
    BY <1>t, <2>1, Returned
  <2> QED BY <1>k, <2>1, <2>2
<1>7. ASSUME NEW t \in Thread, AppendSnapshot(t) PROVE StaleInv'
  <2>1. resets' = resets /\ Return(t) /\ call[t] = "TakeSnapshot"
    BY <1>7 DEF AppendSnapshot, ghosts
  <2>2. call'[t] = "none" /\ \A u \in Thread : u # t => Still(u)
    BY <1>t, <2>1, Returned
  <2>3. /\ Cardinality(Stale') \in Nat
        /\ Cardinality(Stale') <= Cardinality(Stale) + 1
        /\ ~(local[t].era < resets) => Cardinality(Stale') <= Cardinality(Stale)
    BY <1>7, StaleAppended
  <2>4. /\ Cardinality(Late') \in Nat /\ Cardinality(Late') <= Cardinality(Late)
        /\ t \in Late => Cardinality(Late') <= Cardinality(Late) - 1
    BY <1>t, <2>1, <2>2, LateKept
  <2>5. t \in Late <=> local[t].era < resets
    BY <2>1 DEF Late
  <2> QED BY <1>c, <2>3, <2>4, <2>5 DEF StaleInv
<1>8. ASSUME NEW t \in Thread, Store(t) PROVE StaleInv'
  <2>1. history' = history /\ resets' = resets /\ pc[t] = "store"
    BY <1>8 DEF Store, ghosts
  <2>2. local[t].next <= 7 /\ call[t] = "Reset"
    BY <1>t, <2>1 DEF Place
  <2>3. call' = call /\ \A u \in Thread : u # t => Still(u)
    BY <1>8, <1>t, <2>2, StoreFacts
  <2> QED BY <1>k, <2>1, <2>2, <2>3
<1>9. ASSUME NEW t \in Thread, SetWall(t) \/ SetExt(t) PROVE StaleInv'
  <2>1. pc[t] \in {"setWall", "setExt"}
    BY <1>9 DEF SetWall, SetExt
  <2>2. call[t] = "Reset" /\ ~Clear(t)
    BY <1>t, <2>1 DEF Place, Clear
  <2>3. /\ history' = history /\ resets' = resets /\ \A u \in Thread : u # t => Still(u)
        /\ call' = call \/ call'[t] = "none"
    BY <1>9, <1>t, <2>2, ClearFacts
  <2> QED BY <1>k, <2>2, <2>3
<1>10. ASSUME NEW t \in Thread, Clear(t) PROVE StaleInv'
  <2>1. history' = <<>> /\ call' = call /\ pc[t] = "clear"
    BY <1>10 DEF Clear, HistoryCleared
  <2>2. call'[t] = "Reset"
    BY <1>t, <2>1 DEF Place
  <2>3. Stale' = {}
    BY <2>1 DEF Stale
  <2>4. Late' \subseteq Thread \ {t}
    BY <2>2 DEF Late
  <2>5. /\ IsFiniteSet(Thread \ {t}) /\ Cardinality(Thread \ {t}) = Cardinality(Thread) - 1
    BY FS_RemoveElement
  <2>6. Cardinality(Late') <= Cardinality(Thread \ {t}) /\ Cardinality(Late') \in Nat
    BY <2>4, <2>5, FS_Subset, FS_CardinalityType
  <2>7. Cardinality(Stale') = 0
    BY <2>3, FS_EmptySet
  <2> QED BY <1>c, <2>5, <2>6, <2>7 DEF StaleInv
<1>11. CASE UNCHANGED vars
  BY <1>11 DEF vars, ghosts, StaleInv, Stale, Late
<1>12. ASSUME NEW t \in Thread,
              \/ Record(t) \/ RecordTest(t) \/ RecordOutcome(t)
              \/ Call(t)
              \/ Load(t) \/ Loaded(t) \/ ReadWall(t) \/ ReadExt(t)
              \/ UptimeReturns(t) \/ AppendSnapshot(t)
              \/ Store(t) \/ Clear(t) \/ SetWall(t) \/ SetExt(t)
       PROVE  StaleInv'
  BY <1>1, <1>2, <1>3, <1>4, <1>5, <1>6, <1>7, <1>8, <1>9, <1>10, <1>12, Zenon
<1> QED BY <1>11, <1>12 DEF Next

\* However many Resets there are, fewer snapshots than there are goroutines were
\* begun before the last one and kept after it.
THEOREM StaleSnapshotsFew ==
  ASSUME IsFiniteSet(Thread), Thread # {}
  PROVE  Spec => []FewStaleSnapshots
<1>1. Init => StaleInv
  <2> SUFFICES ASSUME Init PROVE StaleInv
    OBVIOUS
  <2>1. Stale = {} /\ Late = {}
    BY DEF Init, Stale, Late
  <2>2. Cardinality(Stale) = 0 /\ Cardinality(Late) = 0
    BY <2>1, FS_EmptySet
  <2>3. Cardinality(Thread) \in Nat /\ Cardinality(Thread) # 0
    BY FS_EmptySet, FS_CardinalityType
  <2> QED BY <2>2, <2>3 DEF StaleInv
<1>2. PlaceInv /\ StaleInv => FewStaleSnapshots
  <2> SUFFICES ASSUME PlaceInv, StaleInv PROVE FewStaleSnapshots
    OBVIOUS
  <2>1. Typed
    BY DEF PlaceInv
  <2>2. DOMAIN history = 1 .. Len(history)
    BY <2>1 DEF Typed
  <2>3. Stale = {j \in DOMAIN history : history[j].era < resets}
    BY <2>2 DEF Stale
  <2>4. Cardinality(Stale) < Cardinality(Thread)
    BY <2>1, StaleType DEF StaleInv
  <2> QED BY <2>3, <2>4 DEF FewStaleSnapshots
<1>3. PlaceInv /\ StaleInv /\ [Next]_vars => StaleInv'
  BY StaleStep
<1> QED BY <1>1, <1>2, <1>3, PlaceInvariant, PTL DEF Spec

-----------------------------------------------------------------------------
(* The rate tracker *)

\* The tracker's sums are sums on a set.
LEMMA RateSums == \A f : SumFunction(f) = SumFunctionOnSet(f, DOMAIN f)
BY DEF SumFunction, SumFunctionOnSet, FoldFunction, FoldFunctionOnSet, MapThenFoldSet

Buckets == NumBuckets(window, bucketSize)

\* rate.go, bucketIndex: the bucket that a tick belongs to.
IndexOf == [t \in 0 .. MaxTime |-> (t \div bucketSize) % Buckets]

\* rate.go, NewRateTracker: there is a bucket, and if one fits into the window
\* so do all.
LEMMA BucketsFit ==
  ASSUME NEW w \in Nat \ {0}, NEW b \in Nat \ {0}
  PROVE  /\ NumBuckets(w, b) \in Nat \ {0}
         /\ b <= w => b * NumBuckets(w, b) <= w
         /\ b > w => NumBuckets(w, b) = 1
<1> DEFINE q == w \div b
           r == w % b
<1>1. q \in Int /\ r \in 0 .. b - 1 /\ w = (b * q) + r
  BY ModParts
<1>2. NumBuckets(w, b) = IF q < 1 THEN 1 ELSE q
  BY DEF NumBuckets
<1> HIDE DEF q, r
<1>3. NumBuckets(w, b) \in Nat \ {0}
  BY <1>1, <1>2
<1>4. b * q <= w
  BY <1>1
<1>5. ASSUME b > w PROVE q <= 0
  <2> SUFFICES ASSUME q >= 1 PROVE FALSE
    BY <1>1
  <2>1. b * q >= b
    BY <1>1
  <2> QED BY <1>4, <1>5, <2>1, <1>1
<1>6. ASSUME b <= w PROVE b * NumBuckets(w, b) <= w
  <2>1. b * 1 <= w
    BY <1>6
  <2> QED BY <1>2, <1>4, <2>1
<1>7. b > w => NumBuckets(w, b) = 1
  BY <1>1, <1>2, <1>5
<1> QED BY <1>3, <1>6, <1>7

\* rate.go, Record: a bucket begins at the last multiple of its size, counted
\* from the zero time.
LEMMA TruncatedRange ==
  ASSUME bucketSize \in Nat \ {0}, NEW t \in Nat
  PROVE  Truncated(t) \in Int /\ Truncated(t) <= t /\ t - bucketSize < Truncated(t)
<1> DEFINE a == t + Epoch
           q == a \div bucketSize
           r == a % bucketSize
<1>1. a \in Nat /\ Epoch \in Nat
  BY RateAssumption
<1>2. q \in Int /\ r \in 0 .. bucketSize - 1 /\ a = (bucketSize * q) + r
  <2> HIDE DEF a
  <2>1. a \in Int
    BY <1>1
  <2> QED BY <2>1, ModParts
<1>3. Truncated(t) = (q * bucketSize) - Epoch
  BY DEF Truncated
<1>4. a - Epoch = t
  BY <1>1
<1> HIDE DEF a, q, r
<1>5. q * bucketSize = bucketSize * q /\ q * bucketSize \in Int
  BY <1>2
<1> QED BY <1>1, <1>2, <1>3, <1>4, <1>5

LEMMA RingFacts ==
  ASSUME RateTypeOK
  PROVE  /\ Buckets \in Nat \ {0}
         /\ Ring = 0 .. Buckets - 1
         /\ IsFiniteSet(Ring) /\ Cardinality(Ring) = Buckets
         /\ \A t \in 0 .. MaxTime : IndexOf[t] \in Ring
         /\ bucketIndex = IndexOf[now] /\ bucketIndex \in Ring
<1>1. window \in Nat \ {0} /\ bucketSize \in Nat \ {0} /\ now \in 0 .. MaxTime
  BY DEF RateTypeOK
<1>2. Buckets \in Nat \ {0} /\ Ring = 0 .. Buckets - 1
  BY <1>1, BucketsFit DEF Buckets, Ring
<1>3. IsFiniteSet(Ring) /\ Cardinality(Ring) = Buckets
  <2> DEFINE n == Buckets
  <2> HIDE DEF n
  <2>1. n \in Nat \ {0} => IsFiniteSet(0 .. n - 1) /\ Cardinality(0 .. n - 1) = (n - 1) - 0 + 1
    BY FS_Interval
  <2>2. n \in Nat \ {0} => (n - 1) - 0 + 1 = n
    OBVIOUS
  <2> QED BY <1>2, <2>1, <2>2 DEF n
<1>4. ASSUME NEW t \in 0 .. MaxTime PROVE IndexOf[t] \in Ring
  <2> DEFINE c == t \div bucketSize
             n == Buckets
  <2>1. c \in Int
    BY <1>1
  <2>2. IndexOf[t] = c % n
    BY DEF IndexOf
  <2> HIDE DEF c, n
  <2>3. n \in Nat \ {0} => c % n \in 0 .. n - 1
    BY <2>1
  <2> QED BY <1>2, <2>2, <2>3 DEF n
<1>5. bucketIndex = IndexOf[now]
  BY <1>1 DEF IndexOf, Buckets, bucketIndex
<1> QED BY <1>1, <1>2, <1>3, <1>4, <1>5

\* rate.go, Record: what becomes of the bucket that is hit.
Hit(n) ==
  LET b == buckets[bucketIndex]
  IN IF Expired(b) THEN [start |-> Truncated(now), count |-> n]
                        ELSE [start |-> b.start, count |-> b.count + n]

LEMMA RecordFacts ==
  ASSUME RateTypeOK, NEW n \in 1 .. MaxBurst, RecordEvents(n)
  PROVE  /\ buckets' \in [Ring -> [start : -bucketSize .. now, count : Nat]]
         /\ \A i \in Ring :
              buckets'[i] = IF i = bucketIndex THEN Hit(n) ELSE buckets[i]
         /\ events' \in [0 .. MaxTime -> 0 .. MaxBurst]
         /\ \A t \in 0 .. MaxTime :
              events'[t] = IF t = now THEN events[t] + n ELSE events[t]
<1> DEFINE j == bucketIndex
           b == buckets[j]
           R == [start : -bucketSize .. now, count : Nat]
<1>1. /\ window \in Nat \ {0} /\ bucketSize \in Nat \ {0} /\ now \in 0 .. MaxTime
      /\ buckets \in [Ring -> R] /\ events \in [0 .. MaxTime -> 0 .. MaxBurst]
      /\ j \in Ring /\ n \in Nat
  BY RingFacts DEF RateTypeOK
<1>2. b \in R
  BY <1>1
<1>3. /\ events[now] + n <= MaxBurst
      /\ buckets' = [buckets EXCEPT ![j] = IF Expired(b) THEN Renewed(b, n)
                                           ELSE [b EXCEPT !.count = @ + n]]
      /\ events' = [events EXCEPT ![now] = events[now] + n]
  BY <1>1 DEF RecordEvents
<1>4. Renewed(b, n) = [start |-> Truncated(now), count |-> n]
  BY DEF Renewed
<1>5. b = [start |-> b.start, count |-> b.count]
  BY <1>2
<1> HIDE DEF b
<1>6. [b EXCEPT !.count = @ + n] = [start |-> b.start, count |-> b.count + n]
  BY <1>5
<1>7. buckets' = [buckets EXCEPT ![j] = Hit(n)]
  BY <1>3, <1>4, <1>6 DEF Hit, b
<1>8. Hit(n) \in R
  <2>1. Truncated(now) \in -bucketSize .. now
    <3> HIDE DEF R, j
    <3>1. now \in Nat
      BY <1>1
    <3>2. Truncated(now) \in Int /\ Truncated(now) <= now
          /\ now - bucketSize < Truncated(now)
      BY <1>1, <3>1, TruncatedRange
    <3> QED BY <1>1, <3>1, <3>2
  <2>2. b.start \in -bucketSize .. now /\ b.count + n \in Nat
    BY <1>1, <1>2
  <2> QED BY <1>1, <2>1, <2>2 DEF Hit, b
<1>9. events[now] + n \in 0 .. MaxBurst
  BY <1>1, <1>3
<1> HIDE DEF j, R
<1>10. buckets' \in [Ring -> R]
       /\ \A i \in Ring : buckets'[i] = IF i = j THEN Hit(n) ELSE buckets[i]
  BY <1>1, <1>7, <1>8
<1>11. events' \in [0 .. MaxTime -> 0 .. MaxBurst]
       /\ \A t \in 0 .. MaxTime : events'[t] = IF t = now THEN events[t] + n ELSE events[t]
  BY <1>1, <1>3, <1>9
<1> QED BY <1>10, <1>11 DEF j, R

\* rate.go, NewRateTracker and Reset: no bucket has counted anything.
LEMMA AllAtType ==
  ASSUME bucketSize \in Nat \ {0}, now \in Nat
  PROVE  AllAt(now) \in [Ring -> [start : -bucketSize .. now, count : Nat]]
BY DEF AllAt

LEMMA NoEventsType == NoEvents \in [0 .. MaxTime -> 0 .. MaxBurst]
BY RateAssumption DEF NoEvents

LEMMA RateTypedStep ==
  ASSUME RateTypeOK, [RateNext]_(rateVars)
  PROVE  RateTypeOK'
<1>1. ASSUME NEW n \in 1 .. MaxBurst, RecordEvents(n) PROVE RateTypeOK'
  <2>1. UNCHANGED <<window, bucketSize, now, born>>
    BY <1>1 DEF RecordEvents
  <2>2. Ring' = Ring
    BY <2>1 DEF Ring
  <2> QED BY <1>1, <2>1, <2>2, RecordFacts DEF RateTypeOK
<1>2. CASE Reset
  <2>1. UNCHANGED <<window, bucketSize, now>> /\ born' = now
        /\ buckets' = AllAt(now) /\ events' = NoEvents
    BY <1>2 DEF Reset
  <2>2. Ring' = Ring
    BY <2>1 DEF Ring
  <2>3. bucketSize \in Nat \ {0} /\ now \in Nat
    BY DEF RateTypeOK
  <2> QED BY <2>1, <2>2, <2>3, AllAtType, NoEventsType DEF RateTypeOK
<1>3. CASE Tick
  <2>1. UNCHANGED <<window, bucketSize, buckets, born, events>> /\ now' = now + 1 /\ now < MaxTime
    BY <1>3 DEF Tick
  <2>2. Ring' = Ring
    BY <2>1 DEF Ring
  <2> DEFINE R == [start : -bucketSize .. now, count : Nat]
             Q == [start : -bucketSize .. now + 1, count : Nat]
  <2>3. now \in 0 .. MaxTime /\ MaxTime \in Nat /\ bucketSize \in Nat
    BY RateAssumption DEF RateTypeOK
  <2>4. R \subseteq Q
    BY <2>3
  <2>5. buckets \in [Ring -> R]
    BY DEF RateTypeOK
  <2> HIDE DEF R, Q
  <2>6. buckets \in [Ring -> Q]
    BY <2>4, <2>5
  <2> QED BY <2>1, <2>2, <2>3, <2>6 DEF RateTypeOK, Q
<1>4. CASE UNCHANGED rateVars
  <2>1. UNCHANGED <<window, bucketSize, buckets, now, born, events>>
    BY <1>4 DEF rateVars
  <2> QED BY <2>1 DEF RateTypeOK, Ring
<1> QED BY <1>1, <1>2, <1>3, <1>4 DEF RateNext

LEMMA RateTypedInit ==
  ASSUME RateInit
  PROVE  RateTypeOK
<1>1. PICK w \in Windows, b \in Sizes :
        /\ window = IF w <= 0 THEN Minute ELSE w
        /\ bucketSize = IF b <= 0 \/ b > window THEN Second ELSE b
  BY DEF RateInit
<1>2. w \in Int /\ b \in Int /\ Minute \in Nat \ {0} /\ Second \in Nat \ {0}
  BY RateAssumption
<1>3. window \in Nat \ {0} /\ bucketSize \in Nat \ {0}
  BY <1>1, <1>2
<1>4. now \in 0 .. MaxTime /\ born = now /\ buckets = AllAt(now) /\ events = NoEvents
  BY RateAssumption DEF RateInit
<1>5. born \in 0 .. now
  BY <1>4
<1> QED BY <1>3, <1>4, <1>5, AllAtType, NoEventsType DEF RateTypeOK

\* rate.go: the ring and its buckets keep their type, and no bucket begins
\* in the future, whatever windows and sizes were asked for.
THEOREM RateTypeCorrect == RateSpec => []RateTypeOK
BY RateTypedInit, RateTypedStep, PTL DEF RateSpec

\* rate.go, Rate: what Total is divided by is never more than the window; for
\* every ring, also one whose bucket is longer than the window.
LEMMA DivisorInWindow ==
  ASSUME RateTypeOK
  PROVE  activeDuration \in 0 .. window
<1> DEFINE I == InWindow
           e == [i \in I |-> Elapsed(buckets[i])]
           most == IF bucketSize <= window THEN bucketSize ELSE window
<1>1. /\ window \in Nat \ {0} /\ bucketSize \in Nat \ {0} /\ now \in Nat
      /\ buckets \in [Ring -> [start : -bucketSize .. now, count : Nat]]
  BY DEF RateTypeOK
<1>2. ASSUME NEW i \in I PROVE e[i] \in 0 .. most
  <2>1. i \in Ring /\ buckets[i].start >= now - window
    BY DEF InWindow
  <2>2. buckets[i].start \in -bucketSize .. now
    BY <1>1, <2>1
  <2>3. e[i] = Elapsed(buckets[i])
    OBVIOUS
  <2> DEFINE s == buckets[i].start
  <2>4. e[i] = IF now - s > bucketSize THEN bucketSize ELSE now - s
    BY <2>3 DEF Elapsed
  <2> HIDE DEF s, e
  <2>5. s \in -bucketSize .. now /\ s >= now - window
    BY <2>1, <2>2 DEF s
  <2> QED BY <1>1, <2>4, <2>5
<1>3. IsFiniteSet(I) /\ Cardinality(I) \in Nat /\ Cardinality(I) <= Buckets
  <2>1. I \subseteq Ring
    BY DEF InWindow
  <2>2. IsFiniteSet(Ring) /\ Cardinality(Ring) = Buckets
    BY RingFacts
  <2> HIDE DEF I
  <2> QED BY <2>1, <2>2, FS_Subset, FS_CardinalityType
<1>4. most \in Nat
  BY <1>1
<1>5. DOMAIN e = I
  OBVIOUS
<1> HIDE DEF I, e
<1>6. /\ SumFunctionOnSet(e, I) \in Nat
      /\ SumFunctionOnSet(e, I) <= most * Cardinality(I)
  BY <1>2, <1>3, <1>4, SumAtMostTimes
<1>7. most * Cardinality(I) <= most * Buckets
  <2>1. \A a, b, c \in Nat : a <= b => c * a <= c * b
    OBVIOUS
  <2>2. Buckets \in Nat
    BY RingFacts
  <2> QED BY <1>3, <1>4, <2>1, <2>2
<1>8. most * Buckets <= window
  <2>1. CASE bucketSize <= window
    BY <1>1, <2>1, BucketsFit DEF Buckets
  <2>2. CASE bucketSize > window
    <3>1. Buckets = 1 /\ most = window
      BY <1>1, <2>2, BucketsFit DEF Buckets
    <3> QED BY <1>1, <3>1
  <2> QED BY <1>1, <2>1, <2>2
<1>9. activeDuration = SumFunctionOnSet(e, I)
  BY <1>5, RateSums DEF activeDuration, e, I
<1> DEFINE p == most * Cardinality(I)
           q == most * Buckets
<1>10. p \in Int /\ q \in Int
  <2>1. Buckets \in Nat
    BY RingFacts
  <2> QED BY <1>3, <1>4, <2>1
<1> HIDE DEF p, q, most
<1>11. SumFunctionOnSet(e, I) <= p /\ p <= q /\ q <= window
  BY <1>6, <1>7, <1>8 DEF p, q
<1>12. SumFunctionOnSet(e, I) \in 0 .. window
  BY <1>1, <1>6, <1>10, <1>11
<1> QED BY <1>9, <1>12

\* The ticks whose events bucket i may hold.
Since(i) ==
  {t \in 0 .. now : /\ t >= buckets[i].start /\ t < buckets[i].start + bucketSize
                    /\ IndexOf[t] = i}

\* NothingStale and RateBounded are not inductive, as old counts stay where they
\* are until Record comes to them: each bucket counts no more than its own ticks
\* have had from when it began until it expired.
StaleFree ==
  \A i \in Ring : buckets[i].count <= SumFunctionOnSet(events, Since(i))

\* Sums of events.
LEMMA EventSums ==
  ASSUME NEW e \in [0 .. MaxTime -> 0 .. MaxBurst], NEW S \in SUBSET (0 .. MaxTime),
         NEW A \in SUBSET S
  PROVE  /\ IsFiniteSet(S) /\ IsFiniteSet(A)
         /\ \A t \in S : e[t] \in Nat
         /\ SumFunctionOnSet(e, A) \in Nat /\ SumFunctionOnSet(e, S) \in Nat
         /\ SumFunctionOnSet(e, A) <= SumFunctionOnSet(e, S)
<1>1. MaxTime \in Nat /\ MaxBurst \in Nat
  BY RateAssumption
<1>2. IsFiniteSet(0 .. MaxTime)
  BY <1>1, FS_Interval
<1>3. IsFiniteSet(S) /\ IsFiniteSet(A)
  <2>1. IsFiniteSet(S)
    BY <1>2, FS_Subset
  <2> QED BY <2>1, FS_Subset
<1>4. \A t \in S : e[t] \in Nat
  BY <1>1
<1> QED BY <1>3, <1>4, SumMore

LEMMA SinceType ==
  ASSUME RateTypeOK, NEW i
  PROVE  Since(i) \in SUBSET (0 .. MaxTime)
<1>1. now \in 0 .. MaxTime /\ MaxTime \in Nat
  BY RateAssumption DEF RateTypeOK
<1>2. 0 .. now \subseteq 0 .. MaxTime
  BY <1>1
<1> QED BY <1>2 DEF Since

\* One step per action.
LEMMA StaleFreeStep ==
  ASSUME RateTypeOK, RateTypeOK', StaleFree, [RateNext]_(rateVars)
  PROVE  StaleFree'
<1> DEFINE ev == events
           Sum(S) == SumFunctionOnSet(events, S)
<1>0. /\ events \in [0 .. MaxTime -> 0 .. MaxBurst] /\ now \in 0 .. MaxTime
      /\ MaxTime \in Nat /\ bucketSize \in Nat \ {0}
      /\ buckets \in [Ring -> [start : -bucketSize .. now, count : Nat]]
  BY RateAssumption DEF RateTypeOK
<1>1. ASSUME NEW n \in 1 .. MaxBurst, RecordEvents(n) PROVE StaleFree'
  <2>1. UNCHANGED <<window, bucketSize, now, born>>
    BY <1>1 DEF RecordEvents
  <2>2. Ring' = Ring /\ IndexOf' = IndexOf /\ bucketIndex = IndexOf[now]
    BY <2>1, RingFacts DEF Ring, IndexOf, Buckets
  <2>3. /\ \A i \in Ring :
              buckets'[i] = IF i = bucketIndex THEN Hit(n) ELSE buckets[i]
        /\ events' \in [0 .. MaxTime -> 0 .. MaxBurst]
        /\ \A t \in 0 .. MaxTime :
              events'[t] = IF t = now THEN events[t] + n ELSE events[t]
    BY <1>1, RecordFacts
  <2>4. n \in Nat /\ \A t \in 0 .. MaxTime : events[t] \in Nat /\ events'[t] \in Nat
    BY <1>0, <2>3
  <2> SUFFICES ASSUME NEW i \in Ring
               PROVE  buckets'[i].count <= SumFunctionOnSet(events', Since(i)')
    BY <2>2 DEF StaleFree
  <2>5. Since(i)' = {t \in 0 .. now : /\ t >= buckets'[i].start
                                      /\ t < buckets'[i].start + bucketSize
                                      /\ IndexOf[t] = i}
    BY <2>1, <2>2 DEF Since
  <2> DEFINE S == Since(i)
             T == {t \in 0 .. now : /\ t >= buckets'[i].start
                                    /\ t < buckets'[i].start + bucketSize
                                    /\ IndexOf[t] = i}
  <2>6. T \in SUBSET (0 .. MaxTime) /\ S \in SUBSET (0 .. MaxTime)
        /\ IsFiniteSet(T) /\ IsFiniteSet(S)
    <3>1. T \in SUBSET (0 .. MaxTime) /\ S \in SUBSET (0 .. MaxTime)
      BY <1>0 DEF Since
    <3> HIDE DEF T, S
    <3> QED BY <1>0, <3>1, EventSums
  <2>7. buckets[i].count \in Nat /\ buckets[i].start \in Int /\ buckets[i].start <= now
        /\ buckets[i].count <= SumFunctionOnSet(events, S)
    BY <1>0 DEF StaleFree
  <2>8. CASE i # bucketIndex
    <3>1. buckets'[i] = buckets[i]
      BY <2>3, <2>8
    <3>2. T = S
      BY <3>1 DEF Since
    <3>3. SumFunctionOnSet(events, S) = SumFunctionOnSet(events', S)
      <4>1. \A t \in S : t # now
        BY <2>2, <2>8 DEF Since
      <4>2. \A t \in S : t \in 0 .. MaxTime
        BY <2>6
      <4> HIDE DEF S
      <4>3. \A t \in S : events[t] \in Int /\ events[t] = events'[t]
        BY <2>3, <2>4, <4>1, <4>2
      <4> QED BY <2>6, <4>3, SumSame
    <3> QED BY <2>5, <2>7, <3>1, <3>2, <3>3
  <2>9. CASE i = bucketIndex
    <3>1. IndexOf[now] = i /\ now \in 0 .. now
      BY <1>0, <2>2, <2>9
    <3>2. buckets'[i] = Hit(n)
      BY <2>3, <2>9
    <3> DEFINE b == buckets[i]
    <3>3. Hit(n) = IF Expired(b) THEN [start |-> Truncated(now), count |-> n]
                                     ELSE [start |-> b.start, count |-> b.count + n]
      BY <2>9 DEF Hit
    <3>4. CASE Expired(b)
      <4>1. buckets'[i].start = Truncated(now) /\ buckets'[i].count = n
        BY <3>2, <3>3, <3>4
      <4>2. now >= buckets'[i].start /\ now < buckets'[i].start + bucketSize
        <5>1. now \in Nat
          BY <1>0
        <5>2. Truncated(now) \in Int /\ Truncated(now) <= now /\ now - bucketSize < Truncated(now)
          BY <1>0, <5>1, TruncatedRange
        <5> QED BY <1>0, <4>1, <5>1, <5>2
      <4>3. now \in T
        BY <3>1, <4>2
      <4> HIDE DEF T
      <4>4. {now} \in SUBSET T /\ SumFunctionOnSet(events', {now}) <= SumFunctionOnSet(events', T)
            /\ SumFunctionOnSet(events', {now}) \in Nat /\ SumFunctionOnSet(events', T) \in Nat
        BY <2>3, <2>6, <4>3, EventSums
      <4>5. SumFunctionOnSet(events', {now}) = events'[now]
        <5>1. IsFiniteSet({now}) /\ now \in {now} /\ events'[now] \in Int
          <6>1. IsFiniteSet({now})
            BY FS_Singleton
          <6>2. events'[now] \in Nat
            BY <1>0, <2>4
          <6> QED BY <6>1, <6>2
        <5>2. \A t \in {now} : t # now => events'[t] = 0
          OBVIOUS
        <5> QED BY <5>1, <5>2, SumOfOne, Zenon
      <4>6. events'[now] = events[now] + n /\ events[now] \in Nat
        BY <1>0, <2>3, <2>4
      <4>7. buckets'[i].count <= SumFunctionOnSet(events', T)
        BY <2>4, <4>1, <4>4, <4>5, <4>6
      <4> QED BY <2>5, <4>7 DEF T
    <3>5. CASE ~Expired(b)
      <4>1. buckets'[i].start = b.start /\ buckets'[i].count = b.count + n
        BY <3>2, <3>3, <3>5
      <4>2. T = S /\ now \in S
        <5>1. now < b.start + bucketSize
          BY <1>0, <2>7, <3>5 DEF Expired
        <5> QED BY <2>7, <3>1, <4>1, <5>1 DEF Since
      <4>3. now \in 0 .. MaxTime /\ S \in SUBSET (0 .. MaxTime)
        BY <1>0, <2>6
      <4> DEFINE R == S \ {now}
      <4> HIDE DEF S, T
      <4>4. SumFunctionOnSet(events, S) = events[now] + SumFunctionOnSet(events, R)
        <5>1. \A t \in S : events[t] \in Int
          BY <2>4, <4>3
        <5> QED BY <2>6, <4>2, <5>1, SumFirst
      <4>5. SumFunctionOnSet(events', S) = events'[now] + SumFunctionOnSet(events', R)
        <5>1. \A t \in S : events'[t] \in Int
          BY <2>4, <4>3
        <5> QED BY <2>6, <4>2, <5>1, SumFirst
      <4>6. SumFunctionOnSet(events, R) = SumFunctionOnSet(events', R)
        <5>1. IsFiniteSet(R)
          BY <2>6, FS_Subset
        <5>2. ASSUME NEW t \in R PROVE events[t] \in Int /\ events[t] = events'[t]
          <6>1. t \in 0 .. MaxTime /\ t # now
            BY <4>3
          <6>2. events'[t] = IF t = now THEN events[t] + n ELSE events[t]
            BY <2>3, <6>1
          <6>3. events[t] \in Nat
            BY <2>4, <6>1
          <6> QED BY <6>1, <6>2, <6>3
        <5> QED BY <5>1, <5>2, SumSame, Zenon
      <4>7. SumFunctionOnSet(events, R) \in Nat
        BY <1>0, <2>6, EventSums
      <4>8. events'[now] = events[now] + n /\ events[now] \in Nat
        BY <2>3, <2>4, <4>3
      <4> DEFINE x == SumFunctionOnSet(events, R)
      <4>9. SumFunctionOnSet(events, S) = events[now] + x
            /\ SumFunctionOnSet(events', S) = (events[now] + n) + x /\ x \in Nat
        BY <4>4, <4>5, <4>6, <4>7, <4>8
      <4> HIDE DEF x, b
      <4>10. b.count \in Nat /\ b.count <= SumFunctionOnSet(events, S)
        BY <2>7 DEF b
      <4>11. buckets'[i].count <= SumFunctionOnSet(events', S)
        BY <2>4, <4>1, <4>8, <4>9, <4>10
      <4> QED BY <2>5, <4>2, <4>11 DEF T
    <3> QED BY <3>4, <3>5
  <2> QED BY <2>8, <2>9
<1>2. CASE Reset
  <2>1. UNCHANGED <<window, bucketSize, now>> /\ buckets' = AllAt(now)
    BY <1>2 DEF Reset
  <2>2. Ring' = Ring
    BY <2>1 DEF Ring
  <2> SUFFICES ASSUME NEW i \in Ring
               PROVE  buckets'[i].count <= SumFunctionOnSet(events', Since(i)')
    BY <2>2 DEF StaleFree
  <2>3. buckets'[i].count = 0
    BY <2>1 DEF AllAt
  <2>4. events' \in [0 .. MaxTime -> 0 .. MaxBurst] /\ Since(i)' \in SUBSET (0 .. MaxTime)
    <3>1. now' = now
      BY <2>1
    <3>2. 0 .. now \subseteq 0 .. MaxTime
      BY <1>0
    <3> QED BY <3>1, <3>2 DEF RateTypeOK, Since
  <2>5. SumFunctionOnSet(events', Since(i)') \in Nat
    BY <2>4, EventSums
  <2> QED BY <2>3, <2>5
<1>3. CASE Tick
  <2>1. UNCHANGED <<window, bucketSize, buckets, born, events>> /\ now' = now + 1 /\ now < MaxTime
    BY <1>3 DEF Tick
  <2>2. Ring' = Ring /\ IndexOf' = IndexOf
    BY <2>1 DEF Ring, IndexOf, Buckets
  <2> SUFFICES ASSUME NEW i \in Ring
               PROVE  buckets[i].count <= SumFunctionOnSet(events, Since(i)')
    BY <2>1, <2>2 DEF StaleFree
  <2>3. Since(i) \in SUBSET Since(i)' /\ Since(i)' \in SUBSET (0 .. MaxTime)
    BY <1>0, <2>1, <2>2 DEF Since
  <2>4. /\ SumFunctionOnSet(events, Since(i)) \in Nat /\ SumFunctionOnSet(events, Since(i)') \in Nat
        /\ SumFunctionOnSet(events, Since(i)) <= SumFunctionOnSet(events, Since(i)')
    BY <1>0, <2>3, EventSums
  <2>5. buckets[i].count \in Nat /\ buckets[i].count <= SumFunctionOnSet(events, Since(i))
    BY <1>0 DEF StaleFree
  <2> QED BY <2>4, <2>5
<1>4. CASE UNCHANGED rateVars
  <2>1. UNCHANGED <<window, bucketSize, buckets, now, born, events>>
    BY <1>4 DEF rateVars
  <2>2. Ring' = Ring /\ IndexOf' = IndexOf
    BY <2>1 DEF Ring, IndexOf, Buckets
  <2> QED BY <2>1, <2>2 DEF StaleFree, Since
<1> QED BY <1>1, <1>2, <1>3, <1>4 DEF RateNext

LEMMA StaleFreeInvariant == RateSpec => []StaleFree
<1>1. ASSUME RateInit PROVE StaleFree
  <2> SUFFICES ASSUME NEW i \in Ring
               PROVE  buckets[i].count <= SumFunctionOnSet(events, Since(i))
    BY DEF StaleFree
  <2>1. buckets[i].count = 0
    BY <1>1 DEF RateInit, AllAt
  <2>2. events \in [0 .. MaxTime -> 0 .. MaxBurst] /\ Since(i) \in SUBSET (0 .. MaxTime)
    BY <1>1, RateTypedInit, SinceType DEF RateTypeOK
  <2>3. SumFunctionOnSet(events, Since(i)) \in Nat
    BY <2>2, EventSums
  <2> QED BY <2>1, <2>3
<1> QED BY <1>1, StaleFreeStep, RateTypeCorrect, PTL DEF RateSpec

\* rate.go, Total: what has left the window is not counted, although nothing but
\* Record ever empties a bucket.
THEOREM TotalNeverStale == RateSpec => []NothingStale
<1>1. ASSUME RateTypeOK, StaleFree PROVE NothingStale
  <2> DEFINE I == InWindow
             W == {t \in 0 .. now : t >= now - window}
             mine == [i \in I |-> SumFunctionOnSet(events, Class(W, IndexOf, i))]
             c == [i \in I |-> buckets[i].count]
  <2>1. /\ window \in Nat \ {0} /\ bucketSize \in Nat \ {0} /\ now \in 0 .. MaxTime /\ MaxTime \in Nat
        /\ buckets \in [Ring -> [start : -bucketSize .. now, count : Nat]]
        /\ events \in [0 .. MaxTime -> 0 .. MaxBurst]
    BY <1>1, RateAssumption DEF RateTypeOK
  <2>2. W \in SUBSET (0 .. MaxTime)
    BY <2>1
  <2>3. IsFiniteSet(I) /\ I \subseteq Ring
    <3>1. I \subseteq Ring
      BY DEF InWindow
    <3> HIDE DEF I
    <3> QED BY <1>1, <3>1, RingFacts, FS_Subset
  <2>4. ASSUME NEW i \in I PROVE c[i] \in Nat /\ mine[i] \in Nat /\ c[i] <= mine[i]
    <3> DEFINE M == Class(W, IndexOf, i)
    <3>1. i \in Ring /\ buckets[i].start >= now - window
      BY DEF InWindow
    <3>2. buckets[i].start \in Int /\ buckets[i].count \in Nat
      BY <2>1, <3>1
    <3>3. Since(i) \in SUBSET M /\ M \in SUBSET (0 .. MaxTime)
      BY <2>1, <3>1, <3>2 DEF Since, Class
    <3>4. c[i] = buckets[i].count /\ mine[i] = SumFunctionOnSet(events, M)
      OBVIOUS
    <3> HIDE DEF M, c, mine
    <3>5. /\ SumFunctionOnSet(events, Since(i)) \in Nat /\ SumFunctionOnSet(events, M) \in Nat
          /\ SumFunctionOnSet(events, Since(i)) <= SumFunctionOnSet(events, M)
      BY <2>1, <3>3, EventSums
    <3>6. buckets[i].count <= SumFunctionOnSet(events, Since(i))
      BY <1>1, <3>1 DEF StaleFree
    <3> QED BY <3>2, <3>4, <3>5, <3>6
  <2>5. Total = SumFunctionOnSet(c, I)
    BY RateSums DEF Total
  <2>6. EventsIn({t \in 0 .. now : t >= now - window}) = SumFunctionOnSet(events, W)
    BY RateSums DEF EventsIn
  <2>7. \A i \in I : mine[i] = SumFunctionOnSet(events, Class(W, IndexOf, i))
    OBVIOUS
  <2> DEFINE V == Classes(W, IndexOf, I)
  <2>8. V \in SUBSET W
    BY DEF Classes
  <2> HIDE DEF I, W, c, mine, V
  <2>9. /\ SumFunctionOnSet(c, I) \in Int /\ SumFunctionOnSet(mine, I) \in Int
        /\ SumFunctionOnSet(c, I) <= SumFunctionOnSet(mine, I)
    BY <2>3, <2>4, SumAtMost
  <2>10. SumFunctionOnSet(mine, I) = SumFunctionOnSet(events, V)
    <3>1. IsFiniteSet(W) /\ \A t \in W : events[t] \in Int
      BY <2>1, <2>2, EventSums
    <3>2. IsFiniteSet(I)
      BY <2>3
    <3> QED BY <2>7, <3>1, <3>2, SumByClass DEF V
  <2>11. /\ SumFunctionOnSet(events, V) \in Nat /\ SumFunctionOnSet(events, W) \in Nat
         /\ SumFunctionOnSet(events, V) <= SumFunctionOnSet(events, W)
    BY <2>1, <2>2, <2>8, EventSums
  <2>12. SumFunctionOnSet(c, I) <= SumFunctionOnSet(events, W)
    BY <2>9, <2>10, <2>11
  <2> QED BY <2>5, <2>6, <2>12 DEF NothingStale
<1> QED BY <1>1, StaleFreeInvariant, RateTypeCorrect, PTL

\* Terms bounded by a multiple of one function and one more.
LEMMA SumBounded ==
  ASSUME NEW S, IsFiniteSet(S), NEW b \in Nat, NEW c, NEW e, NEW h,
         \A x \in S : c[x] \in Nat /\ e[x] \in Nat /\ h[x] \in Nat /\ c[x] <= b * e[x] + h[x]
  PROVE  /\ SumFunctionOnSet(c, S) \in Nat /\ SumFunctionOnSet(e, S) \in Nat
         /\ SumFunctionOnSet(h, S) \in Nat
         /\ SumFunctionOnSet(c, S) <= b * SumFunctionOnSet(e, S) + SumFunctionOnSet(h, S)
<1> DEFINE sc(T) == SumFunctionOnSet(c, T)
           se(T) == SumFunctionOnSet(e, T)
           sh(T) == SumFunctionOnSet(h, T)
           G == {T \in SUBSET S : sc(T) <= b * se(T) + sh(T)}
<1>1. sc({}) = 0 /\ se({}) = 0 /\ sh({}) = 0
  BY SumStep
<1>2. \A T \in SUBSET S : T # {} =>
        /\ sc(T) = c[Pick(T)] + sc(T \ {Pick(T)})
        /\ se(T) = e[Pick(T)] + se(T \ {Pick(T)})
        /\ sh(T) = h[Pick(T)] + sh(T \ {Pick(T)})
  BY SumStep
<1>3. ASSUME NEW T \in SUBSET S PROVE sc(T) \in Nat /\ se(T) \in Nat /\ sh(T) \in Nat
  <2>1. IsFiniteSet(T)
    BY FS_Subset
  <2> QED BY <2>1, SumOfNumbers
<1> HIDE DEF sc, se, sh
<1>4. {} \in G
  BY <1>1
<1>5. ASSUME NEW T \in SUBSET S, T # {}, T \ {Pick(T)} \in G PROVE T \in G
  <2> DEFINE x == Pick(T)
             U == T \ {x}
             p == b * e[x]
             q == b * se(U)
  <2>1. x \in S /\ U \in SUBSET S
    BY <1>5 DEF Pick
  <2>2. sc(T) = c[x] + sc(U) /\ se(T) = e[x] + se(U) /\ sh(T) = h[x] + sh(U)
    BY <1>2, <1>5
  <2>3. sc(U) <= q + sh(U)
    BY <1>5
  <2> HIDE DEF x, U
  <2>4. c[x] \in Nat /\ e[x] \in Nat /\ h[x] \in Nat /\ c[x] <= p + h[x]
    BY <2>1
  <2>5. sc(U) \in Nat /\ se(U) \in Nat /\ sh(U) \in Nat
    BY <1>3, <2>1
  <2>6. b * se(T) = p + q /\ p \in Nat /\ q \in Nat
    <3>1. ASSUME NEW v \in Nat, NEW w \in Nat
          PROVE  b * (v + w) = b * v + b * w /\ b * v \in Nat
      OBVIOUS
    <3>2. se(T) = e[x] + se(U) /\ e[x] \in Nat /\ se(U) \in Nat
      BY <2>2, <2>4, <2>5
    <3>3. b * (e[x] + se(U)) = b * e[x] + b * se(U) /\ b * e[x] \in Nat /\ b * se(U) \in Nat
      BY <3>1, <3>2, Zenon
    <3> QED BY <3>2, <3>3, Zenon
  <2> HIDE DEF p, q
  <2>7. sc(T) <= (p + q) + sh(T)
    BY <2>2, <2>3, <2>4, <2>5, <2>6
  <2> QED BY <2>6, <2>7
<1> HIDE DEF G
<1>6. S \in G
  BY <1>4, <1>5, SubsetInduction
<1>7. sc(S) \in Nat /\ se(S) \in Nat /\ sh(S) \in Nat
  BY <1>3
<1> QED BY <1>6, <1>7 DEF G, sc, se, sh

\* rate.go, Rate: a bucket in the window counts no more than the busiest tick
\* could have given it in the time that Rate takes for it.
LEMMA BucketBounded ==
  ASSUME RateTypeOK, StaleFree, NEW peak \in Nat,
         \A t \in 0 .. now : t >= now - window => events[t] <= peak,
         NEW i \in InWindow
  PROVE  /\ buckets[i].count \in Nat /\ Elapsed(buckets[i]) \in Nat
         /\ buckets[i].count <= peak * Elapsed(buckets[i])
                                 + (IF i = bucketIndex THEN events[now] ELSE 0)
<1> DEFINE s == buckets[i].start
           b == bucketSize
           el == IF now - s > b THEN b ELSE now - s
           S == Since(i)
           R == S \ {now}
           L == s .. (s + el) - 1
<1>1. /\ b \in Nat \ {0} /\ window \in Nat \ {0} /\ now \in 0 .. MaxTime /\ now \in Nat
      /\ events \in [0 .. MaxTime -> 0 .. MaxBurst] /\ MaxBurst \in Nat
  BY RateAssumption DEF RateTypeOK
<1>2. /\ i \in Ring /\ s >= now - window /\ s \in -b .. now /\ buckets[i].count \in Nat
  BY DEF RateTypeOK, InWindow
<1>3. Elapsed(buckets[i]) = el
  BY DEF Elapsed
<1>4. S = {t \in 0 .. now : t >= s /\ t < s + b /\ IndexOf[t] = i}
  BY DEF Since
<1>5. buckets[i].count <= SumFunctionOnSet(events, S)
  BY <1>2 DEF StaleFree
<1>6. S \in SUBSET (0 .. MaxTime)
  BY SinceType
<1>7. bucketIndex = IndexOf[now]
  BY RingFacts
<1> HIDE DEF s, b, S
<1>8. el \in Nat /\ s \in Int /\ s + el <= now /\ s + el <= s + b
  BY <1>1, <1>2
<1> HIDE DEF el
<1>9. R \subseteq L
  <2> SUFFICES ASSUME NEW t \in S, t # now PROVE t \in L
    OBVIOUS
  <2>1. t \in Nat /\ t <= now /\ t >= s /\ t < s + b
    BY <1>1, <1>4
  <2>2. t < s + el
    BY <1>1, <1>2, <2>1 DEF el
  <2> QED BY <1>8, <2>1, <2>2
<1>10. IsFiniteSet(L) /\ Cardinality(L) = el
  <2> DEFINE z == (s + el) - 1
  <2>1. z \in Int /\ s \in Int
    BY <1>8
  <2>2. s <= z => z - s + 1 = el
    BY <1>8
  <2>3. s > z => el = 0
    BY <1>8
  <2> HIDE DEF z
  <2>4. IsFiniteSet(s .. z) /\ Cardinality(s .. z) = IF s > z THEN 0 ELSE z - s + 1
    BY <2>1, FS_Interval
  <2>5. Cardinality(s .. z) = el
    BY <2>1, <2>2, <2>3, <2>4
  <2> QED BY <2>4, <2>5 DEF z
<1> HIDE DEF L
<1>11. IsFiniteSet(R) /\ Cardinality(R) \in Nat /\ Cardinality(R) <= el
  BY <1>9, <1>10, FS_Subset, FS_CardinalityType
<1>12. \A t \in R : events[t] \in 0 .. peak
  <2> SUFFICES ASSUME NEW t \in R PROVE events[t] \in 0 .. peak
    OBVIOUS
  <2>1. t \in 0 .. now /\ t >= s
    BY <1>4
  <2>2. t >= now - window /\ t \in 0 .. MaxTime
    BY <1>1, <1>2, <1>6, <2>1
  <2>3. events[t] <= peak
    BY <2>1, <2>2
  <2>4. events[t] \in Nat
    BY <1>1, <2>2
  <2> QED BY <2>3, <2>4
<1>13. /\ SumFunctionOnSet(events, R) \in Nat
       /\ SumFunctionOnSet(events, R) <= peak * Cardinality(R)
  <2> HIDE DEF R
  <2> QED BY <1>11, <1>12, SumAtMostTimes
<1>14. peak * Cardinality(R) <= peak * el /\ peak * Cardinality(R) \in Nat /\ peak * el \in Nat
  <2>1. \A v, w \in Nat : v <= w => peak * v <= peak * w /\ peak * v \in Nat /\ peak * w \in Nat
    OBVIOUS
  <2> QED BY <1>8, <1>11, <2>1
<1>15. events[now] \in Nat
  BY <1>1
<1>16. SumFunctionOnSet(events, S) <=
         SumFunctionOnSet(events, R) + (IF i = bucketIndex THEN events[now] ELSE 0)
  <2>1. CASE now \in S
    <3>1. i = bucketIndex
      BY <1>4, <1>7, <2>1
    <3>2. IsFiniteSet(S) /\ \A t \in S : events[t] \in Int
      <4>1. IsFiniteSet(S)
        BY <1>1, <1>6, EventSums
      <4>2. \A t \in S : events[t] \in Nat
        BY <1>1, <1>6, EventSums
      <4> QED BY <4>1, <4>2
    <3>3. SumFunctionOnSet(events, S) = events[now] + SumFunctionOnSet(events, R)
      BY <2>1, <3>2, SumFirst
    <3> HIDE DEF R
    <3> QED BY <1>13, <1>15, <3>1, <3>3
  <2>2. CASE now \notin S
    <3>1. R = S
      BY <2>2
    <3> HIDE DEF R
    <3> QED BY <1>13, <1>15, <3>1
  <2> QED BY <2>1, <2>2
<1> DEFINE x == IF i = bucketIndex THEN events[now] ELSE 0
           y == SumFunctionOnSet(events, R)
           p == peak * el
           n == SumFunctionOnSet(events, S)
<1>17. x \in Nat /\ y \in Nat /\ p \in Nat /\ y <= p
  <2>1. x \in Nat
    BY <1>15
  <2> HIDE DEF x, R
  <2> QED BY <1>13, <1>14, <2>1
<1>18. n \in Nat
  BY <1>1, <1>6, EventSums
<1>19. n <= y + x /\ buckets[i].count <= n
  BY <1>5, <1>16
<1> HIDE DEF x, y, p, n
<1>20. buckets[i].count <= p + x
  BY <1>2, <1>17, <1>18, <1>19
<1> QED BY <1>2, <1>3, <1>8, <1>20 DEF x, p

\* rate.go, Rate: for every window and bucket size, the divisor is neither more
\* than the window, nor so little that idle or young buckets make a rate that
\* no tick of the window had.
THEOREM RateStaysBounded == RateSpec => []RateBounded
<1>1. ASSUME RateTypeOK, StaleFree PROVE RateBounded
  <2> DEFINE I == InWindow
             c == [i \in I |-> buckets[i].count]
             e == [i \in I |-> Elapsed(buckets[i])]
             h == [i \in I |-> IF i = bucketIndex THEN events[now] ELSE 0]
  <2>1. now \in 0 .. MaxTime /\ window \in Nat /\ events[now] \in Nat /\ MaxBurst \in Nat
    BY <1>1, RateAssumption DEF RateTypeOK
  <2>2. activeDuration \in 0 .. window
    BY <1>1, DivisorInWindow
  <2>3. IsFiniteSet(I)
    <3>1. I \subseteq Ring
      BY DEF InWindow
    <3> HIDE DEF I
    <3> QED BY <1>1, <3>1, RingFacts, FS_Subset
  <2>4. Total = SumFunctionOnSet(c, I) /\ activeDuration = SumFunctionOnSet(e, I)
    <3>1. DOMAIN c = I /\ DOMAIN e = I
      OBVIOUS
    <3>2. Total = SumFunction(c) /\ activeDuration = SumFunction(e)
      BY DEF Total, activeDuration
    <3> HIDE DEF c, e, I
    <3> QED BY <3>1, <3>2, RateSums
  <2>5. ASSUME NEW peak \in 0 .. MaxBurst,
               \A t \in 0 .. now : t >= now - window => events[t] <= peak
        PROVE  Total <= peak * activeDuration + events[now]
    <3>1. peak \in Nat
      BY <2>1
    <3>2. ASSUME NEW i \in I
          PROVE  c[i] \in Nat /\ e[i] \in Nat /\ h[i] \in Nat /\ c[i] <= peak * e[i] + h[i]
      <4>1. /\ buckets[i].count \in Nat /\ Elapsed(buckets[i]) \in Nat
            /\ buckets[i].count <= peak * Elapsed(buckets[i])
                                    + (IF i = bucketIndex THEN events[now] ELSE 0)
        BY <1>1, <2>5, <3>1, BucketBounded
      <4>2. c[i] = buckets[i].count /\ e[i] = Elapsed(buckets[i])
            /\ h[i] = IF i = bucketIndex THEN events[now] ELSE 0
        OBVIOUS
      <4>3. h[i] \in Nat
        BY <2>1, <4>2
      <4> HIDE DEF c, e, h
      <4> QED BY <4>1, <4>2, <4>3
    <3>3. \A i \in I : i # bucketIndex => h[i] = 0
      OBVIOUS
    <3>4. bucketIndex \in I => h[bucketIndex] = events[now]
      OBVIOUS
    <3> HIDE DEF I, c, e, h
    <3>5. /\ SumFunctionOnSet(c, I) \in Nat /\ SumFunctionOnSet(e, I) \in Nat
          /\ SumFunctionOnSet(h, I) \in Nat
          /\ SumFunctionOnSet(c, I) <= peak * SumFunctionOnSet(e, I) + SumFunctionOnSet(h, I)
      BY <2>3, <3>1, <3>2, SumBounded
    <3>6. SumFunctionOnSet(h, I) <= events[now]
      <4>1. CASE bucketIndex \in I
        <5>1. h[bucketIndex] \in Int
          BY <2>1, <3>4, <4>1
        <5>2. SumFunctionOnSet(h, I) = h[bucketIndex]
          BY <2>3, <3>3, <4>1, <5>1, SumOfOne
        <5> QED BY <2>1, <3>4, <4>1, <5>2
      <4>2. CASE bucketIndex \notin I
        <5>1. \A i \in I : h[i] \in 0 .. 0
          BY <3>3, <4>2
        <5>2. SumFunctionOnSet(h, I) <= 0 * Cardinality(I)
          BY <2>3, <5>1, SumAtMostTimes
        <5>3. 0 * Cardinality(I) = 0
          BY <2>3, FS_CardinalityType
        <5> QED BY <2>1, <3>5, <5>2, <5>3
      <4> QED BY <4>1, <4>2
    <3> DEFINE p == peak * SumFunctionOnSet(e, I)
    <3>7. p \in Nat
      BY <3>1, <3>5
    <3>8. SumFunctionOnSet(c, I) <= p + SumFunctionOnSet(h, I)
      BY <3>5
    <3> HIDE DEF p
    <3>9. SumFunctionOnSet(c, I) <= p + events[now]
      BY <2>1, <3>5, <3>6, <3>7, <3>8
    <3> QED BY <2>4, <3>9 DEF p
  <2>6. activeDuration <= window
    BY <2>1, <2>2
  <2> QED BY <2>5, <2>6 DEF RateBounded
<1> QED BY <1>1, StaleFreeInvariant, RateTypeCorrect, PTL

\* The cell of a tick: bucketIndex is its remainder.
Cell(t) == t \div bucketSize

LEMMA CellFacts ==
  ASSUME bucketSize \in Nat \ {0}, NEW t \in Nat
  PROVE  /\ Cell(t) \in Int
         /\ Cell(t) * bucketSize \in Int /\ Cell(t) * bucketSize <= t
         /\ t < (Cell(t) + 1) * bucketSize
<1> DEFINE b == bucketSize
           q == t \div b
           r == t % b
<1>1. b \in Nat \ {0}
  OBVIOUS
<1>2. Cell(t) = q
  BY DEF Cell
<1> HIDE DEF b
<1>3. q \in Int /\ r \in 0 .. b - 1 /\ t = (b * q) + r
  BY <1>1, ModParts
<1> HIDE DEF q, r
<1>4. q * b = b * q /\ (q + 1) * b = (b * q) + b /\ b * q \in Int
  BY <1>1, <1>3
<1> QED BY <1>1, <1>2, <1>3, <1>4 DEF b

\* Later ticks lie in later cells.
LEMMA CellOrder ==
  ASSUME bucketSize \in Nat \ {0}, NEW t \in Nat, NEW u \in Nat, t <= u
  PROVE  Cell(t) <= Cell(u)
<1> DEFINE b == bucketSize
           p == Cell(t)
           q == Cell(u)
<1>1. p \in Int /\ q \in Int /\ b \in Nat \ {0} /\ p * b <= t /\ u < (q + 1) * b
  BY CellFacts
<1> HIDE DEF b, p, q
<1> SUFFICES ASSUME q + 1 <= p PROVE FALSE
  BY <1>1 DEF p, q
<1>2. (q + 1) * b <= p * b /\ (q + 1) * b \in Int /\ p * b \in Int
  <2>1. \A v, w \in Int, c \in Nat : v <= w => v * c <= w * c
    OBVIOUS
  <2>2. q + 1 \in Int /\ p \in Int /\ b \in Nat
    BY <1>1
  <2> QED BY <2>1, <2>2
<1> QED BY <1>1, <1>2

\* rate.go, Record: the ticks whose events bucket i still has, all of one cell.
Live(i) == {t \in WellPlaced : IndexOf[t] = i /\ Cell(t) > Cell(now) - Buckets}

\* KeepsRecent is not inductive: it says nothing of when a bucket is renewed.  A
\* bucket that has events of a cell began in it, and so is not renewed before
\* the ring comes round.
KeepInv ==
  /\ \A t \in now + 1 .. MaxTime : events[t] = 0
  /\ \A i \in Ring :
       /\ SumFunctionOnSet(events, Live(i)) <= buckets[i].count
       /\ \A t \in Live(i) : events[t] > 0 => buckets[i].start >= Cell(t) * bucketSize
       /\ \/ buckets[i].start = born
          \/ \E q \in Int : buckets[i].start = (q * bucketSize) - Epoch
  /\ Cell(now) = Cell(born) => \A i \in Ring : buckets[i].start = born

\* What is live is well placed, and in the last cell of its index.
LEMMA LiveFacts ==
  ASSUME RateTypeOK, NEW i
  PROVE  /\ Live(i) \in SUBSET (0 .. MaxTime)
         /\ \A t \in Live(i) : t \in WellPlaced /\ t \in born .. now
         /\ i = bucketIndex => \A t \in Live(i) : Cell(t) = Cell(now)
<1>1. /\ now \in Nat /\ now \in 0 .. MaxTime /\ MaxTime \in Nat /\ born \in 0 .. now
      /\ bucketSize \in Nat \ {0}
  BY RateAssumption DEF RateTypeOK
<1>2. \A t \in Live(i) : t \in WellPlaced /\ t \in born .. now
  BY DEF Live, WellPlaced
<1>3. Live(i) \in SUBSET (0 .. MaxTime)
  BY <1>1, <1>2
<1>4. ASSUME i = bucketIndex, NEW t \in Live(i)
      PROVE  Cell(t) = Cell(now)
  <2> DEFINE n == Buckets
             a == Cell(t)
             b == Cell(now)
  <2>1. n \in Nat \ {0} /\ IndexOf[now] = i
    BY <1>4, RingFacts
  <2>2. t \in Nat /\ t \in 0 .. MaxTime /\ t <= now
    BY <1>1, <1>2
  <2>3. a \in Int /\ b \in Int /\ a <= b
    BY <1>1, <2>2, CellFacts, CellOrder
  <2>4. IndexOf[t] = i /\ a > b - n
    BY DEF Live
  <2>5. a % n = i /\ b % n = i
    BY <1>1, <2>1, <2>2, <2>4 DEF IndexOf, Cell
  <2> HIDE DEF n, a, b
  <2>6. b < a + n
    BY <2>1, <2>3, <2>4
  <2>7. a = b
    BY <2>1, <2>3, <2>5, <2>6, ModSame
  <2> QED BY <2>7 DEF a, b
<1> QED BY <1>2, <1>3, <1>4

\* A bucket that is renewed has no live events to lose.
LEMMA LiveNotExpired ==
  ASSUME RateTypeOK, KeepInv,
         NEW t \in Live(bucketIndex), events[t] > 0
  PROVE  ~Expired(buckets[bucketIndex])
<1> DEFINE j == bucketIndex
           s == buckets[j].start
           c == Cell(now)
<1>1. now \in Nat /\ bucketSize \in Nat \ {0} /\ j \in Ring
      /\ buckets \in [Ring -> [start : -bucketSize .. now, count : Nat]]
  BY RingFacts DEF RateTypeOK
<1>2. s \in Int
  BY <1>1
<1>3. s >= Cell(t) * bucketSize /\ Cell(t) = c
  BY <1>1, LiveFacts DEF KeepInv
<1>4. c \in Int /\ c * bucketSize \in Int /\ now < (c + 1) * bucketSize
  BY <1>1, CellFacts
<1> HIDE DEF s, c
<1>5. (c + 1) * bucketSize = (c * bucketSize) + bucketSize
  BY <1>1, <1>4
<1>6. s >= c * bucketSize
  BY <1>3
<1>7. ~(now - s >= bucketSize)
  BY <1>1, <1>2, <1>4, <1>5, <1>6
<1> QED BY <1>7 DEF Expired, s

\* And a bucket that takes a live event begins in its cell.
LEMMA LiveBegins ==
  ASSUME RateTypeOK, KeepInv, now \in WellPlaced, NEW n
  PROVE  Hit(n).start >= Cell(now) * bucketSize
<1> DEFINE j == bucketIndex
           s == buckets[j].start
           c == Cell(now)
           u == Truncated(now)
           b == bucketSize
<1>1. now \in Nat /\ b \in Nat \ {0} /\ j \in Ring /\ Epoch \in Nat
      /\ born \in Nat /\ born <= now
      /\ buckets \in [Ring -> [start : -bucketSize .. now, count : Nat]]
  BY RingFacts, RateAssumption DEF RateTypeOK
<1>2. s \in Int /\ s <= now
  BY <1>1
<1>3. c \in Int /\ c * b \in Int
  BY <1>1, CellFacts
<1>4. Hit(n).start = IF now - s >= b THEN u ELSE s
  BY DEF Hit, Expired
<1>5. \/ c = Cell(born)
      \/ now >= born + b /\ u >= c * b
  BY DEF WellPlaced, Cell
<1>6. CASE c = Cell(born)
  <2>1. s = born
    BY <1>1, <1>6 DEF KeepInv
  <2>2. c * b <= born /\ now < (c + 1) * b
    BY <1>1, <1>6, CellFacts
  <2> HIDE DEF s, c, u, b
  <2>3. (c + 1) * b = (c * b) + b
    BY <1>1, <1>3
  <2> QED BY <1>1, <1>3, <1>4, <2>1, <2>2, <2>3 DEF s, c, b
<1>7. CASE now >= born + b /\ u >= c * b
  <2>1. CASE now - s >= b
    BY <1>4, <1>7, <2>1
  <2>2. CASE now - s < b
    <3>1. s # born
      BY <1>1, <1>7, <2>2
    <3>2. PICK q \in Int : s = (q * b) - Epoch
      BY <1>1, <3>1 DEF KeepInv
    <3> DEFINE a == now + Epoch
               p == a \div b
               r == a % b
    <3>3. a \in Int
      BY <1>1
    <3>4. u = (p * b) - Epoch
      BY DEF Truncated
    <3> HIDE DEF s, c, u, b
    <3>5. a - (q * b) = now - s /\ q * b \in Int
      BY <1>1, <1>2, <3>2
    <3>6. now - s \in 0 .. b - 1
      BY <1>1, <1>2, <2>2
    <3>7. p = q
      <4> HIDE DEF a
      <4>1. p \in Int /\ r \in 0 .. b - 1 /\ a = (b * p) + r
        BY <1>1, <3>3, ModParts
      <4> HIDE DEF p, r
      <4> DEFINE e == a - (q * b)
      <4>2. e \in 0 .. b - 1
        BY <3>5, <3>6
      <4>3. a = (b * q) + e
        <5>1. q * b = b * q
          BY <1>1
        <5> QED BY <3>3, <3>5, <5>1
      <4> HIDE DEF e
      <4>4. b * (p - q) = e - r
        <5>1. b * (p - q) = (b * p) - (b * q) /\ b * p \in Int /\ b * q \in Int
          BY <1>1, <4>1
        <5> QED BY <4>1, <4>2, <4>3, <5>1
      <4>5. p - q \in Int
        BY <4>1
      <4>6. ~(p - q >= 1)
        <5> SUFFICES ASSUME p - q >= 1 PROVE FALSE
          OBVIOUS
        <5>1. b * (p - q) >= b
          BY <1>1, <4>5
        <5> QED BY <1>1, <4>1, <4>2, <4>4, <5>1
      <4>7. ~(p - q <= -1)
        <5> SUFFICES ASSUME p - q <= -1 PROVE FALSE
          OBVIOUS
        <5>1. b * (p - q) <= -b
          BY <1>1, <4>5
        <5> QED BY <1>1, <4>1, <4>2, <4>4, <5>1
      <4> QED BY <4>1, <4>5, <4>6, <4>7
    <3>8. u = s
      BY <3>2, <3>4, <3>7
    <3> QED BY <1>4, <1>7, <2>2, <3>8 DEF s, c, u, b
  <2> QED BY <1>1, <1>2, <2>1, <2>2
<1> QED BY <1>5, <1>6, <1>7

\* Ticks without events add nothing.
LEMMA NoEventsSum ==
  ASSUME NEW e, NEW S \in SUBSET (0 .. MaxTime), \A t \in S : e[t] = 0
  PROVE  SumFunctionOnSet(e, S) = 0
<1>1. IsFiniteSet(S)
  <2>1. IsFiniteSet(0 .. MaxTime)
    BY FS_Interval, RateAssumption
  <2> QED BY <2>1, FS_Subset
<1>2. \A t \in S : e[t] \in 0 .. 0
  OBVIOUS
<1>3. SumFunctionOnSet(e, S) \in Nat /\ SumFunctionOnSet(e, S) <= 0 * Cardinality(S)
  <2>1. 0 \in Nat
    OBVIOUS
  <2> QED BY <1>1, <1>2, <2>1, SumAtMostTimes
<1>4. Cardinality(S) \in Nat
  BY <1>1, FS_CardinalityType
<1> DEFINE c == Cardinality(S)
<1> HIDE DEF c
<1>5. c \in Nat => 0 * c = 0
  OBVIOUS
<1>6. 0 * c = 0
  BY <1>4, <1>5 DEF c
<1> QED BY <1>3, <1>6 DEF c

\* What Record adds to the events of S.
LEMMA RecordSum ==
  ASSUME RateTypeOK, NEW n \in 1 .. MaxBurst, RecordEvents(n),
         NEW S \in SUBSET (0 .. MaxTime)
  PROVE  SumFunctionOnSet(events', S) = IF now \in S THEN SumFunctionOnSet(events, S) + n
                                                     ELSE SumFunctionOnSet(events, S)
<1> DEFINE R == S \ {now}
<1>1. /\ events \in [0 .. MaxTime -> 0 .. MaxBurst] /\ events' \in [0 .. MaxTime -> 0 .. MaxBurst]
      /\ \A t \in 0 .. MaxTime :
              events'[t] = IF t = now THEN events[t] + n ELSE events[t]
      /\ n \in Nat
  BY RecordFacts DEF RateTypeOK
<1>2. \A t \in 0 .. MaxTime : events[t] \in Nat /\ events'[t] \in Nat
  BY <1>1
<1>3. IsFiniteSet(S) /\ IsFiniteSet(R) /\ R \in SUBSET (0 .. MaxTime)
  BY <1>1, EventSums
<1>4. SumFunctionOnSet(events, R) = SumFunctionOnSet(events', R)
  <2>1. ASSUME NEW t \in R PROVE events[t] \in Int /\ events[t] = events'[t]
    <3>1. t \in 0 .. MaxTime /\ t # now
      OBVIOUS
    <3> QED BY <1>1, <1>2, <3>1
  <2> HIDE DEF R
  <2> QED BY <1>3, <2>1, SumSame, Zenon
<1>5. CASE now \in S
  <2>1. SumFunctionOnSet(events, S) = events[now] + SumFunctionOnSet(events, R)
    <3>1. \A t \in S : events[t] \in Int
      BY <1>2
    <3> QED BY <1>3, <1>5, <3>1, SumFirst
  <2>2. SumFunctionOnSet(events', S) = events'[now] + SumFunctionOnSet(events', R)
    <3>1. \A t \in S : events'[t] \in Int
      BY <1>2
    <3> QED BY <1>3, <1>5, <3>1, SumFirst
  <2>3. SumFunctionOnSet(events, R) \in Nat
    BY <1>1, <1>3, EventSums
  <2>4. events'[now] = events[now] + n /\ events[now] \in Nat
    BY <1>1, <1>2, <1>5
  <2> DEFINE x == SumFunctionOnSet(events, R)
  <2>5. SumFunctionOnSet(events, S) = events[now] + x
        /\ SumFunctionOnSet(events', S) = (events[now] + n) + x /\ x \in Nat
    BY <1>4, <2>1, <2>2, <2>3, <2>4
  <2> HIDE DEF x
  <2>6. SumFunctionOnSet(events', S) = SumFunctionOnSet(events, S) + n
    BY <1>1, <2>4, <2>5
  <2> QED BY <1>5, <2>6
<1>6. CASE now \notin S
  <2>1. R = S
    BY <1>6
  <2> QED BY <1>4, <1>6, <2>1
<1> QED BY <1>5, <1>6

LEMMA KeepRecord ==
  ASSUME RateTypeOK, KeepInv, NEW n \in 1 .. MaxBurst, RecordEvents(n)
  PROVE  KeepInv'
<1> DEFINE j == bucketIndex
<1>1. UNCHANGED <<window, bucketSize, now, born>>
  BY DEF RecordEvents
<1>2. /\ Ring' = Ring /\ IndexOf' = IndexOf /\ j = IndexOf[now] /\ j \in Ring
      /\ \A t : Cell(t)' = Cell(t)
  BY <1>1, RingFacts DEF Ring, IndexOf, Buckets, Cell
<1>3. \A i : Live(i)' = Live(i)
  <2>1. WellPlaced' = WellPlaced
    BY <1>1 DEF WellPlaced, Truncated
  <2>2. Buckets' = Buckets /\ Cell(now)' = Cell(now)
    BY <1>1 DEF Buckets, Cell
  <2> QED BY <1>1, <1>2, <2>1, <2>2 DEF Live, Cell
<1>4. /\ \A i \in Ring : buckets'[i] = IF i = j THEN Hit(n) ELSE buckets[i]
      /\ \A t \in 0 .. MaxTime : events'[t] = IF t = now THEN events[t] + n ELSE events[t]
  BY RecordFacts
<1>5. /\ events \in [0 .. MaxTime -> 0 .. MaxBurst] /\ now \in 0 .. MaxTime /\ MaxTime \in Nat
      /\ bucketSize \in Nat \ {0} /\ n \in Nat /\ Epoch \in Nat
      /\ born \in 0 .. now /\ n > 0
      /\ buckets \in [Ring -> [start : -bucketSize .. now, count : Nat]]
  BY RateAssumption DEF RateTypeOK
<1>6. \A t \in now + 1 .. MaxTime : events'[t] = 0
  <2> SUFFICES ASSUME NEW t \in now + 1 .. MaxTime PROVE events'[t] = 0
    OBVIOUS
  <2>1. t \in 0 .. MaxTime /\ t # now
    BY <1>5
  <2> QED BY <1>4, <2>1 DEF KeepInv
<1> DEFINE b == buckets[j]
<1>7. Hit(n) = IF Expired(b) THEN [start |-> Truncated(now), count |-> n]
                                  ELSE [start |-> b.start, count |-> b.count + n]
  BY DEF Hit
<1>8. ASSUME NEW i \in Ring
      PROVE  SumFunctionOnSet(events', Live(i)) <= buckets'[i].count
  <2>1. Live(i) \in SUBSET (0 .. MaxTime) /\ SumFunctionOnSet(events, Live(i)) \in Nat
    <3>1. Live(i) \in SUBSET (0 .. MaxTime)
      BY LiveFacts
    <3> QED BY <1>5, <3>1, EventSums
  <2>2. SumFunctionOnSet(events', Live(i)) =
          IF now \in Live(i) THEN SumFunctionOnSet(events, Live(i)) + n
                             ELSE SumFunctionOnSet(events, Live(i))
    BY <2>1, RecordSum
  <2>3. SumFunctionOnSet(events, Live(i)) <= buckets[i].count /\ buckets[i].count \in Nat
    BY <1>5 DEF KeepInv
  <2>4. CASE i # j
    <3>1. now \notin Live(i)
      BY <1>2, <2>4 DEF Live
    <3> QED BY <1>4, <2>2, <2>3, <2>4, <3>1
  <2>5. CASE i = j /\ ~Expired(b)
    <3>1. buckets'[i].count = buckets[i].count + n
      BY <1>4, <1>7, <2>5
    <3> DEFINE x == SumFunctionOnSet(events, Live(i))
    <3>2. x \in Nat /\ x <= buckets[i].count
      BY <2>1, <2>3
    <3>3. SumFunctionOnSet(events', Live(i)) = x + n \/ SumFunctionOnSet(events', Live(i)) = x
      BY <2>2
    <3> HIDE DEF x
    <3> QED BY <1>5, <2>3, <3>1, <3>2, <3>3
  <2>6. CASE i = j /\ Expired(b)
    <3>1. buckets'[i].count = n
      BY <1>4, <1>7, <2>6
    <3>2. \A t \in Live(i) : events[t] = 0
      <4> SUFFICES ASSUME NEW t \in Live(i) PROVE events[t] = 0
        OBVIOUS
      <4>1. events[t] \in Nat
        BY <1>5, <2>1
      <4>2. ~(events[t] > 0)
        BY <2>6, LiveNotExpired
      <4> QED BY <4>1, <4>2
    <3>3. SumFunctionOnSet(events, Live(i)) = 0
      BY <2>1, <3>2, NoEventsSum
    <3>4. 0 + n = n /\ 0 <= n /\ n <= n
      BY <1>5
    <3> QED BY <2>2, <3>1, <3>3, <3>4
  <2> QED BY <2>4, <2>5, <2>6
<1>9. ASSUME NEW i \in Ring, NEW t \in Live(i), events'[t] > 0
      PROVE  buckets'[i].start >= Cell(t) * bucketSize
  <2>1. t \in 0 .. MaxTime /\ t \in WellPlaced /\ IndexOf[t] = i
    BY LiveFacts DEF Live
  <2>2. CASE t = now
    <3>1. i = j /\ buckets'[i] = Hit(n)
      BY <1>2, <1>4, <2>1, <2>2
    <3> QED BY <2>1, <2>2, <3>1, LiveBegins
  <2>3. CASE t # now
    <3>1. events[t] > 0
      BY <1>4, <1>9, <2>1, <2>3
    <3>2. buckets[i].start >= Cell(t) * bucketSize
      BY <3>1 DEF KeepInv
    <3>3. i = j => ~Expired(b)
      BY <3>1, LiveNotExpired
    <3>4. buckets'[i].start = buckets[i].start
      BY <1>4, <1>7, <3>3
    <3> QED BY <3>2, <3>4
  <2> QED BY <2>2, <2>3
<1>10. ASSUME NEW i \in Ring
       PROVE  \/ buckets'[i].start = born
              \/ \E q \in Int : buckets'[i].start = (q * bucketSize) - Epoch
  <2>1. buckets'[i].start = buckets[i].start \/ buckets'[i].start = Truncated(now)
    BY <1>4, <1>7
  <2>2. CASE buckets'[i].start = buckets[i].start
    BY <2>2 DEF KeepInv
  <2>3. CASE buckets'[i].start = Truncated(now)
    <3> DEFINE a == now + Epoch
               q == a \div bucketSize
    <3>1. a \in Int
      BY <1>5
    <3>2. Truncated(now) = (q * bucketSize) - Epoch
      BY DEF Truncated
    <3> HIDE DEF a
    <3>3. q \in Int
      BY <1>5, <3>1
    <3> HIDE DEF q
    <3> QED BY <2>3, <3>2, <3>3
  <2> QED BY <2>1, <2>2, <2>3
<1>11. ASSUME Cell(now) = Cell(born), NEW i \in Ring
       PROVE  buckets'[i].start = born
  <2>1. \A k \in Ring : buckets[k].start = born
    BY <1>11 DEF KeepInv
  <2>2. b.start = born
    BY <1>2, <2>1
  <2>3. ~(now - born >= bucketSize)
    <3> DEFINE c == Cell(now)
    <3>1. c \in Int /\ c * bucketSize \in Int /\ c * bucketSize <= born /\ now < (c + 1) * bucketSize
      BY <1>5, <1>11, CellFacts
    <3> HIDE DEF c
    <3>2. (c + 1) * bucketSize = (c * bucketSize) + bucketSize
      BY <1>5, <3>1
    <3> QED BY <1>5, <3>1, <3>2
  <2>4. ~Expired(b)
    BY <2>2, <2>3 DEF Expired
  <2> QED BY <1>4, <1>7, <2>1, <2>2, <2>4
<1> HIDE DEF j, b
<1>12. Cell(now)' = Cell(now) /\ Cell(born)' = Cell(born) /\ \A t : Cell(t) = t \div bucketSize
  BY <1>1 DEF Cell
<1> QED BY <1>1, <1>2, <1>3, <1>6, <1>8, <1>9, <1>10, <1>11, <1>12 DEF KeepInv, Cell

LEMMA KeepFresh ==
  ASSUME RateTypeOK, born = now, buckets = AllAt(now),
         events = NoEvents
  PROVE  KeepInv
<1>1. \A t \in 0 .. MaxTime : events[t] = 0
  BY DEF NoEvents
<1>2. now \in 0 .. MaxTime /\ MaxTime \in Nat
  BY RateAssumption DEF RateTypeOK
<1>3. \A t \in now + 1 .. MaxTime : events[t] = 0
  <2>1. now + 1 .. MaxTime \subseteq 0 .. MaxTime
    BY <1>2
  <2> QED BY <1>1, <2>1
<1>4. \A i \in Ring : buckets[i].start = born /\ buckets[i].count = 0
  BY DEF AllAt
<1>5. ASSUME NEW i \in Ring
      PROVE  /\ SumFunctionOnSet(events, Live(i)) = 0
             /\ \A t \in Live(i) : events[t] = 0
  <2>1. Live(i) \in SUBSET (0 .. MaxTime)
    BY LiveFacts
  <2>2. \A t \in Live(i) : events[t] = 0
    BY <1>1, <2>1
  <2> QED BY <2>1, <2>2, NoEventsSum
<1> QED BY <1>3, <1>4, <1>5 DEF KeepInv

LEMMA KeepTick ==
  ASSUME RateTypeOK, KeepInv, Tick
  PROVE  KeepInv'
<1>1. UNCHANGED <<window, bucketSize, buckets, born, events>> /\ now' = now + 1 /\ now < MaxTime
  BY DEF Tick
<1>2. Ring' = Ring /\ IndexOf' = IndexOf /\ Buckets' = Buckets
      /\ \A t : Truncated(t)' = Truncated(t)
  BY <1>1 DEF Ring, IndexOf, Buckets, Truncated
<1>3. /\ events \in [0 .. MaxTime -> 0 .. MaxBurst] /\ now \in 0 .. MaxTime /\ MaxTime \in Nat
      /\ bucketSize \in Nat \ {0} /\ born \in 0 .. now /\ Buckets \in Nat
  BY RingFacts, RateAssumption DEF RateTypeOK
<1>4. Cell(now) \in Int /\ Cell(now + 1) \in Int /\ Cell(now) <= Cell(now + 1)
      /\ Cell(born) \in Int /\ Cell(born) <= Cell(now)
  <2>1. now \in Nat /\ now + 1 \in Nat /\ born \in Nat /\ born <= now /\ now <= now + 1
    BY <1>3
  <2>2. Cell(now) \in Int /\ Cell(now + 1) \in Int /\ Cell(born) \in Int
    BY <1>3, <2>1, CellFacts
  <2>3. Cell(now) <= Cell(now + 1)
    BY <1>3, <2>1, CellOrder
  <2>4. Cell(born) <= Cell(now)
    BY <1>3, <2>1, CellOrder
  <2> QED BY <2>2, <2>3, <2>4
<1>5. events[now + 1] = 0 /\ \A t \in (now + 1) + 1 .. MaxTime : events[t] = 0
  BY <1>1, <1>3 DEF KeepInv
<1>6. ASSUME NEW i, NEW t \in Live(i)'
      PROVE  t = now + 1 \/ t \in Live(i)
  <2>1. /\ t \in born .. now + 1 /\ IndexOf[t] = i
        /\ Cell(t) > Cell(now + 1) - Buckets
        /\ \/ Cell(t) = Cell(born)
           \/ t >= born + bucketSize /\ Truncated(t) >= Cell(t) * bucketSize
    BY <1>1, <1>2 DEF Live, WellPlaced, Cell, Truncated
  <2>2. CASE t \in born .. now
    <3>1. t \in WellPlaced
      BY <2>1, <2>2 DEF WellPlaced, Cell
    <3>2. t \in Nat
      BY <1>3, <2>2
    <3>3. Cell(t) \in Int
      BY <1>3, <3>2, CellFacts
    <3>4. Cell(t) > Cell(now) - Buckets
      BY <1>3, <1>4, <2>1, <3>3
    <3> QED BY <2>1, <3>1, <3>4 DEF Live
  <2> QED BY <1>3, <2>1, <2>2
<1>7. ASSUME NEW i \in Ring
      PROVE  SumFunctionOnSet(events, Live(i)') <= buckets[i].count
  <2> DEFINE S == Live(i)'
             A == S \cap Live(i)
             R == S \ A
  <2>1. Live(i) \in SUBSET (0 .. MaxTime)
    BY LiveFacts
  <2>2. S \in SUBSET (0 .. MaxTime)
    <3>1. now + 1 \in 0 .. MaxTime
      BY <1>1, <1>3
    <3> QED BY <1>6, <2>1, <3>1
  <2>3. A \in SUBSET S /\ A \in SUBSET Live(i) /\ R \in SUBSET (0 .. MaxTime)
    BY <2>2
  <2>4. \A t \in R : events[t] = 0
    BY <1>5, <1>6
  <2>5. SumFunctionOnSet(events, Live(i)) <= buckets[i].count /\ buckets[i].count \in Int
    <3>1. buckets \in [Ring -> [start : -bucketSize .. now, count : Nat]]
      BY DEF RateTypeOK
    <3> QED BY <3>1 DEF KeepInv
  <2> HIDE DEF S, A
  <2>6. SumFunctionOnSet(events, R) = 0
    BY <2>3, <2>4, NoEventsSum
  <2>7. SumFunctionOnSet(events, S) = SumFunctionOnSet(events, A) + SumFunctionOnSet(events, R)
    <3>1. IsFiniteSet(S) /\ \A t \in S : events[t] \in Int
      BY <1>3, <2>2, EventSums
    <3> QED BY <2>3, <3>1, SumSplit
  <2>8. /\ SumFunctionOnSet(events, A) \in Nat /\ SumFunctionOnSet(events, Live(i)) \in Nat
        /\ SumFunctionOnSet(events, A) <= SumFunctionOnSet(events, Live(i))
    BY <1>3, <2>1, <2>3, EventSums
  <2> HIDE DEF R
  <2>9. SumFunctionOnSet(events, S) <= buckets[i].count
    BY <2>5, <2>6, <2>7, <2>8
  <2> QED BY <2>9 DEF S
<1>8. ASSUME NEW i \in Ring, NEW t \in Live(i)', events[t] > 0
      PROVE  buckets[i].start >= Cell(t) * bucketSize
  <2>1. t # now + 1
    BY <1>5, <1>8
  <2>2. t \in Live(i)
    BY <1>6, <2>1
  <2> QED BY <1>8, <2>2 DEF KeepInv
<1>9. Cell(now + 1) = Cell(born) => Cell(now) = Cell(born)
  BY <1>4
<1>10. /\ Cell(now)' = Cell(now + 1) /\ Cell(born)' = Cell(born) /\ \A t : Cell(t) = t \div bucketSize
  BY <1>1 DEF Cell
<1> QED BY <1>1, <1>2, <1>5, <1>7, <1>8, <1>9, <1>10 DEF KeepInv, Cell

\* rate.go, Total: if buckets fit into the window, the well-placed events of the
\* last buckets, all but one, are counted; whether or not the window is a
\* multiple of the bucket size, and whatever was truncated where.
THEOREM TotalKeepsRecent == RateSpec => []KeepsRecent
<1>1. RateInit => KeepInv
  BY RateTypedInit, KeepFresh DEF RateInit
<1>2. ASSUME RateTypeOK, RateTypeOK', KeepInv, [RateNext]_(rateVars)
      PROVE  KeepInv'
  <2>1. CASE \E n \in 1 .. MaxBurst : RecordEvents(n)
    BY <1>2, <2>1, KeepRecord
  <2>2. CASE Reset
    <3>1. /\ born' = now' /\ buckets' = AllAt(now)' /\ events' = NoEvents'
      BY <2>2 DEF Reset, AllAt, Ring, NoEvents
    <3>2. (RateTypeOK /\ born = now /\ buckets = AllAt(now) /\ events = NoEvents => KeepInv)'
      BY KeepFresh, PTL
    <3> QED BY <1>2, <3>1, <3>2
  <2>3. CASE Tick
    BY <1>2, <2>3, KeepTick
  <2>4. CASE UNCHANGED rateVars
    <3>1. UNCHANGED <<window, bucketSize, buckets, now, born, events>>
      BY <2>4 DEF rateVars
    <3>2. /\ Ring' = Ring /\ \A t : Cell(t)' = Cell(t) /\ \A i : Live(i)' = Live(i)
          /\ Cell(now)' = Cell(now) /\ Cell(born)' = Cell(born)
      BY <3>1 DEF Ring, Cell, Live, IndexOf, Buckets, WellPlaced, Truncated
    <3> QED BY <1>2, <3>1, <3>2 DEF KeepInv, Cell
  <2> QED BY <1>2, <2>1, <2>2, <2>3, <2>4 DEF RateNext
<1>3. ASSUME RateTypeOK, KeepInv, bucketSize <= window
      PROVE  KeepsRecent
  <2> DEFINE n == Buckets
             Recent == {t \in WellPlaced : t >= now - (n - 1) * bucketSize}
             I == InWindow
             J == Ring
             c == [i \in I |-> buckets[i].count]
             h == [i \in J |-> SumFunctionOnSet(events, Class(Recent, IndexOf, i))]
  <2>1. /\ window \in Nat \ {0} /\ bucketSize \in Nat \ {0} /\ now \in 0 .. MaxTime
        /\ MaxTime \in Nat /\ born \in 0 .. now /\ n \in Nat \ {0} /\ n * bucketSize <= window
        /\ buckets \in [J -> [start : -bucketSize .. now, count : Nat]]
        /\ events \in [0 .. MaxTime -> 0 .. MaxBurst]
    <3>1. window \in Nat \ {0} /\ bucketSize \in Nat \ {0}
      BY <1>3 DEF RateTypeOK
    <3>2. n \in Nat \ {0} /\ bucketSize * n <= window
      BY <1>3, <3>1, BucketsFit DEF Buckets
    <3> HIDE DEF n
    <3>3. n * bucketSize <= window
      BY <3>1, <3>2
    <3> QED BY <1>3, <3>1, <3>2, <3>3, RateAssumption DEF RateTypeOK
  <2>2. Recent \in SUBSET (0 .. MaxTime)
    <3>1. \A t \in born .. now : t \in 0 .. MaxTime
      BY <2>1
    <3>2. \A t \in WellPlaced : t \in born .. now
      BY DEF WellPlaced
    <3> QED BY <3>1, <3>2
  <2>3. I \in SUBSET J /\ IsFiniteSet(I) /\ IsFiniteSet(J)
    <3>1. I \in SUBSET J /\ IsFiniteSet(J)
      BY <1>3, RingFacts DEF InWindow
    <3> HIDE DEF I, J
    <3> QED BY <3>1, FS_Subset
  <2>4. ASSUME NEW i \in J
        PROVE  Class(Recent, IndexOf, i) \in SUBSET Live(i)
    <3> SUFFICES ASSUME NEW t \in WellPlaced, t >= now - (n - 1) * bucketSize, IndexOf[t] = i
                 PROVE  t \in Live(i)
      BY DEF Class
    <3> DEFINE p == Cell(t)
               q == Cell(now)
    <3>1. t \in Nat
      BY <2>1 DEF WellPlaced
    <3>2. p \in Int /\ q \in Int /\ t < (p + 1) * bucketSize /\ q * bucketSize <= now
      BY <2>1, <3>1, CellFacts
    <3> HIDE DEF p, q, n
    <3>3. p > q - n
      <4> SUFFICES ASSUME p + 1 <= q - (n - 1) PROVE FALSE
        BY <2>1, <3>2
      <4>1. (p + 1) * bucketSize <= (q - (n - 1)) * bucketSize
        <5>1. \A v, w \in Int, x \in Nat : v <= w => v * x <= w * x
          OBVIOUS
        <5>2. p + 1 \in Int /\ q - (n - 1) \in Int /\ bucketSize \in Nat
          BY <2>1, <3>2
        <5> QED BY <5>1, <5>2
      <4>2. (q - (n - 1)) * bucketSize = (q * bucketSize) - ((n - 1) * bucketSize)
        BY <2>1, <3>2
      <4>3. (p + 1) * bucketSize \in Int /\ q * bucketSize \in Int /\ (n - 1) * bucketSize \in Int
        BY <2>1, <3>2
      <4> DEFINE e == (p + 1) * bucketSize
                 f == q * bucketSize
                 g == (n - 1) * bucketSize
      <4>4. t < e /\ f <= now /\ t >= now - g /\ e <= f - g /\ e \in Int /\ f \in Int /\ g \in Int
        BY <3>2, <4>1, <4>2, <4>3
      <4> HIDE DEF e, f, g
      <4> QED BY <2>1, <3>1, <4>4
    <3> QED BY <3>3 DEF Live, p, q, n
  <2>5. ASSUME NEW i \in J
        PROVE  /\ h[i] \in Nat
               /\ i \in I => h[i] <= c[i]
               /\ i \notin I => h[i] = 0
               /\ c[i] \in Int \/ i \notin I
    <3> DEFINE K == Class(Recent, IndexOf, i)
    <3>1. K \in SUBSET Live(i) /\ Live(i) \in SUBSET (0 .. MaxTime)
      BY <1>3, <2>4, LiveFacts
    <3>2. h[i] = SumFunctionOnSet(events, K)
      OBVIOUS
    <3>3. i \in I => c[i] = buckets[i].count
      OBVIOUS
    <3>4. K \in SUBSET (0 .. MaxTime)
      BY <3>1
    <3> HIDE DEF K, h, c
    <3>5. /\ SumFunctionOnSet(events, K) \in Nat /\ SumFunctionOnSet(events, Live(i)) \in Nat
          /\ SumFunctionOnSet(events, K) <= SumFunctionOnSet(events, Live(i))
      BY <2>1, <3>1, EventSums
    <3>6. SumFunctionOnSet(events, Live(i)) <= buckets[i].count /\ buckets[i].count \in Nat
      BY <1>3, <2>1 DEF KeepInv
    <3>7. ASSUME i \notin I PROVE h[i] = 0
      <4> SUFFICES ASSUME NEW t \in K PROVE events[t] = 0
        BY <3>2, <3>4, NoEventsSum
      <4>1. t \in Live(i) /\ events[t] \in Nat /\ t \in Nat
        BY <2>1, <3>1
      <4> SUFFICES ASSUME events[t] > 0 PROVE FALSE
        BY <4>1
      <4> DEFINE p == Cell(t)
                 q == Cell(now)
                 s == buckets[i].start
      <4>2. s >= p * bucketSize /\ s \in Int
        BY <1>3, <2>1, <4>1 DEF KeepInv
      <4>3. p > q - n
        BY <4>1 DEF Live
      <4>4. p \in Int /\ q \in Int /\ now < (q + 1) * bucketSize
        BY <2>1, <4>1, CellFacts
      <4>5. ~(s >= now - window)
        BY <3>7 DEF InWindow
      <4> HIDE DEF p, q, s, n
      <4>6. (q + 1) * bucketSize <= (p + n) * bucketSize
        <5>1. \A v, w \in Int, x \in Nat : v <= w => v * x <= w * x
          OBVIOUS
        <5>2. p + n \in Int /\ q + 1 \in Int /\ bucketSize \in Nat /\ q + 1 <= p + n
          BY <2>1, <4>3, <4>4
        <5> QED BY <5>1, <5>2
      <4>7. (p + n) * bucketSize = (p * bucketSize) + (n * bucketSize)
        BY <2>1, <4>4
      <4> DEFINE e == (q + 1) * bucketSize
                 f == p * bucketSize
                 g == n * bucketSize
      <4>8. e \in Int /\ f \in Int /\ g \in Int /\ now < e /\ e <= f + g /\ s >= f /\ g <= window
        BY <2>1, <4>2, <4>4, <4>6, <4>7
      <4> HIDE DEF e, f, g
      <4> QED BY <2>1, <4>2, <4>5, <4>8
    <3> QED BY <3>2, <3>3, <3>5, <3>6, <3>7
  <2>6. Total = SumFunctionOnSet(c, I)
    BY RateSums DEF Total
  <2>7. EventsIn({t \in WellPlaced :
                         t >= now - (NumBuckets(window, bucketSize) - 1) * bucketSize})
          = SumFunctionOnSet(events, Recent)
    BY RateSums DEF EventsIn, Buckets
  <2>8. Classes(Recent, IndexOf, J) = Recent
    BY <1>3, <2>2, RingFacts DEF Classes
  <2>9. \A i \in J : h[i] = SumFunctionOnSet(events, Class(Recent, IndexOf, i))
    OBVIOUS
  <2> HIDE DEF Recent, I, J, c, h
  <2>10. SumFunctionOnSet(h, J) = SumFunctionOnSet(events, Recent)
    <3>1. IsFiniteSet(Recent) /\ \A t \in Recent : events[t] \in Int
      BY <2>1, <2>2, EventSums
    <3>2. IsFiniteSet(J)
      BY <2>3
    <3>3. SumFunctionOnSet(h, J) = SumFunctionOnSet(events, Classes(Recent, IndexOf, J))
      BY <2>9, <3>1, <3>2, SumByClass
    <3> QED BY <2>8, <3>3
  <2>11. /\ SumFunctionOnSet(h, I) \in Int /\ SumFunctionOnSet(h, J \ I) \in Int
         /\ SumFunctionOnSet(h, J) = SumFunctionOnSet(h, I) + SumFunctionOnSet(h, J \ I)
    <3>1. \A i \in J : h[i] \in Int
      BY <2>5
    <3> QED BY <2>3, <3>1, SumSplit
  <2>12. SumFunctionOnSet(h, J \ I) <= 0
    <3>1. \A i \in J \ I : h[i] \in 0 .. 0
      BY <2>5
    <3>2. IsFiniteSet(J \ I)
      BY <2>3, FS_Subset
    <3> DEFINE k == Cardinality(J \ I)
    <3>3. SumFunctionOnSet(h, J \ I) <= 0 * k
      <4>1. 0 \in Nat
        OBVIOUS
      <4> QED BY <3>1, <3>2, <4>1, SumAtMostTimes
    <3>4. k \in Nat
      BY <3>2, FS_CardinalityType
    <3> HIDE DEF k
    <3>5. 0 * k = 0
      BY <3>4
    <3> QED BY <3>3, <3>5
  <2>13. SumFunctionOnSet(h, I) <= SumFunctionOnSet(c, I) /\ SumFunctionOnSet(c, I) \in Int
    <3>1. \A i \in I : h[i] \in Int /\ c[i] \in Int /\ h[i] <= c[i]
      BY <2>3, <2>5
    <3>2. IsFiniteSet(I)
      BY <2>3
    <3> QED BY <3>1, <3>2, SumAtMost
  <2>14. SumFunctionOnSet(events, Recent) <= SumFunctionOnSet(c, I)
    BY <2>10, <2>11, <2>12, <2>13
  <2> QED BY <2>6, <2>7, <2>14 DEF KeepsRecent
<1>4. RateTypeOK /\ KeepInv => KeepsRecent
  BY <1>3 DEF KeepsRecent
<1> QED BY <1>1, <1>2, <1>4, RateTypeCorrect, PTL DEF RateSpec

=============================================================================
