---------------------------- MODULE StoreProofs ----------------------------
(***************************************************************************)
(* Theorems about Store, for every set of items, every hash function, all  *)
(* parameters and files of any length; and about SharedStore, for any      *)
(* number of processes and records of any sizes.                           *)
(***************************************************************************)
EXTENDS Store, SharedStore, FilterProofs, SequenceTheorems

-----------------------------------------------------------------------------
(* Records and files *)

\* store.go, record types: what the type byte says of a record.
LEMMA RecordFacts ==
  ASSUME NEW r \in Record
  PROVE  /\ r.typ \in {"torn", "add", "checkpoint"}
         /\ r.typ = "add" => r.item \in Item
         /\ r.typ = "checkpoint" => r.payload \in Blob
         /\ r.typ = "torn" => r = Torn
BY DEF Record, Torn

\* store.go, writeRecord: what is written is a record.
LEMMA NewRecords ==
  /\ Torn \in Record
  /\ \A x \in Item : AddRecord(x) \in Record
  /\ \A b \in Blob : CheckpointRecord(b) \in Record
BY DEF Torn, AddRecord, CheckpointRecord, Record

\* The records of a file are a function of its length.
LEMMA PrefixFacts ==
  ASSUME NEW rs \in Seq(Record), NEW n \in 0 .. Len(rs)
  PROVE  /\ SubSeq(rs, 1, n) \in Seq(Record)
         /\ Len(SubSeq(rs, 1, n)) = n
         /\ \A i \in 1 .. n : SubSeq(rs, 1, n)[i] = rs[i]
BY SubSeqProperties

\* store.go, Open: the second pass adds items and nothing else.
LEMMA ItemsAfterType ==
  ASSUME NEW rs \in Seq(Record), NEW c \in Nat
  PROVE  ItemsAfter(rs, c) \in SUBSET Item
BY RecordFacts DEF ItemsAfter

\* What a write leaves is the file with one more record, or the file.
LEMMA WrittenFacts ==
  ASSUME NEW rs \in Seq(Record), NEW r \in Record, NEW out \in Outcome
  PROVE  /\ Written(rs, r, out) \in Seq(Record)
         /\ out = "none" => Written(rs, r, out) = rs
         /\ out = "full" => Written(rs, r, out) = Append(rs, r)
         /\ out = "torn" => Written(rs, r, out) = Append(rs, Torn)
BY NewRecords, AppendProperties DEF Written, Outcome

-----------------------------------------------------------------------------
(* Type correctness *)

\* store.go, Open: the replay ends with a filter or nil.
LEMMA ReplayType ==
  ASSUME NEW rs \in Seq(Record), NEW m \in Nat, NEW c \in 0 .. Len(rs),
         IsLastCheckpoint(rs, c)
  PROVE  Replay(m, rs, c) \in FilterOrNil
<1>1. ReplayStart(m, rs, c) \in FilterOrNil
  <2>1. NewFilter(m, DefaultK) \in FilterOrNil
    BY NewFilterType, RecordsAssumption
  <2>2. c > 0 => Unmarshal(rs[c].payload) \in FilterOrNil
    BY RecordFacts, UnmarshalType DEF IsLastCheckpoint
  <2> QED BY <2>1, <2>2 DEF ReplayStart
<1>2. ItemsAfter(rs, c) \in SUBSET Item
  BY ItemsAfterType
<1> QED BY <1>1, <1>2, AddItemsFacts, NilAddItems DEF Replay, FilterOrNil

\* The state of the store stays well formed: no bit of its filter lies behind
\* the m-th, in memory or in a checkpoint.
THEOREM TypeCorrect == Spec => []TypeOK
<1>1. Init => TypeOK
  <2> SUFFICES ASSUME Init PROVE TypeOK
    OBVIOUS
  <2> USE DEF Init
  <2>1. recs \in Seq(Record)
    OBVIOUS
  <2>2. header \in {"absent", "short", "complete"} /\ filterM \in Nat
    OBVIOUS
  <2>3. open \in BOOLEAN
    OBVIOUS
  <2>4. filter \in FilterOrNil
    BY NilType
  <2>5. acked \subseteq tried /\ tried \subseteq Item
    OBVIOUS
  <2> QED BY <2>1, <2>2, <2>3, <2>4, <2>5 DEF TypeOK
<1>2. TypeOK /\ [Next]_vars => TypeOK'
  <2> SUFFICES ASSUME TypeOK, [Next]_vars PROVE TypeOK'
    OBVIOUS
  <2> USE DEF TypeOK
  <2>0. NilFilter \in FilterOrNil
    BY NilType
  <2>1. ASSUME NEW m \in MValues, NEW k \in KValues, Create(m, k)
        PROVE  TypeOK'
    <3>1. m \in Nat /\ k \in Nat
      BY StoreAssumption
    <3>2. NewFilter(m, k) \in FilterOrNil
      BY <3>1, NewFilterType
    <3>3. m % Uint32 \in Nat
      BY <3>1, Uint32Assumption
    <3>4. filterM' \in Nat
      BY <2>1, <3>3 DEF Create
    <3>8. header' \in {"absent", "short", "complete"}
      BY <2>1 DEF Create
    <3>9. open' \in BOOLEAN
      BY <2>1 DEF Create
    <3>10. filter' \in FilterOrNil
      BY <2>1, <3>2 DEF Create
    <3>5. recs' \in Seq(Record)
      <4>1. recs' = <<>>
        BY <2>1 DEF Create
      <4> QED BY <4>1
    <3>6. acked' \subseteq tried'
      BY <2>1 DEF Create
    <3>7. tried' \subseteq Item
      BY <2>1 DEF Create
    <3> QED BY <3>4, <3>5, <3>6, <3>7, <3>8, <3>9, <3>10
  <2>2. CASE Open
    <3>1. PICK n \in 0 .. Len(recs) : \E c \in 0 .. n :
            /\ IsLastCheckpoint(SubSeq(recs, 1, n), c)
            /\ recs' = SubSeq(recs, 1, n)
            /\ filter' = Replay(filterM, SubSeq(recs, 1, n), c)
      BY <2>2 DEF Open
    <3>2. PICK c \in 0 .. n :
            /\ IsLastCheckpoint(SubSeq(recs, 1, n), c)
            /\ recs' = SubSeq(recs, 1, n)
            /\ filter' = Replay(filterM, SubSeq(recs, 1, n), c)
      BY <3>1
    <3>3. recs' \in Seq(Record) /\ c \in 0 .. Len(recs')
      BY <3>2, PrefixFacts
    <3>4. filter' \in FilterOrNil
      BY <3>2, <3>3, ReplayType
    <3> QED BY <2>2, <3>3, <3>4 DEF Open
  <2>3. ASSUME NEW data \in Item, Add(data)
        PROVE  TypeOK'
    <3>1. PICK out \in Outcome : recs' = Written(recs, AddRecord(data), out)
      BY <2>3 DEF Add
    <3>2. recs' \in Seq(Record)
      BY <3>1, NewRecords, WrittenFacts
    <3>3. filter \in Filter
      BY <2>3 DEF Add, FilterOrNil
    <3>4. AddItem(filter, data) \in FilterOrNil
      <4>1. {data} \in SUBSET Item
        OBVIOUS
      <4>2. AddItem(filter, data) = AddItems(filter, {data})
        BY <3>3, AddItemIsAddItems
      <4>3. AddItems(filter, {data}) \in Filter
        BY <3>3, <4>1, AddItemsFacts
      <4> QED BY <4>2, <4>3 DEF FilterOrNil
    <3> QED BY <2>3, <2>0, <3>2, <3>4 DEF Add, Dies
  <2>4. CASE AddPanics
    BY <2>4, <2>0 DEF AddPanics, Dies
  <2>5. CASE Checkpoint
    <3>1. PICK out \in Outcome :
            recs' = Written(recs, CheckpointRecord(Marshal(filter)), out)
      BY <2>5 DEF Checkpoint
    <3>2. recs' \in Seq(Record)
      BY <3>1, NewRecords, WrittenFacts, MarshalType
    <3> QED BY <2>5, <2>0, <3>2 DEF Checkpoint, Dies
  <2>6. CASE Close
    BY <2>6, <2>0 DEF Close
  <2>7. CASE PowerFailure
    <3>1. \A n \in 0 .. Len(recs) : Append(SubSeq(recs, 1, n), Torn) \in Seq(Record)
      <4> TAKE n \in 0 .. Len(recs)
      <4>1. SubSeq(recs, 1, n) \in Seq(Record)
        BY PrefixFacts
      <4> QED BY <4>1, NewRecords, AppendProperties
    <3>2. \A n \in 0 .. Len(recs) : SubSeq(recs, 1, n) \in Seq(Record)
      BY PrefixFacts
    <3>3. recs' \in Seq(Record)
      <4>1. CASE header = "complete" /\ \E n \in 0 .. Len(recs) :
                   \/ recs' = SubSeq(recs, 1, n)
                   \/ n < Len(recs) /\ recs' = Append(SubSeq(recs, 1, n), Torn)
        BY <4>1, <3>1, <3>2
      <4>2. CASE recs' = <<>>
        BY <4>2
      <4> QED BY <2>7, <4>1, <4>2 DEF PowerFailure
    <3>4. /\ open' = FALSE /\ filter' = NilFilter /\ UNCHANGED <<acked, tried>>
          /\ header' \in {"absent", "short", "complete"} /\ filterM' \in Nat
      BY <2>7 DEF PowerFailure
    <3> QED BY <2>0, <3>3, <3>4
  <2>8. CASE UNCHANGED vars
    BY <2>8 DEF vars
  <2> QED BY <2>1, <2>2, <2>3, <2>4, <2>5, <2>6, <2>7, <2>8 DEF Next
<1> QED BY <1>1, <1>2, PTL DEF Spec

-----------------------------------------------------------------------------
(* Files and their replay *)

\* The Add records of a file are positions in it.
LEMMA AddsType ==
  ASSUME NEW rs \in Seq(Record), NEW j \in Adds(rs)
  PROVE  j \in 1 .. Len(rs) /\ rs[j].typ = "add" /\ rs[j].item \in Item
BY RecordFacts DEF Adds

\* A filter made from parameters that fit the format fits it.
LEMMA NewFilterFits ==
  ASSUME NEW m \in Nat \ {0}, NEW k \in Nat \ {0}, m < Uint32, k < Uint32
  PROVE  Fits(NewFilter(m, k))
BY NewFilterType DEF NewFilter, ValidParams, Fits

\* A filter that fits the format is not nil.
LEMMA FitsNotNil ==
  ASSUME NEW f, Fits(f)
  PROVE  f # NilFilter
BY FilterIsNotNil DEF Fits

\* store.go, Open: with a good header, and checkpoints that unmarshal, the second
\* pass never starts from nil.
LEMMA ReplayStartFits ==
  ASSUME NEW rs \in Seq(Record), NEW m \in 1 .. Uint32 - 1, NEW c \in 0 .. Len(rs),
         ParamsFit, CheckpointsCover(rs), IsLastCheckpoint(rs, c)
  PROVE  Fits(ReplayStart(m, rs, c))
<1>1. CASE c > 0
  <2>1. Fits(Unmarshal(rs[c].payload))
    BY <1>1 DEF CheckpointsCover, IsLastCheckpoint
  <2> QED BY <1>1, <2>1, FitsNotNil DEF ReplayStart
<1>2. CASE c = 0
  <2>1. Fits(NewFilter(m, DefaultK))
    BY NewFilterFits, RecordsAssumption, Uint32Assumption DEF ParamsFit
  <2> QED BY <1>2, <2>1 DEF ReplayStart
<1> QED BY <1>1, <1>2

\* Wherever the replay starts, it ends with a filter that holds the item of
\* every Add record.
LEMMA ReplayCovers ==
  ASSUME NEW rs \in Seq(Record), NEW m \in 1 .. Uint32 - 1, NEW c \in 0 .. Len(rs),
         ParamsFit, CheckpointsCover(rs), IsLastCheckpoint(rs, c)
  PROVE  /\ Fits(Replay(m, rs, c))
         /\ \A j \in Adds(rs) : TestItem(Replay(m, rs, c), rs[j].item)
<1> DEFINE start == ReplayStart(m, rs, c)
           S == ItemsAfter(rs, c)
<1>1. Fits(start)
  BY ReplayStartFits
<1>2. start \in Filter
  BY <1>1 DEF Fits
<1>3. S \in SUBSET Item
  BY ItemsAfterType
<1>4. Replay(m, rs, c) = AddItems(start, S)
  BY DEF Replay
<1> HIDE DEF start, S
<1>5. Fits(Replay(m, rs, c))
  BY <1>1, <1>2, <1>3, <1>4, AddItemsFacts DEF Fits
<1>6. ASSUME NEW j \in Adds(rs)
      PROVE  TestItem(Replay(m, rs, c), rs[j].item)
  <2>1. j \in 1 .. Len(rs) /\ rs[j].typ = "add" /\ rs[j].item \in Item
    BY AddsType
  <2>2. CASE j > c
    <3>1. rs[j].item \in S
      BY <2>1, <2>2 DEF S, ItemsAfter
    <3> QED BY <1>2, <1>3, <1>4, <3>1, AddItemsFacts
  <2>3. CASE j <= c
    <3>1. c > 0 /\ j < c /\ rs[c].typ = "checkpoint"
      BY <2>1, <2>3 DEF IsLastCheckpoint
    <3>2. /\ TestItem(Unmarshal(rs[c].payload), rs[j].item)
          /\ Unmarshal(rs[c].payload) # NilFilter
      BY <3>1, FitsNotNil DEF CheckpointsCover
    <3>3. TestItem(start, rs[j].item)
      BY <3>1, <3>2 DEF start, ReplayStart
    <3> QED BY <1>2, <1>3, <1>4, <2>1, <3>3, AddItemsFacts
  <2> QED BY <2>1, <2>2, <2>3
<1> QED BY <1>5, <1>6

\* Cutting a file (Open, or a power failure) leaves its checkpoints good.
LEMMA PrefixCovers ==
  ASSUME NEW rs \in Seq(Record), NEW n \in 0 .. Len(rs), CheckpointsCover(rs)
  PROVE  CheckpointsCover(SubSeq(rs, 1, n))
BY PrefixFacts DEF CheckpointsCover, Adds

\* store.go, writeRecord: only an Add record adds to the Add records.
LEMMA AddsAppend ==
  ASSUME NEW rs \in Seq(Record), NEW r \in Record
  PROVE  /\ Adds(rs) \subseteq Adds(Append(rs, r))
         /\ \A j \in Adds(rs) : Append(rs, r)[j] = rs[j]
         /\ \A j \in Adds(Append(rs, r)) :
              j \in Adds(rs) \/ (j = Len(rs) + 1 /\ r.typ = "add")
         /\ r.typ = "add" => Len(rs) + 1 \in Adds(Append(rs, r))
<1> Append(rs, r) \in Seq(Record)
  BY AppendProperties
<1> QED BY AppendProperties DEF Adds

\* A checkpoint that holds the items of all Add records may be appended, and
\* so may any other record.
LEMMA AppendCovers ==
  ASSUME NEW rs \in Seq(Record), NEW r \in Record, CheckpointsCover(rs),
         r.typ = "checkpoint" =>
           /\ Fits(Unmarshal(r.payload))
           /\ \A j \in Adds(rs) : TestItem(Unmarshal(r.payload), rs[j].item)
  PROVE  CheckpointsCover(Append(rs, r))
<1> DEFINE new == Append(rs, r)
<1>1. new \in Seq(Record) /\ Len(new) = Len(rs) + 1 /\ new[Len(rs) + 1] = r
      /\ \A i \in 1 .. Len(rs) : new[i] = rs[i]
  BY AppendProperties
<1>2. \A j \in Adds(new) : j <= Len(rs) => j \in Adds(rs)
  BY <1>1 DEF Adds
<1> HIDE DEF new
<1>3. ASSUME NEW i \in 1 .. Len(new), new[i].typ = "checkpoint"
      PROVE  /\ Fits(Unmarshal(new[i].payload))
             /\ \A j \in Adds(new) :
                   j < i => TestItem(Unmarshal(new[i].payload), new[j].item)
  <2>1. CASE i <= Len(rs)
    <3>1. new[i] = rs[i] /\ i \in 1 .. Len(rs)
      BY <1>1, <2>1
    <3>2. \A j \in Adds(new) : j < i => j \in Adds(rs) /\ new[j] = rs[j]
      BY <1>1, <1>2, <2>1 DEF Adds
    <3> QED BY <1>3, <3>1, <3>2 DEF CheckpointsCover
  <2>2. CASE i = Len(rs) + 1
    <3>1. new[i] = r
      BY <1>1, <2>2
    <3>2. \A j \in Adds(new) : j < i => j \in Adds(rs) /\ new[j] = rs[j]
      BY <1>1, <1>2, <2>2 DEF Adds
    <3> QED BY <1>3, <3>1, <3>2
  <2> QED BY <1>1, <2>1, <2>2
<1> QED BY <1>3 DEF CheckpointsCover, new

-----------------------------------------------------------------------------
(* Safety for any caller, with process crashes and power failures *)

\* An appended record: the conclusion of FileInv for Add and Checkpoint.
LEMMA WrittenCovers ==
  ASSUME NEW rs \in Seq(Record), NEW r \in Record, NEW out \in Outcome,
         CheckpointsCover(rs),
         r.typ = "checkpoint" =>
           /\ Fits(Unmarshal(r.payload))
           /\ \A j \in Adds(rs) : TestItem(Unmarshal(r.payload), rs[j].item)
  PROVE  CheckpointsCover(Written(rs, r, out))
<1>1. Torn \in Record /\ Torn.typ # "checkpoint"
  BY NewRecords DEF Torn
<1>2. CheckpointsCover(Append(rs, Torn))
  BY <1>1, AppendCovers
<1>3. CheckpointsCover(Append(rs, r))
  BY AppendCovers
<1> QED BY <1>2, <1>3, WrittenFacts DEF Outcome

\* An Add record in the new file is an old one or the one written.
LEMMA WrittenAdds ==
  ASSUME NEW rs \in Seq(Record), NEW r \in Record, NEW out \in Outcome,
         NEW j \in Adds(Written(rs, r, out))
  PROVE  \/ j \in Adds(rs) /\ Written(rs, r, out)[j] = rs[j]
         \/ r.typ = "add" /\ Written(rs, r, out)[j] = r
<1>1. Torn \in Record /\ Torn.typ # "add"
  BY NewRecords DEF Torn
<1>2. CASE out = "none"
  BY <1>2, WrittenFacts
<1>3. CASE out = "full"
  <2>1. Written(rs, r, out) = Append(rs, r)
    BY <1>3, WrittenFacts
  <2>2. j \in Adds(Append(rs, r))
    BY <2>1
  <2>3. j \in Adds(rs) \/ (j = Len(rs) + 1 /\ r.typ = "add")
    BY <2>2, AddsAppend
  <2>4. j \in Adds(rs) => Append(rs, r)[j] = rs[j]
    BY AddsAppend
  <2>5. Append(rs, r)[Len(rs) + 1] = r
    BY AppendProperties
  <2> QED BY <2>1, <2>3, <2>4, <2>5
<1>4. CASE out = "torn"
  <2>1. Written(rs, r, out) = Append(rs, Torn)
    BY <1>4, WrittenFacts
  <2>2. j \in Adds(Append(rs, Torn))
    BY <2>1
  <2>3. j \in Adds(rs)
    BY <1>1, <2>2, AddsAppend
  <2>4. Append(rs, Torn)[j] = rs[j]
    BY <1>1, <2>3, AddsAppend
  <2> QED BY <2>1, <2>3, <2>4
<1> QED BY <1>2, <1>3, <1>4 DEF Outcome

\* Every step of the store keeps FileInv: one step of the proof per action.
LEMMA FileInvStep ==
  ASSUME ParamsFit, TypeOK, TypeOK', FileInv, [Next]_vars
  PROVE  FileInv'
<1> USE DEF TypeOK
<1>1. ASSUME NEW m \in MValues, NEW k \in KValues, Create(m, k)
      PROVE  FileInv'
  <2>1. m \in Nat \ {0} /\ k \in Nat \ {0} /\ m < Uint32 /\ k < Uint32
    BY <1>1, StoreAssumption DEF Create, ValidParams, ParamsFit
  <2>2. m % Uint32 = m
    BY <2>1, Uint32Assumption
  <2>3. Fits(NewFilter(m, k))
    BY <2>1, NewFilterFits
  <2>4. recs' = <<>>
    BY <1>1 DEF Create
  <2>5. CheckpointsCover(recs') /\ Adds(recs') = {}
    BY <2>4 DEF CheckpointsCover, Adds
  <2>6. CASE header' = "complete" /\ filterM' = m % Uint32 /\ filter' = NewFilter(m, k)
    <3>1. filterM' \in 1 .. Uint32 - 1
      BY <2>1, <2>2, <2>6, Uint32Assumption
    <3> QED BY <2>3, <2>5, <2>6, <3>1 DEF FileInv
  <2>7. CASE header' = "short" /\ UNCHANGED <<open, filter>>
    BY <1>1, <2>4, <2>5, <2>7 DEF FileInv, Create
  <2> QED BY <1>1, <2>6, <2>7 DEF Create
<1>2. CASE Open
  <2>1. PICK n \in 0 .. Len(recs) : \E c \in 0 .. n :
          /\ IsLastCheckpoint(SubSeq(recs, 1, n), c)
          /\ recs' = SubSeq(recs, 1, n)
          /\ filter' = Replay(filterM, SubSeq(recs, 1, n), c)
    BY <1>2 DEF Open
  <2>2. PICK c \in 0 .. n :
          /\ IsLastCheckpoint(recs', c)
          /\ recs' = SubSeq(recs, 1, n)
          /\ filter' = Replay(filterM, recs', c)
    BY <2>1
  <2>3. recs' \in Seq(Record) /\ Len(recs') = n
    BY <2>2, PrefixFacts
  <2>4. CheckpointsCover(recs')
    BY <2>2, PrefixCovers DEF FileInv
  <2>5. filterM \in 1 .. Uint32 - 1 /\ header = "complete" /\ UNCHANGED <<header, filterM>>
    BY <1>2 DEF Open, FileInv
  <2>6. Fits(filter') /\ \A j \in Adds(recs') : TestItem(filter', recs'[j].item)
    BY <2>2, <2>3, <2>4, <2>5, ReplayCovers
  <2> QED BY <2>4, <2>5, <2>6 DEF FileInv
<1>3. ASSUME NEW data \in Item, Add(data)
      PROVE  FileInv'
  <2>1. PICK out \in Outcome : recs' = Written(recs, AddRecord(data), out)
    BY <1>3 DEF Add
  <2>2. AddRecord(data) \in Record /\ AddRecord(data).typ = "add"
        /\ AddRecord(data).item = data
    BY NewRecords DEF AddRecord
  <2>3. CheckpointsCover(recs')
    BY <2>1, <2>2, WrittenCovers DEF FileInv
  <2>4. header = "complete" /\ UNCHANGED <<header, filterM>> /\ Fits(filter)
    BY <1>3 DEF Add, FileInv
  <2>5. CASE filter' = AddItem(filter, data)
    <3>1. filter \in Filter /\ {data} \in SUBSET Item
      BY <2>4 DEF Fits
    <3>2. filter' = AddItems(filter, {data})
      BY <2>5, <3>1, AddItemIsAddItems
    <3>3. Fits(filter')
      BY <2>4, <3>1, <3>2, AddItemsFacts DEF Fits
    <3>4. TestItem(filter', data)
          /\ \A x \in Item : TestItem(filter, x) => TestItem(filter', x)
      BY <3>1, <3>2, AddItemsFacts
    <3>5. ASSUME NEW j \in Adds(recs')
          PROVE  TestItem(filter', recs'[j].item)
      <4>1. CASE j \in Adds(recs) /\ recs'[j] = recs[j]
        BY <1>3, <3>4, <4>1, AddsType DEF FileInv, Add
      <4>2. CASE recs'[j] = AddRecord(data)
        BY <2>2, <3>4, <4>2
      <4> QED BY <2>1, <2>2, <4>1, <4>2, WrittenAdds
    <3> QED BY <2>3, <2>4, <3>3, <3>5 DEF FileInv
  <2>6. CASE ~open'
    BY <2>3, <2>4, <2>6 DEF FileInv
  <2> QED BY <1>3, <2>5, <2>6 DEF Add, Dies
<1>4. CASE AddPanics
  BY <1>4 DEF AddPanics, Dies, FileInv
<1>5. CASE Checkpoint
  <2> DEFINE r == CheckpointRecord(Marshal(filter))
  <2>1. PICK out \in Outcome : recs' = Written(recs, r, out)
    BY <1>5 DEF Checkpoint
  <2>2. header = "complete" /\ UNCHANGED <<header, filterM>> /\ Fits(filter)
        /\ \A j \in Adds(recs) : TestItem(filter, recs[j].item)
    BY <1>5 DEF Checkpoint, FileInv
  <2>3. r \in Record /\ r.typ = "checkpoint" /\ Unmarshal(r.payload) = filter
    BY <2>2, NewRecords, MarshalType, RoundTrip DEF CheckpointRecord, Fits
  <2> HIDE DEF r
  <2>4. CheckpointsCover(recs')
    BY <2>1, <2>2, <2>3, WrittenCovers DEF FileInv
  <2>5. CASE UNCHANGED <<open, filter>>
    <3>1. \A j \in Adds(recs') : j \in Adds(recs) /\ recs'[j] = recs[j]
      BY <2>1, <2>3, WrittenAdds
    <3> QED BY <2>2, <2>4, <2>5, <3>1 DEF FileInv
  <2>6. CASE ~open'
    BY <2>2, <2>4, <2>6 DEF FileInv
  <2> QED BY <1>5, <2>5, <2>6 DEF Checkpoint, Dies
<1>6. CASE Close
  BY <1>6 DEF Close, FileInv
<1>7. CASE PowerFailure
  <2>1. ~open'
    BY <1>7 DEF PowerFailure
  <2>2. CASE header = "complete" /\ UNCHANGED <<header, filterM>>
             /\ \E n \in 0 .. Len(recs) :
                  \/ recs' = SubSeq(recs, 1, n)
                  \/ n < Len(recs) /\ recs' = Append(SubSeq(recs, 1, n), Torn)
    <3>1. PICK n \in 0 .. Len(recs) : \/ recs' = SubSeq(recs, 1, n)
                                      \/ recs' = Append(SubSeq(recs, 1, n), Torn)
      BY <2>2
    <3>2. SubSeq(recs, 1, n) \in Seq(Record) /\ CheckpointsCover(SubSeq(recs, 1, n))
      BY PrefixFacts, PrefixCovers DEF FileInv
    <3>3. CheckpointsCover(Append(SubSeq(recs, 1, n), Torn))
      <4>1. Torn \in Record /\ Torn.typ # "checkpoint"
        BY NewRecords DEF Torn
      <4> QED BY <3>2, <4>1, AppendCovers
    <3> QED BY <2>1, <2>2, <3>1, <3>2, <3>3 DEF FileInv
  <2>3. CASE header' \in {"absent", "short"} /\ recs' = <<>>
    <3>1. CheckpointsCover(recs')
      BY <2>3 DEF CheckpointsCover, Adds
    <3> QED BY <2>1, <2>3, <3>1 DEF FileInv
  <2> QED BY <1>7, <2>2, <2>3 DEF PowerFailure
<1>8. CASE UNCHANGED vars
  BY <1>8 DEF vars, FileInv
<1> QED BY <1>1, <1>2, <1>3, <1>4, <1>5, <1>6, <1>7, <1>8 DEF Next

\* store.go: every checkpoint of every file the store writes unmarshals, and holds
\* the items of the Add records in front of it; so does the filter in memory.
THEOREM FileInvariant ==
  ASSUME ParamsFit
  PROVE  Spec => []FileInv
<1>1. Init => FileInv
  BY DEF Init, FileInv, CheckpointsCover, Adds
<1>2. FileInv /\ TypeOK /\ TypeOK' /\ [Next]_vars => FileInv'
  BY FileInvStep
<1> QED BY <1>1, <1>2, TypeCorrect, PTL DEF Spec

\* The items of the Add records a replay can reach are found again, whatever
\* the caller does after an error and whatever the crash.
THEOREM PrefixRecovered ==
  ASSUME ParamsFit
  PROVE  Spec => []ValidPrefixRecovered
<1>1. FileInv /\ TypeOK => ValidPrefixRecovered
  <2> SUFFICES ASSUME FileInv, TypeOK,
                      NEW p \in 1 .. Len(recs), recs[p].typ = "add",
                      \A i \in 1 .. p : recs[i].typ # "torn"
               PROVE  Recoverable(recs[p].item)
    BY DEF ValidPrefixRecovered
  <2> USE DEF TypeOK
  <2>0. header = "complete"
    <3>1. recs # <<>>
      OBVIOUS
    <3> QED BY <3>1 DEF FileInv
  <2> SUFFICES ASSUME NEW n \in 0 .. Len(recs), NEW c \in 0 .. n,
                      IsValidEnd(recs, n), IsLastCheckpoint(SubSeq(recs, 1, n), c)
               PROVE  /\ Replay(filterM, SubSeq(recs, 1, n), c) # NilFilter
                      /\ TestItem(Replay(filterM, SubSeq(recs, 1, n), c), recs[p].item)
    BY <2>0 DEF Recoverable
  <2> DEFINE rs == SubSeq(recs, 1, n)
  <2>1. rs \in Seq(Record) /\ Len(rs) = n /\ \A i \in 1 .. n : rs[i] = recs[i]
    BY PrefixFacts
  <2>2. CheckpointsCover(rs)
    BY PrefixCovers DEF FileInv
  <2>3. filterM \in 1 .. Uint32 - 1
    BY <2>0 DEF FileInv
  <2> HIDE DEF rs
  <2>4. p <= n
    <3> SUFFICES ASSUME n < p PROVE FALSE
      OBVIOUS
    <3>1. n + 1 \in 1 .. p
      OBVIOUS
    <3>2. recs[n + 1].typ = "torn"
      BY DEF IsValidEnd
    <3> QED BY <3>1, <3>2
  <2>5. p \in Adds(rs) /\ rs[p] = recs[p]
    BY <2>1, <2>4 DEF Adds
  <2>6. IsLastCheckpoint(rs, c) /\ c \in 0 .. Len(rs)
    BY <2>1 DEF rs
  <2>7. /\ Fits(Replay(filterM, rs, c))
        /\ \A j \in Adds(rs) : TestItem(Replay(filterM, rs, c), rs[j].item)
    BY <2>1, <2>2, <2>3, <2>6, ReplayCovers
  <2> QED BY <2>5, <2>7, FitsNotNil DEF rs
<1> QED BY <1>1, FileInvariant, TypeCorrect, PTL

-----------------------------------------------------------------------------
(* Nothing is invented, for any caller and with any m *)

\* Every bit of f is one of an item in S.
MadeOf(f, S) ==
  /\ f \in FilterOrNil
  /\ f.k < Uint32
  /\ f.bits \subseteq UNION {Positions(x, f.k, f.m) : x \in S}

\* What a record may bring into a filter that is replayed.
SoundRecord(r, S) ==
  /\ r.typ = "add" => r.item \in S
  /\ r.typ = "checkpoint" => MadeOf(Unmarshal(r.payload), S)

\* NothingInvented is not inductive: the filter in memory comes from the file, at
\* the next Open.  Whatever part of the file is left by then was written from
\* the items somebody has tried to add.
SoundInv ==
  /\ \A i \in 1 .. Len(recs) : SoundRecord(recs[i], tried)
  /\ open => MadeOf(filter, tried)

\* What the proof asks of the parameters: every k in use fits the header.  m may
\* be any.
KFits ==
  /\ \A k \in KValues : k < Uint32
  /\ DefaultK < Uint32

\* More items have been tried: nothing is lost.
LEMMA MadeOfMore ==
  ASSUME NEW f, NEW S, NEW T, S \subseteq T, MadeOf(f, S)
  PROVE  MadeOf(f, T)
BY DEF MadeOf

LEMMA SoundMore ==
  ASSUME NEW r, NEW S, NEW T, S \subseteq T, SoundRecord(r, S)
  PROVE  SoundRecord(r, T)
BY MadeOfMore DEF SoundRecord

\* filter.go, New: no bit is set in a new filter.
LEMMA NewMadeOf ==
  ASSUME NEW m \in Nat, NEW k \in Nat, k < Uint32, NEW S
  PROVE  MadeOf(NewFilter(m, k), S)
<1>1. NewFilter(m, k) \in FilterOrNil
  BY NewFilterType
<1>2. NewFilter(m, k).bits = {} /\ NewFilter(m, k).k < Uint32
  BY Uint32Assumption DEF NewFilter, NilFilter
<1> QED BY <1>1, <1>2 DEF MadeOf

\* filter.go, Add: the bits set are those of the items added.
LEMMA AddMadeOf ==
  ASSUME NEW S \in SUBSET Item, NEW T \in SUBSET S, NEW f, MadeOf(f, S)
  PROVE  MadeOf(AddItems(f, T), S)
<1>1. CASE f = NilFilter
  BY <1>1, NilAddItems
<1>2. CASE f \in Filter
  <2> DEFINE g == AddItems(f, T)
             new == UNION {Positions(x, f.k, f.m) : x \in T}
  <2>1. g = [m |-> f.m, k |-> f.k, bits |-> f.bits \cup new]
    BY <1>2, AddItemsRecord
  <2>2. g \in Filter
    BY <1>2, AddItemsFacts
  <2>3. f.bits \subseteq UNION {Positions(x, f.k, f.m) : x \in S} /\ f.k < Uint32
    BY DEF MadeOf
  <2>4. new \subseteq UNION {Positions(x, f.k, f.m) : x \in S}
    OBVIOUS
  <2> HIDE DEF new
  <2>5. g.m = f.m /\ g.k = f.k /\ g.bits = f.bits \cup new
    BY <2>1
  <2> HIDE DEF g
  <2>6. MadeOf(g, S)
    BY <2>2, <2>3, <2>4, <2>5 DEF MadeOf, FilterOrNil
  <2> QED BY <2>6 DEF g
<1> QED BY <1>1, <1>2 DEF MadeOf, FilterOrNil

\* store.go, Open: neither does the replay, also when the checkpoint it starts
\* from is skipped.
LEMMA ReplayMadeOf ==
  ASSUME NEW S \in SUBSET Item, NEW rs \in Seq(Record), NEW m \in Nat,
         NEW c \in 0 .. Len(rs), IsLastCheckpoint(rs, c),
         \A i \in 1 .. Len(rs) : SoundRecord(rs[i], S), KFits
  PROVE  MadeOf(Replay(m, rs, c), S)
<1>1. MadeOf(NewFilter(m, DefaultK), S)
  BY NewMadeOf, RecordsAssumption DEF KFits
<1>2. c > 0 => MadeOf(Unmarshal(rs[c].payload), S)
  BY DEF IsLastCheckpoint, SoundRecord
<1>3. MadeOf(ReplayStart(m, rs, c), S)
  BY <1>1, <1>2 DEF ReplayStart
<1>4. ItemsAfter(rs, c) \subseteq S
  BY DEF ItemsAfter, SoundRecord
<1> QED BY <1>3, <1>4, AddMadeOf DEF Replay

\* store.go, writeRecord: a record of the new file is an old one, the one that
\* was written, or torn.
LEMMA WrittenSound ==
  ASSUME NEW S, NEW rs \in Seq(Record), NEW r \in Record, NEW out \in Outcome,
         \A i \in 1 .. Len(rs) : SoundRecord(rs[i], S), SoundRecord(r, S)
  PROVE  \A i \in 1 .. Len(Written(rs, r, out)) : SoundRecord(Written(rs, r, out)[i], S)
<1>1. SoundRecord(Torn, S)
  BY DEF SoundRecord, Torn
<1>2. ASSUME NEW q \in Record, SoundRecord(q, S), Written(rs, r, out) = Append(rs, q)
      PROVE  \A i \in 1 .. Len(Written(rs, r, out)) : SoundRecord(Written(rs, r, out)[i], S)
  <2>1. /\ Len(Append(rs, q)) = Len(rs) + 1
        /\ \A i \in 1 .. Len(rs) : Append(rs, q)[i] = rs[i]
        /\ Append(rs, q)[Len(rs) + 1] = q
    BY AppendProperties
  <2>2. \A i \in 1 .. Len(rs) + 1 : i \in 1 .. Len(rs) \/ i = Len(rs) + 1
    OBVIOUS
  <2> QED BY <1>2, <2>1, <2>2
<1>3. CASE out = "none"
  BY <1>3, WrittenFacts
<1>4. CASE out = "full"
  BY <1>2, <1>4, WrittenFacts
<1>5. CASE out = "torn"
  BY <1>1, <1>2, <1>5, WrittenFacts, NewRecords
<1> QED BY <1>3, <1>4, <1>5 DEF Outcome

\* One step per action.
LEMMA SoundStep ==
  ASSUME KFits, TypeOK, TypeOK', SoundInv, [Next]_vars
  PROVE  SoundInv'
<1> USE DEF TypeOK
<1>1. ASSUME NEW m \in MValues, NEW k \in KValues, Create(m, k)
      PROVE  SoundInv'
  <2>1. Len(recs') = 0
    BY <1>1 DEF Create
  <2>2. MadeOf(NewFilter(m, k), tried')
    BY StoreAssumption, NewMadeOf DEF KFits
  <2>3. open' => filter' = NewFilter(m, k)
    BY <1>1 DEF Create
  <2> QED BY <2>1, <2>2, <2>3 DEF SoundInv
<1>2. CASE Open
  <2>1. PICK n \in 0 .. Len(recs) : \E c \in 0 .. n :
          /\ IsLastCheckpoint(SubSeq(recs, 1, n), c)
          /\ recs' = SubSeq(recs, 1, n)
          /\ filter' = Replay(filterM, SubSeq(recs, 1, n), c)
    BY <1>2 DEF Open
  <2>2. PICK c \in 0 .. n :
          /\ IsLastCheckpoint(recs', c)
          /\ recs' = SubSeq(recs, 1, n)
          /\ filter' = Replay(filterM, recs', c)
    BY <2>1
  <2>3. /\ recs' \in Seq(Record) /\ Len(recs') = n
        /\ \A i \in 1 .. n : recs'[i] = recs[i]
    BY <2>2, PrefixFacts
  <2>4. tried' = tried /\ tried \in SUBSET Item
    BY <1>2 DEF Open
  <2>5. \A i \in 1 .. Len(recs') : SoundRecord(recs'[i], tried)
    BY <2>3 DEF SoundInv
  <2>6. MadeOf(filter', tried)
    BY <2>2, <2>3, <2>4, <2>5, ReplayMadeOf
  <2> QED BY <2>4, <2>5, <2>6 DEF SoundInv
<1>3. ASSUME NEW data \in Item, Add(data)
      PROVE  SoundInv'
  <2>1. PICK out \in Outcome : recs' = Written(recs, AddRecord(data), out)
    BY <1>3 DEF Add
  <2>2. AddRecord(data) \in Record /\ SoundRecord(AddRecord(data), tried')
    BY <1>3, NewRecords DEF AddRecord, Add, SoundRecord
  <2>3. tried \subseteq tried' /\ tried' \in SUBSET Item /\ data \in tried'
    BY <1>3 DEF Add
  <2>4. \A i \in 1 .. Len(recs) : SoundRecord(recs[i], tried')
    BY <2>3, SoundMore DEF SoundInv
  <2>5. \A i \in 1 .. Len(recs') : SoundRecord(recs'[i], tried')
    BY <2>1, <2>2, <2>4, WrittenSound
  <2>6. CASE filter' = AddItem(filter, data)
    <3>1. filter \in Filter /\ MadeOf(filter, tried)
      BY <1>3 DEF Add, SoundInv, MadeOf, FilterOrNil
    <3>2. filter' = AddItems(filter, {data})
      BY <2>6, <3>1, AddItemIsAddItems
    <3>3. MadeOf(filter, tried')
      BY <2>3, <3>1, MadeOfMore
    <3>4. MadeOf(filter', tried')
      BY <2>3, <3>2, <3>3, AddMadeOf
    <3> QED BY <2>5, <3>4 DEF SoundInv
  <2>7. CASE ~open'
    BY <2>5, <2>7 DEF SoundInv
  <2> QED BY <1>3, <2>6, <2>7 DEF Add, Dies
<1>4. CASE AddPanics
  BY <1>4 DEF AddPanics, Dies, SoundInv
<1>5. CASE Checkpoint
  <2> DEFINE r == CheckpointRecord(Marshal(filter))
  <2>1. PICK out \in Outcome : recs' = Written(recs, r, out)
    BY <1>5 DEF Checkpoint
  <2>2. MadeOf(filter, tried) /\ tried' = tried
    BY <1>5 DEF Checkpoint, SoundInv
  <2>3. Unmarshal(Marshal(filter)) \in {filter, NilFilter}
    BY <2>2, NoOtherFilterReadBack DEF MadeOf
  <2>4. MadeOf(NilFilter, tried)
    BY NilType, Uint32Assumption DEF MadeOf, NilFilter
  <2>5. r \in Record /\ SoundRecord(r, tried)
    BY <2>2, <2>3, <2>4, NewRecords, MarshalType DEF SoundRecord, CheckpointRecord
  <2> HIDE DEF r
  <2>6. \A i \in 1 .. Len(recs') : SoundRecord(recs'[i], tried)
    BY <2>1, <2>5, WrittenSound DEF SoundInv
  <2>7. open' => filter' = filter
    BY <1>5 DEF Checkpoint, Dies
  <2> QED BY <2>2, <2>6, <2>7 DEF SoundInv
<1>6. CASE Close
  BY <1>6 DEF Close, SoundInv
<1>7. CASE PowerFailure
  <2>1. ~open' /\ tried' = tried
    BY <1>7 DEF PowerFailure
  <2>2. CASE \E n \in 0 .. Len(recs) :
               \/ recs' = SubSeq(recs, 1, n)
               \/ recs' = Append(SubSeq(recs, 1, n), Torn)
    <3>1. PICK n \in 0 .. Len(recs) : \/ recs' = SubSeq(recs, 1, n)
                                      \/ recs' = Append(SubSeq(recs, 1, n), Torn)
      BY <2>2
    <3> DEFINE rs == SubSeq(recs, 1, n)
    <3>2. rs \in Seq(Record) /\ \A i \in 1 .. Len(rs) : SoundRecord(rs[i], tried)
      BY PrefixFacts DEF SoundInv
    <3> HIDE DEF rs
    <3>3. Append(rs, Torn) = Written(rs, Torn, "torn") /\ "torn" \in Outcome
      BY DEF Written, Outcome
    <3>4. SoundRecord(Torn, tried)
      BY DEF SoundRecord, Torn
    <3>5. \A i \in 1 .. Len(Append(rs, Torn)) : SoundRecord(Append(rs, Torn)[i], tried)
      BY <3>2, <3>3, <3>4, NewRecords, WrittenSound
    <3>6. recs' = rs \/ recs' = Append(rs, Torn)
      BY <3>1 DEF rs
    <3> QED BY <2>1, <3>2, <3>5, <3>6 DEF SoundInv
  <2>3. CASE recs' = <<>>
    BY <2>1, <2>3 DEF SoundInv
  <2> QED BY <1>7, <2>2, <2>3 DEF PowerFailure
<1>8. CASE UNCHANGED vars
  BY <1>8 DEF vars, SoundInv
<1> QED BY <1>1, <1>2, <1>3, <1>4, <1>5, <1>6, <1>7, <1>8 DEF Next

\* No open store ever has a bit that no attempted Add accounts for: not after
\* torn writes, power failures, skipped checkpoints, nor with an m that the
\* header cuts to 32 bits and a reopen that changes it.
THEOREM StoreInventsNothing ==
  ASSUME KFits
  PROVE  Spec => []NothingInvented
<1>1. Init => SoundInv
  BY DEF Init, SoundInv
<1>2. SoundInv /\ TypeOK /\ TypeOK' /\ [Next]_vars => SoundInv'
  BY SoundStep
<1>3. SoundInv => NothingInvented
  BY DEF SoundInv, MadeOf, NothingInvented
<1> QED BY <1>1, <1>2, <1>3, TypeCorrect, PTL DEF Spec

-----------------------------------------------------------------------------
(* Safety for a caller that stops at the first error, as main.go does *)

Stops == CLI /\ ~PowerFails

\* Every record but the last is whole, and so is the last of an open file.
LEMMA WholeWhileOpen ==
  ASSUME StopInv, open
  PROVE  \A i \in 1 .. Len(recs) : recs[i].typ # "torn"
BY DEF StopInv

\* What a write leaves of the file: its old records, and at most one more.
LEMMA WrittenShape ==
  ASSUME NEW rs \in Seq(Record), NEW r \in Record, NEW out \in Outcome
  PROVE  /\ Len(Written(rs, r, out)) \in {Len(rs), Len(rs) + 1}
         /\ Len(rs) <= Len(Written(rs, r, out))
         /\ \A i \in 1 .. Len(rs) : Written(rs, r, out)[i] = rs[i]
         /\ Adds(rs) \subseteq Adds(Written(rs, r, out))
<1>1. CASE out = "none"
  BY <1>1, WrittenFacts
<1>2. ASSUME NEW q \in Record, Written(rs, r, out) = Append(rs, q)
      PROVE  /\ Len(Written(rs, r, out)) = Len(rs) + 1
             /\ \A i \in 1 .. Len(rs) : Written(rs, r, out)[i] = rs[i]
             /\ Adds(rs) \subseteq Adds(Written(rs, r, out))
  <2>1. Adds(rs) \subseteq Adds(Append(rs, q))
    BY AddsAppend
  <2>2. Len(Append(rs, q)) = Len(rs) + 1 /\ \A i \in 1 .. Len(rs) : Append(rs, q)[i] = rs[i]
    BY AppendProperties
  <2> QED BY <1>2, <2>1, <2>2
<1>3. CASE out = "full"
  <2>1. Written(rs, r, out) = Append(rs, r)
    BY <1>3, WrittenFacts
  <2> QED BY <1>2, <2>1
<1>4. CASE out = "torn"
  <2>1. Written(rs, r, out) = Append(rs, Torn) /\ Torn \in Record
    BY <1>4, WrittenFacts, NewRecords
  <2> QED BY <1>2, <2>1
<1> QED BY <1>1, <1>3, <1>4 DEF Outcome

\* One write from an open, whole file keeps the first part of StopInv: the new
\* record is torn only if the process dies.
LEMMA WrittenStops ==
  ASSUME TypeOK, StopInv, open, NEW r \in Record, r.typ # "torn", NEW out \in Outcome,
         recs' = Written(recs, r, out), out = "full" \/ ~open'
  PROVE  \A i \in 1 .. Len(recs') : recs'[i].typ = "torn" => i = Len(recs') /\ ~open'
<1> USE DEF TypeOK
<1>1. \A i \in 1 .. Len(recs) : recs'[i].typ # "torn"
  BY WholeWhileOpen, WrittenShape
<1>2. Len(recs') \in {Len(recs), Len(recs) + 1}
  BY WrittenShape
<1>3. CASE ~open'
  BY <1>1, <1>2, <1>3
<1>4. CASE out = "full"
  <2>1. recs' = Append(recs, r)
    BY <1>4, WrittenFacts
  <2>2. recs'[Len(recs) + 1] = r
    BY <2>1, AppendProperties
  <2> QED BY <1>1, <1>2, <2>2
<1> QED BY <1>3, <1>4

\* Every step of a caller that stops at the first error keeps StopInv.
LEMMA StopInvStep ==
  ASSUME Stops, TypeOK, TypeOK', FileInv, StopInv, [Next]_vars
  PROVE  StopInv'
<1> USE DEF TypeOK
<1>1. ASSUME NEW m \in MValues, NEW k \in KValues, Create(m, k)
      PROVE  StopInv'
  BY <1>1 DEF Create, StopInv
<1>2. CASE Open
  <2>1. PICK n \in 0 .. Len(recs) :
          IsValidEnd(recs, n) /\ recs' = SubSeq(recs, 1, n)
    BY <1>2 DEF Open
  <2>2. Len(recs') = n /\ \A i \in 1 .. n : recs'[i] = recs[i]
    BY <2>1, PrefixFacts
  <2>3. \A i \in 1 .. Len(recs') : recs'[i].typ # "torn"
    BY <2>1, <2>2 DEF IsValidEnd
  <2>4. \A j \in Adds(recs) : j \in Adds(recs') /\ recs'[j] = recs[j]
    <3> TAKE j \in Adds(recs)
    <3>1. j \in 1 .. Len(recs) /\ recs[j].typ = "add"
      BY AddsType
    <3>2. ASSUME n < j PROVE FALSE
      <4>1. recs[n + 1].typ = "torn" /\ n + 1 \in 1 .. Len(recs)
        BY <2>1, <3>1, <3>2 DEF IsValidEnd
      <4>2. n + 1 = Len(recs)
        BY <4>1 DEF StopInv
      <4> QED BY <3>1, <3>2, <4>1, <4>2
    <3> QED BY <2>2, <3>1, <3>2 DEF Adds
  <2>5. acked' = acked
    BY <1>2 DEF Open
  <2> QED BY <2>3, <2>4, <2>5 DEF StopInv
<1>3. ASSUME NEW data \in Item, Add(data)
      PROVE  StopInv'
  <2>1. PICK out \in Outcome :
          /\ recs' = Written(recs, AddRecord(data), out)
          /\ \/ /\ out = "full" \/ ~CLI
                /\ acked' = IF out = "full" THEN acked \cup {data} ELSE acked
             \/ Dies /\ UNCHANGED acked
    BY <1>3 DEF Add
  <2>2. AddRecord(data) \in Record /\ AddRecord(data).typ = "add"
        /\ AddRecord(data).item = data
    BY NewRecords DEF AddRecord
  <2>3. \A i \in 1 .. Len(recs') : recs'[i].typ = "torn" => i = Len(recs') /\ ~open'
    <3>1. out = "full" \/ ~open'
      BY <2>1 DEF Stops, Dies
    <3>2. open /\ AddRecord(data).typ # "torn"
      BY <1>3, <2>2 DEF Add
    <3> QED BY <2>1, <2>2, <3>1, <3>2, WrittenStops
  <2>4. \A j \in Adds(recs) : j \in Adds(recs') /\ recs'[j] = recs[j]
    BY <2>1, <2>2, WrittenShape, AddsType
  <2>5. out = "full" => \E j \in Adds(recs') : recs'[j].item = data
    <3> SUFFICES ASSUME out = "full"
                 PROVE  \E j \in Adds(recs') : recs'[j].item = data
      OBVIOUS
    <3>1. recs' = Append(recs, AddRecord(data))
      BY <2>1, <2>2, WrittenFacts
    <3>2. recs'[Len(recs) + 1] = AddRecord(data)
      BY <2>2, <3>1, AppendProperties
    <3>3. Len(recs) + 1 \in Adds(recs')
      BY <2>2, <3>1, AddsAppend
    <3> QED BY <2>2, <3>2, <3>3
  <2>6. \A x \in acked' : x \in acked \/ (x = data /\ out = "full")
    BY <2>1
  <2> QED BY <2>3, <2>4, <2>5, <2>6 DEF StopInv
<1>4. CASE AddPanics
  BY <1>4 DEF AddPanics, Dies, StopInv
<1>5. CASE Checkpoint
  <2> DEFINE r == CheckpointRecord(Marshal(filter))
  <2>1. PICK out \in Outcome :
          recs' = Written(recs, r, out) /\ (out = "full" \/ ~CLI \/ Dies)
    BY <1>5 DEF Checkpoint
  <2>2. r \in Record /\ r.typ # "torn"
    BY NewRecords, MarshalType DEF CheckpointRecord
  <2> HIDE DEF r
  <2>3. open /\ (out = "full" \/ ~open') /\ acked' = acked
    BY <1>5, <2>1 DEF Stops, Dies, Checkpoint
  <2>4. \A i \in 1 .. Len(recs') : recs'[i].typ = "torn" => i = Len(recs') /\ ~open'
    BY <2>1, <2>2, <2>3, WrittenStops
  <2>5. \A j \in Adds(recs) : j \in Adds(recs') /\ recs'[j] = recs[j]
    BY <2>1, <2>2, WrittenShape, AddsType
  <2> QED BY <2>3, <2>4, <2>5 DEF StopInv
<1>6. CASE Close
  BY <1>6 DEF Close, StopInv
<1>7. CASE PowerFailure
  BY <1>7 DEF PowerFailure, Stops
<1>8. CASE UNCHANGED vars
  BY <1>8 DEF vars, StopInv
<1> QED BY <1>1, <1>2, <1>3, <1>4, <1>5, <1>6, <1>7, <1>8 DEF Next

\* main.go, runStoreAdd: for a caller that stops at the first error, only the last
\* record of a file can be torn, and all that was acknowledged is in the file.
THEOREM StopInvariant ==
  ASSUME ParamsFit, Stops
  PROVE  Spec => []StopInv
<1>1. Init => StopInv
  BY DEF Init, StopInv
<1>2. FileInv /\ StopInv /\ TypeOK /\ TypeOK' /\ [Next]_vars => StopInv'
  BY StopInvStep
<1> QED BY <1>1, <1>2, TypeCorrect, FileInvariant, PTL DEF Spec

\* Nothing whose Add returned nil is lost by a crash of the process, at any
\* point, or by any number of reopens and checkpoints.
THEOREM AckedItemsSurvive ==
  ASSUME ParamsFit, Stops
  PROVE  Spec => []AckedSurvive
<1>1. TypeOK /\ StopInv /\ ValidPrefixRecovered => AckedSurvive
  <2> SUFFICES ASSUME TypeOK, StopInv, ValidPrefixRecovered, NEW x \in acked
               PROVE  Recoverable(x)
    BY DEF AckedSurvive
  <2>1. PICK j \in Adds(recs) : recs[j].item = x
    BY DEF StopInv
  <2>2. j \in 1 .. Len(recs) /\ recs[j].typ = "add"
    BY DEF Adds
  <2>3. \A i \in 1 .. j : recs[i].typ # "torn"
    BY <2>2 DEF StopInv, TypeOK
  <2> QED BY <2>1, <2>2, <2>3 DEF ValidPrefixRecovered
<1> QED BY <1>1, TypeCorrect, StopInvariant, PrefixRecovered, PTL

-----------------------------------------------------------------------------
(* The open filter and the next replay *)

\* store.go, Open, first pass: there is one last checkpoint.
LEMMA LastCheckpointUnique ==
  ASSUME NEW rs \in Seq(Record), NEW c \in 0 .. Len(rs), NEW d \in 0 .. Len(rs),
         IsLastCheckpoint(rs, c), IsLastCheckpoint(rs, d)
  PROVE  c = d
BY DEF IsLastCheckpoint

\* The replay of a file with one more Add record.
LEMMA ReplayAppendAdd ==
  ASSUME NEW rs \in Seq(Record), NEW x \in Item, NEW m, NEW c \in 0 .. Len(rs) + 1,
         IsLastCheckpoint(Append(rs, AddRecord(x)), c),
         ReplayStart(m, rs, c) \in Filter
  PROVE  /\ c \in 0 .. Len(rs) /\ IsLastCheckpoint(rs, c)
         /\ Replay(m, Append(rs, AddRecord(x)), c) = AddItem(Replay(m, rs, c), x)
<1> DEFINE new == Append(rs, AddRecord(x))
<1>1. AddRecord(x) \in Record /\ AddRecord(x).typ = "add" /\ AddRecord(x).item = x
  BY NewRecords DEF AddRecord
<1>2. Len(new) = Len(rs) + 1 /\ new[Len(rs) + 1] = AddRecord(x)
      /\ \A i \in 1 .. Len(rs) : new[i] = rs[i]
  BY <1>1, AppendProperties
<1> HIDE DEF new
<1>3. c \in 0 .. Len(rs)
  BY <1>1, <1>2 DEF new, IsLastCheckpoint
<1>4. IsLastCheckpoint(rs, c)
  BY <1>2, <1>3 DEF new, IsLastCheckpoint
<1>5. ItemsAfter(new, c) = ItemsAfter(rs, c) \cup {x}
  <2>1. ASSUME NEW j \in c + 1 .. Len(new), new[j].typ = "add"
        PROVE  new[j].item \in ItemsAfter(rs, c) \cup {x}
    BY <1>1, <1>2, <1>3, <2>1 DEF ItemsAfter
  <2>2. ASSUME NEW j \in c + 1 .. Len(rs), rs[j].typ = "add"
        PROVE  rs[j].item \in ItemsAfter(new, c)
    <3>1. j \in c + 1 .. Len(new) /\ new[j] = rs[j]
      BY <1>2, <1>3
    <3> QED BY <2>2, <3>1 DEF ItemsAfter
  <2>3. x \in ItemsAfter(new, c)
    BY <1>1, <1>2, <1>3 DEF ItemsAfter
  <2> QED BY <2>1, <2>2, <2>3 DEF ItemsAfter
<1>6. ReplayStart(m, new, c) = ReplayStart(m, rs, c)
  BY <1>2, <1>3 DEF ReplayStart
<1>7. ItemsAfter(rs, c) \in SUBSET Item /\ {x} \in SUBSET Item
  BY <1>3, ItemsAfterType
<1>8. Replay(m, rs, c) \in Filter
  BY <1>7, AddItemsFacts DEF Replay
<1>9. AddItem(Replay(m, rs, c), x) = AddItems(Replay(m, rs, c), {x})
  BY <1>8, AddItemIsAddItems
<1>10. AddItems(AddItems(ReplayStart(m, rs, c), ItemsAfter(rs, c)), {x})
         = AddItems(ReplayStart(m, rs, c), ItemsAfter(rs, c) \cup {x})
  BY <1>7, AddItemsUnion
<1> QED BY <1>3, <1>4, <1>5, <1>6, <1>9, <1>10 DEF Replay, new

\* The replay of a file that ends with a checkpoint.
LEMMA ReplayAppendCheckpoint ==
  ASSUME NEW rs \in Seq(Record), NEW f \in Filter, f.m < Uint32, f.k < Uint32, NEW m,
         NEW c \in 0 .. Len(rs) + 1,
         IsLastCheckpoint(Append(rs, CheckpointRecord(Marshal(f))), c)
  PROVE  Replay(m, Append(rs, CheckpointRecord(Marshal(f))), c) = f
<1> DEFINE r == CheckpointRecord(Marshal(f))
           new == Append(rs, r)
<1>1. r \in Record /\ r.typ = "checkpoint" /\ Unmarshal(r.payload) = f
  BY NewRecords, MarshalType, RoundTrip DEF CheckpointRecord, FilterOrNil
<1> HIDE DEF r
<1>2. Len(new) = Len(rs) + 1 /\ new[Len(rs) + 1] = r
  BY <1>1, AppendProperties
<1> HIDE DEF new
<1>3. c = Len(rs) + 1
  BY <1>1, <1>2 DEF r, new, IsLastCheckpoint
<1>4. ReplayStart(m, new, c) = f
  BY <1>1, <1>2, <1>3, FilterIsNotNil DEF ReplayStart
<1>5. ItemsAfter(new, c) = {}
  BY <1>2, <1>3 DEF ItemsAfter
<1>6. AddItems(f, {}) = f
  BY DEF AddItems, Filter
<1> QED BY <1>4, <1>5, <1>6 DEF Replay, r, new

\* Every step keeps the filter in memory equal to what a replay would build.
LEMMA MemoryStep ==
  ASSUME ParamsFit, Stops, TypeOK, TypeOK', FileInv, FileInv', StopInv,
         ReopenMatchesMemory, [Next]_vars
  PROVE  ReopenMatchesMemory'
<1> USE DEF TypeOK
<1>1. ASSUME NEW m \in MValues, NEW k \in KValues, Create(m, k)
      PROVE  ReopenMatchesMemory'
  <2> SUFFICES ASSUME open', NEW c \in 0 .. Len(recs'), c > 0 \/ filter'.k = DefaultK
               PROVE  Replay(filterM', recs', c) = filter'
    BY DEF ReopenMatchesMemory
  <2>1. m \in Nat \ {0} /\ k \in Nat \ {0} /\ m < Uint32
    BY <1>1, StoreAssumption DEF Create, ValidParams, ParamsFit
  <2>2. filterM' = m /\ filter' = NewFilter(m, k) /\ recs' = <<>>
    <3>1. m % Uint32 = m
      BY <2>1, Uint32Assumption
    <3>2. filterM' = m % Uint32 /\ filter' = NewFilter(m, k)
      BY <1>1 DEF Create
    <3>3. recs' = <<>>
      BY <1>1 DEF Create
    <3> QED BY <3>1, <3>2, <3>3
  <2>3. c = 0
    BY <2>2
  <2>4. filter'.k = k
    BY <2>1, <2>2 DEF NewFilter, ValidParams
  <2>5. ReplayStart(filterM', recs', c) = filter'
    BY <2>2, <2>3, <2>4 DEF ReplayStart
  <2>6. ItemsAfter(recs', c) = {}
    BY <2>2, <2>3 DEF ItemsAfter
  <2>7. filter' \in Filter
    BY <2>1, <2>2, NewFilterType
  <2> QED BY <2>5, <2>6, <2>7 DEF Replay, AddItems, Filter
<1>2. CASE Open
  <2> SUFFICES ASSUME NEW d \in 0 .. Len(recs'), IsLastCheckpoint(recs', d)
               PROVE  Replay(filterM', recs', d) = filter'
    BY DEF ReopenMatchesMemory
  <2>1. PICK n \in 0 .. Len(recs) : \E c \in 0 .. n :
          /\ IsLastCheckpoint(SubSeq(recs, 1, n), c)
          /\ recs' = SubSeq(recs, 1, n)
          /\ filter' = Replay(filterM, SubSeq(recs, 1, n), c)
    BY <1>2 DEF Open
  <2>2. PICK c \in 0 .. n :
          /\ IsLastCheckpoint(recs', c)
          /\ recs' = SubSeq(recs, 1, n)
          /\ filter' = Replay(filterM, recs', c)
    BY <2>1
  <2>3. Len(recs') = n /\ filterM' = filterM
    BY <1>2, <2>2, PrefixFacts DEF Open
  <2>4. c = d
    BY <2>2, <2>3, LastCheckpointUnique
  <2> QED BY <2>2, <2>3, <2>4
<1>3. ASSUME NEW data \in Item, Add(data)
      PROVE  ReopenMatchesMemory'
  <2> SUFFICES ASSUME open', NEW c \in 0 .. Len(recs'), IsLastCheckpoint(recs', c),
                      c > 0 \/ filter'.k = DefaultK
               PROVE  Replay(filterM', recs', c) = filter'
    BY DEF ReopenMatchesMemory
  <2>1. /\ recs' = Written(recs, AddRecord(data), "full")
        /\ filter' = AddItem(filter, data)
        /\ open /\ filterM' = filterM /\ header = "complete"
    BY <1>3 DEF Add, Dies, Stops, FileInv
  <2>2. AddRecord(data) \in Record
    BY NewRecords
  <2>3. recs' = Append(recs, AddRecord(data)) /\ Len(recs') = Len(recs) + 1
    BY <2>1, <2>2, AppendProperties DEF Written
  <2>4. filter \in Filter /\ filterM \in 1 .. Uint32 - 1 /\ CheckpointsCover(recs)
    BY <2>1 DEF FileInv, Fits
  <2>5. filter'.k = filter.k
    BY <2>1, <2>4 DEF AddItem, Filter
  <2>6. c \in 0 .. Len(recs) /\ IsLastCheckpoint(recs, c)
    <3>1. c # Len(recs) + 1
      <4>1. recs'[Len(recs) + 1].typ = "add"
        BY <2>2, <2>3, AppendProperties DEF AddRecord
      <4> QED BY <4>1 DEF IsLastCheckpoint
    <3>2. \A i \in 1 .. Len(recs) : recs'[i] = recs[i]
      BY <2>2, <2>3, AppendProperties
    <3> QED BY <2>3, <3>1, <3>2 DEF IsLastCheckpoint
  <2>7. Replay(filterM, recs, c) = filter
    BY <2>1, <2>5, <2>6 DEF ReopenMatchesMemory
  <2>8. ReplayStart(filterM, recs, c) \in Filter
    BY <2>4, <2>6, ReplayStartFits DEF Fits
  <2>9. Replay(filterM, recs', c) = AddItem(Replay(filterM, recs, c), data)
    BY <2>3, <2>8, ReplayAppendAdd
  <2> QED BY <2>1, <2>7, <2>9
<1>4. CASE AddPanics
  BY <1>4 DEF AddPanics, Dies, ReopenMatchesMemory
<1>5. CASE Checkpoint
  <2> SUFFICES ASSUME open', NEW c \in 0 .. Len(recs'), IsLastCheckpoint(recs', c)
               PROVE  Replay(filterM', recs', c) = filter'
    BY DEF ReopenMatchesMemory
  <2>1. /\ recs' = Written(recs, CheckpointRecord(Marshal(filter)), "full")
        /\ filter' = filter
        /\ open /\ filterM' = filterM
    BY <1>5 DEF Checkpoint, Dies, Stops
  <2>2. Fits(filter)
    BY <2>1 DEF FileInv
  <2>3. CheckpointRecord(Marshal(filter)) \in Record
    BY NewRecords, MarshalType
  <2>4. recs' = Append(recs, CheckpointRecord(Marshal(filter)))
        /\ Len(recs') = Len(recs) + 1
    BY <2>1, <2>3, AppendProperties DEF Written
  <2> QED BY <2>1, <2>2, <2>4, ReplayAppendCheckpoint DEF Fits
<1>6. CASE Close
  BY <1>6 DEF Close, ReopenMatchesMemory
<1>7. CASE PowerFailure
  BY <1>7 DEF PowerFailure, ReopenMatchesMemory
<1>8. CASE UNCHANGED vars
  BY <1>8 DEF vars, ReopenMatchesMemory
<1> QED BY <1>1, <1>2, <1>3, <1>4, <1>5, <1>6, <1>7, <1>8 DEF Next

\* While the store is open its filter is the one the next Open would rebuild.
THEOREM MemoryMatchesFile ==
  ASSUME ParamsFit, Stops
  PROVE  Spec => []ReopenMatchesMemory
<1>1. Init => ReopenMatchesMemory
  BY DEF Init, ReopenMatchesMemory
<1>2. /\ ReopenMatchesMemory /\ FileInv /\ FileInv' /\ StopInv /\ TypeOK /\ TypeOK'
      /\ [Next]_vars
      => ReopenMatchesMemory'
  BY MemoryStep
<1> QED BY <1>1, <1>2, TypeCorrect, FileInvariant, StopInvariant, PTL DEF Spec

-----------------------------------------------------------------------------
(* The store implements the durable set *)

\* The items found in an open filter, and none in a fresh one.
LEMMA AnswersFacts ==
  /\ Answers \in SUBSET Item
  /\ ~open => Answers = {}
  /\ open => \A x \in Item : x \in Answers <=> TestItem(filter, x)
BY DEF Answers

\* filter.go, New: a fresh filter finds nothing.
LEMMA FreshFilterIsEmpty ==
  ASSUME NEW m \in Nat \ {0}, NEW k \in Nat \ {0}, NEW x \in Item
  PROVE  ~TestItem(NewFilter(m, k), x)
<1>1. Hash(x, 0, m) \in Positions(x, k, m)
  BY DEF Positions
<1> QED BY <1>1 DEF TestItem, NewFilter, ValidParams

\* What one write does to the committed items.
LEMMA WrittenCommitted ==
  ASSUME TypeOK, NEW r \in Record, NEW out \in Outcome, recs' = Written(recs, r, out)
  PROVE  /\ r.typ # "add" => Committed' = Committed
         /\ r.typ = "add" => Committed' \in {Committed, Committed \cup {r.item}}
         /\ r.typ = "add" /\ out = "full" => Committed' = Committed \cup {r.item}
<1> USE DEF TypeOK
<1>1. Committed \subseteq Committed'
  <2>1. \A j \in Adds(recs) : j \in Adds(recs') /\ recs'[j] = recs[j]
    BY WrittenShape, AddsType
  <2> QED BY <2>1 DEF Committed
<1>2. \A x \in Committed' : x \in Committed \/ (r.typ = "add" /\ x = r.item)
  <2>1. ASSUME NEW j \in Adds(recs')
        PROVE  (j \in Adds(recs) /\ recs'[j] = recs[j]) \/ (r.typ = "add" /\ recs'[j] = r)
    BY WrittenAdds
  <2> QED BY <2>1 DEF Committed
<1>3. ASSUME r.typ = "add", out = "full"
      PROVE  r.item \in Committed'
  <2>1. recs' = Append(recs, r)
    BY <1>3, WrittenFacts
  <2>2. Len(recs) + 1 \in Adds(recs')
    BY <1>3, <2>1, AddsAppend
  <2>3. recs'[Len(recs) + 1] = r
    BY <2>1, AppendProperties
  <2> QED BY <2>2, <2>3 DEF Committed
<1>4. r.typ # "add" => Committed' = Committed
  BY <1>1, <1>2
<1>5. r.typ = "add" => Committed' \in {Committed, Committed \cup {r.item}}
  BY <1>1, <1>2
<1>6. r.typ = "add" /\ out = "full" => Committed' = Committed \cup {r.item}
  BY <1>1, <1>2, <1>3
<1> QED BY <1>4, <1>5, <1>6

\* Every step of the store is a step of the durable set, or changes nothing there.
LEMMA RefinementStep ==
  ASSUME ParamsFit, Stops, TypeOK, TypeOK', FileInv, FileInv', StopInv, [Next]_vars
  PROVE  [Abs!SetNext]_(Abs!setVars)
<1> USE DEF TypeOK
<1>1. ASSUME NEW m \in MValues, NEW k \in KValues, Create(m, k)
      PROVE  Abs!New
  <2>1. ~open /\ recs' = <<>> /\ open' \in BOOLEAN
    BY <1>1 DEF Create
  <2>2. Committed' = {}
    BY <2>1 DEF Committed, Adds
  <2>3. Answers' = {}
    <3>1. CASE ~open'
      BY <3>1 DEF Answers
    <3>2. CASE open'
      <4>1. filter' = NewFilter(m, k)
        BY <1>1, <2>1, <3>2 DEF Create
      <4>2. m \in Nat \ {0} /\ k \in Nat \ {0}
        BY <1>1, StoreAssumption DEF Create, ValidParams
      <4> QED BY <4>1, <4>2, FreshFilterIsEmpty DEF Answers
    <3> QED BY <3>1, <3>2
  <2> QED BY <2>1, <2>2, <2>3 DEF Abs!New
<1>2. CASE Open
  <2>1. PICK n \in 0 .. Len(recs) :
          IsValidEnd(recs, n) /\ recs' = SubSeq(recs, 1, n)
    BY <1>2 DEF Open
  <2>2. Len(recs') = n /\ \A i \in 1 .. n : recs'[i] = recs[i]
    BY <2>1, PrefixFacts
  <2>3. \A j \in Adds(recs) : j <= n
    <3> SUFFICES ASSUME NEW j \in Adds(recs), n < j PROVE FALSE
      BY AddsType
    <3>1. j \in 1 .. Len(recs) /\ recs[j].typ = "add"
      BY AddsType
    <3>2. recs[n + 1].typ = "torn" /\ n + 1 \in 1 .. Len(recs)
      BY <2>1, <3>1 DEF IsValidEnd
    <3>3. n + 1 = Len(recs)
      BY <3>2 DEF StopInv
    <3> QED BY <3>1, <3>2, <3>3
  <2>4. Adds(recs') = Adds(recs)
    BY <2>2, <2>3 DEF Adds
  <2>5. Committed' = Committed
    BY <2>2, <2>3, <2>4, AddsType DEF Committed
  <2>6. ~open /\ open'
    BY <1>2 DEF Open
  <2>7. Committed \subseteq Answers'
    <3> SUFFICES ASSUME NEW j \in Adds(recs') PROVE recs'[j].item \in Answers'
      BY <2>5 DEF Committed
    <3>1. recs'[j].item \in Item
      BY AddsType
    <3>2. TestItem(filter', recs'[j].item)
      BY <2>6 DEF FileInv
    <3> QED BY <2>6, <3>1, <3>2 DEF Answers
  <2>8. Answers' \in SUBSET Item
    BY DEF Answers
  <2>9. open' = TRUE
    BY <1>2 DEF Open
  <2>10. Abs!Reopen
    BY <2>5, <2>6, <2>7, <2>8, <2>9 DEF Abs!Reopen
  <2> QED BY <2>10 DEF Abs!SetNext
<1>3. ASSUME NEW data \in Item, Add(data)
      PROVE  Abs!Insert(data) \/ Abs!DieInserting(data)
  <2> DEFINE r == AddRecord(data)
  <2>1. PICK out \in Outcome :
          /\ recs' = Written(recs, r, out)
          /\ \/ out = "full" /\ filter' = AddItem(filter, data) /\ UNCHANGED open
             \/ Dies
    BY <1>3 DEF Add, Stops
  <2>2. r \in Record /\ r.typ = "add" /\ r.item = data
    BY NewRecords DEF AddRecord
  <2> HIDE DEF r
  <2>3. open /\ Fits(filter)
    BY <1>3 DEF Add, FileInv
  <2>4. CASE out = "full" /\ filter' = AddItem(filter, data) /\ UNCHANGED open
    <3>1. Committed' = Committed \cup {data}
      BY <2>1, <2>2, <2>4, WrittenCommitted
    <3>2. filter \in Filter /\ {data} \in SUBSET Item
      BY <2>3 DEF Fits
    <3>3. filter' = AddItems(filter, {data})
      BY <2>4, <3>2, AddItemIsAddItems
    <3>4. TestItem(filter', data)
          /\ \A x \in Item : TestItem(filter, x) => TestItem(filter', x)
      BY <3>2, <3>3, AddItemsFacts
    <3>5. Answers \cup {data} \subseteq Answers'
      BY <2>3, <2>4, <3>4 DEF Answers
    <3>6. Answers' \in SUBSET Item
      BY DEF Answers
    <3> QED BY <2>3, <2>4, <3>1, <3>5, <3>6 DEF Abs!Insert
  <2>5. CASE Dies
    <3>1. Committed' \in {Committed, Committed \cup {data}}
      BY <2>1, <2>2, WrittenCommitted
    <3>2. open' = FALSE
      BY <2>5 DEF Dies
    <3>3. Answers' = {}
      BY <3>2 DEF Answers
    <3> QED BY <2>3, <3>1, <3>2, <3>3 DEF Abs!DieInserting
  <2> QED BY <2>1, <2>4, <2>5
<1>4. ASSUME UNCHANGED recs, open, open' = FALSE
      PROVE  Abs!Leave
  <2>1. Committed' = Committed
    BY <1>4 DEF Committed, Adds
  <2>2. Answers' = {}
    BY <1>4 DEF Answers
  <2> QED BY <1>4, <2>1, <2>2 DEF Abs!Leave
<1>5. CASE Checkpoint
  <2> DEFINE r == CheckpointRecord(Marshal(filter))
  <2>1. PICK out \in Outcome :
          recs' = Written(recs, r, out) /\ (UNCHANGED <<open, filter>> \/ Dies)
    BY <1>5 DEF Checkpoint
  <2>2. r \in Record /\ r.typ # "add"
    BY NewRecords, MarshalType DEF CheckpointRecord
  <2> HIDE DEF r
  <2>3. Committed' = Committed
    BY <2>1, <2>2, WrittenCommitted
  <2>4. CASE UNCHANGED <<open, filter>>
    <3>1. Answers' = Answers
      BY <2>4 DEF Answers
    <3> QED BY <2>3, <2>4, <3>1 DEF Abs!setVars
  <2>5. CASE Dies
    <3>1. open /\ open' = FALSE
      BY <1>5, <2>5 DEF Checkpoint, Dies
    <3>2. Answers' = {}
      BY <3>1 DEF Answers
    <3>3. Abs!Leave
      BY <2>3, <3>1, <3>2 DEF Abs!Leave
    <3> QED BY <3>3 DEF Abs!SetNext
  <2> QED BY <2>1, <2>4, <2>5
<1>6. AddPanics \/ Close => UNCHANGED recs /\ open /\ open' = FALSE
  BY DEF AddPanics, Close, Dies
<1>7. ~PowerFailure
  BY DEF PowerFailure, Stops
<1>8. CASE UNCHANGED vars
  <2>1. UNCHANGED <<Committed, open, Answers>>
    BY <1>8 DEF vars, Committed, Adds, Answers
  <2> QED BY <2>1 DEF Abs!setVars
<1> QED BY <1>1, <1>2, <1>3, <1>4, <1>5, <1>6, <1>7, <1>8 DEF Next, Abs!SetNext

\* Used as main.go uses it, the store is a durable set: a file that survives
\* its processes, in which a later process finds what an earlier one added.
THEOREM StoreIsDurableSet ==
  ASSUME ParamsFit, Stops
  PROVE  Spec => ImplementsDurableSet
<1>1. Init => Abs!SetInit
  <2> SUFFICES ASSUME Init PROVE Abs!SetInit
    OBVIOUS
  <2>1. Committed = {} /\ open = FALSE /\ Answers = {}
    BY DEF Init, Committed, Adds, Answers
  <2> QED BY <2>1 DEF Abs!SetInit
<1>2. /\ FileInv /\ FileInv' /\ StopInv /\ TypeOK /\ TypeOK' /\ [Next]_vars
      => [Abs!SetNext]_(Abs!setVars)
  BY RefinementStep
<1> QED BY <1>1, <1>2, TypeCorrect, FileInvariant, StopInvariant, PTL
        DEF Spec, ImplementsDurableSet, Abs!SetSpec

-----------------------------------------------------------------------------
(* Several processes on one file: SharedStore *)

Cell == [rec : Record, part : Nat]

\* Every record takes a cell at least.
LEMMA SizeFacts ==
  ASSUME NEW r \in Record
  PROVE  /\ Size(r) \in Nat \ {0}
         /\ Encoded(r) \in Seq(Cell) /\ Len(Encoded(r)) = Size(r)
         /\ \A i \in 1 .. Size(r) : Encoded(r)[i] = [rec |-> r, part |-> i]
<1> DEFINE n == Size(r)
<1>1. n \in Nat \ {0}
  BY SharedStoreAssumption DEF Size, Record
<1>2. Encoded(r) = [i \in 1 .. n |-> [rec |-> r, part |-> i]]
  BY DEF Encoded
<1> HIDE DEF n
<1>3. \A i \in 1 .. n : [rec |-> r, part |-> i] \in Cell
  BY <1>1 DEF Cell
<1> QED BY <1>1, <1>2, <1>3 DEF n

-----------------------------------------------------------------------------
(* Induction from the end of a file to its beginning *)

LEMMA DownInduction ==
  ASSUME NEW n \in Nat, NEW G,
         \A o \in 0 .. n : (\A u \in o + 1 .. n : u \in G) => o \in G
  PROVE  \A o \in 0 .. n : o \in G
<1> DEFINE S == 0 .. n
           H == {T \in SUBSET S : \A o \in S : T = o .. n => o \in G}
<1>1. ASSUME NEW T \in SUBSET S, \A U \in SUBSET T : U # T => U \in H PROVE T \in H
  <2> SUFFICES ASSUME NEW o \in S, T = o .. n PROVE o \in G
    OBVIOUS
  <2>1. ASSUME NEW u \in o + 1 .. n PROVE u \in G
    <3>1. u \in S /\ u .. n \in SUBSET T /\ o \in T /\ o \notin u .. n
      OBVIOUS
    <3>2. u .. n \in H
      BY <1>1, <3>1
    <3> QED BY <3>1, <3>2
  <2> QED BY <2>1
<1>2. IsFiniteSet(S)
  BY FS_Interval
<1>3. \A T \in SUBSET S : T \in H
  <2> HIDE DEF H, S
  <2> QED BY <1>1, <1>2, StrongSubsetInduction
<1>4. ASSUME NEW o \in S PROVE o \in G
  <2>1. o .. n \in SUBSET S
    OBVIOUS
  <2>2. o .. n \in H
    BY <1>3, <2>1
  <2> QED BY <2>2
<1> QED BY <1>4

-----------------------------------------------------------------------------
(* Reading a file *)

\* Where the record at off ends.
After(cs, off) == off + Size(cs[off + 1].rec)

LEMMA AfterFacts ==
  ASSUME NEW cs \in Seq(Cell), NEW off \in 0 .. Len(cs),
         ParsesAt(cs, off)
  PROVE  /\ off + 1 \in 1 .. Len(cs) /\ cs[off + 1].rec \in Record
         /\ After(cs, off) \in off + 1 .. Len(cs)
<1>1. off + 1 \in 1 .. Len(cs)
  BY DEF ParsesAt
<1>2. cs[off + 1] \in Cell
  BY <1>1
<1>3. cs[off + 1].rec \in Record
  BY <1>2 DEF Cell
<1>4. Size(cs[off + 1].rec) \in Nat \ {0}
  BY <1>3, SizeFacts
<1>5. off + Size(cs[off + 1].rec) <= Len(cs)
  BY DEF ParsesAt
<1> QED BY <1>1, <1>3, <1>4, <1>5 DEF After

\* One step of the scan, given what follows.
ScanStep(cs, g, off) ==
  IF ParsesAt(cs, off)
  THEN [recs |-> <<cs[off + 1].rec>> \o g[After(cs, off)].recs, end |-> g[After(cs, off)].end]
  ELSE [recs |-> <<>>, end |-> off]

IsScan(cs, g) == g = [off \in 0 .. Len(cs) |-> ScanStep(cs, g, off)]

ScanOf(cs) == CHOOSE g : IsScan(cs, g)

LEMMA ScanIsScanOf == \A cs : Scan(cs) = ScanOf(cs)[0]
BY DEF Scan, ScanOf, IsScan, ScanStep, After

LEMMA ScanExists ==
  ASSUME NEW cs \in Seq(Cell)
  PROVE  IsScan(cs, ScanOf(cs))
<1> DEFINE n == Len(cs)
           Part(g, o) == g = [u \in o .. n |-> ScanStep(cs, g, u)]
           G == {o \in 0 .. n : \E g : Part(g, o)}
<1>1. ASSUME NEW o \in 0 .. n, \A u \in o + 1 .. n : u \in G PROVE o \in G
  <2>1. PICK g : o < n => Part(g, o + 1)
    <3>1. CASE o < n
      <4>1. o + 1 \in G
        BY <1>1, <3>1
      <4> QED BY <4>1
    <3> QED BY <3>1
  <2> DEFINE h == [u \in o .. n |-> IF u = o THEN ScanStep(cs, g, o) ELSE g[u]]
  <2>2. ASSUME NEW u \in o .. n PROVE h[u] = ScanStep(cs, h, u)
    <3>1. ScanStep(cs, h, u) = ScanStep(cs, g, u)
      <4>1. CASE ParsesAt(cs, u)
        <5>1. u \in 0 .. n
          OBVIOUS
        <5>2. After(cs, u) \in u + 1 .. n
          BY <4>1, <5>1, AfterFacts
        <5>3. After(cs, u) \in o .. n /\ After(cs, u) # o
          BY <5>2
        <5>4. h[After(cs, u)] = g[After(cs, u)]
          BY <5>3
        <5> HIDE DEF h
        <5> QED BY <5>4 DEF ScanStep
      <4> QED BY <4>1 DEF ScanStep
    <3>2. CASE u = o
      BY <3>1, <3>2
    <3>3. CASE u # o
      <4>1. u \in o + 1 .. n /\ o < n
        BY <3>3
      <4>2. g[u] = ScanStep(cs, g, u)
        BY <2>1, <4>1
      <4>3. h[u] = g[u]
        BY <3>3
      <4> QED BY <3>1, <4>2, <4>3
    <3> QED BY <3>2, <3>3
  <2>3. Part(h, o)
    <3>1. h = [u \in o .. n |-> h[u]]
      OBVIOUS
    <3> HIDE DEF h
    <3> QED BY <2>2, <3>1
  <2> QED BY <2>3
<1>2. 0 \in G
  <2>1. n \in Nat /\ 0 \in 0 .. n
    OBVIOUS
  <2> HIDE DEF G, n
  <2> QED BY <1>1, <2>1, DownInduction
<1>3. \E g : IsScan(cs, g)
  BY <1>2 DEF IsScan
<1> QED BY <1>3 DEF ScanOf

\* What the scan finds from an offset on.
RecsFrom(cs, off) == ScanOf(cs)[off].recs
EndFrom(cs, off) == ScanOf(cs)[off].end

LEMMA ScanFrom ==
  ASSUME NEW cs \in Seq(Cell), NEW off \in 0 .. Len(cs)
  PROVE  /\ ParsesAt(cs, off) =>
              /\ RecsFrom(cs, off) = <<cs[off + 1].rec>> \o RecsFrom(cs, After(cs, off))
              /\ EndFrom(cs, off) = EndFrom(cs, After(cs, off))
         /\ ~ParsesAt(cs, off) => RecsFrom(cs, off) = <<>> /\ EndFrom(cs, off) = off
<1> DEFINE g == ScanOf(cs)
<1>1. IsScan(cs, g)
  BY ScanExists
<1> HIDE DEF g
<1>2. g[off] = ScanStep(cs, g, off)
  BY <1>1 DEF IsScan
<1>3. CASE ParsesAt(cs, off)
  <2>1. g[off] = [recs |-> <<cs[off + 1].rec>> \o g[After(cs, off)].recs,
                  end |-> g[After(cs, off)].end]
    BY <1>2, <1>3 DEF ScanStep
  <2> QED BY <1>3, <2>1 DEF RecsFrom, EndFrom, g
<1>4. CASE ~ParsesAt(cs, off)
  <2>1. g[off] = [recs |-> <<>>, end |-> off]
    BY <1>2, <1>4 DEF ScanStep
  <2> QED BY <1>4, <2>1 DEF RecsFrom, EndFrom, g
<1> QED BY <1>3, <1>4

LEMMA ParsedFromStart ==
  \A cs : Parsed(cs) = RecsFrom(cs, 0) /\ ValidEnd(cs) = EndFrom(cs, 0)
BY ScanIsScanOf DEF Parsed, ValidEnd, RecsFrom, EndFrom

\* One record in front of others.
LEMMA FirstRecord ==
  ASSUME NEW r \in Record, NEW rs \in Seq(Record)
  PROVE  /\ <<r>> \o rs \in Seq(Record) /\ Len(<<r>> \o rs) = Len(rs) + 1
         /\ (<<r>> \o rs)[1] = r
         /\ \A j \in 1 .. Len(rs) : (<<r>> \o rs)[j + 1] = rs[j]
<1>1. <<r>> \in Seq(Record) /\ Len(<<r>>) = 1 /\ <<r>>[1] = r
  OBVIOUS
<1>2. /\ <<r>> \o rs \in Seq(Record)
      /\ Len(<<r>> \o rs) = Len(<<r>>) + Len(rs)
      /\ \A i \in 1 .. Len(<<r>>) + Len(rs) :
           (<<r>> \o rs)[i] = IF i <= Len(<<r>>) THEN <<r>>[i] ELSE rs[i - Len(<<r>>)]
  BY <1>1, ConcatProperties
<1>3. Len(rs) \in Nat
  OBVIOUS
<1>4. (<<r>> \o rs)[1] = r
  BY <1>1, <1>2, <1>3
<1>5. ASSUME NEW j \in 1 .. Len(rs) PROVE (<<r>> \o rs)[j + 1] = rs[j]
  <2>1. j + 1 \in 1 .. 1 + Len(rs) /\ ~(j + 1 <= 1) /\ (j + 1) - 1 = j
    BY <1>3
  <2>2. (<<r>> \o rs)[j + 1] = rs[(j + 1) - 1]
    BY <1>1, <1>2, <2>1
  <2> QED BY <2>1, <2>2
<1> QED BY <1>1, <1>2, <1>3, <1>4, <1>5

\* A record that was parsed has a cell behind its beginning.
Among(cs, off, rs) == \A j \in 1 .. Len(rs) : \E q \in off + 1 .. Len(cs) : rs[j] = cs[q].rec

LEMMA FoundFrom ==
  ASSUME NEW cs \in Seq(Cell)
  PROVE  \A off \in 0 .. Len(cs) :
           /\ RecsFrom(cs, off) \in Seq(Record) /\ Among(cs, off, RecsFrom(cs, off))
           /\ EndFrom(cs, off) \in off .. Len(cs)
<1> DEFINE n == Len(cs)
           P(off) == /\ RecsFrom(cs, off) \in Seq(Record) /\ Among(cs, off, RecsFrom(cs, off))
                     /\ EndFrom(cs, off) \in off .. n
           G == {off \in 0 .. n : P(off)}
<1>1. ASSUME NEW o \in 0 .. n, \A u \in o + 1 .. n : u \in G PROVE P(o)
  <2>1. CASE ~ParsesAt(cs, o)
    <3>1. RecsFrom(cs, o) = <<>> /\ EndFrom(cs, o) = o
      BY <2>1, ScanFrom
    <3>2. o \in o .. n /\ <<>> \in Seq(Record) /\ Len(<<>>) = 0
      OBVIOUS
    <3> QED BY <3>1, <3>2 DEF Among
  <2>2. CASE ParsesAt(cs, o)
    <3> DEFINE a == After(cs, o)
               r == cs[o + 1].rec
               rs == RecsFrom(cs, a)
    <3>1. o + 1 \in 1 .. n /\ r \in Record /\ a \in o + 1 .. n
      BY <2>2, AfterFacts
    <3>2. P(a)
      BY <1>1, <3>1
    <3>3. RecsFrom(cs, o) = <<r>> \o rs /\ EndFrom(cs, o) = EndFrom(cs, a)
      BY <2>2, ScanFrom
    <3> HIDE DEF a, r, rs
    <3>4. rs \in Seq(Record) /\ Among(cs, a, rs) /\ EndFrom(cs, a) \in a .. n
      BY <3>2 DEF rs
    <3>5. EndFrom(cs, o) \in o .. n
      BY <3>1, <3>3, <3>4
    <3>6. Among(cs, o, <<r>> \o rs)
      <4> SUFFICES ASSUME NEW j \in 1 .. Len(rs) + 1
                   PROVE  \E q \in o + 1 .. n : (<<r>> \o rs)[j] = cs[q].rec
        BY <3>1, <3>4, FirstRecord DEF Among
      <4>1. CASE j = 1
        <5>1. o + 1 \in o + 1 .. n
          BY <3>1
        <5>2. (<<r>> \o rs)[j] = cs[o + 1].rec
          BY <3>1, <3>4, <4>1, FirstRecord DEF r
        <5> QED BY <5>1, <5>2
      <4>2. CASE j # 1
        <5>1. j - 1 \in 1 .. Len(rs) /\ (j - 1) + 1 = j
          BY <3>4, <4>2
        <5>2. (<<r>> \o rs)[j] = rs[j - 1]
          BY <3>1, <3>4, <5>1, FirstRecord
        <5>3. PICK q \in a + 1 .. n : rs[j - 1] = cs[q].rec
          BY <3>4, <5>1 DEF Among
        <5>4. q \in o + 1 .. n
          BY <3>1
        <5> QED BY <5>2, <5>3, <5>4
      <4> QED BY <4>1, <4>2
    <3>7. <<r>> \o rs \in Seq(Record)
      BY <3>1, <3>4, FirstRecord
    <3> QED BY <3>3, <3>5, <3>6, <3>7
  <2> QED BY <2>1, <2>2
<1>2. \A o \in 0 .. n : o \in G
  <2>1. n \in Nat /\ \A o \in 0 .. n : (\A u \in o + 1 .. n : u \in G) => o \in G
    BY <1>1
  <2> HIDE DEF G, n
  <2> QED BY <2>1, DownInduction
<1> QED BY <1>2

-----------------------------------------------------------------------------
(* What the scan reaches *)

\* B are the offsets on the way from one to another.
Way(cs, from, to, B) ==
  /\ B \in SUBSET (from .. to) /\ from \in B /\ to \in B
  /\ \A o \in B : o # to => ParsesAt(cs, o) /\ After(cs, o) \in B

\* The scan of the file comes to an offset: only the cells in front of it matter.
Reached(cs, to) == to \in 0 .. Len(cs) /\ \E B \in SUBSET (0 .. to) : Way(cs, 0, to, B)

\* It comes to its end, and no further.
LEMMA EndReached ==
  ASSUME NEW cs \in Seq(Cell)
  PROVE  /\ ValidEnd(cs) \in 0 .. Len(cs)
         /\ Reached(cs, ValidEnd(cs))
<1> DEFINE n == Len(cs)
           e(o) == EndFrom(cs, o)
           P(o) == \E B \in SUBSET (o .. e(o)) : Way(cs, o, e(o), B)
           G == {o \in 0 .. n : P(o)}
<1>1. ASSUME NEW o \in 0 .. n, \A u \in o + 1 .. n : u \in G PROVE P(o)
  <2>1. CASE ~ParsesAt(cs, o)
    <3>1. e(o) = o
      BY <2>1, ScanFrom
    <3>2. o \in o .. o
      OBVIOUS
    <3>3. Way(cs, o, o, {o})
      BY <3>2 DEF Way
    <3> QED BY <3>1, <3>2, <3>3
  <2>2. CASE ParsesAt(cs, o)
    <3> DEFINE a == After(cs, o)
    <3>1. a \in o + 1 .. n
      BY <2>2, AfterFacts
    <3>2. e(o) = e(a)
      BY <2>2, ScanFrom
    <3>3. e(a) \in a .. n
      BY <3>1, FoundFrom
    <3>4. PICK B \in SUBSET (a .. e(a)) : Way(cs, a, e(a), B)
      BY <1>1, <3>1
    <3> HIDE DEF a
    <3>5. Way(cs, o, e(a), B \cup {o})
      <4>1. B \cup {o} \in SUBSET (o .. e(a))
        BY <3>1, <3>3
      <4>2. a \in B /\ e(a) \in B
        BY <3>4 DEF Way
      <4>3. ASSUME NEW u \in B \cup {o}, u # e(a)
            PROVE  ParsesAt(cs, u) /\ After(cs, u) \in B \cup {o}
        <5>1. CASE u = o
          BY <2>2, <4>2, <5>1 DEF a
        <5>2. CASE u # o
          BY <3>4, <4>3, <5>2 DEF Way
        <5> QED BY <5>1, <5>2
      <4> QED BY <4>1, <4>2, <4>3 DEF Way
    <3>6. B \cup {o} \in SUBSET (o .. e(a))
      BY <3>5 DEF Way
    <3> QED BY <3>2, <3>5, <3>6
  <2> QED BY <2>1, <2>2
<1>2. \A o \in 0 .. n : o \in G
  <2>1. ASSUME NEW o \in 0 .. n, \A u \in o + 1 .. n : u \in G PROVE o \in G
    <3>1. P(o)
      BY <1>1, <2>1
    <3> HIDE DEF P, n
    <3> QED BY <3>1
  <2>2. n \in Nat
    OBVIOUS
  <2> HIDE DEF G, n
  <2> QED BY <2>1, <2>2, DownInduction
<1>3. 0 \in 0 .. n
  OBVIOUS
<1>4. P(0) /\ e(0) \in 0 .. n
  BY <1>2, <1>3, FoundFrom
<1> QED BY <1>4, ParsedFromStart DEF Reached

\* What holds at the end of a way and spreads against it holds at its beginning.
LEMMA BackAlong ==
  ASSUME NEW cs \in Seq(Cell), NEW to \in 0 .. Len(cs),
         NEW B \in SUBSET (0 .. to), Way(cs, 0, to, B), NEW G, to \in G,
         \A o \in B : o # to /\ After(cs, o) \in G => o \in G
  PROVE  0 \in G
<1> DEFINE H == {o \in 0 .. to : o \in B => o \in G}
<1>1. ASSUME NEW o \in 0 .. to, \A u \in o + 1 .. to : u \in H PROVE o \in H
  <2> SUFFICES ASSUME o \in B, o # to PROVE o \in G
    OBVIOUS
  <2>1. ParsesAt(cs, o) /\ After(cs, o) \in B
    BY DEF Way
  <2>2. o \in 0 .. Len(cs)
    OBVIOUS
  <2>3. After(cs, o) \in o + 1 .. Len(cs)
    BY <2>1, <2>2, AfterFacts
  <2>4. After(cs, o) \in o + 1 .. to
    BY <2>1, <2>3
  <2> QED BY <1>1, <2>1, <2>4
<1>2. \A o \in 0 .. to : o \in H
  <2>1. to \in Nat
    OBVIOUS
  <2> HIDE DEF H
  <2> QED BY <1>1, <2>1, DownInduction
<1>3. 0 \in B /\ 0 \in 0 .. to
  BY DEF Way
<1> QED BY <1>2, <1>3

\* Where nothing parses, the scan ends if it comes there.
LEMMA EndThere ==
  ASSUME NEW cs \in Seq(Cell), NEW to,
         Reached(cs, to), ~ParsesAt(cs, to)
  PROVE  ValidEnd(cs) = to
<1>1. to \in 0 .. Len(cs)
  BY DEF Reached
<1>2. PICK B \in SUBSET (0 .. to) : Way(cs, 0, to, B)
  BY DEF Reached
<1> DEFINE G == {o \in 0 .. to : EndFrom(cs, o) = to}
<1>3. to \in G
  <2>1. EndFrom(cs, to) = to
    BY <1>1, ScanFrom
  <2>2. to \in 0 .. to
    BY <1>1
  <2> QED BY <2>1, <2>2
<1>4. ASSUME NEW o \in B, o # to, After(cs, o) \in G PROVE o \in G
  <2>1. ParsesAt(cs, o) /\ o \in 0 .. Len(cs)
    BY <1>1, <1>2, <1>4 DEF Way
  <2>2. EndFrom(cs, o) = EndFrom(cs, After(cs, o))
    BY <2>1, ScanFrom
  <2> QED BY <1>4, <2>2
<1>5. 0 \in G
  <2> HIDE DEF G
  <2> QED BY <1>1, <1>2, <1>3, <1>4, BackAlong
<1> QED BY <1>5, ParsedFromStart

\* One of the records is r, and those behind it have their cells behind off.
Finds(cs, rs, r, off) ==
  \E i \in 1 .. Len(rs) :
    /\ rs[i] = r
    /\ \A j \in i + 1 .. Len(rs) : \E q \in off + 1 .. Len(cs) : rs[j] = cs[q].rec

\* A record that the scan comes to is among those it finds.
LEMMA ReachedFound ==
  ASSUME NEW cs \in Seq(Cell), NEW to,
         Reached(cs, to), ParsesAt(cs, to)
  PROVE  /\ ValidEnd(cs) >= After(cs, to)
         /\ Finds(cs, Parsed(cs), cs[to + 1].rec, to)
<1>1. to \in 0 .. Len(cs) /\ Len(cs) \in Nat
  BY DEF Reached
<1>2. PICK B \in SUBSET (0 .. to) : Way(cs, 0, to, B)
  BY DEF Reached
<1> DEFINE r == cs[to + 1].rec
           a == After(cs, to)
           P(o) == EndFrom(cs, o) >= a /\ Finds(cs, RecsFrom(cs, o), r, to)
           G == {o \in 0 .. to : P(o)}
<1>3. r \in Record /\ a \in to + 1 .. Len(cs)
  BY <1>1, AfterFacts
<1>4. P(to)
  <2> DEFINE rs == RecsFrom(cs, a)
  <2>1. rs \in Seq(Record) /\ Among(cs, a, rs) /\ EndFrom(cs, a) \in a .. Len(cs)
    <3>1. a \in 0 .. Len(cs)
      BY <1>1, <1>3
    <3> HIDE DEF a
    <3> QED BY <3>1, FoundFrom
  <2>2. RecsFrom(cs, to) = <<r>> \o rs /\ EndFrom(cs, to) = EndFrom(cs, a)
    BY <1>1, ScanFrom
  <2> HIDE DEF r, rs, a
  <2>3. EndFrom(cs, to) >= a
    BY <1>3, <2>1, <2>2
  <2>4. Finds(cs, <<r>> \o rs, r, to)
    <3>1. Len(<<r>> \o rs) = Len(rs) + 1 /\ (<<r>> \o rs)[1] = r /\ Len(rs) \in Nat
      BY <1>3, <2>1, FirstRecord
    <3>2. ASSUME NEW j \in 1 + 1 .. Len(<<r>> \o rs)
          PROVE  \E q \in to + 1 .. Len(cs) : (<<r>> \o rs)[j] = cs[q].rec
      <4>1. j - 1 \in 1 .. Len(rs) /\ (j - 1) + 1 = j
        BY <3>1
      <4>2. (<<r>> \o rs)[j] = rs[j - 1]
        BY <1>3, <2>1, <4>1, FirstRecord
      <4>3. PICK q \in a + 1 .. Len(cs) : rs[j - 1] = cs[q].rec
        BY <2>1, <4>1 DEF Among
      <4>4. q \in to + 1 .. Len(cs)
        BY <1>1, <1>3
      <4> QED BY <4>2, <4>3, <4>4
    <3>3. 1 \in 1 .. Len(<<r>> \o rs)
      BY <3>1
    <3> QED BY <3>1, <3>2, <3>3 DEF Finds
  <2> QED BY <2>2, <2>3, <2>4
<1>5. ASSUME NEW o \in B, o # to, After(cs, o) \in G PROVE o \in G
  <2> DEFINE u == After(cs, o)
             s == cs[o + 1].rec
             rs == RecsFrom(cs, u)
  <2>1. ParsesAt(cs, o) /\ o \in 0 .. Len(cs) /\ o \in 0 .. to
    BY <1>1, <1>2, <1>5 DEF Way
  <2>2. EndFrom(cs, o) = EndFrom(cs, u) /\ RecsFrom(cs, o) = <<s>> \o rs
    BY <2>1, ScanFrom
  <2>3. s \in Record /\ u \in 0 .. Len(cs) /\ rs \in Seq(Record)
    <3>1. s \in Record /\ u \in o + 1 .. Len(cs)
      BY <2>1, AfterFacts
    <3>2. u \in 0 .. Len(cs)
      BY <2>1, <3>1
    <3> HIDE DEF u, s
    <3> QED BY <3>1, <3>2, FoundFrom
  <2>4. Finds(cs, rs, r, to) /\ EndFrom(cs, u) >= a
    BY <1>5
  <2> HIDE DEF u, s, rs, r, a
  <2>5. Finds(cs, <<s>> \o rs, r, to)
    <3>1. PICK i \in 1 .. Len(rs) :
            /\ rs[i] = r
            /\ \A j \in i + 1 .. Len(rs) : \E q \in to + 1 .. Len(cs) : rs[j] = cs[q].rec
      BY <2>4 DEF Finds
    <3>2. Len(<<s>> \o rs) = Len(rs) + 1 /\ Len(rs) \in Nat
      BY <2>3, FirstRecord
    <3>3. i + 1 \in 1 .. Len(<<s>> \o rs) /\ (<<s>> \o rs)[i + 1] = r
      BY <2>3, <3>1, <3>2, FirstRecord
    <3>4. ASSUME NEW j \in (i + 1) + 1 .. Len(<<s>> \o rs)
          PROVE  \E q \in to + 1 .. Len(cs) : (<<s>> \o rs)[j] = cs[q].rec
      <4>1. j - 1 \in i + 1 .. Len(rs) /\ j - 1 \in 1 .. Len(rs) /\ (j - 1) + 1 = j
        BY <3>2
      <4>2. (<<s>> \o rs)[j] = rs[j - 1]
        BY <2>3, <4>1, FirstRecord
      <4> QED BY <3>1, <4>1, <4>2
    <3> QED BY <3>3, <3>4 DEF Finds
  <2> QED BY <2>1, <2>2, <2>4, <2>5
<1>6. 0 \in G
  <2>1. to \in G
    BY <1>1, <1>4
  <2> HIDE DEF G
  <2> QED BY <1>1, <1>2, <1>5, <2>1, BackAlong
<1> QED BY <1>6, ParsedFromStart

-----------------------------------------------------------------------------
(* Changing a file *)

\* Two files with the same first cells.
Agree(cs, ds, n) == n <= Len(cs) /\ n <= Len(ds) /\ \A i \in 1 .. n : ds[i] = cs[i]

LEMMA ParsesAlike ==
  ASSUME NEW cs \in Seq(Cell), NEW ds \in Seq(Cell),
         NEW n \in Nat, Agree(cs, ds, n),
         NEW off \in 0 .. n, ParsesAt(cs, off), After(cs, off) <= n
  PROVE  ParsesAt(ds, off) /\ ds[off + 1].rec = cs[off + 1].rec
         /\ After(ds, off) = After(cs, off)
<1> DEFINE r == cs[off + 1].rec
           e == off + Size(r)
<1>1. Len(cs) \in Nat /\ Len(ds) \in Nat /\ n <= Len(cs) /\ n <= Len(ds) /\ off \in Nat
      /\ off \in 0 .. Len(cs)
  BY DEF Agree
<1>2. off + 1 \in 1 .. Len(cs) /\ r \in Record /\ e \in off + 1 .. Len(cs) /\ e <= n
  BY <1>1, AfterFacts DEF After
<1>3. /\ cs[off + 1].part = 1 /\ SubSeq(cs, off + 1, e) = Encoded(r)
  BY DEF ParsesAt
<1> HIDE DEF e
<1>4. off + 1 \in 1 .. n
  BY <1>1, <1>2
<1>5. ds[off + 1] = cs[off + 1]
  BY <1>4 DEF Agree
<1>6. SubSeq(ds, off + 1, e) = SubSeq(cs, off + 1, e)
  <2>1. \A i \in off + 1 .. e : ds[i] = cs[i]
    <3>1. \A i \in off + 1 .. e : i \in 1 .. n
      BY <1>1, <1>2
    <3> QED BY <3>1 DEF Agree
  <2>2. off + 1 \in Nat /\ e \in Nat
    BY <1>1, <1>2
  <2>3. SubSeq(ds, off + 1, e) = [i \in 1 .. (e - (off + 1) + 1) |-> ds[i + (off + 1) - 1]]
        /\ SubSeq(cs, off + 1, e) = [i \in 1 .. (e - (off + 1) + 1) |-> cs[i + (off + 1) - 1]]
    BY <2>2
  <2>4. \A i \in 1 .. (e - (off + 1) + 1) : i + (off + 1) - 1 \in off + 1 .. e
    BY <1>1, <2>2
  <2> QED BY <2>1, <2>3, <2>4
<1>7. off < Len(ds) /\ e <= Len(ds)
  BY <1>1, <1>2
<1> QED BY <1>3, <1>5, <1>6, <1>7 DEF ParsesAt, After, e

LEMMA ReachedAlike ==
  ASSUME NEW cs \in Seq(Cell), NEW ds \in Seq(Cell),
         NEW n, Reached(cs, n), Agree(cs, ds, n)
  PROVE  Reached(ds, n)
<1>1. n \in 0 .. Len(cs) /\ n \in Nat /\ n <= Len(ds) /\ Len(ds) \in Nat
  BY DEF Reached, Agree
<1>2. PICK B \in SUBSET (0 .. n) : Way(cs, 0, n, B)
  BY DEF Reached
<1>3. ASSUME NEW o \in B, o # n PROVE ParsesAt(ds, o) /\ After(ds, o) \in B
  <2>1. ParsesAt(cs, o) /\ After(cs, o) \in B
    BY <1>2, <1>3 DEF Way
  <2>2. o \in 0 .. n /\ After(cs, o) \in 0 .. n
    BY <2>1
  <2>3. After(cs, o) <= n
    BY <1>1, <2>2
  <2> QED BY <1>1, <2>1, <2>2, <2>3, ParsesAlike
<1>4. Way(ds, 0, n, B)
  BY <1>2, <1>3 DEF Way
<1>5. n \in 0 .. Len(ds)
  BY <1>1
<1> QED BY <1>4, <1>5 DEF Reached

LEMMA HoleType == Hole \in Cell /\ Hole.rec.typ = "torn"
<1>1. Hole = [rec |-> Torn, part |-> 0]
  BY DEF Hole
<1>2. Torn \in Record /\ Torn.typ = "torn"
  BY DEF Torn, Record
<1> QED BY <1>1, <1>2 DEF Cell

\* store.go, writeRecord: what is in front of the offset stays, what is there is
\* written over, and a gap is filled.
LEMMA WrittenAtFacts ==
  ASSUME NEW cs \in Seq(Cell), NEW off \in Nat, NEW new \in Seq(Cell)
  PROVE  LET ds == WrittenAt(cs, off, new)
         IN  /\ ds \in Seq(Cell)
             /\ Len(ds) = IF off + Len(new) > Len(cs) THEN off + Len(new) ELSE Len(cs)
             /\ \A i \in off + 1 .. off + Len(new) : ds[i] = new[i - off]
             /\ \A i \in (1 .. Len(cs)) \ (off + 1 .. off + Len(new)) : ds[i] = cs[i]
             /\ \A i \in (1 .. Len(ds)) \ (1 .. Len(cs) \cup off + 1 .. off + Len(new)) :
                  ds[i] = Hole
<1> DEFINE ds == WrittenAt(cs, off, new)
           l == Len(new)
           n == IF off + l > Len(cs) THEN off + l ELSE Len(cs)
           val(i) == IF i \in off + 1 .. off + l THEN new[i - off]
                     ELSE IF i \in 1 .. Len(cs) THEN cs[i] ELSE Hole
<1>1. l \in Nat /\ Len(cs) \in Nat /\ n \in Nat /\ DOMAIN cs = 1 .. Len(cs)
  OBVIOUS
<1>2. DOMAIN cs \cup 1 .. off + l = 1 .. n
  BY <1>1
<1>3. ds = [i \in 1 .. n |-> val(i)]
  <2>1. ds = [i \in DOMAIN cs \cup 1 .. off + l |->
                CASE i \in off + 1 .. off + l -> new[i - off]
                  [] i \in DOMAIN cs \ (off + 1 .. off + l) -> cs[i]
                  [] OTHER -> Hole]
    BY DEF WrittenAt
  <2>2. \A i \in 1 .. n : val(i) = CASE i \in off + 1 .. off + l -> new[i - off]
                                     [] i \in DOMAIN cs \ (off + 1 .. off + l) -> cs[i]
                                     [] OTHER -> Hole
    BY <1>1
  <2> HIDE DEF n, l, val, ds
  <2> QED BY <1>2, <2>1, <2>2
<1>4. \A i \in 1 .. n : val(i) \in Cell
  <2> SUFFICES ASSUME NEW i \in 1 .. n PROVE val(i) \in Cell
    OBVIOUS
  <2>1. CASE i \in off + 1 .. off + l
    <3>1. i - off \in 1 .. l
      BY <1>1, <2>1
    <3> QED BY <2>1, <3>1
  <2>2. CASE i \notin off + 1 .. off + l
    BY <2>2, HoleType
  <2> QED BY <2>1, <2>2
<1> HIDE DEF ds
<1>5. ds \in Seq(Cell) /\ Len(ds) = n /\ \A i \in 1 .. n : ds[i] = val(i)
  <2> HIDE DEF val, n
  <2> QED BY <1>1, <1>3, <1>4
<1>6. \A i \in off + 1 .. off + l : i \in 1 .. n
  BY <1>1
<1>7. \A i \in 1 .. Len(cs) : i \in 1 .. n
  BY <1>1
<1> QED BY <1>5, <1>6, <1>7 DEF ds

LEMMA WrittenAgrees ==
  ASSUME NEW cs \in Seq(Cell), NEW off \in Nat, NEW new \in Seq(Cell),
         NEW n \in 0 .. off, n <= Len(cs)
  PROVE  Agree(cs, WrittenAt(cs, off, new), n)
<1> DEFINE ds == WrittenAt(cs, off, new)
<1>1. /\ Len(ds) = IF off + Len(new) > Len(cs) THEN off + Len(new) ELSE Len(cs)
      /\ \A i \in (1 .. Len(cs)) \ (off + 1 .. off + Len(new)) : ds[i] = cs[i]
  BY WrittenAtFacts
<1> HIDE DEF ds
<1>2. \A i \in 1 .. n : i \in (1 .. Len(cs)) \ (off + 1 .. off + Len(new))
  OBVIOUS
<1>3. n <= Len(ds)
  BY <1>1
<1> QED BY <1>1, <1>2, <1>3 DEF Agree, ds

\* store.go, Open: Truncate.
LEMMA ResizedFacts ==
  ASSUME NEW cs \in Seq(Cell), NEW n \in Nat
  PROVE  LET ds == Resized(cs, n)
         IN  /\ ds \in Seq(Cell) /\ Len(ds) = n
             /\ \A i \in 1 .. n : ds[i] = IF i <= Len(cs) THEN cs[i] ELSE Hole
             /\ \A k \in 0 .. n : k <= Len(cs) => Agree(cs, ds, k)
<1> DEFINE ds == Resized(cs, n)
           val(i) == IF i <= Len(cs) THEN cs[i] ELSE Hole
<1>1. ds = [i \in 1 .. n |-> val(i)]
  BY DEF Resized
<1>2. \A i \in 1 .. n : val(i) \in Cell
  BY HoleType
<1>3. ds \in Seq(Cell) /\ Len(ds) = n /\ \A i \in 1 .. n : ds[i] = val(i)
  <2> HIDE DEF val
  <2> QED BY <1>1, <1>2
<1> HIDE DEF ds
<1>4. \A k \in 0 .. n : k <= Len(cs) => Agree(cs, ds, k)
  BY <1>3 DEF Agree
<1> QED BY <1>3, <1>4 DEF ds

\* The scan goes on behind a record that parses.
LEMMA ReachedNext ==
  ASSUME NEW cs \in Seq(Cell), NEW n,
         Reached(cs, n), ParsesAt(cs, n)
  PROVE  Reached(cs, After(cs, n))
<1> DEFINE a == After(cs, n)
<1>1. n \in 0 .. Len(cs) /\ Len(cs) \in Nat
  BY DEF Reached
<1>2. a \in n + 1 .. Len(cs)
  BY <1>1, AfterFacts
<1>3. PICK B \in SUBSET (0 .. n) : Way(cs, 0, n, B)
  BY DEF Reached
<1>4. ASSUME NEW o \in B \cup {a}, o # a
      PROVE  ParsesAt(cs, o) /\ After(cs, o) \in B \cup {a}
  BY <1>3, <1>4 DEF Way
<1> HIDE DEF a
<1>5. B \cup {a} \in SUBSET (0 .. a) /\ 0 \in B
  BY <1>1, <1>2, <1>3 DEF Way
<1>6. Way(cs, 0, a, B \cup {a})
  BY <1>4, <1>5 DEF Way
<1>7. a \in 0 .. Len(cs)
  BY <1>1, <1>2
<1> QED BY <1>5, <1>6, <1>7 DEF Reached, a

\* A record written behind a file that is readable to its end.
LEMMA AppendedReached ==
  ASSUME NEW cs \in Seq(Cell), Reached(cs, Len(cs)),
         NEW r \in Record
  PROVE  LET ds == WrittenAt(cs, Len(cs), Encoded(r))
         IN  /\ ds \in Seq(Cell) /\ Len(ds) = Len(cs) + Size(r)
             /\ Reached(ds, Len(cs)) /\ ParsesAt(ds, Len(cs)) /\ ds[Len(cs) + 1].rec = r
             /\ Reached(ds, Len(ds))
<1> DEFINE n == Len(cs)
           z == Size(r)
           new == Encoded(r)
           ds == WrittenAt(cs, n, new)
<1>1. /\ n \in Nat /\ z \in Nat \ {0} /\ new \in Seq(Cell) /\ Len(new) = z
      /\ \A i \in 1 .. z : new[i] = [rec |-> r, part |-> i]
  BY SizeFacts
<1>2. /\ ds \in Seq(Cell)
      /\ Len(ds) = IF n + Len(new) > n THEN n + Len(new) ELSE n
      /\ \A i \in n + 1 .. n + Len(new) : ds[i] = new[i - n]
  <2> HIDE DEF new
  <2> QED BY <1>1, WrittenAtFacts
<1>3. Agree(cs, ds, n)
  <2>1. n \in 0 .. n /\ n <= n
    BY <1>1
  <2> HIDE DEF new, n
  <2> QED BY <1>1, <2>1, WrittenAgrees DEF n
<1>4. Reached(ds, n)
  <2> HIDE DEF ds
  <2> QED BY <1>2, <1>3, ReachedAlike
<1> HIDE DEF ds, z, n
<1>5. Len(ds) = n + z
  BY <1>1, <1>2
<1>6. \A i \in 1 .. z : ds[n + i] = new[i]
  <2> SUFFICES ASSUME NEW i \in 1 .. z PROVE ds[n + i] = new[i]
    OBVIOUS
  <2>1. n + i \in n + 1 .. n + Len(new) /\ (n + i) - n = i
    BY <1>1
  <2>2. ds[n + i] = new[(n + i) - n]
    BY <1>2, <2>1
  <2> QED BY <2>1, <2>2
<1>7. ds[n + 1] = [rec |-> r, part |-> 1]
  BY <1>1, <1>6
<1>8. ParsesAt(ds, n)
  <2>1. SubSeq(ds, n + 1, n + z) = new
    <3>1. SubSeq(ds, n + 1, n + z) = [i \in 1 .. ((n + z) - (n + 1) + 1) |-> ds[i + (n + 1) - 1]]
      BY <1>1
    <3>2. (n + z) - (n + 1) + 1 = z /\ \A i \in 1 .. z : i + (n + 1) - 1 = n + i
      BY <1>1
    <3>3. new = [i \in 1 .. z |-> new[i]]
      BY <1>1
    <3> HIDE DEF new
    <3> QED BY <1>6, <3>1, <3>2, <3>3
  <2>2. n < Len(ds) /\ n + z <= Len(ds)
    BY <1>1, <1>5
  <2> QED BY <1>7, <2>1, <2>2 DEF ParsesAt, z
<1>9. After(ds, n) = Len(ds)
  BY <1>5, <1>7 DEF After, z
<1>10. Reached(ds, Len(ds))
  BY <1>2, <1>4, <1>8, <1>9, ReachedNext
<1>11. ds[n + 1].rec = r
  BY <1>7
<1>12. /\ ds \in Seq(Cell) /\ Len(ds) = n + z
       /\ Reached(ds, n) /\ ParsesAt(ds, n) /\ ds[n + 1].rec = r
       /\ Reached(ds, Len(ds))
  BY <1>2, <1>4, <1>5, <1>8, <1>10, <1>11
<1> HIDE DEF new
<1> QED BY <1>12, Zenon DEF ds, n, z, new

-----------------------------------------------------------------------------
(* Replaying a file *)

LEMMA LastCheckpointExists ==
  ASSUME NEW rs \in Seq(Record)
  PROVE  \E c \in 0 .. Len(rs) : IsLastCheckpoint(rs, c)
<1> DEFINE n == Len(rs)
           None(o) == \A i \in o + 1 .. n : rs[i].typ # "checkpoint"
           Some == \E c \in 0 .. n : IsLastCheckpoint(rs, c)
           G == {o \in 0 .. n : None(o) \/ Some}
<1>1. ASSUME NEW o \in 0 .. n, \A u \in o + 1 .. n : u \in G PROVE None(o) \/ Some
  <2>1. CASE o = n
    <3>1. o + 1 .. n = {}
      BY <2>1
    <3> QED BY <3>1
  <2>2. CASE o < n
    <3>1. o + 1 \in o + 1 .. n /\ o + 1 \in 0 .. n
      BY <2>2
    <3>2. None(o + 1) \/ Some
      BY <1>1, <3>1
    <3>3. CASE None(o + 1) /\ rs[o + 1].typ = "checkpoint"
      BY <3>1, <3>3 DEF IsLastCheckpoint
    <3>4. CASE None(o + 1) /\ rs[o + 1].typ # "checkpoint"
      <4>1. \A i \in o + 1 .. n : i = o + 1 \/ i \in (o + 1) + 1 .. n
        OBVIOUS
      <4> QED BY <3>4, <4>1
    <3> HIDE DEF Some
    <3> QED BY <3>2, <3>3, <3>4
  <2> QED BY <2>1, <2>2
<1>2. \A o \in 0 .. n : o \in G
  <2>1. n \in Nat /\ \A o \in 0 .. n : (\A u \in o + 1 .. n : u \in G) => o \in G
    BY <1>1
  <2> HIDE DEF G, n
  <2> QED BY <2>1, DownInduction
<1>3. None(0) => Some
  <2> SUFFICES ASSUME None(0) PROVE IsLastCheckpoint(rs, 0)
    OBVIOUS
  <2> QED BY DEF IsLastCheckpoint
<1>4. 0 \in 0 .. n
  OBVIOUS
<1> HIDE DEF None
<1> QED BY <1>2, <1>3, <1>4

\* A checkpoint, if it is one, holds a filter that fits the header, and in it x.
Whole(r) == r.typ = "checkpoint" => Fits(Unmarshal(r.payload))
Keeps(r, x) == r.typ = "checkpoint" => TestItem(Unmarshal(r.payload), x)

\* What the proofs ask of the k of a replay without a checkpoint: 7 in the code.
DefaultFits == DefaultK < Uint32

LEMMA ReplayFits ==
  ASSUME DefaultFits, NEW rs \in Seq(Record), NEW m \in 1 .. Uint32 - 1,
         NEW c \in 0 .. Len(rs), IsLastCheckpoint(rs, c),
         \A i \in 1 .. Len(rs) : Whole(rs[i])
  PROVE  /\ Fits(ReplayStart(m, rs, c)) /\ Fits(Replay(m, rs, c))
         /\ c > 0 => ReplayStart(m, rs, c) = Unmarshal(rs[c].payload)
<1> DEFINE start == ReplayStart(m, rs, c)
           S == ItemsAfter(rs, c)
<1>1. Fits(start) /\ (c > 0 => start = Unmarshal(rs[c].payload))
  <2>1. CASE c > 0
    <3>1. c \in 1 .. Len(rs) /\ rs[c].typ = "checkpoint"
      BY <2>1 DEF IsLastCheckpoint
    <3>2. Fits(Unmarshal(rs[c].payload))
      BY <3>1 DEF Whole
    <3>3. start = Unmarshal(rs[c].payload)
      BY <2>1, <3>2, FitsNotNil DEF ReplayStart
    <3> QED BY <3>2, <3>3
  <2>2. CASE ~(c > 0)
    <3>1. start = NewFilter(m, DefaultK)
      BY <2>2 DEF ReplayStart
    <3>2. m \in Nat \ {0} /\ m < Uint32 /\ DefaultK \in Nat \ {0} /\ DefaultK < Uint32
      BY Uint32Assumption, RecordsAssumption DEF DefaultFits
    <3> HIDE DEF start
    <3> QED BY <2>2, <3>1, <3>2, NewFilterFits
  <2> QED BY <2>1, <2>2
<1> HIDE DEF start
<1>2. S \in SUBSET Item
  BY ItemsAfterType
<1>3. AddItems(start, S) \in Filter /\ AddItems(start, S).m = start.m
      /\ AddItems(start, S).k = start.k
  BY <1>1, <1>2, AddItemsFacts DEF Fits
<1>4. Fits(AddItems(start, S))
  BY <1>1, <1>3 DEF Fits
<1> QED BY <1>1, <1>4 DEF Replay, start

\* store.go, Open: what an Add record brings into the filter stays there if the
\* checkpoints behind the record keep it.
LEMMA ReplayFinds ==
  ASSUME DefaultFits, NEW rs \in Seq(Record), NEW m \in 1 .. Uint32 - 1,
         NEW c \in 0 .. Len(rs), IsLastCheckpoint(rs, c),
         \A i \in 1 .. Len(rs) : Whole(rs[i]),
         NEW x \in Item, NEW i \in 1 .. Len(rs), rs[i] = AddRecord(x),
         \A j \in i + 1 .. Len(rs) : Keeps(rs[j], x)
  PROVE  TestItem(Replay(m, rs, c), x)
<1> DEFINE start == ReplayStart(m, rs, c)
           S == ItemsAfter(rs, c)
<1>1. Fits(start) /\ (c > 0 => start = Unmarshal(rs[c].payload))
  BY ReplayFits
<1>2. S \in SUBSET Item
  BY ItemsAfterType
<1> HIDE DEF start
<1>3. start \in Filter
  BY <1>1 DEF Fits
<1>4. rs[i].typ = "add" /\ rs[i].item = x
  BY DEF AddRecord
<1>5. CASE i > c
  <2>1. i \in c + 1 .. Len(rs)
    BY <1>5
  <2>2. x \in S
    BY <1>4, <2>1 DEF ItemsAfter
  <2> HIDE DEF S
  <2>3. TestItem(AddItems(start, S), x)
    BY <1>2, <1>3, <2>2, AddItemsFacts
  <2> QED BY <2>3 DEF Replay, start, S
<1>6. CASE i < c
  <2>1. c \in i + 1 .. Len(rs) /\ c > 0
    BY <1>6
  <2>2. TestItem(Unmarshal(rs[c].payload), x)
    BY <2>1 DEF IsLastCheckpoint, Keeps
  <2>3. TestItem(start, x)
    BY <1>1, <2>1, <2>2
  <2> HIDE DEF S
  <2>4. TestItem(AddItems(start, S), x)
    BY <1>2, <1>3, <2>3, AddItemsFacts
  <2> QED BY <2>4 DEF Replay, start, S
<1>7. CASE i = c
  <2>1. c > 0 /\ rs[c].typ = "checkpoint"
    BY <1>7 DEF IsLastCheckpoint
  <2> QED BY <1>4, <1>7, <2>1
<1> QED BY <1>5, <1>6, <1>7

-----------------------------------------------------------------------------
(* An item in a file *)

\* A record of x that the scan comes to; no checkpoint behind it lacks x.
InFile(cs, x, b) ==
  /\ Reached(cs, b) /\ ParsesAt(cs, b) /\ cs[b + 1].rec = AddRecord(x)
  /\ \A q \in b + 1 .. Len(cs) : Keeps(cs[q].rec, x)

LEMMA InFileType ==
  ASSUME NEW cs \in Seq(Cell), NEW x, NEW b, InFile(cs, x, b)
  PROVE  b \in 0 .. Len(cs) /\ After(cs, b) \in b + 1 .. Len(cs)
BY AfterFacts DEF InFile, Reached

\* It stays, whatever is done to the file behind the record.
LEMMA InFileAlike ==
  ASSUME NEW cs \in Seq(Cell), NEW ds \in Seq(Cell),
         NEW x, NEW b, InFile(cs, x, b), Agree(cs, ds, After(cs, b)),
         \A q \in 1 .. Len(ds) : Keeps(ds[q].rec, x) \/ (q \in 1 .. Len(cs) /\ ds[q] = cs[q])
  PROVE  InFile(ds, x, b) /\ After(ds, b) = After(cs, b)
<1> DEFINE a == After(cs, b)
<1>1. b \in 0 .. Len(cs) /\ a \in b + 1 .. Len(cs) /\ Len(cs) \in Nat /\ Len(ds) \in Nat
  BY InFileType
<1>2. Agree(cs, ds, a) /\ a \in Nat /\ b \in 0 .. a /\ b <= a /\ a <= Len(ds)
  BY <1>1 DEF Agree
<1> HIDE DEF a
<1>3. ParsesAt(ds, b) /\ ds[b + 1].rec = cs[b + 1].rec /\ After(ds, b) = a
  <2>1. ParsesAt(cs, b)
    BY DEF InFile
  <2>2. After(cs, b) = a /\ After(cs, b) <= a
    BY <1>2 DEF a
  <2> QED BY <1>2, <2>1, <2>2, ParsesAlike
<1>4. Agree(cs, ds, b)
  BY <1>1, <1>2 DEF Agree
<1>5. Reached(ds, b)
  BY <1>4, ReachedAlike DEF InFile
<1>6. ASSUME NEW q \in b + 1 .. Len(ds) PROVE Keeps(ds[q].rec, x)
  <2>1. q \in 1 .. Len(ds)
    BY <1>1
  <2>2. CASE q \in 1 .. Len(cs) /\ ds[q] = cs[q]
    <3>1. q \in b + 1 .. Len(cs)
      BY <1>1, <2>2
    <3> QED BY <2>2, <3>1 DEF InFile
  <2> QED BY <2>1, <2>2
<1> QED BY <1>3, <1>5, <1>6 DEF InFile, a

\* What was never written is no checkpoint.
LEMMA HoleKeeps == Whole(Hole.rec) /\ \A x : Keeps(Hole.rec, x)
BY HoleType DEF Whole, Keeps

LEMMA WrittenCells ==
  ASSUME NEW cs \in Seq(Cell), NEW off \in Nat, NEW new \in Seq(Cell)
  PROVE  LET ds == WrittenAt(cs, off, new)
         IN  \A q \in 1 .. Len(ds) : \/ \E i \in 1 .. Len(new) : ds[q] = new[i]
                                     \/ q \in 1 .. Len(cs) /\ ds[q] = cs[q]
                                     \/ ds[q] = Hole
<1> DEFINE ds == WrittenAt(cs, off, new)
<1>1. /\ \A i \in off + 1 .. off + Len(new) : ds[i] = new[i - off]
      /\ \A i \in (1 .. Len(cs)) \ (off + 1 .. off + Len(new)) : ds[i] = cs[i]
      /\ \A i \in (1 .. Len(ds)) \ (1 .. Len(cs) \cup off + 1 .. off + Len(new)) :
           ds[i] = Hole
  BY WrittenAtFacts
<1> HIDE DEF ds
<1>2. ASSUME NEW q \in 1 .. Len(ds)
      PROVE  \/ \E i \in 1 .. Len(new) : ds[q] = new[i]
             \/ q \in 1 .. Len(cs) /\ ds[q] = cs[q]
             \/ ds[q] = Hole
  <2>1. CASE q \in off + 1 .. off + Len(new)
    <3>1. q - off \in 1 .. Len(new)
      BY <2>1
    <3> QED BY <1>1, <2>1, <3>1
  <2>2. CASE q \notin off + 1 .. off + Len(new)
    BY <1>1, <2>2
  <2> QED BY <2>1, <2>2
<1> QED BY <1>2 DEF ds

\* A write behind the record, of cells that lack no x.
LEMMA WriteKeeps ==
  ASSUME NEW cs \in Seq(Cell), NEW off \in Nat,
         NEW new \in Seq(Cell), NEW x, NEW b, InFile(cs, x, b), After(cs, b) <= off,
         \A i \in 1 .. Len(new) : Keeps(new[i].rec, x)
  PROVE  LET ds == WrittenAt(cs, off, new)
         IN  InFile(ds, x, b) /\ After(ds, b) = After(cs, b)
<1> DEFINE ds == WrittenAt(cs, off, new)
           a == After(cs, b)
<1>1. ds \in Seq(Cell)
  BY WrittenAtFacts
<1>2. \A q \in 1 .. Len(ds) : Keeps(ds[q].rec, x) \/ (q \in 1 .. Len(cs) /\ ds[q] = cs[q])
  BY WrittenCells, HoleKeeps
<1>3. a \in 0 .. off /\ a <= Len(cs)
  BY InFileType
<1>4. Agree(cs, ds, a)
  <2> HIDE DEF a
  <2> QED BY <1>3, WrittenAgrees
<1> HIDE DEF ds
<1> QED BY <1>1, <1>2, <1>4, InFileAlike DEF ds

LEMMA WriteWhole ==
  ASSUME NEW cs \in Seq(Cell), NEW off \in Nat, NEW new \in Seq(Cell),
         \A q \in 1 .. Len(cs) : Whole(cs[q].rec), \A i \in 1 .. Len(new) : Whole(new[i].rec)
  PROVE  LET ds == WrittenAt(cs, off, new)
         IN  ds \in Seq(Cell) /\ \A q \in 1 .. Len(ds) : Whole(ds[q].rec)
<1> DEFINE ds == WrittenAt(cs, off, new)
<1>1. ds \in Seq(Cell)
  BY WrittenAtFacts
<1>2. \A q \in 1 .. Len(ds) : \/ \E i \in 1 .. Len(new) : ds[q] = new[i]
                              \/ q \in 1 .. Len(cs) /\ ds[q] = cs[q]
                              \/ ds[q] = Hole
  BY WrittenCells
<1> HIDE DEF ds
<1> QED BY <1>1, <1>2, HoleKeeps DEF ds

\* A truncation behind it.
LEMMA CutKeeps ==
  ASSUME NEW cs \in Seq(Cell), NEW n \in Nat,
         NEW x, NEW b, InFile(cs, x, b), After(cs, b) <= n
  PROVE  LET ds == Resized(cs, n)
         IN  InFile(ds, x, b) /\ After(ds, b) = After(cs, b)
<1> DEFINE ds == Resized(cs, n)
           a == After(cs, b)
<1>1. /\ ds \in Seq(Cell) /\ Len(ds) = n
      /\ \A i \in 1 .. n : ds[i] = IF i <= Len(cs) THEN cs[i] ELSE Hole
      /\ \A k \in 0 .. n : k <= Len(cs) => Agree(cs, ds, k)
  BY ResizedFacts
<1>2. a \in 0 .. n /\ a <= Len(cs)
  BY InFileType
<1> HIDE DEF ds, a
<1>3. Agree(cs, ds, a)
  BY <1>1, <1>2
<1>4. \A q \in 1 .. Len(ds) : Keeps(ds[q].rec, x) \/ (q \in 1 .. Len(cs) /\ ds[q] = cs[q])
  BY <1>1, HoleKeeps
<1> QED BY <1>1, <1>3, <1>4, InFileAlike DEF ds, a

LEMMA CutWhole ==
  ASSUME NEW cs \in Seq(Cell), NEW n \in Nat, \A q \in 1 .. Len(cs) : Whole(cs[q].rec)
  PROVE  LET ds == Resized(cs, n)
         IN  ds \in Seq(Cell) /\ \A q \in 1 .. Len(ds) : Whole(ds[q].rec)
<1> DEFINE ds == Resized(cs, n)
<1>1. /\ ds \in Seq(Cell) /\ Len(ds) = n
      /\ \A i \in 1 .. n : ds[i] = IF i <= Len(cs) THEN cs[i] ELSE Hole
  BY ResizedFacts
<1> HIDE DEF ds
<1>2. ASSUME NEW q \in 1 .. n PROVE Whole(ds[q].rec)
  <2>1. CASE q <= Len(cs)
    <3>1. q \in 1 .. Len(cs) /\ ds[q] = cs[q]
      BY <1>1, <2>1
    <3> QED BY <3>1
  <2>2. CASE ~(q <= Len(cs))
    BY <1>1, <2>2, HoleKeeps
  <2> QED BY <2>1, <2>2
<1> QED BY <1>1, <1>2 DEF ds

\* store.go, Open: the filter is one, and finds what is in the file.
LEMMA FileReplay ==
  ASSUME DefaultFits, NEW cs \in Seq(Cell),
         \A q \in 1 .. Len(cs) : Whole(cs[q].rec), NEW m \in 1 .. Uint32 - 1,
         NEW c \in 0 .. Len(Parsed(cs)), IsLastCheckpoint(Parsed(cs), c)
  PROVE  /\ Fits(Replay(m, Parsed(cs), c))
         /\ \A x \in Item, b \in Nat :
              InFile(cs, x, b) => TestItem(Replay(m, Parsed(cs), c), x)
<1> DEFINE rs == Parsed(cs)
<1>1. rs \in Seq(Record) /\ Among(cs, 0, rs)
  <2>1. 0 \in 0 .. Len(cs)
    OBVIOUS
  <2> QED BY <2>1, FoundFrom, ParsedFromStart
<1>2. c \in 0 .. Len(rs) /\ IsLastCheckpoint(rs, c)
  OBVIOUS
<1> HIDE DEF rs
<1>3. \A i \in 1 .. Len(rs) : Whole(rs[i])
  BY <1>1 DEF Among
<1>4. Fits(Replay(m, rs, c))
  BY <1>1, <1>2, <1>3, ReplayFits
<1>5. ASSUME NEW x \in Item, NEW b \in Nat, InFile(cs, x, b)
      PROVE  TestItem(Replay(m, rs, c), x)
  <2>1. Finds(cs, rs, AddRecord(x), b)
    BY <1>5, ReachedFound DEF InFile, rs
  <2>2. PICK i \in 1 .. Len(rs) :
          /\ rs[i] = AddRecord(x)
          /\ \A j \in i + 1 .. Len(rs) : \E q \in b + 1 .. Len(cs) : rs[j] = cs[q].rec
    BY <2>1 DEF Finds
  <2>3. \A j \in i + 1 .. Len(rs) : Keeps(rs[j], x)
    BY <1>5, <2>2 DEF InFile
  <2> QED BY <1>1, <1>2, <1>3, <2>2, <2>3, ReplayFinds
<1> QED BY <1>4, <1>5 DEF rs

-----------------------------------------------------------------------------
(* The processes *)

Labelled == {"idle", "create", "header", "open", "cut", "ready"}
ProcRecord ==
  [pc : Labelled, todo : (SUBSET Item) \cup SUBSET {"checkpoint"},
   offset : Nat, filter : FilterOrNil]

HasFilter(r) == r.pc \in {"cut", "ready"}

\* A process has a filter, which fits the header, from its reading to its end.
SoundProc(r) ==
  /\ r \in ProcRecord
  /\ HasFilter(r) => Fits(r.filter)
  /\ ~HasFilter(r) => r.filter = NilFilter /\ r.offset = 0

FileTyped ==
  /\ fileHeader \in {"absent", "short", "complete"}
  /\ fileM \in 0 .. Uint32 - 1
  /\ fileHeader = "complete" => fileM # 0
  /\ cells \in Seq(Cell)
  /\ \A q \in 1 .. Len(cells) : Whole(cells[q].rec)

SharedTyped ==
  /\ FileTyped
  /\ proc \in [Process -> ProcRecord] /\ \A p \in Process : SoundProc(proc[p])
  /\ commands \in 0 .. MaxCommands
  /\ solo \in SUBSET Item
  /\ shared \in SUBSET Process

\* One process moves.
Moves(p) ==
  /\ proc' \in [Process -> ProcRecord]
  /\ \A q \in Process : q # p => proc'[q] = proc[q]

LEMMA MoveFacts ==
  ASSUME SharedTyped, NEW p \in Process, Moves(p), SoundProc(proc'[p])
  PROVE  \A q \in Process : SoundProc(proc'[q])
<1> SUFFICES ASSUME NEW q \in Process PROVE SoundProc(proc'[q])
  OBVIOUS
<1>1. CASE q = p
  BY <1>1
<1>2. CASE q # p
  BY <1>2 DEF Moves, SharedTyped
<1> QED BY <1>1, <1>2

LEMMA BeginFacts ==
  ASSUME SharedTyped, NEW p \in Process,
         NEW todo \in (SUBSET Item) \cup {{"checkpoint"}}, Begin(p, todo)
  PROVE  /\ SharedTyped' /\ Moves(p)
         /\ UNCHANGED <<fileHeader, fileM, cells, solo>>
         /\ proc[p].pc = "idle" /\ proc'[p].pc \in {"create", "open"}
         /\ proc'[p].pc = "create" => fileHeader = "absent"
         /\ shared' = IF Active = {} THEN {} ELSE Active \cup {p}
<1> DEFINE l == IF fileHeader = "absent" /\ todo \cap Item # {} THEN "create" ELSE "open"
<1>1. /\ proc[p].pc = "idle" /\ UNCHANGED <<fileHeader, fileM, cells, solo>>
      /\ commands < MaxCommands /\ commands' = commands + 1
      /\ shared' = IF Active = {} THEN {} ELSE Active \cup {p}
      /\ proc' = [proc EXCEPT ![p].todo = todo, ![p].pc = l]
  BY DEF Begin
<1>2. proc \in [Process -> ProcRecord] /\ SoundProc(proc[p])
  BY DEF SharedTyped
<1>3. l \in {"create", "open"} /\ (l = "create" => fileHeader = "absent")
  OBVIOUS
<1> HIDE DEF l
<1>4. l \in Labelled /\ todo \in (SUBSET Item) \cup SUBSET {"checkpoint"}
  BY <1>3 DEF Labelled
<1>5. Moves(p) /\ proc'[p].pc = l /\ proc'[p].filter = proc[p].filter
      /\ proc'[p].offset = proc[p].offset
  BY <1>1, <1>2, <1>4 DEF Moves, ProcRecord
<1>6. SoundProc(proc'[p])
  BY <1>1, <1>2, <1>3, <1>5 DEF SoundProc, HasFilter, Moves
<1>7. FileTyped'
  BY <1>1 DEF SharedTyped, FileTyped
<1>8. commands' \in 0 .. MaxCommands
  BY <1>1, SharedStoreAssumption DEF SharedTyped
<1>9. shared' \in SUBSET Process /\ solo' \in SUBSET Item
  BY <1>1 DEF SharedTyped, Active
<1>10. SharedTyped'
  BY <1>5, <1>6, <1>7, <1>8, <1>9, MoveFacts DEF SharedTyped, Moves
<1> QED BY <1>1, <1>3, <1>5, <1>10

\* The commands and who was alone are only touched at the beginning.
LEMMA TypedAfter ==
  ASSUME SharedTyped, NEW p \in Process, Moves(p), SoundProc(proc'[p]), FileTyped',
         UNCHANGED <<commands, shared>>, solo' \in SUBSET Item
  PROVE  SharedTyped'
BY MoveFacts DEF SharedTyped, Moves

LEMMA CreateFacts ==
  ASSUME SharedTyped, NEW p \in Process, CreateBy(p)
  PROVE  /\ SharedTyped' /\ Moves(p) /\ UNCHANGED <<shared, solo>>
         /\ proc[p].pc = "create" /\ proc'[p].pc = "header" /\ cells' = <<>>
<1>1. /\ proc[p].pc = "create" /\ fileHeader' = "short" /\ fileM' = 0 /\ cells' = <<>>
      /\ UNCHANGED <<commands, solo, shared>>
      /\ proc' = [proc EXCEPT ![p].pc = "header"]
  BY DEF CreateBy
<1>2. proc \in [Process -> ProcRecord] /\ SoundProc(proc[p])
  BY DEF SharedTyped
<1>3. "header" \in Labelled
  BY DEF Labelled
<1>4. Moves(p) /\ proc'[p].pc = "header" /\ proc'[p].filter = proc[p].filter
      /\ proc'[p].offset = proc[p].offset
  BY <1>1, <1>2, <1>3 DEF Moves, ProcRecord
<1>5. SoundProc(proc'[p])
  BY <1>1, <1>2, <1>4 DEF SoundProc, HasFilter, Moves
<1>6. FileTyped'
  BY <1>1, Uint32Assumption DEF FileTyped
<1>7. SharedTyped'
  BY <1>1, <1>4, <1>5, <1>6, TypedAfter DEF SharedTyped
<1> QED BY <1>1, <1>4, <1>7

LEMMA WriteHeaderFacts ==
  ASSUME SharedTyped, NEW p \in Process,
         NEW m \in Ms, NEW k \in Ks, WriteHeader(p, m, k)
  PROVE  /\ SharedTyped' /\ Moves(p) /\ UNCHANGED <<shared, solo, cells>>
         /\ proc[p].pc = "header" /\ proc'[p].pc = "ready" /\ fileHeader' = "complete"
         /\ proc'[p].offset = 0
<1>1. /\ proc[p].pc = "header" /\ fileHeader' = "complete" /\ fileM' = m
      /\ UNCHANGED <<cells, commands, solo, shared>>
      /\ proc' = [proc EXCEPT ![p].pc = "ready", ![p].filter = NewFilter(m, k)]
  BY DEF WriteHeader
<1>2. proc \in [Process -> ProcRecord] /\ SoundProc(proc[p])
  BY DEF SharedTyped
<1>3. m \in Nat \ {0} /\ k \in Nat \ {0} /\ m < Uint32 /\ k < Uint32 /\ m \in 1 .. Uint32 - 1
  BY Uint32Assumption, SharedStoreAssumption
<1> DEFINE f == NewFilter(m, k)
<1>4. f \in FilterOrNil /\ Fits(f)
  BY <1>3, NewFilterFits DEF Fits, FilterOrNil
<1> HIDE DEF f
<1>5. "ready" \in Labelled
  BY DEF Labelled
<1>6. proc' = [proc EXCEPT ![p].pc = "ready", ![p].filter = f]
  BY <1>1 DEF f
<1>7. Moves(p) /\ proc'[p].pc = "ready" /\ proc'[p].filter = f
      /\ proc'[p].offset = proc[p].offset
  BY <1>2, <1>4, <1>5, <1>6 DEF Moves, ProcRecord
<1>8. SoundProc(proc'[p])
  BY <1>4, <1>7 DEF SoundProc, HasFilter, Moves
<1>9. FileTyped'
  BY <1>1, <1>3 DEF SharedTyped, FileTyped
<1>10. SharedTyped'
  BY <1>1, <1>7, <1>8, <1>9, TypedAfter DEF SharedTyped
<1>11. proc'[p].offset = 0
  BY <1>1, <1>2, <1>7 DEF SoundProc, HasFilter
<1> QED BY <1>1, <1>7, <1>10, <1>11

LEMMA ReadFacts ==
  ASSUME DefaultFits, SharedTyped, NEW p \in Process,
         Read(p)
  PROVE  /\ SharedTyped' /\ Moves(p) /\ UNCHANGED <<fileHeader, fileM, cells, shared, solo>>
         /\ proc[p].pc = "open" /\ proc'[p].pc = "cut" /\ fileHeader = "complete"
         /\ proc'[p].offset = ValidEnd(cells)
         /\ \A x \in Item, b \in Nat : InFile(cells, x, b) => TestItem(proc'[p].filter, x)
<1> DEFINE rs == Parsed(cells)
           e == ValidEnd(cells)
<1>1. PICK c \in 0 .. Len(rs) :
        /\ IsLastCheckpoint(rs, c)
        /\ proc' = [proc EXCEPT ![p].pc = "cut", ![p].offset = e,
                                ![p].filter = Replay(fileM, rs, c)]
  BY DEF Read, e
<1>2. /\ proc[p].pc = "open" /\ fileHeader = "complete"
      /\ UNCHANGED <<fileHeader, fileM, cells, commands, solo, shared>>
  BY DEF Read
<1>3. proc \in [Process -> ProcRecord] /\ SoundProc(proc[p])
  BY DEF SharedTyped
<1>4. /\ cells \in Seq(Cell) /\ \A q \in 1 .. Len(cells) : Whole(cells[q].rec)
      /\ fileM \in 1 .. Uint32 - 1
  BY <1>2 DEF SharedTyped, FileTyped
<1> DEFINE f == Replay(fileM, rs, c)
<1>5. /\ Fits(f) /\ f \in FilterOrNil
      /\ \A x \in Item, b \in Nat : InFile(cells, x, b) => TestItem(f, x)
  <2>1. /\ Fits(f)
        /\ \A x \in Item, b \in Nat : InFile(cells, x, b) => TestItem(f, x)
    BY <1>1, <1>4, FileReplay
  <2> HIDE DEF f
  <2> QED BY <2>1 DEF Fits, FilterOrNil
<1>6. e \in Nat /\ "cut" \in Labelled
  BY <1>4, EndReached DEF Labelled
<1>7. proc' = [proc EXCEPT ![p].pc = "cut", ![p].offset = e, ![p].filter = f]
  BY <1>1
<1> HIDE DEF f, e, rs
<1>8. Moves(p) /\ proc'[p].pc = "cut" /\ proc'[p].filter = f /\ proc'[p].offset = e
  BY <1>3, <1>5, <1>6, <1>7 DEF Moves, ProcRecord
<1>9. SoundProc(proc'[p])
  BY <1>5, <1>8 DEF SoundProc, HasFilter, Moves
<1>10. FileTyped'
  BY <1>2 DEF SharedTyped, FileTyped
<1>11. SharedTyped'
  BY <1>2, <1>8, <1>9, <1>10, TypedAfter DEF SharedTyped
<1> QED BY <1>2, <1>5, <1>8, <1>11 DEF e

LEMMA CutFacts ==
  ASSUME SharedTyped, NEW p \in Process, Cut(p)
  PROVE  /\ SharedTyped' /\ Moves(p) /\ UNCHANGED <<fileHeader, fileM, shared, solo>>
         /\ proc[p].pc = "cut" /\ proc'[p].pc = "ready"
         /\ proc'[p].offset = proc[p].offset /\ proc'[p].filter = proc[p].filter
         /\ proc[p].offset \in Nat /\ cells' = Resized(cells, proc[p].offset)
<1>1. /\ proc[p].pc = "cut" /\ cells' = Resized(cells, proc[p].offset)
      /\ proc' = [proc EXCEPT ![p].pc = "ready"]
      /\ UNCHANGED <<fileHeader, fileM, commands, solo, shared>>
  BY DEF Cut
<1>2. proc \in [Process -> ProcRecord] /\ SoundProc(proc[p])
  BY DEF SharedTyped
<1>3. "ready" \in Labelled
  BY DEF Labelled
<1>4. Moves(p) /\ proc'[p].pc = "ready" /\ proc'[p].filter = proc[p].filter
      /\ proc'[p].offset = proc[p].offset
  BY <1>1, <1>2, <1>3 DEF Moves, ProcRecord
<1>5. SoundProc(proc'[p])
  BY <1>1, <1>2, <1>4 DEF SoundProc, HasFilter, Moves
<1>6. proc[p].offset \in Nat
  BY <1>2 DEF SoundProc, ProcRecord
<1>7. cells' \in Seq(Cell) /\ \A q \in 1 .. Len(cells') : Whole(cells'[q].rec)
  <2>1. cells \in Seq(Cell) /\ \A q \in 1 .. Len(cells) : Whole(cells[q].rec)
    BY DEF SharedTyped, FileTyped
  <2> QED BY <1>1, <1>6, <2>1, CutWhole
<1>8. FileTyped'
  BY <1>1, <1>7 DEF SharedTyped, FileTyped
<1>9. SharedTyped'
  BY <1>1, <1>4, <1>5, <1>8, TypedAfter DEF SharedTyped
<1> QED BY <1>1, <1>4, <1>6, <1>9

\* What a process writes: whole records or the beginning of one.
Fresh(r, new) == \A i \in 1 .. Len(new) : new[i].rec = r

LEMMA EncodedFresh ==
  ASSUME NEW r \in Record, NEW n \in 1 .. Size(r)
  PROVE  /\ SubSeq(Encoded(r), 1, n) \in Seq(Cell)
         /\ Fresh(r, SubSeq(Encoded(r), 1, n))
         /\ Encoded(r) \in Seq(Cell) /\ Fresh(r, Encoded(r))
<1> DEFINE e == Encoded(r)
           z == Size(r)
<1>1. /\ z \in Nat \ {0} /\ e \in Seq(Cell) /\ Len(e) = z
      /\ \A i \in 1 .. z : e[i] = [rec |-> r, part |-> i]
  BY SizeFacts
<1> HIDE DEF e, z
<1>2. n \in Nat /\ n <= z
  BY <1>1 DEF z
<1>3. SubSeq(e, 1, n) \in Seq(Cell) /\ Len(SubSeq(e, 1, n)) = n
      /\ \A i \in 1 .. n : SubSeq(e, 1, n)[i] = e[i]
  BY <1>1, <1>2, SubSeqProperties
<1>4. Fresh(r, SubSeq(e, 1, n))
  BY <1>1, <1>2, <1>3 DEF Fresh
<1>5. Fresh(r, e)
  BY <1>1 DEF Fresh
<1> QED BY <1>1, <1>3, <1>4, <1>5 DEF e

LEMMA WrittenTyped ==
  ASSUME FileTyped, NEW off \in Nat, NEW new \in Seq(Cell), NEW r, Fresh(r, new), Whole(r),
         cells' = WrittenAt(cells, off, new), UNCHANGED <<fileHeader, fileM>>
  PROVE  FileTyped'
<1>1. cells \in Seq(Cell) /\ \A q \in 1 .. Len(cells) : Whole(cells[q].rec)
  BY DEF FileTyped
<1>2. \A i \in 1 .. Len(new) : Whole(new[i].rec)
  BY DEF Fresh
<1>3. cells' \in Seq(Cell) /\ \A q \in 1 .. Len(cells') : Whole(cells'[q].rec)
  BY <1>1, <1>2, WriteWhole
<1> QED BY <1>3 DEF FileTyped

\* The records a process writes.
LEMMA AddIsRecord ==
  ASSUME NEW x \in Item
  PROVE  AddRecord(x) \in Record /\ Whole(AddRecord(x)) /\ \A y : Keeps(AddRecord(x), y)
BY NewRecords DEF AddRecord, Whole, Keeps

LEMMA CheckpointIsRecord ==
  ASSUME NEW f, Fits(f)
  PROVE  LET r == CheckpointRecord(Marshal(f))
         IN  r \in Record /\ Whole(r) /\ \A y : TestItem(f, y) => Keeps(r, y)
<1>1. f \in Filter /\ f \in FilterOrNil /\ f.m < Uint32 /\ f.k < Uint32
  BY DEF Fits, FilterOrNil
<1>2. Marshal(f) \in Blob /\ Unmarshal(Marshal(f)) = f
  BY <1>1, MarshalType, RoundTrip
<1> DEFINE b == Marshal(f)
<1> HIDE DEF b
<1>3. CheckpointRecord(b) \in Record /\ CheckpointRecord(b).payload = b
  BY <1>2, NewRecords DEF b, CheckpointRecord
<1> QED BY <1>2, <1>3 DEF Whole, Keeps, b

LEMMA AddFacts ==
  ASSUME SharedTyped, NEW p \in Process, NEW data \in Item,
         AddBy(p, data)
  PROVE  /\ SharedTyped' /\ Moves(p) /\ UNCHANGED <<fileHeader, fileM, shared>>
         /\ proc[p].pc = "ready" /\ proc'[p].pc = "ready" /\ proc[p].offset \in Nat
         /\ proc'[p].offset = proc[p].offset + Size(AddRecord(data))
         /\ cells' = WrittenAt(cells, proc[p].offset, Encoded(AddRecord(data)))
         /\ TestItem(proc'[p].filter, data)
         /\ \A x \in Item : TestItem(proc[p].filter, x) => TestItem(proc'[p].filter, x)
         /\ solo' = IF p \in shared THEN solo ELSE solo \cup {data}
<1> DEFINE r == AddRecord(data)
           f == proc[p].filter
           g == AddItem(f, data)
           o == proc[p].offset
           z == Size(r)
           todo == proc[p].todo \ {data}
<1>1. /\ proc[p].pc = "ready" /\ data \in proc[p].todo
      /\ cells' = WrittenAt(cells, o, Encoded(r))
      /\ UNCHANGED <<fileHeader, fileM, commands, shared>>
      /\ solo' = IF p \in shared THEN solo ELSE solo \cup {data}
      /\ proc' = [proc EXCEPT ![p].todo = todo, ![p].offset = o + ItemSize[data],
                              ![p].filter = g]
  <2>1. AddRecord(data) = r
    OBVIOUS
  <2>2. proc \in [Process -> ProcRecord]
    BY DEF SharedTyped
  <2> HIDE DEF r, g
  <2>4. proc' = [proc EXCEPT ![p].todo = @ \ {data}, ![p].offset = @ + ItemSize[data],
                             ![p].filter = AddItem(@, data)]
    BY DEF AddBy
  <2>5. /\ proc[p].pc = "ready" /\ data \in proc[p].todo
        /\ cells' = WrittenAt(cells, o, Encoded(r))
        /\ UNCHANGED <<fileHeader, fileM, commands, shared>>
        /\ solo' = IF p \in shared THEN solo ELSE solo \cup {data}
    BY <2>1 DEF AddBy, Writes
  <2> QED BY <2>2, <2>4, <2>5 DEF g
<1>2. proc \in [Process -> ProcRecord] /\ SoundProc(proc[p]) /\ FileTyped
  BY DEF SharedTyped
<1>3. f \in Filter /\ Fits(f) /\ o \in Nat
        /\ proc[p].todo \in (SUBSET Item) \cup SUBSET {"checkpoint"}
  BY <1>1, <1>2 DEF SoundProc, HasFilter, Fits, ProcRecord
<1>4. r \in Record /\ Whole(r) /\ r.typ = "add" /\ r.item = data
  BY AddIsRecord DEF AddRecord
<1>5. z = ItemSize[data] /\ z \in Nat \ {0}
  BY <1>4, SizeFacts DEF Size
<1> HIDE DEF r, z
<1>6. /\ Fits(g) /\ g \in FilterOrNil /\ TestItem(g, data)
      /\ \A x \in Item : TestItem(f, x) => TestItem(g, x)
  <2> DEFINE h == AddItems(f, {data})
  <2>1. g = h
    BY <1>3, AddItemIsAddItems
  <2>2. {data} \in SUBSET Item /\ data \in {data}
    OBVIOUS
  <2>3. /\ h.m = f.m /\ h.k = f.k /\ h \in Filter /\ TestItem(h, data)
        /\ \A x \in Item : TestItem(f, x) => TestItem(h, x)
    BY <1>3, <2>2, AddItemsFacts
  <2> HIDE DEF f, g, h
  <2> QED BY <1>3, <2>1, <2>3 DEF Fits, FilterOrNil
<1> HIDE DEF g
<1>7. todo \in (SUBSET Item) \cup SUBSET {"checkpoint"}
  BY <1>3
<1>8. o + ItemSize[data] \in Nat /\ o + ItemSize[data] = o + z
  BY <1>3, <1>5
<1> HIDE DEF todo
<1>9. Moves(p) /\ proc'[p].pc = "ready" /\ proc'[p].filter = g /\ proc'[p].offset = o + z
  BY <1>1, <1>2, <1>6, <1>7, <1>8 DEF Moves, ProcRecord
<1>10. SoundProc(proc'[p])
  BY <1>6, <1>9 DEF SoundProc, HasFilter, Moves
<1>11. FileTyped'
  <2>1. 1 \in 1 .. Size(r)
    BY <1>5 DEF z
  <2>2. Encoded(r) \in Seq(Cell) /\ Fresh(r, Encoded(r))
    BY <1>4, <2>1, EncodedFresh
  <2> QED BY <1>1, <1>2, <1>3, <1>4, <2>2, WrittenTyped
<1>12. solo' \in SUBSET Item
  BY <1>1 DEF SharedTyped
<1>13. SharedTyped'
  BY <1>1, <1>9, <1>10, <1>11, <1>12, TypedAfter
<1> QED BY <1>1, <1>3, <1>6, <1>9, <1>13 DEF r, z

LEMMA CheckpointFacts ==
  ASSUME SharedTyped, NEW p \in Process, CheckpointBy(p)
  PROVE  LET r == CheckpointRecord(Marshal(proc[p].filter))
         IN  /\ SharedTyped' /\ Moves(p) /\ UNCHANGED <<fileHeader, fileM, shared, solo>>
             /\ proc[p].pc = "ready" /\ proc'[p].pc = "ready" /\ proc[p].offset \in Nat
             /\ r \in Record /\ \A x : TestItem(proc[p].filter, x) => Keeps(r, x)
             /\ proc'[p].offset = proc[p].offset + Size(r)
             /\ cells' = WrittenAt(cells, proc[p].offset, Encoded(r))
             /\ proc'[p].filter = proc[p].filter
<1> DEFINE f == proc[p].filter
           r == CheckpointRecord(Marshal(f))
           o == proc[p].offset
           z == Size(r)
           todo == proc[p].todo \ {"checkpoint"}
<1>1. /\ proc[p].pc = "ready"
      /\ cells' = WrittenAt(cells, o, Encoded(r))
      /\ UNCHANGED <<fileHeader, fileM, commands, shared, solo>>
      /\ proc' = [proc EXCEPT ![p].todo = todo, ![p].offset = o + CheckpointSize]
  <2>1. CheckpointRecord(Marshal(f)) = r
    OBVIOUS
  <2>2. proc \in [Process -> ProcRecord]
    BY DEF SharedTyped
  <2> HIDE DEF r
  <2>3. proc' = [proc EXCEPT ![p].todo = @ \ {"checkpoint"}, ![p].offset = @ + CheckpointSize]
    BY DEF CheckpointBy
  <2>4. /\ proc[p].pc = "ready"
        /\ cells' = WrittenAt(cells, o, Encoded(r))
        /\ UNCHANGED <<fileHeader, fileM, commands, shared, solo>>
    BY <2>1 DEF CheckpointBy, Writes
  <2> QED BY <2>2, <2>3, <2>4
<1>2. proc \in [Process -> ProcRecord] /\ SoundProc(proc[p]) /\ FileTyped
  BY DEF SharedTyped
<1>3. Fits(f) /\ f \in FilterOrNil /\ o \in Nat
      /\ proc[p].todo \in (SUBSET Item) \cup SUBSET {"checkpoint"}
  BY <1>1, <1>2 DEF SoundProc, HasFilter, ProcRecord
<1>4. r \in Record /\ Whole(r) /\ \A x : TestItem(f, x) => Keeps(r, x)
  BY <1>3, CheckpointIsRecord
<1>5. r.typ = "checkpoint"
  BY DEF CheckpointRecord
<1>6. z = CheckpointSize /\ z \in Nat \ {0}
  BY <1>4, <1>5, SizeFacts DEF Size
<1> HIDE DEF r, z
<1>7. todo \in (SUBSET Item) \cup SUBSET {"checkpoint"}
  BY <1>3
<1>8. o + CheckpointSize \in Nat /\ o + CheckpointSize = o + z
  BY <1>3, <1>6
<1> HIDE DEF todo
<1>9. Moves(p) /\ proc'[p].pc = "ready" /\ proc'[p].filter = f /\ proc'[p].offset = o + z
  BY <1>1, <1>2, <1>7, <1>8 DEF Moves, ProcRecord
<1>10. SoundProc(proc'[p])
  BY <1>3, <1>9 DEF SoundProc, HasFilter, Moves
<1>11. FileTyped'
  <2>1. 1 \in 1 .. Size(r)
    BY <1>6 DEF z
  <2>2. Encoded(r) \in Seq(Cell) /\ Fresh(r, Encoded(r))
    BY <1>4, <2>1, EncodedFresh
  <2> QED BY <1>1, <1>2, <1>3, <1>4, <2>2, WrittenTyped
<1>12. solo' \in SUBSET Item
  BY <1>1 DEF SharedTyped
<1>13. SharedTyped'
  BY <1>1, <1>9, <1>10, <1>11, <1>12, TypedAfter
<1>14. /\ SharedTyped' /\ Moves(p) /\ UNCHANGED <<fileHeader, fileM, shared, solo>>
       /\ proc[p].pc = "ready" /\ proc'[p].pc = "ready" /\ o \in Nat
       /\ r \in Record /\ \A x : TestItem(f, x) => Keeps(r, x)
       /\ proc'[p].offset = o + z
       /\ cells' = WrittenAt(cells, o, Encoded(r))
       /\ proc'[p].filter = f
  BY <1>1, <1>3, <1>4, <1>9, <1>13
<1> QED BY <1>14, Zenon DEF r, z

\* A process that is no more.
LEMMA GoneFacts ==
  ASSUME SharedTyped, NEW p \in Process, proc' = [proc EXCEPT ![p] = Idle]
  PROVE  Moves(p) /\ SoundProc(proc'[p]) /\ proc'[p].pc = "idle"
<1>1. Idle = [pc |-> "idle", todo |-> {}, offset |-> 0, filter |-> NilFilter]
  BY DEF Idle
<1> DEFINE i == Idle
<1>2. i \in ProcRecord /\ i.pc = "idle" /\ i.filter = NilFilter /\ i.offset = 0
  BY <1>1 DEF ProcRecord, Labelled, FilterOrNil
<1>3. SoundProc(i)
  BY <1>2 DEF SoundProc, HasFilter
<1> HIDE DEF i
<1>4. proc \in [Process -> ProcRecord] /\ proc' = [proc EXCEPT ![p] = i]
  BY DEF SharedTyped, i
<1>5. Moves(p) /\ proc'[p] = i
  BY <1>2, <1>4 DEF Moves
<1> QED BY <1>2, <1>3, <1>5

LEMMA EndsFacts ==
  ASSUME SharedTyped, NEW p \in Process, Ends(p)
  PROVE  /\ SharedTyped' /\ Moves(p) /\ UNCHANGED <<fileHeader, fileM, cells, shared, solo>>
         /\ proc[p].pc # "idle" /\ proc'[p].pc = "idle"
<1>1. /\ proc[p].pc # "idle" /\ proc' = [proc EXCEPT ![p] = Idle]
      /\ UNCHANGED <<fileHeader, fileM, cells, commands, solo, shared>>
  BY DEF Ends
<1>2. Moves(p) /\ SoundProc(proc'[p]) /\ proc'[p].pc = "idle"
  BY <1>1, GoneFacts
<1>3. FileTyped'
  BY <1>1 DEF SharedTyped, FileTyped
<1>4. SharedTyped'
  BY <1>1, <1>2, <1>3, TypedAfter DEF SharedTyped
<1> QED BY <1>1, <1>2, <1>4

\* Cells of one record, which lacks nothing that the filter has.
Keeping(new, f) ==
  /\ new \in Seq(Cell)
  /\ \A i \in 1 .. Len(new) : Whole(new[i].rec)
  /\ \A i \in 1 .. Len(new), x \in Item : TestItem(f, x) => Keeps(new[i].rec, x)

\* Half of a record.
PartOf(new, r) == \E n \in 1 .. Size(r) - 1 : new = SubSeq(Encoded(r), 1, n)

LEMMA FailsFacts ==
  ASSUME SharedTyped, NEW p \in Process, Fails(p)
  PROVE  /\ SharedTyped' /\ Moves(p) /\ UNCHANGED <<fileHeader, fileM, shared, solo>>
         /\ proc[p].pc = "ready" /\ proc'[p].pc = "idle" /\ proc[p].offset \in Nat
         /\ \E new : /\ Keeping(new, proc[p].filter)
                     /\ cells' = WrittenAt(cells, proc[p].offset, new)
                     /\ \E r \in Record : PartOf(new, r)
<1> DEFINE f == proc[p].filter
           o == proc[p].offset
           R == {AddRecord(x) : x \in proc[p].todo \cap Item}
                \cup {CheckpointRecord(Marshal(f)) : c \in proc[p].todo \ Item}
<1>1. /\ proc[p].pc = "ready" /\ proc' = [proc EXCEPT ![p] = Idle]
      /\ UNCHANGED <<fileHeader, fileM, commands, solo, shared>>
  BY DEF Fails
<1>2. PICK r \in R : \E n \in 1 .. Size(r) - 1 :
        cells' = WrittenAt(cells, o, SubSeq(Encoded(r), 1, n))
  BY DEF Fails
<1>3. SoundProc(proc[p]) /\ FileTyped
  BY DEF SharedTyped
<1>4. Fits(f) /\ o \in Nat
  BY <1>1, <1>3 DEF SoundProc, HasFilter, ProcRecord
<1>5. r \in Record /\ Whole(r) /\ \A x : TestItem(f, x) => Keeps(r, x)
  <2>1. CASE \E x \in Item : r = AddRecord(x)
    BY <2>1, AddIsRecord
  <2>2. CASE r = CheckpointRecord(Marshal(f))
    BY <1>4, <2>2, CheckpointIsRecord
  <2> QED BY <2>1, <2>2
<1>6. PICK n \in 1 .. Size(r) - 1 :
         cells' = WrittenAt(cells, o, SubSeq(Encoded(r), 1, n))
  BY <1>2
<1> DEFINE new == SubSeq(Encoded(r), 1, n)
<1>7. new \in Seq(Cell) /\ Fresh(r, new)
  <2>1. n \in 1 .. Size(r)
    BY <1>5, SizeFacts
  <2> QED BY <1>5, <2>1, EncodedFresh
<1> HIDE DEF new, R
<1>8. Keeping(new, f)
  BY <1>5, <1>7 DEF Keeping, Fresh
<1>9. cells' = WrittenAt(cells, o, new)
  BY <1>6 DEF new
<1>10. FileTyped'
  BY <1>1, <1>3, <1>4, <1>5, <1>7, <1>9, WrittenTyped
<1>11. Moves(p) /\ SoundProc(proc'[p]) /\ proc'[p].pc = "idle"
  BY <1>1, GoneFacts
<1>12. SharedTyped'
  BY <1>1, <1>10, <1>11, TypedAfter DEF SharedTyped
<1>13. PartOf(new, r)
  BY DEF PartOf, new
<1> QED BY <1>1, <1>4, <1>5, <1>8, <1>9, <1>11, <1>12, <1>13

-----------------------------------------------------------------------------
(* A process that is alone *)

OthersIdle(p) == \A q \in Process : q # p => proc[q].pc = "idle"

\* It reads and writes the whole file.
AtItsEnd(p) ==
  /\ proc[p].pc = "create" => fileHeader # "complete"
  /\ proc[p].pc = "header" => cells = <<>>
  /\ HasFilter(proc[p]) => fileHeader = "complete"
  /\ proc[p].pc = "cut" => proc[p].offset = ValidEnd(cells)
  /\ proc[p].pc = "ready" => proc[p].offset = Len(cells) /\ Reached(cells, Len(cells))

\* AloneAtEnd is not inductive: it says nothing of a process on its way to the
\* end, nor that nobody else is between a reading and a write.
AloneInv ==
  \A p \in Process :
    proc[p].pc # "idle" /\ p \notin shared => OthersIdle(p) /\ AtItsEnd(p)

\* Whoever else moves is not alone, and does not make another one so.
LEMMA AloneStep ==
  ASSUME SharedTyped, AloneInv, NEW p \in Process, Moves(p), proc[p].pc # "idle",
         shared' = shared,
         proc'[p].pc # "idle" /\ p \notin shared /\ OthersIdle(p) /\ AtItsEnd(p) => AtItsEnd(p)'
  PROVE  AloneInv'
<1> SUFFICES ASSUME NEW q \in Process, proc'[q].pc # "idle", q \notin shared
             PROVE  OthersIdle(q)' /\ AtItsEnd(q)'
  BY DEF AloneInv
<1>1. CASE q # p
  <2>1. proc[q].pc # "idle"
    BY <1>1 DEF Moves
  <2>2. proc[p].pc = "idle"
    BY <1>1, <2>1 DEF AloneInv, OthersIdle
  <2> QED BY <2>2
<1>2. CASE q = p
  <2>1. OthersIdle(p) /\ AtItsEnd(p)
    BY <1>2 DEF AloneInv
  <2>2. OthersIdle(p)'
    BY <2>1 DEF OthersIdle, Moves
  <2> QED BY <1>2, <2>1, <2>2
<1> QED BY <1>1, <1>2

LEMMA AloneBegin ==
  ASSUME SharedTyped, AloneInv, NEW p \in Process,
         NEW todo \in (SUBSET Item) \cup {{"checkpoint"}}, Begin(p, todo)
  PROVE  AloneInv'
<1>1. /\ Moves(p) /\ proc'[p].pc \in {"create", "open"}
      /\ shared' = IF Active = {} THEN {} ELSE Active \cup {p}
      /\ proc'[p].pc = "create" => fileHeader' # "complete"
  BY BeginFacts
<1> SUFFICES ASSUME NEW q \in Process, proc'[q].pc # "idle", q \notin shared'
             PROVE  OthersIdle(q)' /\ AtItsEnd(q)'
  BY DEF AloneInv
<1>2. CASE Active = {}
  <2>1. \A o \in Process : proc[o].pc = "idle"
    BY <1>2 DEF Active
  <2>2. q = p
    BY <1>1, <2>1 DEF Moves
  <2> QED BY <1>1, <2>1, <2>2 DEF Moves, OthersIdle, AtItsEnd, HasFilter
<1>3. CASE Active # {}
  <2>1. q # p /\ q \notin Active
    BY <1>1, <1>3
  <2>2. proc'[q].pc = "idle"
    BY <1>1, <2>1 DEF Moves, Active
  <2> QED BY <2>2
<1> QED BY <1>2, <1>3

LEMMA EmptyReached == Reached(<<>>, 0)
<1>1. Way(<<>>, 0, 0, {0})
  BY DEF Way
<1>2. {0} \in SUBSET (0 .. 0) /\ 0 \in 0 .. Len(<<>>)
  OBVIOUS
<1> QED BY <1>1, <1>2 DEF Reached

LEMMA AloneCut ==
  ASSUME SharedTyped, AloneInv, NEW p \in Process, Cut(p)
  PROVE  AloneInv'
<1>1. /\ Moves(p) /\ UNCHANGED <<fileHeader, fileM, shared, solo>>
      /\ proc[p].pc = "cut" /\ proc'[p].pc = "ready"
      /\ proc'[p].offset = proc[p].offset
      /\ proc[p].offset \in Nat /\ cells' = Resized(cells, proc[p].offset)
  BY CutFacts
<1>2. cells \in Seq(Cell)
  BY DEF SharedTyped, FileTyped
<1>3. ASSUME AtItsEnd(p) PROVE AtItsEnd(p)'
  <2> DEFINE n == proc[p].offset
  <2>1. fileHeader = "complete" /\ n = ValidEnd(cells)
    BY <1>1, <1>3 DEF AtItsEnd, HasFilter
  <2>2. n \in 0 .. Len(cells) /\ Reached(cells, n)
    BY <1>2, <2>1, EndReached
  <2> HIDE DEF n
  <2>3. cells' = Resized(cells, n) /\ n \in Nat /\ proc'[p].offset = n
    BY <1>1 DEF n
  <2>4. /\ cells' \in Seq(Cell) /\ Len(cells') = n
        /\ \A k \in 0 .. n : k <= Len(cells) => Agree(cells, cells', k)
    BY <1>2, <2>3, ResizedFacts
  <2>5. n \in 0 .. n /\ n <= Len(cells)
    BY <2>2
  <2>6. Agree(cells, cells', n)
    BY <2>4, <2>5
  <2>7. Reached(cells', n)
    BY <1>2, <2>2, <2>4, <2>6, ReachedAlike
  <2> QED BY <1>1, <2>1, <2>3, <2>4, <2>7 DEF AtItsEnd
<1>4. proc[p].pc # "idle" /\ shared' = shared
  BY <1>1
<1> QED BY <1>1, <1>3, <1>4, AloneStep

\* A whole record, written by a process that is alone.
LEMMA AloneWrite ==
  ASSUME SharedTyped, AloneInv, NEW p \in Process, Moves(p),
         UNCHANGED <<fileHeader, shared>>, proc[p].pc = "ready", proc'[p].pc = "ready",
         NEW r \in Record, proc'[p].offset = proc[p].offset + Size(r),
         cells' = WrittenAt(cells, proc[p].offset, Encoded(r))
  PROVE  AloneInv'
<1>1. cells \in Seq(Cell)
  BY DEF SharedTyped, FileTyped
<1>2. ASSUME AtItsEnd(p) PROVE AtItsEnd(p)'
  <2>1. fileHeader = "complete" /\ proc[p].offset = Len(cells) /\ Reached(cells, Len(cells))
    BY <1>2 DEF AtItsEnd, HasFilter
  <2>2. cells' = WrittenAt(cells, Len(cells), Encoded(r))
    BY <2>1
  <2>3. Len(cells') = Len(cells) + Size(r) /\ Reached(cells', Len(cells'))
    BY <1>1, <2>1, <2>2, AppendedReached, Zenon
  <2> QED BY <2>1, <2>3 DEF AtItsEnd
<1>3. proc[p].pc # "idle" /\ shared' = shared
  OBVIOUS
<1> QED BY <1>2, <1>3, AloneStep

LEMMA AloneNext ==
  ASSUME DefaultFits, SharedTyped, AloneInv, SharedNext
  PROVE  AloneInv'
<1>1. PICK p \in Process :
        \/ \E todo \in (SUBSET Item) \cup {{"checkpoint"}} : Begin(p, todo)
        \/ CreateBy(p)
        \/ \E m \in Ms, k \in Ks : WriteHeader(p, m, k)
        \/ Read(p) \/ Cut(p)
        \/ \E data \in Item : AddBy(p, data)
        \/ CheckpointBy(p) \/ Fails(p) \/ Ends(p)
  BY DEF SharedNext
<1>2. CASE \E todo \in (SUBSET Item) \cup {{"checkpoint"}} : Begin(p, todo)
  BY <1>2, AloneBegin
<1>3. CASE CreateBy(p)
  <2>1. /\ Moves(p) /\ shared' = shared
        /\ proc[p].pc # "idle" /\ proc'[p].pc = "header" /\ cells' = <<>>
    BY <1>3, CreateFacts
  <2>2. AtItsEnd(p)'
    BY <2>1 DEF AtItsEnd, HasFilter
  <2> QED BY <2>1, <2>2, AloneStep
<1>4. CASE \E m \in Ms, k \in Ks : WriteHeader(p, m, k)
  <2>1. /\ Moves(p) /\ shared' = shared /\ cells' = cells
        /\ proc[p].pc = "header" /\ proc[p].pc # "idle" /\ proc'[p].pc = "ready"
        /\ fileHeader' = "complete" /\ proc'[p].offset = 0
    BY <1>4, WriteHeaderFacts
  <2>2. AtItsEnd(p) => AtItsEnd(p)'
    <3> SUFFICES ASSUME AtItsEnd(p) PROVE AtItsEnd(p)'
      OBVIOUS
    <3>1. cells' = <<>> /\ Len(cells') = 0
      BY <2>1 DEF AtItsEnd
    <3>2. Reached(cells', Len(cells'))
      BY <3>1, EmptyReached
    <3> QED BY <2>1, <3>1, <3>2 DEF AtItsEnd
  <2> QED BY <2>1, <2>2, AloneStep
<1>5. CASE Read(p)
  <2>1. /\ Moves(p) /\ shared' = shared /\ cells' = cells
        /\ proc[p].pc # "idle" /\ proc'[p].pc = "cut" /\ fileHeader' = "complete"
        /\ proc'[p].offset = ValidEnd(cells)
    BY <1>5, ReadFacts
  <2>2. AtItsEnd(p)'
    BY <2>1 DEF AtItsEnd
  <2> QED BY <2>1, <2>2, AloneStep
<1>6. CASE Cut(p)
  BY <1>6, AloneCut
<1>7. CASE \E data \in Item : AddBy(p, data)
  <2>1. PICK data \in Item : AddBy(p, data)
    BY <1>7
  <2> DEFINE r == AddRecord(data)
  <2>2. r \in Record
    BY AddIsRecord
  <2>3. /\ Moves(p) /\ UNCHANGED <<fileHeader, shared>>
        /\ proc[p].pc = "ready" /\ proc'[p].pc = "ready"
        /\ proc'[p].offset = proc[p].offset + Size(r)
        /\ cells' = WrittenAt(cells, proc[p].offset, Encoded(r))
    BY <2>1, AddFacts
  <2> HIDE DEF r
  <2> QED BY <2>2, <2>3, AloneWrite
<1>8. CASE CheckpointBy(p)
  <2> DEFINE r == CheckpointRecord(Marshal(proc[p].filter))
  <2>1. /\ Moves(p) /\ UNCHANGED <<fileHeader, shared>>
        /\ proc[p].pc = "ready" /\ proc'[p].pc = "ready" /\ r \in Record
        /\ proc'[p].offset = proc[p].offset + Size(r)
        /\ cells' = WrittenAt(cells, proc[p].offset, Encoded(r))
    BY <1>8, CheckpointFacts
  <2> HIDE DEF r
  <2> QED BY <2>1, AloneWrite
<1>9. CASE Fails(p)
  <2>1. Moves(p) /\ shared' = shared /\ proc[p].pc # "idle" /\ proc'[p].pc = "idle"
    BY <1>9, FailsFacts
  <2> QED BY <2>1, AloneStep
<1>10. CASE Ends(p)
  <2>1. Moves(p) /\ shared' = shared /\ proc[p].pc # "idle" /\ proc'[p].pc = "idle"
    BY <1>10, EndsFacts
  <2> QED BY <2>1, AloneStep
<1> QED BY <1>1, <1>2, <1>3, <1>4, <1>5, <1>6, <1>7, <1>8, <1>9, <1>10

LEMMA TypedNext ==
  ASSUME DefaultFits, SharedTyped, [SharedNext]_sharedVars
  PROVE  SharedTyped'
<1>1. CASE SharedNext
  <2>1. PICK p \in Process :
          \/ \E todo \in (SUBSET Item) \cup {{"checkpoint"}} : Begin(p, todo)
          \/ CreateBy(p)
          \/ \E m \in Ms, k \in Ks : WriteHeader(p, m, k)
          \/ Read(p) \/ Cut(p)
          \/ \E data \in Item : AddBy(p, data)
          \/ CheckpointBy(p) \/ Fails(p) \/ Ends(p)
    BY <1>1 DEF SharedNext
  <2> QED BY <2>1, BeginFacts, CreateFacts, WriteHeaderFacts, ReadFacts, CutFacts, AddFacts,
             CheckpointFacts, FailsFacts, EndsFacts
<1>2. CASE UNCHANGED sharedVars
  BY <1>2 DEF sharedVars, SharedTyped, FileTyped
<1> QED BY <1>1, <1>2

-----------------------------------------------------------------------------
(* What a process saved while it was alone *)

\* No process cuts or writes in front of the end of the record of x, and none
\* that may write a checkpoint lacks x.
SavedAt(x, b) ==
  /\ InFile(cells, x, b)
  /\ \A p \in Process :
       HasFilter(proc[p]) => proc[p].offset >= After(cells, b) /\ TestItem(proc[p].filter, x)

\* SoloSurvive is not inductive: it speaks of the file only, and not of what the
\* processes are about to do to it.  A file in which something is saved is not
\* created again.
SavedInv ==
  solo # {} =>
    /\ fileHeader = "complete" /\ \A p \in Process : proc[p].pc \notin {"create", "header"}
    /\ \A x \in solo : \E b \in Nat : SavedAt(x, b)

\* A step that saves nothing, and leaves what was saved in the file.
LEMMA SavedStep ==
  ASSUME SharedTyped, SavedInv, NEW p \in Process, Moves(p), solo' = solo,
         solo # {} => fileHeader' = "complete" /\ proc'[p].pc \notin {"create", "header"},
         \A x \in Item, b \in Nat :
           SavedAt(x, b) =>
             /\ InFile(cells', x, b) /\ After(cells', b) = After(cells, b)
             /\ HasFilter(proc'[p]) =>
                  proc'[p].offset >= After(cells, b) /\ TestItem(proc'[p].filter, x)
  PROVE  SavedInv'
<1> SUFFICES ASSUME solo # {}
             PROVE  /\ fileHeader' = "complete"
                    /\ \A q \in Process : proc'[q].pc \notin {"create", "header"}
                    /\ \A x \in solo : \E b \in Nat : SavedAt(x, b)'
  BY DEF SavedInv
<1>1. ASSUME NEW q \in Process PROVE proc'[q].pc \notin {"create", "header"}
  <2>1. CASE q = p
    BY <2>1
  <2>2. CASE q # p
    BY <2>2 DEF Moves, SavedInv
  <2> QED BY <2>1, <2>2
<1>2. ASSUME NEW x \in solo PROVE \E b \in Nat : SavedAt(x, b)'
  <2>1. PICK b \in Nat : SavedAt(x, b)
    BY DEF SavedInv
  <2>2. x \in Item
    BY DEF SharedTyped
  <2>3. /\ InFile(cells', x, b) /\ After(cells', b) = After(cells, b)
        /\ HasFilter(proc'[p]) =>
             proc'[p].offset >= After(cells, b) /\ TestItem(proc'[p].filter, x)
    BY <2>1, <2>2
  <2>4. ASSUME NEW q \in Process, HasFilter(proc'[q])
        PROVE  proc'[q].offset >= After(cells', b) /\ TestItem(proc'[q].filter, x)
    <3>1. CASE q = p
      BY <2>3, <2>4, <3>1
    <3>2. CASE q # p
      <4>1. proc'[q] = proc[q]
        BY <3>2 DEF Moves
      <4>2. proc[q].offset >= After(cells, b) /\ TestItem(proc[q].filter, x)
        BY <2>1, <2>4, <4>1 DEF SavedAt
      <4> QED BY <2>3, <4>1, <4>2
    <3> QED BY <3>1, <3>2
  <2>5. SavedAt(x, b)'
    BY <2>3, <2>4 DEF SavedAt
  <2> QED BY <2>5
<1> QED BY <1>1, <1>2

\* A write of a process that has x is behind the record of x.
LEMMA SavedWrite ==
  ASSUME SharedTyped, NEW p \in Process, HasFilter(proc[p]),
         NEW new, Keeping(new, proc[p].filter),
         cells' = WrittenAt(cells, proc[p].offset, new),
         NEW x \in Item, NEW b \in Nat, SavedAt(x, b)
  PROVE  InFile(cells', x, b) /\ After(cells', b) = After(cells, b)
<1> DEFINE off == proc[p].offset
<1>1. cells \in Seq(Cell) /\ off \in Nat
  BY DEF SharedTyped, FileTyped, SoundProc, ProcRecord
<1>2. InFile(cells, x, b) /\ off >= After(cells, b) /\ TestItem(proc[p].filter, x)
  BY DEF SavedAt
<1>3. new \in Seq(Cell) /\ \A i \in 1 .. Len(new) : Keeps(new[i].rec, x)
  BY <1>2 DEF Keeping
<1>4. After(cells, b) <= off
  BY <1>1, <1>2, InFileType
<1> HIDE DEF off
<1>5. LET ds == WrittenAt(cells, off, new)
      IN  InFile(ds, x, b) /\ After(ds, b) = After(cells, b)
  BY <1>1, <1>2, <1>3, <1>4, WriteKeeps
<1> QED BY <1>5, Zenon DEF off

\* Encoded records are cells of that kind.
LEMMA EncodedKeeping ==
  ASSUME NEW r \in Record, Whole(r), NEW f,
         \A x \in Item : TestItem(f, x) => Keeps(r, x)
  PROVE  Keeping(Encoded(r), f)
<1>1. 1 \in 1 .. Size(r)
  BY SizeFacts
<1>2. Encoded(r) \in Seq(Cell) /\ Fresh(r, Encoded(r))
  BY <1>1, EncodedFresh
<1> QED BY <1>2 DEF Keeping, Fresh

LEMMA SavedBegin ==
  ASSUME SharedTyped, SavedInv, NEW p \in Process,
         NEW todo \in (SUBSET Item) \cup {{"checkpoint"}}, Begin(p, todo)
  PROVE  SavedInv'
<1>1. /\ Moves(p) /\ UNCHANGED <<fileHeader, fileM, cells, solo>>
      /\ proc'[p].pc \in {"create", "open"} /\ (proc'[p].pc = "create" => fileHeader = "absent")
  BY BeginFacts
<1>2. ~HasFilter(proc'[p])
  BY <1>1 DEF HasFilter
<1>3. solo # {} => fileHeader' = "complete" /\ proc'[p].pc \notin {"create", "header"}
  BY <1>1 DEF SavedInv
<1>4. \A x \in Item, b \in Nat :
        SavedAt(x, b) => InFile(cells', x, b) /\ After(cells', b) = After(cells, b)
  BY <1>1 DEF SavedAt
<1> QED BY <1>1, <1>2, <1>3, <1>4, SavedStep

LEMMA SavedRead ==
  ASSUME DefaultFits, SharedTyped, SavedInv, NEW p \in Process,
         Read(p)
  PROVE  SavedInv'
<1>1. /\ Moves(p) /\ UNCHANGED <<fileHeader, cells, solo>>
      /\ proc'[p].pc = "cut" /\ fileHeader = "complete"
      /\ proc'[p].offset = ValidEnd(cells)
      /\ \A x \in Item, b \in Nat : InFile(cells, x, b) => TestItem(proc'[p].filter, x)
  BY ReadFacts
<1>2. cells \in Seq(Cell)
  BY DEF SharedTyped, FileTyped
<1>3. ASSUME NEW x \in Item, NEW b \in Nat, SavedAt(x, b)
      PROVE  /\ InFile(cells', x, b) /\ After(cells', b) = After(cells, b)
             /\ proc'[p].offset >= After(cells, b) /\ TestItem(proc'[p].filter, x)
  <2>1. InFile(cells, x, b)
    BY <1>3 DEF SavedAt
  <2>2. ValidEnd(cells) >= After(cells, b)
    BY <1>2, <2>1, ReachedFound DEF InFile
  <2> QED BY <1>1, <2>1, <2>2
<1> QED BY <1>1, <1>3, SavedStep

LEMMA SavedCut ==
  ASSUME SharedTyped, SavedInv, NEW p \in Process, Cut(p)
  PROVE  SavedInv'
<1>1. /\ Moves(p) /\ UNCHANGED <<fileHeader, solo>>
      /\ proc[p].pc = "cut" /\ proc'[p].pc = "ready"
      /\ proc'[p].offset = proc[p].offset /\ proc'[p].filter = proc[p].filter
      /\ proc[p].offset \in Nat /\ cells' = Resized(cells, proc[p].offset)
  BY CutFacts
<1>2. cells \in Seq(Cell)
  BY DEF SharedTyped, FileTyped
<1>3. ASSUME NEW x \in Item, NEW b \in Nat, SavedAt(x, b)
      PROVE  /\ InFile(cells', x, b) /\ After(cells', b) = After(cells, b)
             /\ proc'[p].offset >= After(cells, b) /\ TestItem(proc'[p].filter, x)
  <2> DEFINE n == proc[p].offset
  <2>1. InFile(cells, x, b) /\ n >= After(cells, b) /\ TestItem(proc[p].filter, x)
    BY <1>1, <1>3 DEF SavedAt, HasFilter
  <2>2. After(cells, b) <= n
    BY <1>1, <1>2, <2>1, InFileType
  <2>3. n \in Nat /\ cells' = Resized(cells, n)
    BY <1>1
  <2> HIDE DEF n
  <2>4. LET ds == Resized(cells, n)
        IN  InFile(ds, x, b) /\ After(ds, b) = After(cells, b)
    BY <1>2, <2>1, <2>2, <2>3, CutKeeps
  <2>5. InFile(cells', x, b) /\ After(cells', b) = After(cells, b)
    BY <2>3, <2>4, Zenon
  <2> QED BY <1>1, <2>1, <2>5 DEF n
<1>4. solo # {} => fileHeader' = "complete" /\ proc'[p].pc \notin {"create", "header"}
  BY <1>1 DEF SavedInv
<1> QED BY <1>1, <1>3, <1>4, SavedStep

LEMMA SavedCheckpoint ==
  ASSUME SharedTyped, SavedInv, NEW p \in Process,
         CheckpointBy(p)
  PROVE  SavedInv'
<1> DEFINE r == CheckpointRecord(Marshal(proc[p].filter))
           z == Size(r)
<1>1. /\ Moves(p) /\ UNCHANGED <<fileHeader, solo>>
      /\ proc[p].pc = "ready" /\ proc'[p].pc = "ready" /\ proc[p].offset \in Nat
      /\ r \in Record /\ \A x : TestItem(proc[p].filter, x) => Keeps(r, x)
      /\ proc'[p].offset = proc[p].offset + z
      /\ cells' = WrittenAt(cells, proc[p].offset, Encoded(r))
      /\ proc'[p].filter = proc[p].filter
  BY CheckpointFacts
<1>2. Fits(proc[p].filter) /\ HasFilter(proc[p])
  BY <1>1 DEF SharedTyped, SoundProc, HasFilter
<1>3. Whole(r)
  BY <1>2, CheckpointIsRecord
<1> HIDE DEF r
<1>4. z \in Nat
  BY <1>1, SizeFacts
<1>5. Keeping(Encoded(r), proc[p].filter)
  BY <1>1, <1>3, EncodedKeeping
<1> HIDE DEF z
<1>6. ASSUME NEW x \in Item, NEW b \in Nat, SavedAt(x, b)
      PROVE  /\ InFile(cells', x, b) /\ After(cells', b) = After(cells, b)
             /\ proc'[p].offset >= After(cells, b) /\ TestItem(proc'[p].filter, x)
  <2>1. InFile(cells', x, b) /\ After(cells', b) = After(cells, b)
    BY <1>1, <1>2, <1>5, <1>6, SavedWrite
  <2>2. proc[p].offset >= After(cells, b) /\ TestItem(proc[p].filter, x)
    BY <1>2, <1>6 DEF SavedAt
  <2>3. After(cells, b) \in Nat
    BY <1>6, InFileType DEF SavedAt, SharedTyped, FileTyped
  <2>4. proc'[p].offset >= After(cells, b)
    BY <1>1, <1>4, <2>2, <2>3
  <2> QED BY <1>1, <2>1, <2>2, <2>4
<1>7. solo # {} => fileHeader' = "complete" /\ proc'[p].pc \notin {"create", "header"}
  BY <1>1 DEF SavedInv
<1> QED BY <1>1, <1>6, <1>7, SavedStep

LEMMA SavedFails ==
  ASSUME SharedTyped, SavedInv, NEW p \in Process, Fails(p)
  PROVE  SavedInv'
<1>1. /\ Moves(p) /\ UNCHANGED <<fileHeader, solo>>
      /\ proc[p].pc = "ready" /\ proc'[p].pc = "idle"
      /\ \E new : /\ Keeping(new, proc[p].filter)
                  /\ cells' = WrittenAt(cells, proc[p].offset, new)
  BY FailsFacts
<1>2. HasFilter(proc[p]) /\ ~HasFilter(proc'[p])
  BY <1>1 DEF HasFilter
<1>3. \A x \in Item, b \in Nat :
        SavedAt(x, b) => InFile(cells', x, b) /\ After(cells', b) = After(cells, b)
  BY <1>1, <1>2, SavedWrite
<1>4. solo # {} => fileHeader' = "complete" /\ proc'[p].pc \notin {"create", "header"}
  BY <1>1 DEF SavedInv
<1> QED BY <1>1, <1>2, <1>3, <1>4, SavedStep

\* What a process that is alone adds is behind all that is read.
LEMMA SavedAdd ==
  ASSUME SharedTyped, AloneInv, SavedInv, NEW p \in Process,
         NEW data \in Item, AddBy(p, data)
  PROVE  SavedInv'
<1> DEFINE r == AddRecord(data)
           z == Size(r)
           new == Encoded(r)
<1>1. /\ SharedTyped' /\ Moves(p) /\ UNCHANGED <<fileHeader, shared>>
      /\ proc[p].pc = "ready" /\ proc'[p].pc = "ready" /\ proc[p].offset \in Nat
      /\ proc'[p].offset = proc[p].offset + z
      /\ cells' = WrittenAt(cells, proc[p].offset, new)
      /\ TestItem(proc'[p].filter, data)
      /\ \A x \in Item : TestItem(proc[p].filter, x) => TestItem(proc'[p].filter, x)
      /\ solo' = IF p \in shared THEN solo ELSE solo \cup {data}
  BY AddFacts
<1>2. r \in Record /\ Whole(r) /\ \A x : Keeps(r, x)
  BY AddIsRecord
<1>3. HasFilter(proc[p]) /\ HasFilter(proc'[p]) /\ cells \in Seq(Cell)
  BY <1>1 DEF HasFilter, SharedTyped, FileTyped
<1> HIDE DEF r
<1>4. z \in Nat \ {0} /\ Keeping(new, proc[p].filter)
  BY <1>2, SizeFacts, EncodedKeeping
<1> HIDE DEF z, new
<1>5. ASSUME NEW x \in Item, NEW b \in Nat, SavedAt(x, b)
      PROVE  /\ InFile(cells', x, b) /\ After(cells', b) = After(cells, b)
             /\ proc'[p].offset >= After(cells, b) /\ TestItem(proc'[p].filter, x)
  <2>1. InFile(cells', x, b) /\ After(cells', b) = After(cells, b)
    BY <1>1, <1>3, <1>4, <1>5, SavedWrite
  <2>2. proc[p].offset >= After(cells, b) /\ TestItem(proc[p].filter, x)
    BY <1>3, <1>5 DEF SavedAt
  <2>3. After(cells, b) \in Nat
    BY <1>3, <1>5, InFileType DEF SavedAt
  <2>4. proc'[p].offset >= After(cells, b)
    BY <1>1, <1>4, <2>2, <2>3
  <2> QED BY <1>1, <2>1, <2>2, <2>4
<1>6. CASE p \in shared
  <2>1. solo' = solo
    BY <1>1, <1>6
  <2>2. solo # {} => fileHeader' = "complete" /\ proc'[p].pc \notin {"create", "header"}
    BY <1>1 DEF SavedInv
  <2> QED BY <1>1, <1>5, <2>1, <2>2, SavedStep
<1>7. CASE p \notin shared
  <2>1. PICK n \in Nat : n = Len(cells)
    BY <1>3
  <2>2. OthersIdle(p) /\ AtItsEnd(p)
    BY <1>1, <1>7 DEF AloneInv
  <2>3. fileHeader = "complete" /\ proc[p].offset = n /\ Reached(cells, n) /\ n \in Nat
    BY <1>1, <1>3, <2>1, <2>2 DEF AtItsEnd
  <2>4. \A q \in Process : q # p => proc'[q].pc = "idle" /\ ~HasFilter(proc'[q])
    BY <1>1, <2>2 DEF OthersIdle, Moves, HasFilter
  <2>5. /\ Len(cells') = n + z
        /\ Reached(cells', n) /\ ParsesAt(cells', n) /\ cells'[n + 1].rec = r
    <3>1. cells' = WrittenAt(cells, Len(cells), Encoded(r))
      BY <1>1, <2>1, <2>3 DEF new
    <3>2. LET ds == WrittenAt(cells, Len(cells), Encoded(r))
          IN  /\ Len(ds) = Len(cells) + Size(r)
              /\ Reached(ds, Len(cells)) /\ ParsesAt(ds, Len(cells))
              /\ ds[Len(cells) + 1].rec = r
      BY <1>2, <1>3, <2>1, <2>3, AppendedReached
    <3>3. /\ Len(cells') = Len(cells) + z
          /\ Reached(cells', Len(cells)) /\ ParsesAt(cells', Len(cells))
          /\ cells'[Len(cells) + 1].rec = r
      BY <3>1, <3>2, Zenon DEF z
    <3> QED BY <2>1, <3>3
  <2>6. ASSUME NEW q \in n + 1 .. Len(cells') PROVE Keeps(cells'[q].rec, data)
    <3>1. Len(new) = z
      BY <1>2, SizeFacts DEF new, z
    <3>2. new \in Seq(Cell) /\ q - n \in 1 .. Len(new) /\ q \in n + 1 .. n + Len(new)
      BY <1>4, <2>3, <2>5, <3>1 DEF Keeping
    <3>3. cells'[q] = new[q - n]
      <4>1. cells' = WrittenAt(cells, n, new)
        BY <1>1, <2>3
      <4>2. LET ds == WrittenAt(cells, n, new)
            IN  \A i \in n + 1 .. n + Len(new) : ds[i] = new[i - n]
        BY <1>3, <2>3, <3>2, WrittenAtFacts
      <4>3. \A i \in n + 1 .. n + Len(new) : cells'[i] = new[i - n]
        BY <4>1, <4>2, Zenon
      <4> QED BY <3>2, <4>3
    <3>4. new[q - n].rec = r
      <4>1. 1 \in 1 .. Size(r)
        BY <1>4 DEF z
      <4>2. Fresh(r, new)
        BY <1>2, <4>1, EncodedFresh DEF new
      <4> QED BY <3>2, <4>2 DEF Fresh
    <3> QED BY <1>2, <3>3, <3>4
  <2>7. After(cells', n) = n + z
    BY <2>5 DEF After, z
  <2>8. SavedAt(data, n)'
    <3>1. InFile(cells', data, n)
      BY <2>5, <2>6 DEF InFile, r
    <3>2. proc'[p].offset >= After(cells', n) /\ TestItem(proc'[p].filter, data)
      BY <1>1, <1>4, <2>3, <2>7
    <3> QED BY <2>4, <3>1, <3>2 DEF SavedAt
  <2>9. ASSUME NEW x \in solo PROVE \E b \in Nat : SavedAt(x, b)'
    <3>1. PICK b \in Nat : SavedAt(x, b)
      BY DEF SavedInv
    <3>2. x \in Item
      BY DEF SharedTyped
    <3>3. /\ InFile(cells', x, b) /\ After(cells', b) = After(cells, b)
          /\ proc'[p].offset >= After(cells, b) /\ TestItem(proc'[p].filter, x)
      BY <1>5, <3>1, <3>2
    <3>4. SavedAt(x, b)'
      BY <2>4, <3>3 DEF SavedAt
    <3> QED BY <3>4
  <2>10. \A x \in solo' : \E b \in Nat : SavedAt(x, b)'
    BY <1>1, <1>7, <2>3, <2>8, <2>9
  <2>11. fileHeader' = "complete" /\ \A q \in Process : proc'[q].pc \notin {"create", "header"}
    BY <1>1, <2>3, <2>4
  <2> QED BY <2>10, <2>11 DEF SavedInv
<1> QED BY <1>6, <1>7

LEMMA SavedNext ==
  ASSUME DefaultFits, SharedTyped, AloneInv, SavedInv,
         SharedNext
  PROVE  SavedInv'
<1>1. PICK p \in Process :
        \/ \E todo \in (SUBSET Item) \cup {{"checkpoint"}} : Begin(p, todo)
        \/ CreateBy(p)
        \/ \E m \in Ms, k \in Ks : WriteHeader(p, m, k)
        \/ Read(p) \/ Cut(p)
        \/ \E data \in Item : AddBy(p, data)
        \/ CheckpointBy(p) \/ Fails(p) \/ Ends(p)
  BY DEF SharedNext
<1>2. CASE CreateBy(p)
  <2>1. proc[p].pc = "create" /\ solo' = solo
    BY <1>2, CreateFacts
  <2> QED BY <2>1 DEF SavedInv
<1>3. CASE \E m \in Ms, k \in Ks : WriteHeader(p, m, k)
  <2>1. proc[p].pc = "header" /\ solo' = solo
    BY <1>3, WriteHeaderFacts
  <2> QED BY <2>1 DEF SavedInv
<1>4. CASE Ends(p)
  <2>1. /\ Moves(p) /\ UNCHANGED <<fileHeader, cells, solo>> /\ proc'[p].pc = "idle"
    BY <1>4, EndsFacts
  <2>2. ~HasFilter(proc'[p])
    BY <2>1 DEF HasFilter
  <2>3. solo # {} => fileHeader' = "complete" /\ proc'[p].pc \notin {"create", "header"}
    BY <2>1 DEF SavedInv
  <2>4. \A x \in Item, b \in Nat :
          SavedAt(x, b) => InFile(cells', x, b) /\ After(cells', b) = After(cells, b)
    BY <2>1 DEF SavedAt
  <2> QED BY <2>1, <2>2, <2>3, <2>4, SavedStep
<1> QED BY <1>1, <1>2, <1>3, <1>4, SavedBegin, SavedRead, SavedCut, SavedAdd,
           SavedCheckpoint, SavedFails

-----------------------------------------------------------------------------
(* What follows for the commands *)

SharedInv == SharedTyped /\ AloneInv /\ SavedInv

LEMMA FirstShared ==
  ASSUME SharedInit
  PROVE  SharedInv
<1>1. /\ fileHeader = "absent" /\ fileM = 0 /\ cells = <<>> /\ commands = 0
      /\ proc = [p \in Process |-> Idle] /\ solo = {} /\ shared = {}
  BY DEF SharedInit
<1>2. Idle = [pc |-> "idle", todo |-> {}, offset |-> 0, filter |-> NilFilter]
  BY DEF Idle
<1> DEFINE i == Idle
<1>3. i \in ProcRecord /\ i.pc = "idle" /\ i.filter = NilFilter /\ i.offset = 0
  BY <1>2 DEF ProcRecord, Labelled, FilterOrNil
<1>4. SoundProc(i)
  BY <1>3 DEF SoundProc, HasFilter
<1> HIDE DEF i
<1>5. proc = [p \in Process |-> i]
  BY <1>1 DEF i
<1>6. /\ proc \in [Process -> ProcRecord]
      /\ \A p \in Process : SoundProc(proc[p]) /\ proc[p].pc = "idle"
  BY <1>3, <1>4, <1>5
<1>7. FileTyped
  BY <1>1, Uint32Assumption DEF FileTyped
<1>8. SharedTyped
  BY <1>1, <1>6, <1>7, SharedStoreAssumption DEF SharedTyped
<1>9. AloneInv /\ SavedInv
  BY <1>1, <1>6 DEF AloneInv, SavedInv
<1> QED BY <1>8, <1>9 DEF SharedInv

LEMMA NextShared ==
  ASSUME DefaultFits, SharedInv, [SharedNext]_sharedVars
  PROVE  SharedInv'
<1>1. CASE SharedNext
  BY <1>1, TypedNext, AloneNext, SavedNext DEF SharedInv
<1>2. CASE UNCHANGED sharedVars
  <2>1. UNCHANGED <<fileHeader, fileM, cells, proc, commands, solo, shared>>
    BY <1>2 DEF sharedVars
  <2>2. SharedTyped'
    BY TypedNext DEF SharedInv
  <2>3. AloneInv'
    BY <2>1 DEF SharedInv, AloneInv, OthersIdle, AtItsEnd
  <2>4. SavedInv'
    BY <2>1 DEF SharedInv, SavedInv, SavedAt
  <2> QED BY <2>2, <2>3, <2>4 DEF SharedInv
<1> QED BY <1>1, <1>2

LEMMA SharedAlways ==
  ASSUME DefaultFits
  PROVE  SharedSpec => []SharedInv
<1>1. SharedInit => SharedInv
  BY FirstShared
<1>2. SharedInv /\ [SharedNext]_sharedVars => SharedInv'
  BY NextShared
<1> QED BY <1>1, <1>2, PTL DEF SharedSpec

\* Every variable of the commands has the type SharedStore gives it, and a
\* process has a filter from its reading of the file to its end.
THEOREM SharedTypeCorrect ==
  ASSUME DefaultFits
  PROVE  SharedSpec => []SharedTypeOK
<1>1. SharedInv => SharedTypeOK
  <2> SUFFICES ASSUME SharedTyped PROVE SharedTypeOK
    BY DEF SharedInv
  <2>1. ASSUME NEW p \in Process
        PROVE  /\ proc[p].pc \in Labelled
               /\ proc[p].todo \in (SUBSET Item) \cup SUBSET {"checkpoint"}
               /\ proc[p].offset \in Nat /\ proc[p].filter \in FilterOrNil
               /\ proc[p].filter # NilFilter <=> proc[p].pc \in {"cut", "ready"}
    <3>1. SoundProc(proc[p])
      BY DEF SharedTyped
    <3>2. Fits(proc[p].filter) => proc[p].filter # NilFilter
      BY FitsNotNil
    <3> QED BY <3>1, <3>2 DEF SoundProc, ProcRecord, HasFilter
  <2> QED BY <2>1 DEF SharedTyped, FileTyped, Cell, SharedTypeOK, Labelled
<1> QED BY <1>1, SharedAlways, PTL

\* store.go, AppendAdd and AppendCheckpoint, and main.go: what a store-add
\* acknowledged while no other command overlapped it is in every filter read
\* from the file afterwards, whatever the other commands truncate, write over
\* or leave half-written.
THEOREM SoloAddsSurvive ==
  ASSUME DefaultFits
  PROVE  SharedSpec => []SoloSurvive
<1>1. SharedInv => SoloSurvive
  <2> SUFFICES ASSUME SharedInv, NEW x \in solo PROVE Findable(x)
    BY DEF SoloSurvive
  <2> DEFINE rs == Parsed(cells)
  <2>1. SharedTyped /\ SavedInv
    BY DEF SharedInv
  <2>2. fileHeader = "complete" /\ x \in Item
    BY <2>1 DEF SavedInv, SharedTyped
  <2>3. PICK b \in Nat : InFile(cells, x, b)
    BY <2>1 DEF SavedInv, SavedAt
  <2>4. /\ cells \in Seq(Cell) /\ \A q \in 1 .. Len(cells) : Whole(cells[q].rec)
        /\ fileM \in 1 .. Uint32 - 1
    BY <2>1, <2>2 DEF SharedTyped, FileTyped
  <2>5. rs \in Seq(Record)
    <3>1. 0 \in 0 .. Len(cells)
      BY <2>4
    <3> QED BY <2>4, <3>1, FoundFrom, ParsedFromStart
  <2>6. PICK c \in 0 .. Len(rs) : IsLastCheckpoint(rs, c)
    BY <2>5, LastCheckpointExists
  <2>7. TestItem(Replay(fileM, rs, c), x)
    BY <2>2, <2>3, <2>4, <2>6, FileReplay
  <2> HIDE DEF rs
  <2>8. IsLastCheckpoint(rs, c) /\ TestItem(Replay(fileM, rs, c), x)
    BY <2>6, <2>7
  <2> QED BY <2>2, <2>6, <2>8 DEF Findable, rs
<1> QED BY <1>1, SharedAlways, PTL

\* store.go, Open and writeRecord: the handle of a process that is alone is at
\* the end of the file, and all in front of it is readable.
THEOREM AloneAppends ==
  ASSUME DefaultFits
  PROVE  SharedSpec => []AloneAtEnd
<1>1. SharedInv => AloneAtEnd
  <2> SUFFICES ASSUME SharedInv, NEW p \in Process, proc[p].pc = "ready", p \notin shared
               PROVE  proc[p].offset = Len(cells) /\ ValidEnd(cells) = Len(cells)
    BY DEF AloneAtEnd
  <2>1. proc[p].offset = Len(cells) /\ Reached(cells, Len(cells))
    BY DEF SharedInv, AloneInv, AtItsEnd
  <2>2. cells \in Seq(Cell)
    BY DEF SharedInv, SharedTyped, FileTyped
  <2>3. ~ParsesAt(cells, Len(cells))
    BY <2>2 DEF ParsesAt
  <2> QED BY <2>1, <2>2, <2>3, EndThere
<1> QED BY <1>1, SharedAlways, PTL

-----------------------------------------------------------------------------
(* What a process that is alone does to the records *)

\* Where the scan ends, nothing parses.
LEMMA EndParsesNot ==
  ASSUME NEW cs \in Seq(Cell)
  PROVE  ~ParsesAt(cs, ValidEnd(cs))
<1> DEFINE n == Len(cs)
           G == {o \in 0 .. n : ~ParsesAt(cs, EndFrom(cs, o))}
<1>1. ASSUME NEW o \in 0 .. n, \A u \in o + 1 .. n : u \in G PROVE o \in G
  <2>1. CASE ~ParsesAt(cs, o)
    BY <2>1, ScanFrom
  <2>2. CASE ParsesAt(cs, o)
    <3>1. After(cs, o) \in o + 1 .. n
      BY <2>2, AfterFacts
    <3>2. EndFrom(cs, o) = EndFrom(cs, After(cs, o))
      BY <2>2, ScanFrom
    <3> QED BY <1>1, <3>1, <3>2
  <2> QED BY <2>1, <2>2
<1>2. \A o \in 0 .. n : o \in G
  <2>1. n \in Nat
    OBVIOUS
  <2> HIDE DEF G, n
  <2> QED BY <1>1, <2>1, DownInduction
<1>3. 0 \in 0 .. n
  OBVIOUS
<1> QED BY <1>2, <1>3, ParsedFromStart

\* What lies behind the end of one file's records comes, in another file that
\* begins alike, behind the same records.
LEMMA ParsedAlike ==
  ASSUME NEW cs \in Seq(Cell), NEW ds \in Seq(Cell),
         NEW e, Reached(cs, e), ~ParsesAt(cs, e), Agree(cs, ds, e)
  PROVE  Parsed(ds) = Parsed(cs) \o RecsFrom(ds, e)
<1> DEFINE X == RecsFrom(ds, e)
           G == {o \in 0 .. e : RecsFrom(ds, o) = RecsFrom(cs, o) \o X}
<1>1. e \in 0 .. Len(cs) /\ e \in 0 .. Len(ds) /\ e \in Nat
  BY DEF Reached, Agree
<1>2. PICK B \in SUBSET (0 .. e) : Way(cs, 0, e, B)
  BY DEF Reached
<1>3. X \in Seq(Record)
  BY <1>1, FoundFrom
<1>4. e \in G
  <2>1. RecsFrom(cs, e) = <<>>
    BY <1>1, ScanFrom
  <2>2. e \in 0 .. e
    BY <1>1
  <2> HIDE DEF X
  <2>3. <<>> \o X = X
    BY <1>3, ConcatEmptySeq
  <2> QED BY <2>1, <2>2, <2>3 DEF X
<1>5. ASSUME NEW o \in B, o # e, After(cs, o) \in G PROVE o \in G
  <2> DEFINE a == After(cs, o)
             r == cs[o + 1].rec
             rs == RecsFrom(cs, a)
  <2>1. o \in 0 .. Len(cs) /\ o \in 0 .. e /\ o \in 0 .. Len(ds)
    BY <1>1, <1>2
  <2>2. ParsesAt(cs, o) /\ a \in B /\ a <= e
    BY <1>1, <1>2, <1>5 DEF Way
  <2>3. r \in Record /\ a \in 0 .. Len(cs)
    BY <2>1, <2>2, AfterFacts
  <2>4. ParsesAt(ds, o) /\ ds[o + 1].rec = r /\ After(ds, o) = a
    BY <1>1, <2>1, <2>2, ParsesAlike
  <2>5. RecsFrom(cs, o) = <<r>> \o rs /\ RecsFrom(ds, o) = <<r>> \o RecsFrom(ds, a)
    BY <2>1, <2>2, <2>4, ScanFrom
  <2>6. RecsFrom(ds, a) = rs \o X
    BY <1>5
  <2>7. rs \in Seq(Record) /\ <<r>> \in Seq(Record)
    BY <2>3, FoundFrom
  <2> HIDE DEF X, r, rs, a
  <2>8. <<r>> \o (rs \o X) = (<<r>> \o rs) \o X
    BY <1>3, <2>7, ConcatAssociative
  <2>9. RecsFrom(ds, o) = RecsFrom(cs, o) \o X
    BY <2>5, <2>6, <2>8
  <2> QED BY <2>1, <2>9
<1>6. 0 \in G
  <2> HIDE DEF G
  <2> QED BY <1>1, <1>2, <1>4, <1>5, BackAlong
<1> QED BY <1>6, ParsedFromStart

\* Cutting a file where its records end leaves the records.
LEMMA CutParsed ==
  ASSUME NEW cs \in Seq(Cell)
  PROVE  Parsed(Resized(cs, ValidEnd(cs))) = Parsed(cs)
<1> DEFINE e == ValidEnd(cs)
           ds == Resized(cs, e)
<1>1. e \in 0 .. Len(cs) /\ e \in Nat /\ e \in 0 .. e /\ e <= Len(cs) /\ Reached(cs, e)
      /\ ~ParsesAt(cs, e)
  BY EndReached, EndParsesNot
<1> HIDE DEF e
<1>2. ds \in Seq(Cell) /\ Len(ds) = e /\ Agree(cs, ds, e)
  BY <1>1, ResizedFacts
<1>3. Parsed(cs) \in Seq(Record)
  <2>1. 0 \in 0 .. Len(cs)
    OBVIOUS
  <2> QED BY <2>1, FoundFrom, ParsedFromStart
<1> HIDE DEF ds
<1>4. ~ParsesAt(ds, e) /\ e \in 0 .. Len(ds)
  BY <1>1, <1>2 DEF ParsesAt
<1>5. RecsFrom(ds, e) = <<>>
  BY <1>2, <1>4, ScanFrom
<1>6. Parsed(ds) = Parsed(cs) \o <<>>
  <2>1. Parsed(ds) = Parsed(cs) \o RecsFrom(ds, e)
    BY <1>1, <1>2, ParsedAlike, Zenon
  <2> QED BY <1>5, <2>1
<1>7. Parsed(cs) \o <<>> = Parsed(cs)
  BY <1>3, ConcatEmptySeq
<1> QED BY <1>6, <1>7 DEF ds, e

\* A record written where the records and the file end is one more of them.
LEMMA WriteParsed ==
  ASSUME NEW cs \in Seq(Cell), Reached(cs, Len(cs)), NEW r \in Record
  PROVE  Parsed(WrittenAt(cs, Len(cs), Encoded(r))) = Append(Parsed(cs), r)
<1> DEFINE n == Len(cs)
           new == Encoded(r)
           ds == WrittenAt(cs, n, new)
<1>1. n \in Nat /\ n \in 0 .. n /\ n <= Len(cs) /\ ~ParsesAt(cs, n)
  BY DEF ParsesAt
<1>2. /\ ds \in Seq(Cell) /\ Len(ds) = n + Size(r) /\ ParsesAt(ds, n) /\ ds[n + 1].rec = r
  BY AppendedReached, Zenon
<1>3. Agree(cs, ds, n)
  <2>1. new \in Seq(Cell)
    BY SizeFacts
  <2> HIDE DEF new, n
  <2> QED BY <1>1, <2>1, WrittenAgrees
<1>4. Size(r) \in Nat \ {0}
  BY SizeFacts
<1>5. Reached(cs, n) /\ Parsed(cs) \in Seq(Record)
  <2>1. 0 \in 0 .. Len(cs)
    OBVIOUS
  <2> QED BY <2>1, FoundFrom, ParsedFromStart
<1> HIDE DEF ds, n
<1>6. n \in 0 .. Len(ds) /\ After(ds, n) = Len(ds) /\ Len(ds) \in 0 .. Len(ds)
  BY <1>1, <1>2, <1>4 DEF After
<1>7. ~ParsesAt(ds, Len(ds))
  BY <1>6 DEF ParsesAt
<1>8. RecsFrom(ds, Len(ds)) = <<>>
  BY <1>2, <1>6, <1>7, ScanFrom
<1>9. RecsFrom(ds, n) = <<r>> \o <<>>
  <2>1. RecsFrom(ds, n) = <<ds[n + 1].rec>> \o RecsFrom(ds, After(ds, n))
    BY <1>2, <1>6, ScanFrom
  <2> QED BY <1>2, <1>6, <1>8, <2>1
<1>10. <<r>> \o <<>> = <<r>>
  <2>1. <<r>> \in Seq(Record)
    OBVIOUS
  <2> QED BY <2>1, ConcatEmptySeq
<1>11. Parsed(ds) = Parsed(cs) \o <<r>>
  <2>1. Parsed(ds) = Parsed(cs) \o RecsFrom(ds, n)
    BY <1>1, <1>2, <1>3, <1>5, ParsedAlike, Zenon
  <2> QED BY <1>9, <1>10, <2>1
<1>12. Append(Parsed(cs), r) = Parsed(cs) \o <<r>>
  BY <1>5, AppendIsConcat
<1> QED BY <1>11, <1>12 DEF ds, n

\* Half a record there is none.
LEMMA PartParsed ==
  ASSUME NEW cs \in Seq(Cell), Reached(cs, Len(cs)), NEW r \in Record, NEW new, PartOf(new, r)
  PROVE  Parsed(WrittenAt(cs, Len(cs), new)) = Parsed(cs)
<1> DEFINE n == Len(cs)
           ds == WrittenAt(cs, n, new)
<1>1. n \in Nat /\ n \in 0 .. n /\ n <= Len(cs) /\ ~ParsesAt(cs, n)
  BY DEF ParsesAt
<1>2. PICK l \in 1 .. Size(r) - 1 : new = SubSeq(Encoded(r), 1, l)
  BY DEF PartOf
<1>3. /\ Size(r) \in Nat \ {0} /\ Encoded(r) \in Seq(Cell) /\ Len(Encoded(r)) = Size(r)
      /\ \A i \in 1 .. Size(r) : Encoded(r)[i] = [rec |-> r, part |-> i]
  BY SizeFacts
<1>4. new \in Seq(Cell) /\ Len(new) = l /\ new[1] = [rec |-> r, part |-> 1] /\ l \in Nat \ {0}
      /\ l < Size(r)
  <2> DEFINE en == Encoded(r)
  <2> HIDE DEF en
  <2>1. l \in 1 .. Len(en) /\ en \in Seq(Cell) /\ 1 \in 1 .. Size(r)
    BY <1>3 DEF en
  <2>2. new = SubSeq(en, 1, l)
    BY <1>2 DEF en
  <2>3. new \in Seq(Cell) /\ Len(new) = l /\ new[1] = en[1]
    BY <2>1, <2>2
  <2> QED BY <1>2, <1>3, <2>1, <2>3 DEF en
<1>5. Parsed(cs) \in Seq(Record)
  <2>1. 0 \in 0 .. Len(cs)
    OBVIOUS
  <2> QED BY <2>1, FoundFrom, ParsedFromStart
<1>6. Reached(cs, n)
  OBVIOUS
<1> HIDE DEF n
<1>7. Agree(cs, ds, n)
  BY <1>1, <1>4, WrittenAgrees
<1>8. /\ ds \in Seq(Cell) /\ Len(ds) = n + l /\ ds[n + 1].rec = r
  <2>1. /\ ds \in Seq(Cell)
        /\ Len(ds) = IF n + Len(new) > Len(cs) THEN n + Len(new) ELSE Len(cs)
        /\ \A i \in n + 1 .. n + Len(new) : ds[i] = new[i - n]
    BY <1>1, <1>4, WrittenAtFacts
  <2> HIDE DEF ds
  <2> DEFINE at == n + 1
  <2>2. at \in n + 1 .. n + Len(new) /\ at - n = 1
    BY <1>1, <1>4
  <2> HIDE DEF at
  <2>3. ds[at] = new[at - n]
    BY <2>1, <2>2
  <2>4. ds[at] = new[1]
    BY <2>2, <2>3, Zenon
  <2>5. ds[at].rec = r
    BY <1>4, <2>4
  <2>6. Len(ds) = n + l
    BY <1>1, <1>4, <2>1 DEF n
  <2> QED BY <2>1, <2>5, <2>6 DEF at
<1> HIDE DEF ds
<1>9. ~ParsesAt(ds, n)
  BY <1>1, <1>3, <1>4, <1>8 DEF ParsesAt
<1>10. n \in 0 .. Len(ds)
  BY <1>1, <1>4, <1>8
<1>11. RecsFrom(ds, n) = <<>>
  BY <1>8, <1>9, <1>10, ScanFrom
<1>12. Parsed(ds) = Parsed(cs) \o <<>>
  <2>1. Parsed(ds) = Parsed(cs) \o RecsFrom(ds, n)
    BY <1>1, <1>6, <1>7, <1>8, ParsedAlike, Zenon
  <2> QED BY <1>11, <2>1
<1> QED BY <1>5, <1>12, ConcatEmptySeq DEF ds, n

LoneStep ==
  LET old == Parsed(cells)
      new == Parsed(cells')
  IN new \in {old} \cup {Append(old, new[i]) : i \in DOMAIN new}

\* What one step does to the records, if nobody is active that has met another.
LEMMA LoneNext ==
  ASSUME DefaultFits, SharedInv, SharedNext,
         fileHeader = "complete", Active \cap shared = {}
  PROVE  LoneStep
<1>1. PICK p \in Process :
        \/ \E todo \in (SUBSET Item) \cup {{"checkpoint"}} : Begin(p, todo)
        \/ CreateBy(p)
        \/ \E m \in Ms, k \in Ks : WriteHeader(p, m, k)
        \/ Read(p) \/ Cut(p)
        \/ \E data \in Item : AddBy(p, data)
        \/ CheckpointBy(p) \/ Fails(p) \/ Ends(p)
  BY DEF SharedNext
<1>2. SharedTyped /\ AloneInv /\ cells \in Seq(Cell)
  BY DEF SharedInv, SharedTyped, FileTyped
<1>3. proc[p].pc # "idle" => AtItsEnd(p)
  BY <1>2 DEF AloneInv, Active
<1>4. ASSUME Parsed(cells') = Parsed(cells) PROVE LoneStep
  BY <1>4 DEF LoneStep
<1>5. ASSUME proc[p].pc = "ready" PROVE proc[p].offset = Len(cells) /\ Reached(cells, Len(cells))
  BY <1>3, <1>5 DEF AtItsEnd
<1>6. ASSUME NEW r \in Record, proc[p].pc = "ready",
             cells' = WrittenAt(cells, proc[p].offset, Encoded(r))
      PROVE  LoneStep
  <2> DEFINE old == Parsed(cells)
             new == Parsed(cells')
  <2>1. new = Append(old, r)
    BY <1>2, <1>5, <1>6, WriteParsed
  <2>2. old \in Seq(Record)
    <3>1. 0 \in 0 .. Len(cells)
      BY <1>2
    <3> QED BY <1>2, <3>1, FoundFrom, ParsedFromStart
  <2> HIDE DEF old, new
  <2>3. Len(old) + 1 \in DOMAIN new /\ new[Len(old) + 1] = r
    BY <2>1, <2>2
  <2>4. new \in {Append(old, new[i]) : i \in DOMAIN new}
    BY <2>1, <2>3
  <2> QED BY <2>4 DEF LoneStep, old, new
<1>7. ASSUME NEW todo \in (SUBSET Item) \cup {{"checkpoint"}}, Begin(p, todo) PROVE LoneStep
  BY <1>4, <1>7 DEF Begin
<1>8. CASE CreateBy(p)
  BY <1>3, <1>8 DEF CreateBy, AtItsEnd
<1>9. ASSUME NEW m \in Ms, NEW k \in Ks, WriteHeader(p, m, k) PROVE LoneStep
  BY <1>4, <1>9 DEF WriteHeader
<1>10. CASE Read(p) \/ Ends(p)
  BY <1>4, <1>10 DEF Read, Ends
<1>11. CASE Cut(p)
  <2>1. proc[p].pc = "cut" /\ cells' = Resized(cells, proc[p].offset)
    BY <1>11 DEF Cut
  <2>2. proc[p].offset = ValidEnd(cells)
    BY <1>3, <2>1 DEF AtItsEnd
  <2> QED BY <1>2, <1>4, <2>1, <2>2, CutParsed
<1>12. ASSUME NEW data \in Item, AddBy(p, data) PROVE LoneStep
  <2>1. proc[p].pc = "ready" /\ cells' = WrittenAt(cells, proc[p].offset, Encoded(AddRecord(data)))
    BY <1>12 DEF AddBy, Writes
  <2>2. AddRecord(data) \in Record
    BY AddIsRecord
  <2> QED BY <1>6, <2>1, <2>2
<1>13. CASE CheckpointBy(p)
  BY <1>2, <1>6, <1>13, CheckpointFacts
<1>14. CASE Fails(p)
  <2>1. proc[p].pc = "ready"
    BY <1>14 DEF Fails
  <2>2. PICK new : /\ cells' = WrittenAt(cells, proc[p].offset, new)
                   /\ \E r \in Record : PartOf(new, r)
    BY <1>2, <1>14, FailsFacts
  <2>3. cells' = WrittenAt(cells, Len(cells), new) /\ Reached(cells, Len(cells))
    BY <1>5, <2>1, <2>2
  <2> QED BY <1>2, <1>4, <2>2, <2>3, PartParsed
<1> QED BY <1>1, <1>7, <1>8, <1>9, <1>10, <1>11, <1>12, <1>13, <1>14

\* README.md, "Append-only store mode": as long as a process is alone, the
\* records that a reader of the file finds stay, and there is at most one more
\* after every step; whatever overlapping processes left behind them is gone
\* for good and comes back in no step.
THEOREM LoneProcessAppends ==
  ASSUME DefaultFits
  PROVE  SharedSpec => LoneAppends
<1>1. ASSUME SharedInv, [SharedNext]_sharedVars
      PROVE  [fileHeader = "complete" /\ Active \cap shared = {} => LoneStep]_sharedVars
  BY <1>1, LoneNext
<1> QED BY <1>1, SharedAlways, PTL DEF SharedSpec, LoneAppends, LoneStep

=============================================================================
