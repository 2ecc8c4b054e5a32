------------------------- MODULE SnapshotFileProofs -------------------------
(***************************************************************************)
(* Theorems about SnapshotFile, for any number of processes, any items,    *)
(* hash functions and legacy files.                                        *)
(***************************************************************************)
EXTENDS SnapshotFile, FilterProofs

\* main.go, defaultM and defaultK: the filter for a file that is not there.
LEMMA DefaultFilter ==
  /\ Representable(NewFilter(DefaultM, DefaultK))
  /\ NewFilter(DefaultM, DefaultK).m = DefaultM
  /\ NewFilter(DefaultM, DefaultK).k = DefaultK
BY SnapshotFileAssumption, Uint32Assumption
   DEF Representable, NewFilter, ValidParams, Filter

\* codec.go, unmarshalV1: a legacy blob is a filter or an error.
LEMMA UnmarshalV1Type ==
  ASSUME NEW b \in Blob
  PROVE  /\ UnmarshalV1(b) \in FilterOrNil
         /\ UnmarshalV1(b) # NilFilter => UnmarshalV1(b).m = b.m /\ UnmarshalV1(b).k = b.k
BY DEF UnmarshalV1, Blob, Filter, FilterOrNil, ValidParams

\* What a file holds is a filter or an error.
LEMMA ContentsType == TypeOK => Contents \in FilterOrNil
<1> SUFFICES ASSUME TypeOK PROVE Contents \in FilterOrNil
  OBVIOUS
<1> QED BY UnmarshalV1Type, UnmarshalType, NilType DEF TypeOK, Contents

\* main.go, runAdd: the filter of a process that has read the file and added
\* its items.
LEMMA ReadFilter ==
  ASSUME TypeOK, NEW p \in Process, NEW items \in SUBSET Item, Read(p, items)
  PROVE  /\ mem'[p] \in Filter
         /\ mem'[p] # NilFilter
         /\ \A x \in items : TestItem(mem'[p], x)
         /\ file = Absent => mem'[p].m = DefaultM /\ mem'[p].k = DefaultK
         /\ file # Absent =>
              /\ Contents \in Filter
              /\ mem'[p].m = Contents.m /\ mem'[p].k = Contents.k
              /\ \A x \in Item : TestItem(Contents, x) => TestItem(mem'[p], x)
<1> DEFINE base == IF file = Absent THEN NewFilter(DefaultM, DefaultK) ELSE Contents
<1>1. base \in Filter
  BY DefaultFilter, ContentsType DEF Read, Base, Representable, FilterOrNil
<1>2. mem'[p] = AddItems(base, items)
  BY DEF Read, Base, TypeOK
<1>3. file = Absent => base.m = DefaultM /\ base.k = DefaultK
  BY DefaultFilter
<1> HIDE DEF base
<1>4. /\ mem'[p] \in Filter
      /\ mem'[p].m = base.m /\ mem'[p].k = base.k
      /\ \A x \in items : TestItem(mem'[p], x)
      /\ \A x \in Item : TestItem(base, x) => TestItem(mem'[p], x)
  BY <1>1, <1>2, AddItemsFacts
<1>5. file # Absent => base = Contents
  BY DEF base
<1> QED BY <1>1, <1>3, <1>4, <1>5, FilterIsNotNil

-----------------------------------------------------------------------------
(* Type correctness *)

\* main.go, runAdd: every process has a filter from its read to its end, and
\* none before and after.
THEOREM SnapshotTypeCorrect == Spec => []TypeOK
<1>1. Init => TypeOK
  <2> SUFFICES ASSUME Init PROVE TypeOK
    OBVIOUS
  <2>1. EmptyBlob \in Blob
    BY DEF EmptyBlob, Blob, ByteLen
  <2>2. file.state \in {"absent", "v1"} /\ file.blob \in Blob
    BY <2>1, SnapshotFileAssumption DEF Init, Absent, V1
  <2> QED BY <2>2, NilType DEF Init, TypeOK
<1>2. TypeOK /\ [Next]_vars => TypeOK'
  <2> SUFFICES ASSUME TypeOK, [Next]_vars PROVE TypeOK'
    OBVIOUS
  <2>0. EmptyBlob \in Blob
    BY DEF EmptyBlob, Blob, ByteLen
  <2>1. ASSUME NEW p \in Process, NEW items \in SUBSET Item, Read(p, items)
        PROVE  TypeOK'
    <3>1. mem'[p] \in FilterOrNil /\ mem'[p] # NilFilter
      BY <2>1, ReadFilter DEF FilterOrNil
    <3>2. mem' \in [Process -> FilterOrNil]
      BY <2>1, <3>1 DEF Read, Base, TypeOK
    <3>3. \A q \in Process : pc'[q] = "idle" <=> mem'[q] = NilFilter
      BY <2>1, <3>1 DEF Read, Base, TypeOK
    <3> QED BY <2>1, <3>2, <3>3 DEF Read, Base, TypeOK, Active
  <2>2. ASSUME NEW p \in Process, Truncate(p) PROVE TypeOK'
    <3>1. file'.state = "damaged" /\ file'.blob \in Blob
      BY <2>0, <2>2 DEF Truncate, Damaged
    <3> QED BY <2>2, <3>1 DEF Truncate, TypeOK
  <2>3. ASSUME NEW p \in Process, Ends(p), mem' = [mem EXCEPT ![p] = NilFilter]
        PROVE  /\ pc' \in [Process -> {"idle", "read", "truncated"}]
               /\ mem' \in [Process -> FilterOrNil]
               /\ \A q \in Process : pc'[q] = "idle" <=> mem'[q] = NilFilter
               /\ adding' \in [Process -> SUBSET Item]
    BY <2>3, NilType DEF Ends, TypeOK
  <2>4. ASSUME NEW p \in Process, Write(p) PROVE TypeOK'
    <3>1. file'.state = "v2" /\ file'.blob \in Blob
      BY <2>4, MarshalType DEF Write, V2, TypeOK
    <3>2. solo' \subseteq Item
      BY <2>4 DEF Write, TypeOK
    <3>3. Ends(p) /\ shared' \subseteq Process
      BY <2>4 DEF Write, TypeOK
    <3> QED BY <2>3, <3>1, <3>2, <3>3 DEF Ends, TypeOK
  <2>5. ASSUME NEW p \in Process, Fails(p) PROVE TypeOK'
    <3>1. file' \in {file, Damaged}
      BY <2>5 DEF Fails
    <3>2. file'.state \in {"absent", "damaged", "v1", "v2"} /\ file'.blob \in Blob
      BY <2>0, <3>1 DEF Damaged, TypeOK
    <3>3. Ends(p) /\ solo' \subseteq Item /\ shared' \subseteq Process
      BY <2>5 DEF Fails, TypeOK
    <3> QED BY <2>3, <3>2, <3>3 DEF Ends, TypeOK
  <2>6. CASE UNCHANGED vars
    BY <2>6 DEF vars, TypeOK
  <2> QED BY <2>1, <2>2, <2>4, <2>5, <2>6 DEF Next
<1> QED BY <1>1, <1>2, PTL DEF Spec

-----------------------------------------------------------------------------
(* What an add put there alone *)

\* codec.go, Unmarshal: a damaged file is an error to every reader.
LEMMA NoContents ==
  /\ file = Absent => Contents = NilFilter
  /\ file = Damaged => Contents = NilFilter
  /\ Absent # Damaged
BY DEF Contents, Absent, Damaged

\* main.go, runAdd: what a process writes is what the next one reads.
LEMMA WriteContents ==
  ASSUME TypeOK, NEW p \in Process, Write(p), Representable(mem[p])
  PROVE  Contents' = mem[p] /\ file' # Absent
<1>1. file'.state = "v2" /\ file'.blob = Marshal(mem[p])
  BY DEF Write, V2
<1>2. Contents' = Unmarshal(file'.blob)
  BY <1>1 DEF Contents
<1>3. Unmarshal(Marshal(mem[p])) = mem[p]
  BY RoundTrip DEF Representable
<1> QED BY <1>1, <1>2, <1>3 DEF Absent

\* main.go, runAdd: a process that fails changes nothing, or leaves a file
\* that cannot be read.
LEMMA FailsContents ==
  ASSUME NEW p \in Process, Fails(p)
  PROVE  /\ Contents' = Contents \/ Contents' = NilFilter
         /\ file' = Absent => file = Absent
<1>1. file' = file \/ file' = Damaged
  BY DEF Fails
<1>2. file' = file => Contents' = Contents
  BY DEF Contents
<1>3. file' = Damaged => Contents' = NilFilter /\ file' # Absent
  BY DEF Contents, Damaged, Absent
<1> QED BY <1>1, <1>2, <1>3

\* main.go, runAdd: a process ends without touching the filter of another.
LEMMA EndsKeepsOthers ==
  ASSUME TypeOK, NEW p \in Process, Ends(p)
  PROVE  /\ Active' = Active \ {p}
         /\ \A q \in Active' : mem'[q] = mem[q] /\ adding'[q] = adding[q]
BY DEF Ends, Active, TypeOK

\* Every filter of the program fits the header, and holds what must not be
\* lost.
THEOREM SoloInvariant == Spec => []SoloInv
<1>1. Init => SoloInv
  <2> SUFFICES ASSUME Init PROVE SoloInv
    OBVIOUS
  <2>1. Active = {}
    BY DEF Init, Active
  <2>2. file = Absent => solo = {}
    BY NoContents DEF Init
  <2>3. ASSUME Contents # NilFilter
        PROVE  Representable(Contents) /\ \A x \in solo : TestItem(Contents, x)
    <3>1. PICK b \in Legacy : file = V1(b)
      BY <2>3, NoContents DEF Init
    <3>2. Contents = UnmarshalV1(b)
      BY <3>1 DEF Contents, V1
    <3>3. b \in Blob /\ b.m < Uint32 /\ b.k < Uint32
      BY SnapshotFileAssumption
    <3>4. Contents \in Filter /\ Contents.m = b.m /\ Contents.k = b.k
      BY <2>3, <3>2, <3>3, UnmarshalV1Type DEF FilterOrNil
    <3> QED BY <3>3, <3>4 DEF Representable, Init
  <2> QED BY <2>1, <2>2, <2>3 DEF SoloInv
<1>2. TypeOK /\ SoloInv /\ [Next]_vars => SoloInv'
  <2> SUFFICES ASSUME TypeOK, SoloInv, [Next]_vars PROVE SoloInv'
    OBVIOUS
  <2>1. ASSUME NEW p \in Process, NEW items \in SUBSET Item, Read(p, items)
        PROVE  SoloInv'
    <3>1. Contents' = Contents /\ file' = file /\ solo' = solo
      BY <2>1 DEF Read, Base, Contents
    <3>2. Active' = Active \cup {p} /\ p \notin Active
      BY <2>1 DEF Read, Base, Active, TypeOK
    <3>3. adding'[p] = items /\ \A q \in Active : mem'[q] = mem[q] /\ adding'[q] = adding[q]
      BY <2>1, <3>2 DEF Read, Base, TypeOK, Active
    <3>4. Representable(mem'[p]) /\ \A x \in solo \cup items : TestItem(mem'[p], x)
      <4>1. CASE file = Absent
        <5>1. solo = {}
          BY <4>1 DEF SoloInv
        <5>2. DefaultM < Uint32 /\ DefaultK < Uint32
          BY SnapshotFileAssumption, Uint32Assumption
        <5>3. mem'[p] \in Filter /\ mem'[p].m = DefaultM /\ mem'[p].k = DefaultK
          BY <2>1, <4>1, ReadFilter
        <5>4. \A x \in items : TestItem(mem'[p], x)
          BY <2>1, ReadFilter
        <5> QED BY <5>1, <5>2, <5>3, <5>4 DEF Representable
      <4>2. CASE file # Absent
        <5>1. Representable(Contents) /\ \A x \in solo : TestItem(Contents, x)
          BY <2>1, <4>2 DEF Read, Base, SoloInv
        <5>2. solo \subseteq Item
          BY DEF TypeOK
        <5> QED BY <2>1, <4>2, <5>1, <5>2, ReadFilter DEF Representable
      <4> QED BY <4>1, <4>2
    <3>5. \A q \in Active' : q \notin shared' => Active' = {q}
      BY <2>1, <3>2 DEF Read, Base
    <3>6. \A q \in Active' : Representable(mem'[q])
                             /\ \A x \in solo' \cup adding'[q] : TestItem(mem'[q], x)
      BY <3>1, <3>2, <3>3, <3>4 DEF SoloInv
    <3>7. /\ Contents' # NilFilter =>
               Representable(Contents') /\ \A x \in solo' : TestItem(Contents', x)
          /\ file' = Absent => solo' = {}
      BY <3>1 DEF SoloInv
    <3> QED BY <3>5, <3>6, <3>7 DEF SoloInv, Representable, TestItem, Absent, Positions
  <2>2. ASSUME NEW p \in Process, Truncate(p) PROVE SoloInv'
    <3>1. Contents' = NilFilter /\ file' # Absent
      BY <2>2 DEF Truncate, Contents, Damaged, Absent
    <3>2. Active' = Active
      BY <2>2 DEF Truncate, Active, TypeOK
    <3>3. UNCHANGED <<mem, adding, solo, shared>>
      BY <2>2 DEF Truncate
    <3> QED BY <3>1, <3>2, <3>3 DEF SoloInv, Representable, TestItem, Absent, Positions
  <2>3. ASSUME NEW p \in Process, Ends(p), solo' \subseteq solo, UNCHANGED shared
        PROVE  \A q \in Active' :
                 /\ Representable(mem'[q])
                 /\ \A x \in solo' \cup adding'[q] : TestItem(mem'[q], x)
                 /\ q \notin shared' => Active' = {q}
    BY <2>3, EndsKeepsOthers DEF SoloInv
  <2>4. ASSUME NEW p \in Process, Write(p) PROVE SoloInv'
    <3>1. p \in Active /\ Ends(p) /\ UNCHANGED shared
      BY <2>4 DEF Write, Active
    <3>2. Contents' = mem[p] /\ file' # Absent
      BY <2>4, <3>1, WriteContents DEF SoloInv
    <3>3. Representable(mem[p]) /\ \A x \in solo \cup adding[p] : TestItem(mem[p], x)
      BY <3>1 DEF SoloInv
    <3>4. solo' \subseteq solo \cup adding[p]
      BY <2>4 DEF Write
    <3>5. CASE p \in shared
      <4>1. solo' = solo
        BY <2>4, <3>5 DEF Write
      <4> QED BY <2>3, <3>1, <3>2, <3>3, <4>1
              DEF SoloInv, Representable, TestItem, Absent, Positions
    <3>6. CASE p \notin shared
      <4>1. Active' = {}
        BY <3>1, <3>6, EndsKeepsOthers DEF SoloInv
      <4> QED BY <3>2, <3>3, <3>4, <4>1
              DEF SoloInv, Representable, TestItem, Absent, Positions
    <3> QED BY <3>5, <3>6
  <2>5. ASSUME NEW p \in Process, Fails(p) PROVE SoloInv'
    <3>1. Ends(p) /\ UNCHANGED <<solo, shared>>
      BY <2>5 DEF Fails
    <3>2. /\ Contents' = Contents \/ Contents' = NilFilter
          /\ file' = Absent => file = Absent
      BY <2>5, FailsContents
    <3> QED BY <2>3, <3>1, <3>2
            DEF SoloInv, Representable, TestItem, Absent, Positions
  <2>6. CASE UNCHANGED vars
    BY <2>6 DEF vars, SoloInv, Contents, Active
  <2> QED BY <2>1, <2>2, <2>4, <2>5, <2>6 DEF Next
<1> QED BY <1>1, <1>2, SnapshotTypeCorrect, PTL DEF Spec

\* main.go, runAdd: whatever overlaps and dies later, an item that was added
\* alone, or was there before, is found as long as the file can be read.
THEOREM SoloItemsSurvive == Spec => []SoloSurvive
<1>1. SoloInv => SoloSurvive
  BY DEF SoloInv, SoloSurvive
<1> QED BY <1>1, SoloInvariant, PTL

-----------------------------------------------------------------------------
(* One m and one k *)

\* Every filter of the program has the m and k of the file, or of the defaults
\* as long as there is none.
THEOREM ShapeInvariant == Spec => []ShapeInv
<1>1. Init => ShapeInv
  BY DEF Init, ShapeInv, SameShape, Active
<1>2. TypeOK /\ SoloInv /\ ShapeInv /\ [Next]_vars => ShapeInv'
  <2> SUFFICES ASSUME TypeOK, SoloInv, ShapeInv, [Next]_vars PROVE ShapeInv'
    OBVIOUS
  <2> DEFINE Alike(f, g) == f.m = g.m /\ f.k = g.k
  <2>0. /\ \A p, q \in Active : Alike(mem[p], mem[q])
        /\ Contents # NilFilter => \A p \in Active : Alike(mem[p], Contents)
    BY DEF ShapeInv, SameShape
  <2>1. ASSUME \A p, q \in Active' : Alike(mem'[p], mem'[q]),
               Contents' # NilFilter => \A p \in Active' : Alike(mem'[p], Contents')
        PROVE  SameShape'
    BY <2>1 DEF SameShape
  <2>2. ASSUME NEW p \in Process, NEW items \in SUBSET Item, Read(p, items)
        PROVE  ShapeInv'
    <3>1. Contents' = Contents /\ file' = file
      BY <2>2 DEF Read, Base, Contents
    <3>2. Active' = Active \cup {p}
      BY <2>2 DEF Read, Base, Active, TypeOK
    <3>3. \A q \in Active : mem'[q] = mem[q]
      BY <2>2 DEF Read, Base, TypeOK, Active
    <3>4. file = Absent => /\ mem'[p].m = DefaultM /\ mem'[p].k = DefaultK
                           /\ Contents = NilFilter
      BY <2>2, ReadFilter, NoContents
    <3>5. file # Absent => Alike(mem'[p], Contents) /\ Contents # NilFilter
      BY <2>2, ReadFilter DEF Read, Base
    <3>6. \A q \in Active : Alike(mem'[p], mem'[q])
      BY <2>0, <3>3, <3>4, <3>5 DEF ShapeInv
    <3>7. \A q, r \in Active' : Alike(mem'[q], mem'[r])
      BY <2>0, <3>2, <3>3, <3>6
    <3>8. Contents' # NilFilter => \A q \in Active' : Alike(mem'[q], Contents')
      BY <2>0, <3>1, <3>2, <3>3, <3>4, <3>5
    <3>9. file' = Absent => \A q \in Active' : mem'[q].m = DefaultM /\ mem'[q].k = DefaultK
      BY <3>1, <3>2, <3>3, <3>4 DEF ShapeInv
    <3> QED BY <2>1, <3>7, <3>8, <3>9 DEF ShapeInv, Absent
  <2>3. ASSUME NEW p \in Process, Truncate(p) PROVE ShapeInv'
    <3>1. Contents' = NilFilter /\ file' # Absent
      BY <2>3 DEF Truncate, Contents, Damaged, Absent
    <3>2. Active' = Active /\ mem' = mem
      BY <2>3 DEF Truncate, Active, TypeOK
    <3> QED BY <2>0, <2>1, <3>1, <3>2 DEF ShapeInv, Absent
  <2>4. ASSUME NEW p \in Process, Write(p) PROVE ShapeInv'
    <3>1. p \in Active /\ Ends(p)
      BY <2>4 DEF Write, Active
    <3>2. Contents' = mem[p] /\ file' # Absent
      BY <2>4, <3>1, WriteContents DEF SoloInv
    <3>3. Active' \subseteq Active /\ \A q \in Active' : mem'[q] = mem[q]
      BY <3>1, EndsKeepsOthers
    <3> QED BY <2>0, <2>1, <3>1, <3>2, <3>3 DEF ShapeInv, Absent
  <2>5. ASSUME NEW p \in Process, Fails(p) PROVE ShapeInv'
    <3>1. Active' \subseteq Active /\ \A q \in Active' : mem'[q] = mem[q]
      BY <2>5, EndsKeepsOthers DEF Fails
    <3>2. /\ Contents' = Contents \/ Contents' = NilFilter
          /\ file' = Absent => file = Absent
      BY <2>5, FailsContents
    <3> QED BY <2>0, <2>1, <3>1, <3>2 DEF ShapeInv, Absent
  <2>6. CASE UNCHANGED vars
    BY <2>6 DEF vars, ShapeInv, SameShape, Contents, Active, Absent
  <2> QED BY <2>2, <2>3, <2>4, <2>5, <2>6 DEF Next
<1> QED BY <1>1, <1>2, SnapshotTypeCorrect, SoloInvariant, PTL DEF Spec

\* main.go, runAdd: processes that overlap write blobs of one length.
THEOREM OneShape == Spec => []SameShape
<1>1. ShapeInv => SameShape
  BY DEF ShapeInv
<1> QED BY <1>1, ShapeInvariant, PTL

=============================================================================
