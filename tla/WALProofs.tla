----------------------------- MODULE WALProofs -----------------------------
(***************************************************************************)
(* What holds of the log after any flushes, failures, kills and power      *)
(* failures, for buffers of every size and files of every length; and that *)
(* it is the log DurableLog describes.                                     *)
(***************************************************************************)
EXTENDS WAL, FiniteSetTheorems, TLAPS

Part == Entry \cup {Torn}

Whole(f) == Readable(f) = 1 .. Len(f)

\* f2 is f behind which n entries of b were written, and perhaps a part of one.
Wrote(f, f2, b, n) ==
  /\ Len(f2) \in {Len(f) + n, Len(f) + n + 1}
  /\ \A i \in 1 .. Len(f) : f2[i] = f[i]
  /\ \A i \in 1 .. n : f2[Len(f) + i] = b[i]
  /\ Len(f2) = Len(f) + n + 1 => f2[Len(f2)] = Torn

\* f2 is what a power failure leaves of f when n records remain.
CutOff(f, f2, n) ==
  /\ Len(f2) \in {n, n + 1}
  /\ \A i \in 1 .. n : f2[i] = f[i]
  /\ Len(f2) = n + 1 => f2[Len(f2)] = Torn

-----------------------------------------------------------------------------
(* The inductive invariant *)

Unique(f) == \A e, d \in Entries(f) : e.seq = d.seq => e = d

Gapless(f) ==
  \A i \in Readable(f) :
    f[i].seq > 1 => \E j \in 1 .. i - 1 : f[j].seq = f[i].seq - 1

\* What is promised is readable, and in the part that was synced.
Kept(f, n, P) == \A e \in P : \E i \in Readable(f) : i <= n /\ f[i] = e

\* The buffer b of a process that is at number s, and what it means for its
\* next flush: no entry of the log has a number of the buffer but the entry
\* itself, and what is in front of the buffer is in the log, unless the log is
\* torn and nothing written from now on is read.
Continues(f, b, s) ==
  /\ Len(b) <= s
  /\ \A i \in 1 .. Len(b) : b[i].seq = s - Len(b) + i
  /\ \A e \in Entries(f), i \in 1 .. Len(b) : e.seq = b[i].seq => e = b[i]
  /\ \A e \in Entries(f) : e.seq <= s
  /\ Whole(f) => s = Len(b) \/ \E e \in Entries(f) : e.seq = s - Len(b)

FileOK ==
  /\ file \in Seq(Part)
  /\ synced \in 0 .. Len(file)
  /\ promised \subseteq Entry
  /\ Unique(file)
  /\ Gapless(file)
  /\ Kept(file, synced, promised)

MemoryOK ==
  handle # "none" =>
    /\ Continues(file, buf, seq)
    /\ flushed # 0 => flushed = seq - Len(buf)

IInv == TypeOK /\ FileOK /\ MemoryOK

-----------------------------------------------------------------------------
(* Writing and cutting *)

LEMMA TornIsNoEntry == Torn \notin Entry
BY DEF Torn, Entry

LEMMA WholeHasNoTorn ==
  ASSUME NEW f \in Seq(Part)
  PROVE  Whole(f) <=> \A j \in 1 .. Len(f) : f[j] # Torn
<1>1. Len(f) \in Nat
  OBVIOUS
<1>2. ASSUME Whole(f), NEW j \in 1 .. Len(f) PROVE f[j] # Torn
  <2>1. j \in Readable(f)
    BY <1>2 DEF Whole
  <2> QED BY <1>1, <2>1 DEF Readable
<1>3. ASSUME \A j \in 1 .. Len(f) : f[j] # Torn PROVE Whole(f)
  BY <1>1, <1>3 DEF Whole, Readable
<1> QED BY <1>2, <1>3

\* What was readable stays so; what else becomes readable is of the buffer, and
\* only in a file that was whole.
LEMMA WroteReadable ==
  ASSUME NEW f \in Seq(Part), NEW f2 \in Seq(Part), NEW b \in Seq(Entry),
         NEW n \in 0 .. Len(b), Wrote(f, f2, b, n)
  PROVE  /\ \A i \in Readable(f) : i \in Readable(f2) /\ f2[i] = f[i]
         /\ \A i \in Readable(f2) :
              \/ i \in Readable(f) /\ f2[i] = f[i]
              \/ /\ Whole(f)
                 /\ i - Len(f) \in 1 .. n
                 /\ f2[i] = b[i - Len(f)]
         /\ Whole(f) => \A i \in 1 .. n : Len(f) + i \in Readable(f2)
         /\ Whole(f2) => Whole(f)
<1>1. Len(f) \in Nat /\ Len(f2) \in Nat /\ Len(b) \in Nat /\ n \in Nat
  OBVIOUS
<1>2. ASSUME NEW i \in Readable(f) PROVE i \in Readable(f2) /\ f2[i] = f[i]
  <2>1. i \in 1 .. Len(f) /\ \A j \in 1 .. i : f[j] # Torn
    BY DEF Readable
  <2>2. Len(f) <= Len(f2) /\ \A j \in 1 .. Len(f) : f2[j] = f[j]
    BY <1>1 DEF Wrote
  <2>3. i \in 1 .. Len(f2) /\ \A j \in 1 .. i : j \in 1 .. Len(f)
    BY <1>1, <2>1, <2>2
  <2>4. \A j \in 1 .. i : f2[j] # Torn
    BY <2>1, <2>2, <2>3
  <2> QED BY <2>1, <2>2, <2>3, <2>4 DEF Readable
<1>3. ASSUME NEW i \in Readable(f2)
      PROVE  \/ i \in Readable(f) /\ f2[i] = f[i]
             \/ Whole(f) /\ i - Len(f) \in 1 .. n /\ f2[i] = b[i - Len(f)]
  <2>1. i \in 1 .. Len(f2) /\ \A j \in 1 .. i : f2[j] # Torn
    BY DEF Readable
  <2>2. CASE i <= Len(f)
    BY <1>1, <2>1, <2>2 DEF Readable, Wrote
  <2>3. CASE i > Len(f)
    <3>1. i # Len(f) + n + 1
      BY <1>1, <2>1 DEF Wrote
    <3>2. i - Len(f) \in 1 .. n
      BY <1>1, <2>1, <2>3, <3>1 DEF Wrote
    <3>3. Len(f) + (i - Len(f)) = i
      BY <1>1, <2>1
    <3>4. f2[i] = b[i - Len(f)]
      BY <3>2, <3>3 DEF Wrote
    <3>5. \A j \in 1 .. Len(f) : f[j] # Torn
      BY <1>1, <2>1, <2>3 DEF Wrote
    <3>6. Whole(f)
      BY <3>5, WholeHasNoTorn
    <3> QED BY <3>2, <3>4, <3>6
  <2> QED BY <1>1, <2>1, <2>2, <2>3
<1>4. ASSUME Whole(f), NEW i \in 1 .. n PROVE Len(f) + i \in Readable(f2)
  <2>1. Len(f) + i \in 1 .. Len(f2)
    BY <1>1 DEF Wrote
  <2>2. ASSUME NEW j \in 1 .. Len(f) + i PROVE f2[j] # Torn
    <3>1. CASE j <= Len(f)
      <4>1. j \in 1 .. Len(f)
        BY <1>1, <3>1
      <4>2. f[j] # Torn
        BY <1>4, <4>1, WholeHasNoTorn
      <4> QED BY <4>1, <4>2 DEF Wrote
    <3>2. CASE j > Len(f)
      <4>1. j - Len(f) \in 1 .. n /\ Len(f) + (j - Len(f)) = j
        BY <1>1, <3>2
      <4>2. f2[j] = b[j - Len(f)]
        BY <4>1 DEF Wrote
      <4>3. b[j - Len(f)] \in Entry
        BY <1>1, <4>1
      <4> QED BY <4>2, <4>3, TornIsNoEntry
    <3> QED BY <1>1, <3>1, <3>2
  <2> QED BY <2>1, <2>2 DEF Readable
<1>5. ASSUME Whole(f2) PROVE Whole(f)
  <2>1. \A j \in 1 .. Len(f) : j \in 1 .. Len(f2) /\ f2[j] = f[j]
    BY <1>1 DEF Wrote
  <2> QED BY <1>5, <2>1, WholeHasNoTorn
<1> QED BY <1>2, <1>3, <1>4, <1>5

LEMMA CutOffReadable ==
  ASSUME NEW f \in Seq(Part), NEW f2 \in Seq(Part), NEW n \in 0 .. Len(f),
         CutOff(f, f2, n)
  PROVE  /\ \A i \in Readable(f2) : i \in Readable(f) /\ f2[i] = f[i]
         /\ \A i \in Readable(f) : i <= n => i \in Readable(f2) /\ f2[i] = f[i]
<1>1. Len(f) \in Nat /\ Len(f2) \in Nat /\ n \in Nat
  OBVIOUS
<1>2. ASSUME NEW i \in Readable(f2) PROVE i \in Readable(f) /\ f2[i] = f[i]
  <2>1. i \in 1 .. Len(f2) /\ \A j \in 1 .. i : f2[j] # Torn
    BY DEF Readable
  <2>2. i <= n
    BY <1>1, <2>1 DEF CutOff
  <2> QED BY <1>1, <2>1, <2>2 DEF Readable, CutOff
<1>3. ASSUME NEW i \in Readable(f), i <= n PROVE i \in Readable(f2) /\ f2[i] = f[i]
  <2>1. i \in 1 .. Len(f) /\ \A j \in 1 .. i : f[j] # Torn
    BY DEF Readable
  <2>2. n <= Len(f2) /\ \A j \in 1 .. n : f2[j] = f[j]
    BY <1>1 DEF CutOff
  <2>3. i \in 1 .. Len(f2) /\ \A j \in 1 .. i : j \in 1 .. n
    BY <1>1, <1>3, <2>1, <2>2
  <2>4. i \in 1 .. n /\ \A j \in 1 .. i : f2[j] # Torn
    BY <1>1, <1>3, <2>1, <2>2, <2>3
  <2> QED BY <2>2, <2>3, <2>4 DEF Readable
<1> QED BY <1>2, <1>3

-----------------------------------------------------------------------------
(* What a flush does to the invariant *)

LEMMA AppendedContinues ==
  ASSUME NEW f \in Seq(Part), NEW b \in Seq(Entry), NEW s \in Nat,
         NEW payload \in Payload, Continues(f, b, s)
  PROVE  LET b2 == Append(b, [seq |-> s + 1, payload |-> payload])
         IN b2 \in Seq(Entry) /\ Continues(f, b2, s + 1)
<1> DEFINE e2 == [seq |-> s + 1, payload |-> payload]
           b2 == Append(b, e2)
<1>1. e2 \in Entry /\ e2.seq = s + 1
  BY DEF Entry
<1>2. /\ b2 \in Seq(Entry)
      /\ Len(b) \in Nat
      /\ Len(b2) = Len(b) + 1
      /\ \A i \in 1 .. Len(b) : b2[i] = b[i]
      /\ b2[Len(b) + 1] = e2
  BY <1>1
<1> HIDE DEF b2, e2
<1>3. \A e \in Entries(f) : e.seq \in Nat
  BY DEF Entries, Readable, Part, Entry, Torn
<1>4. Len(b2) <= s + 1
  BY <1>2 DEF Continues
<1>5. ASSUME NEW i \in 1 .. Len(b2) PROVE b2[i].seq = s + 1 - Len(b2) + i
  <2>1. CASE i = Len(b) + 1
    BY <1>1, <1>2, <2>1
  <2>2. CASE i \in 1 .. Len(b)
    <3>1. b2[i] = b[i] /\ b[i].seq = s - Len(b) + i
      BY <1>2, <2>2 DEF Continues
    <3> QED BY <1>2, <2>2, <3>1
  <2> QED BY <1>2, <2>1, <2>2
<1>6. \A e \in Entries(f) : e.seq <= s + 1
  BY <1>3 DEF Continues
<1>7. ASSUME NEW e \in Entries(f), NEW i \in 1 .. Len(b2), e.seq = b2[i].seq
      PROVE  e = b2[i]
  <2>1. e.seq <= s
    BY DEF Continues
  <2>2. i # Len(b) + 1
    BY <1>1, <1>2, <1>3, <1>7, <2>1
  <2>3. i \in 1 .. Len(b)
    BY <1>2, <2>2
  <2> QED BY <1>2, <1>7, <2>3 DEF Continues
<1>8. Whole(f) => s + 1 = Len(b2) \/ \E e \in Entries(f) : e.seq = s + 1 - Len(b2)
  BY <1>2 DEF Continues
<1>9. Continues(f, b2, s + 1)
  BY <1>4, <1>5, <1>6, <1>7, <1>8 DEF Continues
<1> QED BY <1>2, <1>9 DEF b2, e2

\* n entries of the buffer reach the file, and perhaps a part of the next.
LEMMA WrotePreserves ==
  ASSUME NEW f \in Seq(Part), NEW f2 \in Seq(Part), NEW b \in Seq(Entry),
         NEW n \in 0 .. Len(b), NEW s \in Nat,
         Wrote(f, f2, b, n), Continues(f, b, s), Unique(f), Gapless(f)
  PROVE  /\ Unique(f2)
         /\ Gapless(f2)
         /\ Continues(f2, b, s)
         /\ n = Len(b) => Continues(f2, <<>>, s)
<1>1. Len(f) \in Nat /\ Len(f2) \in Nat /\ Len(b) \in Nat /\ n \in Nat
  OBVIOUS
<1>2. /\ \A i \in Readable(f) : i \in Readable(f2) /\ f2[i] = f[i]
      /\ \A i \in Readable(f2) :
           \/ i \in Readable(f) /\ f2[i] = f[i]
           \/ /\ Whole(f)
              /\ i - Len(f) \in 1 .. n
              /\ f2[i] = b[i - Len(f)]
      /\ Whole(f) => \A i \in 1 .. n : Len(f) + i \in Readable(f2)
      /\ Whole(f2) => Whole(f)
  BY WroteReadable
<1>3. \A i \in 1 .. Len(b) : b[i].seq = s - Len(b) + i
  BY DEF Continues
<1>4. \A e \in Entries(f) : e \in Entries(f2)
  BY <1>2 DEF Entries
<1>5. \A e \in Entries(f2) : e \in Entries(f) \/ \E k \in 1 .. n : e = b[k]
  BY <1>2 DEF Entries
<1>6. \A k \in 1 .. n : k \in 1 .. Len(b)
  BY <1>1
<1>7. ASSUME NEW e \in Entries(f2), NEW i \in 1 .. Len(b), e.seq = b[i].seq
      PROVE  e = b[i]
  <2>1. CASE e \in Entries(f)
    BY <1>7, <2>1 DEF Continues
  <2>2. CASE \E k \in 1 .. n : e = b[k]
    <3>1. PICK k \in 1 .. n : e = b[k]
      BY <2>2
    <3>2. s - Len(b) + k = s - Len(b) + i
      BY <1>3, <1>6, <1>7, <3>1
    <3>3. k = i
      BY <1>1, <3>2
    <3> QED BY <3>1, <3>3
  <2> QED BY <1>5, <2>1, <2>2
<1>8. Unique(f2)
  <2>1. SUFFICES ASSUME NEW e \in Entries(f2), NEW d \in Entries(f2), e.seq = d.seq
                 PROVE  e = d
    BY DEF Unique
  <2>2. CASE \E k \in 1 .. n : e = b[k]
    BY <1>6, <1>7, <2>1, <2>2
  <2>3. CASE \E k \in 1 .. n : d = b[k]
    BY <1>6, <1>7, <2>1, <2>3
  <2>4. CASE e \in Entries(f) /\ d \in Entries(f)
    BY <2>1, <2>4 DEF Unique
  <2> QED BY <1>5, <2>2, <2>3, <2>4
<1>9. Gapless(f2)
  <2>1. SUFFICES ASSUME NEW i \in Readable(f2), f2[i].seq > 1
                 PROVE  \E j \in 1 .. i - 1 : f2[j].seq = f2[i].seq - 1
    BY DEF Gapless
  <2>2. i \in 1 .. Len(f2)
    BY DEF Readable
  <2>3. CASE i \in Readable(f) /\ f2[i] = f[i]
    <3>1. PICK j \in 1 .. i - 1 : f[j].seq = f[i].seq - 1
      BY <2>1, <2>3 DEF Gapless
    <3>2. i \in 1 .. Len(f)
      BY <2>3 DEF Readable
    <3>3. j \in 1 .. Len(f)
      BY <1>1, <3>2
    <3>4. f2[j] = f[j]
      BY <3>3 DEF Wrote
    <3> QED BY <2>3, <3>1, <3>4
  <2>4. CASE Whole(f) /\ i - Len(f) \in 1 .. n /\ f2[i] = b[i - Len(f)]
    <3> DEFINE k == i - Len(f)
    <3>1. k \in 1 .. n /\ f2[i].seq = s - Len(b) + k
      BY <1>3, <1>6, <2>4
    <3>2. CASE k = 1
      <4>1. s # Len(b)
        BY <1>1, <2>1, <3>1, <3>2
      <4>2. PICK e \in Entries(f) : e.seq = s - Len(b)
        BY <2>4, <4>1 DEF Continues
      <4>3. PICK j \in Readable(f) : e = f[j]
        BY DEF Entries
      <4>4. j \in 1 .. Len(f)
        BY DEF Readable
      <4>5. f2[j] = f[j]
        BY <4>4 DEF Wrote
      <4>6. j \in 1 .. i - 1
        BY <1>1, <2>2, <3>1, <4>4
      <4>7. s - Len(b) = f2[i].seq - 1
        BY <1>1, <3>1, <3>2
      <4> QED BY <4>2, <4>3, <4>5, <4>6, <4>7
    <3>3. CASE k # 1
      <4>1. k - 1 \in 1 .. n /\ i - 1 = Len(f) + (k - 1) /\ i - 1 \in 1 .. i - 1
        BY <1>1, <2>2, <3>1, <3>3
      <4>2. f2[Len(f) + (k - 1)] = b[k - 1]
        BY <4>1 DEF Wrote
      <4>3. b[k - 1].seq = s - Len(b) + (k - 1)
        BY <1>3, <1>6, <4>1
      <4>4. s - Len(b) + (k - 1) = f2[i].seq - 1
        BY <1>1, <3>1
      <4> HIDE DEF k
      <4> QED BY <4>1, <4>2, <4>3, <4>4
    <3> QED BY <3>2, <3>3
  <2> QED BY <1>2, <2>3, <2>4
<1>10. \A e \in Entries(f2) : e.seq <= s
  <2>1. \A k \in 1 .. n : b[k].seq <= s
    BY <1>1, <1>3, <1>6
  <2> QED BY <1>5, <2>1 DEF Continues
<1>11. Continues(f2, b, s)
  BY <1>2, <1>4, <1>7, <1>10 DEF Continues
<1>12. ASSUME n = Len(b) PROVE Continues(f2, <<>>, s)
  <2>1. ASSUME Whole(f2) PROVE s = 0 \/ \E e \in Entries(f2) : e.seq = s - 0
    <3>1. CASE n = 0
      BY <1>1, <1>11, <1>12, <2>1, <3>1 DEF Continues
    <3>2. CASE n # 0
      <4>1. n \in 1 .. n /\ n \in 1 .. Len(b)
        BY <1>1, <3>2
      <4>2. Len(f) + n \in Readable(f2) /\ f2[Len(f) + n] = b[n]
        BY <1>2, <2>1, <4>1 DEF Wrote
      <4>3. b[n].seq = s - 0
        BY <1>1, <1>3, <1>12, <4>1
      <4> QED BY <4>2, <4>3 DEF Entries
    <3> QED BY <3>1, <3>2
  <2>2. Len(<<>>) = 0
    OBVIOUS
  <2> QED BY <1>10, <2>1, <2>2 DEF Continues
<1> QED BY <1>8, <1>9, <1>11, <1>12

LEMMA KeptGrows ==
  ASSUME NEW f \in Seq(Part), NEW f2 \in Seq(Part), NEW b \in Seq(Entry),
         NEW n \in 0 .. Len(b), NEW P, NEW m \in 0 .. Len(f),
         Wrote(f, f2, b, n), Kept(f, m, P)
  PROVE  /\ Kept(f2, m, P)
         /\ n = Len(b) /\ Len(f2) = Len(f) + n =>
              Kept(f2, Len(f2), P \cup
                     IF Whole(f) THEN {b[i] : i \in 1 .. Len(b)} ELSE {})
<1>1. Len(f) \in Nat /\ Len(f2) \in Nat /\ Len(b) \in Nat /\ n \in Nat
  OBVIOUS
<1>2. /\ \A i \in Readable(f) : i \in Readable(f2) /\ f2[i] = f[i]
      /\ Whole(f) => \A i \in 1 .. n : Len(f) + i \in Readable(f2)
  BY WroteReadable
<1>3. Kept(f2, m, P)
  BY <1>2 DEF Kept
<1>4. ASSUME n = Len(b), Len(f2) = Len(f) + n
      PROVE  Kept(f2, Len(f2), P \cup
                    IF Whole(f) THEN {b[i] : i \in 1 .. Len(b)} ELSE {})
  <2>1. ASSUME NEW e \in P PROVE \E i \in Readable(f2) : i <= Len(f2) /\ f2[i] = e
    BY <1>1, <1>3 DEF Kept, Readable
  <2>2. ASSUME Whole(f), NEW k \in 1 .. Len(b)
        PROVE  \E i \in Readable(f2) : i <= Len(f2) /\ f2[i] = b[k]
    <3>1. Len(f) + k \in Readable(f2) /\ f2[Len(f) + k] = b[k]
      BY <1>2, <1>4, <2>2 DEF Wrote
    <3>2. Len(f) + k <= Len(f2)
      BY <1>1, <1>4
    <3> QED BY <3>1, <3>2
  <2> QED BY <2>1, <2>2 DEF Kept
<1> QED BY <1>3, <1>4

-----------------------------------------------------------------------------
(* The steps *)

LEMMA WholeWrite ==
  ASSUME NEW f \in Seq(Part), NEW b \in Seq(Entry), NEW n \in 0 .. Len(b)
  PROVE  LET f2 == f \o SubSeq(b, 1, n)
         IN f2 \in Seq(Part) /\ Len(f2) = Len(f) + n /\ Wrote(f, f2, b, n)
<1> DEFINE c == SubSeq(b, 1, n)
           f2 == f \o c
<1>1. /\ c \in Seq(Part)
      /\ Len(c) = n
      /\ \A i \in 1 .. n : c[i] = b[i]
  BY DEF Part
<1> HIDE DEF c
<1>2. f2 \in Seq(Part) /\ Len(f2) = Len(f) + n
  BY <1>1
<1>3. \A i \in 1 .. Len(f) : f2[i] = f[i]
  BY <1>1
<1>4. \A i \in 1 .. n : f2[Len(f) + i] = c[i]
  BY <1>1
<1>5. Wrote(f, f2, b, n)
  BY <1>1, <1>2, <1>3, <1>4 DEF Wrote
<1> QED BY <1>2, <1>5 DEF c

LEMMA TornWrite ==
  ASSUME NEW f \in Seq(Part), NEW b \in Seq(Entry), NEW n \in 0 .. Len(b)
  PROVE  LET f2 == Append(f \o SubSeq(b, 1, n), Torn)
         IN f2 \in Seq(Part) /\ Len(f2) = Len(f) + n + 1 /\ Wrote(f, f2, b, n)
<1> DEFINE c == f \o SubSeq(b, 1, n)
           f2 == Append(c, Torn)
<1>1. c \in Seq(Part) /\ Len(c) = Len(f) + n /\ Wrote(f, c, b, n)
  BY WholeWrite
<1> HIDE DEF c
<1>2. Len(f) \in Nat /\ n \in Nat
  OBVIOUS
<1>3. /\ f2 \in Seq(Part)
      /\ Len(f2) = Len(f) + n + 1
      /\ \A i \in 1 .. Len(c) : f2[i] = c[i]
      /\ f2[Len(f2)] = Torn
  BY <1>1, <1>2 DEF Part
<1>4. Wrote(f, f2, b, n)
  BY <1>1, <1>2, <1>3 DEF Wrote
<1> QED BY <1>3, <1>4 DEF c

LEMMA FlushPreserves ==
  ASSUME FileOK, NEW b \in Seq(Entry), NEW s \in Nat, Continues(file, b, s),
         flushLocked(b, s)
  PROVE  /\ FileOK'
         /\ failed' \in BOOLEAN
         /\ buf' \in Seq(Entry)
         /\ Continues(file', buf', s)
         /\ \/ flushed' = s /\ buf' = <<>>
            \/ flushed' = flushed /\ buf' = b
<1>1. /\ Len(file) \in Nat
      /\ Len(b) \in Nat
      /\ Len(b) \in 0 .. Len(b)
      /\ SubSeq(b, 1, Len(b)) = b
      /\ file \in Seq(Part)
      /\ synced \in 0 .. Len(file)
  BY DEF FileOK
<1>2. CASE FlushSucceeds(b, s)
  <2>1. /\ file' = file \o b
        /\ synced' = Len(file')
        /\ flushed' = s
        /\ buf' = <<>>
        /\ promised' = promised \cup
             IF Whole(file) THEN {b[i] : i \in 1 .. Len(b)} ELSE {}
        /\ failed' = FALSE
    BY <1>2 DEF FlushSucceeds, Synced, Emptied, Promises, Whole
  <2>2. /\ file' \in Seq(Part)
        /\ Len(file') = Len(file) + Len(b)
        /\ Wrote(file, file', b, Len(b))
    <3>1. LET f2 == file \o SubSeq(b, 1, Len(b))
          IN f2 \in Seq(Part) /\ Len(f2) = Len(file) + Len(b) /\ Wrote(file, f2, b, Len(b))
      BY <1>1, WholeWrite
    <3>2. file \o SubSeq(b, 1, Len(b)) = file'
      BY <1>1, <2>1
    <3> QED BY <3>1, <3>2
  <2>3. Unique(file') /\ Gapless(file') /\ Continues(file', <<>>, s)
    BY <1>1, <2>2, WrotePreserves DEF FileOK
  <2>4. Kept(file', synced', promised')
    BY <1>1, <2>1, <2>2, KeptGrows DEF FileOK
  <2>5. promised' \subseteq Entry
    <3>1. \A i \in 1 .. Len(b) : b[i] \in Entry
      OBVIOUS
    <3> QED BY <2>1, <3>1 DEF FileOK
  <2>6. synced' \in 0 .. Len(file')
    BY <2>1, <2>2
  <2>7. FileOK'
    BY <2>2, <2>3, <2>4, <2>5, <2>6 DEF FileOK, Unique, Gapless, Kept, Entries,
       Readable
  <2>8. buf' \in Seq(Entry)
    BY <2>1
  <2>10. failed' \in BOOLEAN
    BY <2>1
  <2>9. Continues(file', buf', s)
    BY <2>1, <2>3, Zenon
  <2> QED BY <2>1, <2>7, <2>8, <2>9, <2>10
<1>3. CASE FlushFails(b)
  <2>1. /\ buf' = b
        /\ failed' = TRUE
        /\ UNCHANGED <<synced, flushed, promised>>
    BY <1>3 DEF FlushFails, Retried
  <2>2. PICK n \in 0 .. Len(b) :
          \/ file' = file \o SubSeq(b, 1, n)
          \/ file' = Append(file \o SubSeq(b, 1, n), Torn)
    BY <1>3 DEF FlushFails
  <2>3. /\ file' \in Seq(Part)
        /\ Len(file') \in {Len(file) + n, Len(file) + n + 1}
        /\ Wrote(file, file', b, n)
    <3> DEFINE g == file \o SubSeq(b, 1, n)
               h == Append(file \o SubSeq(b, 1, n), Torn)
    <3>1. file \in Seq(Part) /\ Len(file) \in Nat
      BY <1>1 DEF FileOK
    <3>2. g \in Seq(Part) /\ Len(g) = Len(file) + n /\ Wrote(file, g, b, n)
      BY <3>1, WholeWrite
    <3>3. h \in Seq(Part) /\ Len(h) = Len(file) + n + 1 /\ Wrote(file, h, b, n)
      BY <3>1, TornWrite
    <3>4. file' = g \/ file' = h
      BY <2>2
    <3> HIDE DEF g, h
    <3>5. CASE file' = g
      BY <3>2, <3>5
    <3>6. CASE file' = h
      BY <3>3, <3>6
    <3> QED BY <3>4, <3>5, <3>6
  <2>4. Unique(file') /\ Gapless(file') /\ Continues(file', b, s)
    BY <1>1, <2>3, WrotePreserves DEF FileOK
  <2>5. Kept(file', synced', promised')
    BY <1>1, <2>1, <2>3, KeptGrows DEF FileOK
  <2>6. synced' \in 0 .. Len(file')
    BY <1>1, <2>1, <2>3
  <2>7. FileOK'
    BY <2>1, <2>3, <2>4, <2>5, <2>6 DEF FileOK, Unique, Gapless, Kept, Entries,
       Readable
  <2> QED BY <2>1, <2>4, <2>7
<1> QED BY <1>2, <1>3 DEF flushLocked

LEMMA InitIInv == Init => IInv
<1> SUFFICES ASSUME Init PROVE IInv
  OBVIOUS
<1>1. /\ file = <<>> /\ synced = 0 /\ handle = "none" /\ seq = 0
      /\ buf = <<>> /\ capacity = 0 /\ flushed = 0 /\ promised = {}
      /\ failed = FALSE
  BY DEF Init
<1>2. Readable(file) = {}
  BY <1>1 DEF Readable
<1>3. FileOK
  BY <1>1, <1>2 DEF FileOK, Unique, Gapless, Kept, Entries
<1>4. failed \in BOOLEAN
  BY <1>1
<1>5. TypeOK
  BY <1>1, <1>4 DEF TypeOK
<1>6. MemoryOK
  BY <1>1 DEF MemoryOK
<1> QED BY <1>3, <1>5, <1>6 DEF IInv

\* A step that leaves the file alone.
LEMMA FileKept ==
  ASSUME FileOK, UNCHANGED <<file, synced, promised>>
  PROVE  FileOK'
BY DEF FileOK, Unique, Gapless, Kept, Entries, Readable

LEMMA OpenPreserves == IInv /\ OpenWAL => IInv'
<1> SUFFICES ASSUME IInv, OpenWAL PROVE IInv'
  OBVIOUS
<1>1. /\ handle' = "open" /\ buf' = <<>> /\ capacity' = BufferSize
      /\ flushed' = 0 /\ failed' = FALSE
      /\ UNCHANGED <<file, synced, promised>>
  BY DEF OpenWAL
<1>2. seq' \in Nat /\ LastSeq(file, seq')
  BY WALAssumption DEF OpenWAL
<1>3. FileOK'
  BY <1>1, FileKept DEF IInv
<1>4. failed' \in BOOLEAN
  BY <1>1
<1>5. TypeOK'
  BY <1>1, <1>2, <1>4, WALAssumption DEF IInv, TypeOK
<1>6. Len(<<>>) = 0
  OBVIOUS
<1>7. Continues(file, <<>>, seq')
  BY <1>2, <1>6 DEF Continues, LastSeq
<1>8. Continues(file', buf', seq')
  BY <1>1, <1>7, Zenon
<1>9. MemoryOK'
  BY <1>1, <1>8 DEF MemoryOK
<1> QED BY <1>3, <1>5, <1>9 DEF IInv

\* A flush by a call that holds the buffer b and has counted to s.
LEMMA FlushStep ==
  ASSUME IInv, NEW b \in Seq(Entry), NEW s \in Nat, Continues(file, b, s),
         flushed # 0 => flushed = s - Len(b),
         flushLocked(b, s), seq' = s,
         handle' \in {"open", "closing", "closed"}, capacity' \in Nat
  PROVE  IInv'
<1>1. /\ FileOK'
      /\ failed' \in BOOLEAN
      /\ buf' \in Seq(Entry)
      /\ Continues(file', buf', s)
      /\ \/ flushed' = s /\ buf' = <<>>
         \/ flushed' = flushed /\ buf' = b
  BY FlushPreserves DEF IInv
<1>2. flushed \in Nat /\ Len(b) \in Nat
  BY DEF IInv, TypeOK
<1>3. flushed' # 0 => flushed' = s - Len(buf')
  BY <1>1, <1>2
<1>4. Len(b) <= s
  BY DEF Continues
<1>5. flushed' \in 0 .. s
  BY <1>1, <1>2, <1>4
<1>6. TypeOK'
  BY <1>1, <1>5 DEF TypeOK, FileOK, Part
<1>7. MemoryOK'
  BY <1>1, <1>3 DEF MemoryOK
<1> QED BY <1>1, <1>6, <1>7 DEF IInv

LEMMA FlushesPreserve == IInv /\ (Flush \/ CloseFlush) => IInv'
<1> SUFFICES ASSUME IInv, Flush \/ CloseFlush PROVE IInv'
  OBVIOUS
<1>1. /\ flushLocked(buf, seq)
      /\ seq' = seq
      /\ capacity' = capacity
      /\ handle # "none"
      /\ handle' \in {handle, "open", "closing"}
  BY DEF Flush, CloseFlush
<1>2. /\ buf \in Seq(Entry)
      /\ seq \in Nat
      /\ capacity \in Nat
      /\ handle \in {"none", "open", "closing", "closed"}
  BY DEF IInv, TypeOK
<1>3. Continues(file, buf, seq) /\ (flushed # 0 => flushed = seq - Len(buf))
  BY <1>1 DEF IInv, MemoryOK
<1>4. handle' \in {"open", "closing", "closed"} /\ capacity' \in Nat
  BY <1>1, <1>2
<1> QED BY <1>1, <1>2, <1>3, <1>4, FlushStep

LEMMA AppendPreserves ==
  ASSUME IInv, NEW payload \in Payload, AppendEntry(payload)
  PROVE  IInv'
<1> DEFINE b == Append(buf, [seq |-> seq + 1, payload |-> payload])
<1>1. /\ handle # "none"
      /\ seq' = seq + 1
      /\ handle' = handle
      /\ capacity' = Grown(buf, capacity)
      /\ \/ flushLocked(b, seq + 1)
         \/ /\ buf' = b
            /\ failed' = FALSE
            /\ UNCHANGED <<file, synced, flushed, promised>>
  BY DEF AppendEntry
<1>2. /\ buf \in Seq(Entry)
      /\ seq \in Nat
      /\ capacity \in Nat
      /\ handle \in {"none", "open", "closing", "closed"}
      /\ flushed \in 0 .. seq
  BY DEF IInv, TypeOK
<1>3. Continues(file, buf, seq) /\ (flushed # 0 => flushed = seq - Len(buf))
  BY <1>1 DEF IInv, MemoryOK
<1>4. b \in Seq(Entry) /\ Continues(file, b, seq + 1)
  BY <1>2, <1>3, AppendedContinues DEF IInv, FileOK
<1>5. Len(b) = Len(buf) + 1 /\ Len(buf) \in Nat
  BY <1>2
<1> HIDE DEF b
<1>6. flushed # 0 => flushed = seq + 1 - Len(b)
  BY <1>2, <1>3, <1>5
<1>7. capacity' \in Nat
  BY <1>1, <1>2 DEF Grown
<1>8. handle' \in {"open", "closing", "closed"} /\ seq + 1 \in Nat
  BY <1>1, <1>2
<1>9. CASE flushLocked(b, seq + 1)
  <2> DEFINE s == seq + 1
  <2>1. s \in Nat /\ seq' = s
    BY <1>1, <1>8
  <2>2. flushed # 0 => flushed = s - Len(b)
    BY <1>2, <1>5, <1>6
  <2>3. Continues(file, b, s) /\ flushLocked(b, s)
    BY <1>4, <1>9
  <2> HIDE DEF s
  <2> QED BY <1>4, <1>7, <1>8, <2>1, <2>2, <2>3, FlushStep
<1>10. CASE /\ buf' = b
            /\ failed' = FALSE
            /\ UNCHANGED <<file, synced, flushed, promised>>
  <2>1. FileOK'
    BY <1>10, FileKept DEF IInv
  <2>2. failed' \in BOOLEAN
    BY <1>10
  <2>3. flushed' \in 0 .. seq'
    BY <1>1, <1>2, <1>10
  <2>4. TypeOK'
    BY <1>1, <1>4, <1>7, <1>8, <1>10, <2>1, <2>2, <2>3 DEF TypeOK, FileOK, Part
  <2>5. Continues(file', buf', seq')
    BY <1>1, <1>4, <1>10, Zenon
  <2>6. flushed' # 0 => flushed' = seq' - Len(buf')
    <3>1. flushed' = flushed /\ buf' = b /\ seq' = seq + 1
      BY <1>1, <1>10
    <3> QED BY <1>2, <1>5, <1>6, <3>1
  <2>7. MemoryOK'
    BY <2>5, <2>6 DEF MemoryOK
  <2> QED BY <2>1, <2>4, <2>7 DEF IInv
<1> QED BY <1>1, <1>9, <1>10

LEMMA ClosePreserves == IInv /\ CloseFile => IInv'
<1> SUFFICES ASSUME IInv, CloseFile PROVE IInv'
  OBVIOUS
<1>1. /\ handle = "closing" /\ handle' = "closed" /\ failed' = FALSE
      /\ UNCHANGED <<file, synced, seq, buf, capacity, flushed, promised>>
  BY DEF CloseFile
<1>2. FileOK'
  BY <1>1, FileKept DEF IInv
<1>3. failed' \in BOOLEAN
  BY <1>1
<1>4. TypeOK'
  BY <1>1, <1>3 DEF IInv, TypeOK
<1>5. MemoryOK'
  BY <1>1 DEF IInv, MemoryOK, Continues, Entries, Readable, Whole
<1> QED BY <1>2, <1>4, <1>5 DEF IInv

\* Of a process that is gone, only the file matters.
LEMMA GonePreserves ==
  ASSUME FileOK', Gone
  PROVE  IInv'
<1>1. /\ handle' = "none" /\ seq' = 0 /\ buf' = <<>> /\ capacity' = 0
      /\ flushed' = 0 /\ failed' = FALSE
  BY DEF Gone
<1>2. failed' \in BOOLEAN
  BY <1>1
<1>3. TypeOK'
  BY <1>1, <1>2 DEF TypeOK, FileOK, Part
<1>4. MemoryOK'
  BY <1>1 DEF MemoryOK
<1> QED BY <1>3, <1>4 DEF IInv

LEMMA KillPreserves == IInv /\ Kill => IInv'
<1> SUFFICES ASSUME IInv, Kill PROVE IInv'
  OBVIOUS
<1>1. Gone /\ UNCHANGED <<file, synced, promised>>
  BY DEF Kill
<1>2. FileOK'
  BY <1>1, FileKept DEF IInv
<1> QED BY <1>1, <1>2, GonePreserves

LEMMA Cut ==
  ASSUME NEW f \in Seq(Part), NEW n \in 0 .. Len(f)
  PROVE  /\ LET f2 == SubSeq(f, 1, n)
            IN f2 \in Seq(Part) /\ Len(f2) = n /\ CutOff(f, f2, n)
         /\ LET f2 == Append(SubSeq(f, 1, n), Torn)
            IN f2 \in Seq(Part) /\ Len(f2) = n + 1 /\ CutOff(f, f2, n)
<1> DEFINE c == SubSeq(f, 1, n)
           t == Append(c, Torn)
<1>1. c \in Seq(Part) /\ Len(c) = n /\ n \in Nat /\ \A i \in 1 .. n : c[i] = f[i]
  OBVIOUS
<1> HIDE DEF c
<1>2. CutOff(f, c, n)
  BY <1>1 DEF CutOff
<1>3. /\ t \in Seq(Part)
      /\ Len(t) = n + 1
      /\ t[n + 1] = Torn
      /\ \A i \in 1 .. n : t[i] = c[i]
  BY <1>1 DEF Part
<1> HIDE DEF t
<1>4. CutOff(f, t, n)
  BY <1>1, <1>3 DEF CutOff
<1> QED BY <1>1, <1>2, <1>3, <1>4 DEF c, t

\* What is left of a log that was cut off has no gap and no second entry for a
\* number.
LEMMA CutPreserves ==
  ASSUME NEW f \in Seq(Part), NEW f2 \in Seq(Part), NEW n \in 0 .. Len(f),
         CutOff(f, f2, n), Unique(f), Gapless(f)
  PROVE  /\ Unique(f2)
         /\ Gapless(f2)
         /\ Entries(f2) \subseteq Entries(f)
<1>1. \A i \in Readable(f2) : i \in Readable(f) /\ f2[i] = f[i]
  BY CutOffReadable
<1>2. Entries(f2) \subseteq Entries(f)
  BY <1>1 DEF Entries
<1>3. Unique(f2)
  BY <1>2 DEF Unique
<1>4. Gapless(f2)
  <2>1. SUFFICES ASSUME NEW i \in Readable(f2), f2[i].seq > 1
                 PROVE  \E j \in 1 .. i - 1 : f2[j].seq = f2[i].seq - 1
    BY DEF Gapless
  <2>2. i \in Readable(f) /\ f2[i] = f[i]
    BY <1>1
  <2>3. PICK j \in 1 .. i - 1 : f[j].seq = f[i].seq - 1
    BY <2>1, <2>2 DEF Gapless
  <2>4. j \in Readable(f2)
    <3>1. i \in 1 .. Len(f2) /\ \A k \in 1 .. i : f2[k] # Torn
      BY DEF Readable
    <3>2. Len(f2) \in Nat
      OBVIOUS
    <3> QED BY <3>1, <3>2 DEF Readable
  <2>5. f2[j] = f[j]
    BY <1>1, <2>4
  <2> QED BY <2>2, <2>3, <2>5
<1> QED BY <1>2, <1>3, <1>4

LEMMA PowerFailurePreserves == IInv /\ PowerFailure => IInv'
<1> SUFFICES ASSUME IInv, PowerFailure PROVE IInv'
  OBVIOUS
<1>1. file \in Seq(Part) /\ synced \in 0 .. Len(file) /\ Len(file) \in Nat
  BY DEF IInv, FileOK
<1>2. Gone /\ UNCHANGED <<synced, promised>>
  BY DEF PowerFailure
<1>3. PICK n \in synced .. Len(file) :
        \/ file' = SubSeq(file, 1, n)
        \/ file' = Append(SubSeq(file, 1, n), Torn)
  BY DEF PowerFailure
<1>4. n \in 0 .. Len(file) /\ synced <= n
  BY <1>1
<1>5. /\ file' \in Seq(Part)
      /\ Len(file') \in {n, n + 1}
      /\ CutOff(file, file', n)
  BY <1>1, <1>3, <1>4, Cut
<1>6. /\ \A i \in Readable(file') : i \in Readable(file) /\ file'[i] = file[i]
      /\ \A i \in Readable(file) :
           i <= n => i \in Readable(file') /\ file'[i] = file[i]
  BY <1>1, <1>4, <1>5, CutOffReadable
<1>7. Unique(file') /\ Gapless(file')
  BY <1>1, <1>4, <1>5, CutPreserves DEF IInv, FileOK
<1>8. Kept(file', synced', promised')
  <2>1. SUFFICES ASSUME NEW e \in promised
                 PROVE  \E i \in Readable(file') : i <= synced /\ file'[i] = e
    BY <1>2 DEF Kept
  <2>2. PICK i \in Readable(file) : i <= synced /\ file[i] = e
    BY DEF IInv, FileOK, Kept
  <2>3. i \in Nat
    BY DEF Readable
  <2>4. i <= n
    BY <1>1, <1>4, <2>2, <2>3
  <2> QED BY <1>6, <2>2, <2>4
<1>9. synced' \in 0 .. Len(file') /\ promised' \subseteq Entry
  BY <1>1, <1>2, <1>4, <1>5 DEF IInv, FileOK
<1>10. FileOK'
  BY <1>5, <1>7, <1>8, <1>9 DEF FileOK, Unique, Gapless, Kept, Entries,
     Readable
<1> QED BY <1>2, <1>10, GonePreserves

LEMMA StutterPreserves == IInv /\ UNCHANGED vars => IInv'
<1> SUFFICES ASSUME IInv, UNCHANGED vars PROVE IInv'
  OBVIOUS
<1>1. FileOK'
  BY FileKept DEF IInv, vars
<1>2. TypeOK'
  BY DEF IInv, TypeOK, vars
<1>3. MemoryOK'
  BY DEF IInv, MemoryOK, Continues, Entries, Readable, Whole, vars
<1> QED BY <1>1, <1>2, <1>3 DEF IInv

LEMMA NextIInv == IInv /\ [Next]_vars => IInv'
BY OpenPreserves, FlushesPreserve, AppendPreserves, ClosePreserves, KillPreserves,
   PowerFailurePreserves, StutterPreserves DEF Next

-----------------------------------------------------------------------------
(* The log by number *)

LEMMA LeastNumber ==
  ASSUME NEW S \in SUBSET Nat, S # {}
  PROVE  \E n \in S : \A m \in S : n <= m
<1>1. PICK top \in S : TRUE
  OBVIOUS
<1> DEFINE U == 0 .. top
           R == StrictSubsetOrdering(U)
           T == {V \in SUBSET U : \E m \in S : V = 0 .. m}
<1>2. IsWellFoundedOn(R, FiniteSubsetsOf(U)) /\ FiniteSubsetsOf(U) = SUBSET U
  <2>1. IsFiniteSet(U)
    BY <1>1, FS_Interval
  <2> QED BY <2>1, FS_StrictSubsetOrderingWellFounded, FS_FiniteSubsetsOfFinite
<1>3. PICK V \in T : \A W \in T : <<W, V>> \notin R
  <2>1. T \subseteq FiniteSubsetsOf(U) /\ U \in T
    BY <1>1, <1>2
  <2> HIDE DEF T, R, U
  <2> QED BY <1>2, <2>1, WFMin
<1>4. PICK n \in S : V = 0 .. n
  OBVIOUS
<1>5. ASSUME NEW m \in S PROVE n <= m
  <2>1. SUFFICES ASSUME m < n PROVE FALSE
    OBVIOUS
  <2>2. 0 .. m \in T /\ 0 .. m \in SUBSET U /\ V \in SUBSET U
    BY <1>4, <2>1
  <2>3. 0 .. m \in SUBSET V /\ 0 .. m # V
    <3>1. n \in V /\ n \notin 0 .. m
      BY <1>4, <2>1
    <3> QED BY <1>4, <2>1, <3>1
  <2>4. <<0 .. m, V>> \in R
    BY <2>2, <2>3 DEF StrictSubsetOrdering
  <2> QED BY <1>3, <2>2, <2>4
<1> QED BY <1>5

LEMMA EntriesType ==
  ASSUME NEW f \in Seq(Part)
  PROVE  /\ Entries(f) \subseteq Entry
         /\ Numbers(f) \subseteq Nat \ {0}
         /\ \A i \in Readable(f) : i \in 1 .. Len(f) /\ f[i] \in Entries(f)
         /\ \A i \in Readable(f) : \A j \in 1 .. i : j \in Readable(f)
<1>1. Len(f) \in Nat
  OBVIOUS
<1>2. ASSUME NEW i \in Readable(f) PROVE i \in 1 .. Len(f) /\ f[i] \in Entry
  <2>1. i \in 1 .. Len(f) /\ f[i] # Torn
    BY DEF Readable
  <2>2. f[i] \in Part
    BY <2>1
  <2> QED BY <2>1, <2>2 DEF Part
<1>3. Entries(f) \subseteq Entry
  BY <1>2 DEF Entries
<1>4. Numbers(f) \subseteq Nat \ {0}
  BY <1>3 DEF Numbers, Entry
<1>5. ASSUME NEW i \in Readable(f), NEW j \in 1 .. i PROVE j \in Readable(f)
  BY <1>1 DEF Readable
<1>6. \A i \in Readable(f) : f[i] \in Entries(f)
  BY DEF Entries
<1> QED BY <1>2, <1>3, <1>4, <1>5, <1>6

\* The numbers of the readable entries begin with 1 and leave none out.
LEMMA NumbersDense ==
  ASSUME NEW f \in Seq(Part), Gapless(f)
  PROVE  \E n \in 0 .. Len(f) : Numbers(f) = 1 .. n
<1>1. /\ Numbers(f) \subseteq Nat \ {0}
      /\ \A i \in Readable(f) : i \in 1 .. Len(f) /\ f[i] \in Entries(f)
      /\ \A i \in Readable(f) : \A j \in 1 .. i : j \in Readable(f)
      /\ Len(f) \in Nat
  BY EntriesType
<1>2. \A i \in Readable(f) : f[i].seq \in Numbers(f)
  BY <1>1 DEF Numbers
<1>3. \A m \in Numbers(f) : \E i \in Readable(f) : m = f[i].seq
  BY DEF Numbers, Entries
<1>4. ASSUME NEW m \in Numbers(f), m > 1 PROVE m - 1 \in Numbers(f)
  <2>1. PICK i \in Readable(f) : m = f[i].seq
    BY <1>3
  <2>2. PICK j \in 1 .. i - 1 : f[j].seq = m - 1
    BY <1>4, <2>1 DEF Gapless
  <2>3. j \in Readable(f)
    <3>1. i \in Nat /\ j \in 1 .. i
      BY <1>1, <2>1
    <3> QED BY <1>1, <3>1
  <2> QED BY <1>2, <2>2, <2>3
<1>5. \A i \in Readable(f) : f[i].seq <= i
  <2> DEFINE S == {i \in Readable(f) : ~ (f[i].seq <= i)}
  <2> SUFFICES ASSUME S # {} PROVE FALSE
    OBVIOUS
  <2>1. S \in SUBSET Nat
    BY <1>1
  <2>2. PICK i \in S : \A j \in S : i <= j
    <3> HIDE DEF S
    <3> QED BY <2>1, LeastNumber
  <2>3. f[i].seq \in Nat \ {0} /\ i \in 1 .. Len(f) /\ f[i].seq > i
    BY <1>1, <1>2
  <2>4. f[i].seq > 1
    BY <1>1, <2>3
  <2>5. PICK j \in 1 .. i - 1 : f[j].seq = f[i].seq - 1
    BY <2>4 DEF Gapless
  <2>6. j \in Readable(f)
    <3>1. j \in 1 .. i
      BY <1>1, <2>3
    <3> QED BY <1>1, <3>1
  <2>7. ~ (f[j].seq <= j) /\ ~ (i <= j)
    BY <1>1, <2>3, <2>5
  <2> QED BY <2>2, <2>6, <2>7
<1>6. Len(f) \in {n \in Nat : \A m \in Numbers(f) : m <= n}
  <2>1. ASSUME NEW m \in Numbers(f) PROVE m <= Len(f)
    <3>1. PICK i \in Readable(f) : m = f[i].seq
      BY <1>3
    <3>2. m \in Nat /\ i \in 1 .. Len(f) /\ m <= i
      BY <1>1, <1>5, <3>1
    <3> QED BY <1>1, <3>2
  <2> QED BY <1>1, <2>1
<1>7. PICK n \in Nat :
        /\ n <= Len(f)
        /\ \A m \in Numbers(f) : m <= n
        /\ n # 0 => n \in Numbers(f)
  <2> DEFINE S == {n \in Nat : \A m \in Numbers(f) : m <= n}
  <2>1. S \in SUBSET Nat /\ S # {}
    BY <1>6
  <2>2. PICK n \in S : \A m \in S : n <= m
    <3> HIDE DEF S
    <3> QED BY <2>1, LeastNumber
  <2>3. n \in Nat /\ n <= Len(f) /\ \A m \in Numbers(f) : m <= n
    BY <1>6, <2>2
  <2>4. ASSUME n # 0 PROVE n \in Numbers(f)
    <3>1. n - 1 \in Nat /\ n - 1 \notin S
      BY <2>2, <2>3, <2>4
    <3>2. PICK m \in Numbers(f) : ~ (m <= n - 1)
      BY <3>1
    <3>3. m \in Nat /\ m <= n
      BY <1>1, <2>3
    <3>4. m = n
      BY <2>3, <3>2, <3>3
    <3> QED BY <3>4
  <2> QED BY <2>3, <2>4
<1>8. ASSUME NEW m \in 1 .. n PROVE m \in Numbers(f)
  <2> DEFINE S == {d \in Nat : d < n /\ n - d \notin Numbers(f)}
  <2> SUFFICES ASSUME m \notin Numbers(f) PROVE FALSE
    OBVIOUS
  <2>1. S \in SUBSET Nat /\ n - m \in S
    <3>1. n - m \in Nat /\ n - m < n /\ n - (n - m) = m
      OBVIOUS
    <3> QED BY <3>1
  <2>2. PICK d \in S : \A c \in S : d <= c
    <3> HIDE DEF S
    <3> QED BY <2>1, LeastNumber
  <2>3. d \in Nat /\ d < n /\ n - d \notin Numbers(f)
    OBVIOUS
  <2>4. d # 0
    <3>1. n # 0 /\ n \in Numbers(f)
      BY <1>7
    <3>2. SUFFICES ASSUME d = 0 PROVE FALSE
      OBVIOUS
    <3>3. n - d = n
      BY <3>2
    <3> QED BY <2>3, <3>1, <3>3
  <2>5. d - 1 \in Nat /\ d - 1 < n /\ ~ (d <= d - 1)
    BY <2>3, <2>4
  <2>6. n - (d - 1) \in Numbers(f)
    BY <2>2, <2>5
  <2>7. n - (d - 1) > 1 /\ n - (d - 1) - 1 = n - d
    BY <2>3, <2>4
  <2> QED BY <1>4, <2>3, <2>6, <2>7
<1>9. Numbers(f) = 1 .. n
  <2>1. ASSUME NEW m \in Numbers(f) PROVE m \in 1 .. n
    <3>1. m \in Nat \ {0} /\ m <= n
      BY <1>1, <1>7
    <3> QED BY <3>1
  <2> QED BY <1>8, <2>1
<1>10. n \in 0 .. Len(f)
  BY <1>1, <1>7
<1> QED BY <1>9, <1>10

LEMMA LogFacts ==
  ASSUME NEW f \in Seq(Part), Gapless(f), Unique(f)
  PROVE  /\ LastNumber(f) \in Nat
         /\ Numbers(f) = 1 .. LastNumber(f)
         /\ Log(f) \in Seq(Payload)
         /\ Len(Log(f)) = LastNumber(f)
         /\ \A e \in Entries(f) : e.seq \in 1 .. LastNumber(f) /\ Log(f)[e.seq] = e.payload
<1> DEFINE L == LastNumber(f)
           E(n) == CHOOSE e \in Entries(f) : e.seq = n
<1>1. L \in 0 .. Len(f) /\ Numbers(f) = 1 .. L
  BY NumbersDense DEF LastNumber
<1>2. L \in Nat
  BY <1>1
<1>3. Entries(f) \subseteq Entry
  BY EntriesType
<1> HIDE DEF L
<1>4. ASSUME NEW n \in 1 .. L
      PROVE  E(n) \in Entries(f) /\ E(n).seq = n /\ E(n).payload \in Payload
  <2>1. \E e \in Entries(f) : e.seq = n
    BY <1>1 DEF Numbers
  <2>2. E(n) \in Entries(f) /\ E(n).seq = n
    BY <2>1
  <2> QED BY <1>3, <2>2 DEF Entry
<1>5. Log(f) = [n \in 1 .. L |-> E(n).payload]
  BY DEF Log, L
<1>6. ASSUME NEW e \in Entries(f) PROVE e.seq \in 1 .. L /\ E(e.seq) = e
  <2>1. e.seq \in 1 .. L
    BY <1>1 DEF Numbers
  <2> QED BY <1>4, <2>1 DEF Unique
<1> HIDE DEF E
<1>7. Log(f) \in [1 .. L -> Payload]
  BY <1>4, <1>5
<1>8. Log(f) \in Seq(Payload) /\ Len(Log(f)) = L
  BY <1>2, <1>7
<1>9. \A e \in Entries(f) : e.seq \in 1 .. L /\ Log(f)[e.seq] = e.payload
  BY <1>5, <1>6
<1> QED BY <1>1, <1>2, <1>8, <1>9 DEF L

\* A log with fewer entries is the beginning of one with more.
LEMMA LogPrefix ==
  ASSUME NEW f \in Seq(Part), Gapless(f), Unique(f),
         NEW f2 \in Seq(Part), Gapless(f2), Unique(f2),
         Entries(f) \subseteq Entries(f2)
  PROVE  /\ LastNumber(f) \in 0 .. LastNumber(f2)
         /\ Log(f) = SubSeq(Log(f2), 1, LastNumber(f))
<1> DEFINE L == LastNumber(f)
           L2 == LastNumber(f2)
           q == Log(f)
           q2 == Log(f2)
<1>1. /\ L \in Nat /\ Numbers(f) = 1 .. L /\ q \in Seq(Payload) /\ Len(q) = L
      /\ \A e \in Entries(f) : e.seq \in 1 .. L /\ q[e.seq] = e.payload
  BY LogFacts
<1>2. /\ L2 \in Nat /\ Numbers(f2) = 1 .. L2 /\ q2 \in Seq(Payload) /\ Len(q2) = L2
      /\ \A e \in Entries(f2) : e.seq \in 1 .. L2 /\ q2[e.seq] = e.payload
  BY LogFacts
<1>3. Numbers(f) \subseteq Numbers(f2)
  BY DEF Numbers
<1> HIDE DEF L, L2, q, q2
<1>4. L <= L2
  <2>1. CASE L = 0
    BY <1>2, <2>1
  <2>2. CASE L # 0
    <3>1. L \in 1 .. L
      BY <1>1, <2>2
    <3>2. L \in 1 .. L2
      BY <1>1, <1>2, <1>3, <3>1
    <3> QED BY <1>2, <3>2
  <2> QED BY <2>1, <2>2
<1>5. ASSUME NEW n \in 1 .. L PROVE q[n] = q2[n]
  <2>1. PICK e \in Entries(f) : e.seq = n
    BY <1>1 DEF Numbers
  <2> QED BY <1>1, <1>2, <2>1
<1>6. q = SubSeq(q2, 1, L)
  <2> DEFINE r == SubSeq(q2, 1, L)
  <2>1. r \in Seq(Payload) /\ Len(r) = L /\ \A n \in 1 .. L : r[n] = q2[n]
    BY <1>1, <1>2, <1>4
  <2> HIDE DEF r
  <2>2. \A n \in 1 .. L : q[n] = r[n]
    BY <1>5, <2>1
  <2>3. q = r
    BY <1>1, <2>1, <2>2
  <2> QED BY <2>3 DEF r
<1>7. L \in 0 .. L2
  BY <1>1, <1>2, <1>4
<1> QED BY <1>6, <1>7 DEF L, L2, q, q2

-----------------------------------------------------------------------------
(* What is pending *)

LEMMA ConcatFacts ==
  ASSUME NEW S, NEW u \in Seq(S), NEW v \in Seq(S)
  PROVE  /\ u \o v \in Seq(S)
         /\ Len(u) \in Nat
         /\ Len(v) \in Nat
         /\ Len(u \o v) = Len(u) + Len(v)
         /\ \A i \in 1 .. Len(u) : (u \o v)[i] = u[i]
         /\ \A i \in 1 .. Len(v) : (u \o v)[Len(u) + i] = v[i]
OBVIOUS

LEMMA SplitFacts ==
  ASSUME NEW S, NEW u \in Seq(S), NEW m \in 0 .. Len(u)
  PROVE  /\ SubSeq(u, 1, m) \in Seq(S)
         /\ Len(SubSeq(u, 1, m)) = m
         /\ \A i \in 1 .. m : SubSeq(u, 1, m)[i] = u[i]
         /\ SubSeq(u, m + 1, Len(u)) \in Seq(S)
         /\ Len(SubSeq(u, m + 1, Len(u))) = Len(u) - m
         /\ \A i \in 1 .. Len(u) - m : SubSeq(u, m + 1, Len(u))[i] = u[m + i]
<1>1. Len(u) \in Nat /\ m \in Nat
  OBVIOUS
<1>2. /\ SubSeq(u, 1, m) \in Seq(S)
      /\ Len(SubSeq(u, 1, m)) = m
      /\ \A i \in 1 .. m : SubSeq(u, 1, m)[i] = u[i]
  OBVIOUS
<1> DEFINE d == SubSeq(u, m + 1, Len(u))
<1>3. d \in Seq(S)
  <2>1. \A i \in m + 1 .. Len(u) : u[i] \in S
    BY <1>1
  <2> QED BY <1>1, <2>1
<1>4. Len(d) = Len(u) - m
  BY <1>1
<1>5. ASSUME NEW i \in 1 .. Len(u) - m PROVE d[i] = u[m + i]
  BY <1>1
<1> QED BY <1>2, <1>3, <1>4, <1>5

LEMMA SeqEquality ==
  ASSUME NEW S, NEW u \in Seq(S), NEW v \in Seq(S), Len(u) = Len(v),
         \A i \in 1 .. Len(u) : u[i] = v[i]
  PROVE  u = v
OBVIOUS

LEMMA LastNumberBounds ==
  ASSUME NEW f \in Seq(Part), Gapless(f), Unique(f), NEW b \in Seq(Entry),
         NEW s \in Nat, Continues(f, b, s)
  PROVE  /\ LastNumber(f) \in 0 .. s
         /\ Whole(f) => s - Len(b) <= LastNumber(f)
<1> DEFINE L == LastNumber(f)
<1>1. /\ L \in Nat
      /\ Numbers(f) = 1 .. L
      /\ \A e \in Entries(f) : e.seq \in 1 .. L
  BY LogFacts
<1>2. Len(b) \in Nat /\ Len(b) <= s
  BY DEF Continues
<1> HIDE DEF L
<1>3. L <= s
  <2>1. CASE L = 0
    BY <2>1
  <2>2. CASE L # 0
    <3>1. L \in Numbers(f)
      BY <1>1, <2>2
    <3>2. \A n \in Numbers(f) : n <= s
      BY DEF Numbers, Continues
    <3> QED BY <3>1, <3>2
  <2> QED BY <2>1, <2>2
<1>4. ASSUME Whole(f) PROVE s - Len(b) <= L
  <2>1. s = Len(b) \/ \E e \in Entries(f) : e.seq = s - Len(b)
    BY <1>4 DEF Continues
  <2>2. CASE s = Len(b)
    BY <1>1, <1>2, <2>2
  <2>3. CASE \E e \in Entries(f) : e.seq = s - Len(b)
    <3>1. s - Len(b) \in 1 .. L
      BY <1>1, <2>3
    <3> QED BY <1>1, <3>1
  <2> QED BY <2>1, <2>2, <2>3
<1>5. L \in 0 .. s
  BY <1>1, <1>3
<1> QED BY <1>4, <1>5 DEF L

LEMMA PendingFacts ==
  ASSUME NEW f \in Seq(Part), Gapless(f), Unique(f), NEW b \in Seq(Entry),
         NEW s \in Nat, Continues(f, b, s)
  PROVE  /\ Fresh(f, b, s) \in 0 .. Len(b)
         /\ Pending(f, b, s) \in Seq(Payload)
         /\ Len(Pending(f, b, s)) = Fresh(f, b, s)
         /\ \A i \in 1 .. Fresh(f, b, s) :
              Pending(f, b, s)[i] = b[Len(b) - Fresh(f, b, s) + i].payload
         /\ Whole(f) => Fresh(f, b, s) = s - LastNumber(f)
<1> DEFINE L == LastNumber(f)
           F == Fresh(f, b, s)
           q == Pending(f, b, s)
<1>1. L \in 0 .. s /\ (Whole(f) => s - Len(b) <= L)
  BY LastNumberBounds
<1>2. Len(b) \in Nat
  OBVIOUS
<1>3. F = IF L + Len(b) <= s THEN Len(b) ELSE s - L
  BY DEF Fresh
<1>4. q = [i \in 1 .. F |-> b[Len(b) - F + i].payload]
  BY DEF Pending
<1> HIDE DEF L, F, q
<1>5. F \in 0 .. Len(b)
  BY <1>1, <1>2, <1>3
<1>6. Whole(f) => F = s - L
  BY <1>1, <1>2, <1>3
<1>7. ASSUME NEW i \in 1 .. F PROVE b[Len(b) - F + i].payload \in Payload
  <2>1. Len(b) - F + i \in 1 .. Len(b)
    BY <1>2, <1>5
  <2>2. b[Len(b) - F + i] \in Entry
    BY <2>1
  <2> QED BY <2>2 DEF Entry
<1>8. q \in [1 .. F -> Payload]
  BY <1>4, <1>7
<1>9. q \in Seq(Payload) /\ Len(q) = F
  BY <1>2, <1>5, <1>8
<1>10. \A i \in 1 .. F : q[i] = b[Len(b) - F + i].payload
  BY <1>4
<1> QED BY <1>5, <1>6, <1>9, <1>10 DEF L, F, q

\* An entry that is appended to the buffer is the last one pending.
LEMMA AppendedPends ==
  ASSUME NEW f \in Seq(Part), Gapless(f), Unique(f), NEW b \in Seq(Entry),
         NEW s \in Nat, Continues(f, b, s), NEW payload \in Payload
  PROVE  Pending(f, Append(b, [seq |-> s + 1, payload |-> payload]), s + 1)
           = Append(Pending(f, b, s), payload)
<1> DEFINE e2 == [seq |-> s + 1, payload |-> payload]
           b2 == Append(b, e2)
           L == LastNumber(f)
           F == Fresh(f, b, s)
           F2 == Fresh(f, b2, s + 1)
           q == Pending(f, b, s)
           q2 == Pending(f, b2, s + 1)
           r == Append(q, payload)
<1>1. e2 \in Entry /\ e2.payload = payload
  BY DEF Entry
<1>2. b2 \in Seq(Entry) /\ Continues(f, b2, s + 1)
  BY AppendedContinues
<1>3. /\ Len(b) \in Nat
      /\ Len(b2) = Len(b) + 1
      /\ \A i \in 1 .. Len(b) : b2[i] = b[i]
      /\ b2[Len(b) + 1] = e2
  BY <1>1
<1>4. /\ F \in 0 .. Len(b) /\ q \in Seq(Payload) /\ Len(q) = F
      /\ \A i \in 1 .. F : q[i] = b[Len(b) - F + i].payload
  BY PendingFacts
<1>5. s + 1 \in Nat
  OBVIOUS
<1>6. /\ q2 \in Seq(Payload) /\ Len(q2) = F2
      /\ \A i \in 1 .. F2 : q2[i] = b2[Len(b2) - F2 + i].payload
  <2> DEFINE t == s + 1
  <2>1. t \in Nat /\ b2 \in Seq(Entry) /\ Continues(f, b2, t)
    BY <1>2, <1>5
  <2> HIDE DEF b2
  <2>2. /\ Pending(f, b2, t) \in Seq(Payload)
        /\ Len(Pending(f, b2, t)) = Fresh(f, b2, t)
        /\ \A i \in 1 .. Fresh(f, b2, t) :
             Pending(f, b2, t)[i] = b2[Len(b2) - Fresh(f, b2, t) + i].payload
    <3> HIDE DEF t
    <3> QED BY <2>1, PendingFacts
  <2> QED BY <2>2
<1>7. L \in 0 .. s
  BY LastNumberBounds
<1>8. F = (IF L + Len(b) <= s THEN Len(b) ELSE s - L)
  BY DEF Fresh
<1>9. F2 = (IF L + Len(b2) <= s + 1 THEN Len(b2) ELSE (s + 1) - L)
  <2> DEFINE t == s + 1
  <2> HIDE DEF b2, t
  <2>1. Fresh(f, b2, t) = (IF L + Len(b2) <= t THEN Len(b2) ELSE t - L)
    BY DEF Fresh
  <2> QED BY <2>1 DEF t
<1> HIDE DEF e2, b2, L, F, F2, q, q2
<1>10. F2 = F + 1
  BY <1>3, <1>7, <1>8, <1>9
<1>11. /\ r \in Seq(Payload) /\ Len(r) = F + 1
       /\ \A i \in 1 .. F : r[i] = q[i]
       /\ r[F + 1] = payload
  BY <1>3, <1>4
<1> HIDE DEF r
<1>12. ASSUME NEW i \in 1 .. F + 1 PROVE q2[i] = r[i]
  <2>1. CASE i = F + 1
    <3>1. Len(b2) - F2 + i = Len(b) + 1 /\ i \in 1 .. F2
      BY <1>3, <1>4, <1>10, <2>1
    <3>2. q2[i] = b2[Len(b) + 1].payload
      BY <1>6, <3>1
    <3> QED BY <1>1, <1>3, <1>11, <2>1, <3>2
  <2>2. CASE i \in 1 .. F
    <3>1. /\ Len(b2) - F2 + i = Len(b) - F + i
          /\ i \in 1 .. F2
          /\ Len(b) - F + i \in 1 .. Len(b)
      BY <1>3, <1>4, <1>10, <2>2
    <3>2. q2[i] = b2[Len(b) - F + i].payload
      BY <1>6, <3>1
    <3>3. b2[Len(b) - F + i] = b[Len(b) - F + i]
      BY <1>3, <3>1
    <3> QED BY <1>4, <1>11, <2>2, <3>2, <3>3
  <2> QED BY <1>4, <2>1, <2>2
<1>13. q2 = r
  <2>1. F \in Nat
    BY <1>3, <1>4
  <2> QED BY <1>6, <1>10, <1>11, <1>12, <2>1, SeqEquality
<1> QED BY <1>13 DEF e2, b2, q, q2, r

LEMMA WroteEntries ==
  ASSUME NEW f \in Seq(Part), NEW f2 \in Seq(Part), NEW b \in Seq(Entry),
         NEW n \in 0 .. Len(b), Wrote(f, f2, b, n)
  PROVE  /\ Entries(f) \subseteq Entries(f2)
         /\ ~ Whole(f) => Entries(f2) \subseteq Entries(f)
         /\ \A e \in Entries(f2) : e \in Entries(f) \/ \E k \in 1 .. n : e = b[k]
<1>1. \A i \in Readable(f) : i \in Readable(f2) /\ f2[i] = f[i]
  BY WroteReadable
<1>2. \A i \in Readable(f2) :
        \/ i \in Readable(f) /\ f2[i] = f[i]
        \/ Whole(f) /\ i - Len(f) \in 1 .. n /\ f2[i] = b[i - Len(f)]
  BY WroteReadable
<1>3. Entries(f) \subseteq Entries(f2)
  BY <1>1 DEF Entries
<1>4. ASSUME NEW e \in Entries(f2)
      PROVE  e \in Entries(f) \/ (Whole(f) /\ \E k \in 1 .. n : e = b[k])
  <2>1. PICK i \in Readable(f2) : e = f2[i]
    BY DEF Entries
  <2>2. CASE i \in Readable(f) /\ f2[i] = f[i]
    BY <2>1, <2>2 DEF Entries
  <2>3. CASE Whole(f) /\ i - Len(f) \in 1 .. n /\ f2[i] = b[i - Len(f)]
    BY <2>1, <2>3, Zenon
  <2> QED BY <1>2, <2>2, <2>3
<1> QED BY <1>3, <1>4

\* If the buffer reaches the log, what is fresh in it is what comes after the log.
LEMMA FreshValue ==
  ASSUME NEW from \in Nat, NEW to \in Nat, NEW len \in Nat, NEW s \in Nat, NEW fresh,
         s - len <= from, from <= to,
         fresh = IF to + len <= s THEN len ELSE s - to
  PROVE  fresh = s - to
<1>1. CASE to + len <= s
  <2>1. to + len = s
    BY <1>1
  <2> QED BY <1>1, <2>1
<1>2. CASE ~ (to + len <= s)
  BY <1>2
<1> QED BY <1>1, <1>2

\* What a write adds to the log was pending, and what was pending and is not in
\* the log now is pending still.
LEMMA WroteLog ==
  ASSUME NEW f \in Seq(Part), NEW f2 \in Seq(Part), NEW b \in Seq(Entry),
         NEW n \in 0 .. Len(b), NEW s \in Nat,
         Wrote(f, f2, b, n), Continues(f, b, s), Unique(f), Gapless(f)
  PROVE  \E m \in 0 .. Len(Pending(f, b, s)) :
           /\ ~ Whole(f) => m = 0
           /\ Whole(f) /\ n = Len(b) => m = Len(Pending(f, b, s))
           /\ Log(f2) = Log(f) \o SubSeq(Pending(f, b, s), 1, m)
           /\ Pending(f2, b, s)
                = SubSeq(Pending(f, b, s), m + 1, Len(Pending(f, b, s)))
<1> DEFINE L == LastNumber(f)
           L2 == LastNumber(f2)
           F == Fresh(f, b, s)
           F2 == Fresh(f2, b, s)
           q == Pending(f, b, s)
           q2 == Pending(f2, b, s)
           w == Log(f)
           w2 == Log(f2)
           m == L2 - L
<1>1. Unique(f2) /\ Gapless(f2) /\ Continues(f2, b, s)
  BY WrotePreserves
<1>2. Entries(f) \subseteq Entries(f2)
      /\ (~ Whole(f) => Entries(f2) \subseteq Entries(f))
      /\ \A e \in Entries(f2) : e \in Entries(f) \/ \E k \in 1 .. n : e = b[k]
  BY WroteEntries
<1>3. /\ F \in 0 .. Len(b) /\ q \in Seq(Payload) /\ Len(q) = F
      /\ \A i \in 1 .. F : q[i] = b[Len(b) - F + i].payload
      /\ Whole(f) => F = s - L
  BY PendingFacts
<1>4. /\ F2 \in 0 .. Len(b) /\ q2 \in Seq(Payload) /\ Len(q2) = F2
      /\ \A i \in 1 .. F2 : q2[i] = b[Len(b) - F2 + i].payload
  BY <1>1, PendingFacts
<1>5. L \in 0 .. L2 /\ w = SubSeq(w2, 1, L)
  BY <1>1, <1>2, LogPrefix
<1>6. /\ L \in Nat /\ w \in Seq(Payload) /\ Len(w) = L
      /\ \A e \in Entries(f) : e.seq \in 1 .. L
  BY LogFacts
<1>7. /\ L2 \in Nat /\ w2 \in Seq(Payload) /\ Len(w2) = L2 /\ Numbers(f2) = 1 .. L2
      /\ \A e \in Entries(f2) : e.seq \in 1 .. L2 /\ w2[e.seq] = e.payload
  BY <1>1, LogFacts
<1>8. L2 \in 0 .. s /\ (Whole(f) => s - Len(b) <= L)
  BY <1>1, LastNumberBounds
<1>9. Len(b) \in Nat /\ n \in Nat /\ \A k \in 1 .. n : k \in 1 .. Len(b)
  OBVIOUS
<1>10. \A k \in 1 .. Len(b) : b[k].seq = s - Len(b) + k
  BY DEF Continues
<1>11. CASE ~ Whole(f)
  <2>1. L2 \in 0 .. L
    BY <1>1, <1>2, <1>11, LogPrefix
  <2>2. L2 = L
    <3> HIDE DEF L, L2
    <3> QED BY <1>5, <1>6, <2>1
  <2>3. q2 = q
    BY <2>2 DEF Pending, Fresh
  <2>4. w2 = w
    <3> HIDE DEF L, L2, w, w2
    <3> QED BY <1>5, <1>7, <2>2
  <2> HIDE DEF L, L2, q, q2, w, w2, F
  <2>5. SubSeq(q, 1, 0) = <<>> /\ w \o <<>> = w /\ SubSeq(q, 0 + 1, Len(q)) = q
    BY <1>3, <1>6
  <2>6. 0 \in 0 .. Len(q)
    BY <1>3
  <2>7. /\ Whole(f) /\ n = Len(b) => 0 = Len(q)
        /\ w2 = w \o SubSeq(q, 1, 0)
        /\ q2 = SubSeq(q, 0 + 1, Len(q))
    BY <1>11, <2>3, <2>4, <2>5
  <2>8. \E k \in 0 .. Len(q) :
           /\ ~ Whole(f) => k = 0
           /\ Whole(f) /\ n = Len(b) => k = Len(q)
           /\ w2 = w \o SubSeq(q, 1, k)
           /\ q2 = SubSeq(q, k + 1, Len(q))
    BY <2>6, <2>7
  <2> QED BY <2>8 DEF q, q2, w, w2
<1>12. CASE Whole(f)
  <2>1. F2 = s - L2
    <3>1. s - Len(b) <= L
      BY <1>8, <1>12
    <3>2. L <= L2
      <4> HIDE DEF L, L2
      <4> QED BY <1>5, <1>7
    <3> HIDE DEF L
    <3>3. F2 = (IF L2 + Len(b) <= s THEN Len(b) ELSE s - L2)
      BY DEF Fresh
    <3> HIDE DEF F2, L2
    <3> QED BY <1>6, <1>7, <1>9, <3>1, <3>2, <3>3, FreshValue
  <2>2. n # 0 => s <= L2 \/ n # Len(b)
    <3> SUFFICES ASSUME n # 0, n = Len(b) PROVE s <= L2
      OBVIOUS
    <3>1. n \in 1 .. n /\ n \in 1 .. Len(b)
      BY <1>9
    <3>2. b[n] \in Entries(f2)
      <4>1. Len(f) + n \in Readable(f2) /\ f2[Len(f) + n] = b[n]
        BY <1>12, <3>1, WroteReadable DEF Wrote
      <4> QED BY <4>1 DEF Entries
    <3>3. b[n].seq = s
      BY <1>9, <1>10, <3>1
    <3>4. s \in 1 .. L2
      BY <1>7, <3>2, <3>3
    <3> HIDE DEF L2
    <3> QED BY <1>7, <3>4
  <2> HIDE DEF L, L2, F, F2, q, q2, w, w2
  <2>3. m \in 0 .. F /\ F2 = F - m /\ F \in Nat /\ F2 \in Nat /\ m \in Nat
    BY <1>3, <1>5, <1>6, <1>7, <1>8, <1>9, <1>12, <2>1
  <2>4. n = Len(b) => m = F
    <3> SUFFICES ASSUME n = Len(b) PROVE m = F
      OBVIOUS
    <3>1. CASE n = 0
      BY <1>3, <1>9, <2>3, <3>1
    <3>2. CASE n # 0
      BY <1>3, <1>5, <1>6, <1>7, <1>8, <1>12, <2>2, <3>2
    <3> QED BY <3>1, <3>2
  <2>5. ASSUME NEW i \in 1 .. m PROVE w2[L + i] = q[i]
    <3>1. L + i \in 1 .. L2 /\ i \in 1 .. F /\ L + i \notin 1 .. L
      BY <1>5, <1>6, <1>7, <2>3
    <3>2. PICK e \in Entries(f2) : e.seq = L + i
      BY <1>7, <3>1 DEF Numbers
    <3>3. e \notin Entries(f)
      BY <1>6, <3>1, <3>2
    <3>4. PICK k \in 1 .. n : e = b[k]
      BY <1>2, <3>3
    <3>5. s - Len(b) + k = L + i
      BY <1>9, <1>10, <3>2, <3>4
    <3>6. Len(b) - F + i = k
      <4>1. F = s - L /\ Len(b) \in Nat /\ k \in Nat /\ i \in Nat
        BY <1>3, <1>9, <1>12, <2>3
      <4> HIDE DEF m
      <4> QED BY <1>6, <3>5, <4>1
    <3>7. q[i] = b[k].payload
      BY <1>3, <3>1, <3>6
    <3>8. w2[L + i] = e.payload
      BY <1>7, <3>2
    <3> QED BY <3>4, <3>7, <3>8
  <2> DEFINE c == SubSeq(q, 1, m)
             r == w \o c
             d == SubSeq(q, m + 1, Len(q))
  <2>5a. m \in 0 .. Len(q)
    BY <1>3, <2>3
  <2>6. c \in Seq(Payload) /\ Len(c) = m /\ \A i \in 1 .. m : c[i] = q[i]
    <3> HIDE DEF m
    <3> QED BY <1>3, <2>5a, SplitFacts
  <2>7. /\ d \in Seq(Payload)
        /\ Len(d) = F2
        /\ \A i \in 1 .. F2 : d[i] = q[m + i]
    <3> HIDE DEF m
    <3>1. Len(q) - m = F2
      BY <1>3, <2>3
    <3> QED BY <1>3, <2>5a, <3>1, SplitFacts
  <2> HIDE DEF m, c, d
  <2>8. /\ r \in Seq(Payload)
        /\ Len(r) = L + m
        /\ \A i \in 1 .. L : r[i] = w[i]
        /\ \A i \in 1 .. m : r[L + i] = c[i]
    <3>1. /\ r \in Seq(Payload)
          /\ Len(r) = Len(w) + Len(c)
          /\ \A i \in 1 .. Len(w) : r[i] = w[i]
          /\ \A i \in 1 .. Len(c) : r[Len(w) + i] = c[i]
      <4>1. w \in Seq(Payload) /\ c \in Seq(Payload)
        BY <1>6, <2>6
      <4> QED BY <4>1, ConcatFacts
    <3>2. Len(w) = L /\ Len(c) = m
      BY <1>6, <2>6
    <3> QED BY <3>1, <3>2
  <2> HIDE DEF r
  <2>9. L + m = L2
    BY <1>6, <1>7 DEF m
  <2>10. ASSUME NEW i \in 1 .. L2 PROVE w2[i] = r[i]
    <3>1. CASE i \in 1 .. L
      <4>1. w[i] = w2[i]
        BY <1>5, <1>6, <1>7, <3>1
      <4> QED BY <2>8, <3>1, <4>1
    <3>2. CASE i \notin 1 .. L
      <4>1. i - L \in 1 .. m /\ L + (i - L) = i
        BY <1>6, <1>7, <2>3, <2>9, <3>2
      <4>2. w2[L + (i - L)] = q[i - L]
        BY <2>5, <4>1 DEF m
      <4>3. r[L + (i - L)] = c[i - L] /\ c[i - L] = q[i - L]
        BY <2>6, <2>8, <4>1
      <4> QED BY <4>1, <4>2, <4>3
    <3> QED BY <3>1, <3>2
  <2>11. w2 = r
    BY <1>7, <2>8, <2>9, <2>10, SeqEquality
  <2>12. ASSUME NEW i \in 1 .. F2 PROVE q2[i] = d[i]
    <3>1. m + i \in 1 .. F /\ Len(b) - F + (m + i) = Len(b) - F2 + i
      BY <1>9, <2>3
    <3>2. q[m + i] = b[Len(b) - F + (m + i)].payload
      BY <1>3, <3>1
    <3> QED BY <1>4, <2>7, <3>1, <3>2
  <2>13. q2 = d
    BY <1>4, <2>7, <2>12, SeqEquality
  <2>14. \E k \in 0 .. Len(q) :
           /\ ~ Whole(f) => k = 0
           /\ Whole(f) /\ n = Len(b) => k = Len(q)
           /\ w2 = w \o SubSeq(q, 1, k)
           /\ q2 = SubSeq(q, k + 1, Len(q))
    BY <1>3, <1>12, <2>4, <2>11, <2>13, <2>5a DEF c, d, r
  <2> QED BY <2>14 DEF q, q2, w, w2
<1> QED BY <1>11, <1>12

-----------------------------------------------------------------------------
(* The steps of the abstract log *)

LEMMA SyncedPart ==
  ASSUME NEW f \in Seq(Part), NEW n \in 0 .. Len(f), Unique(f), Gapless(f)
  PROVE  /\ SubSeq(f, 1, n) \in Seq(Part)
         /\ Unique(SubSeq(f, 1, n))
         /\ Gapless(SubSeq(f, 1, n))
         /\ CutOff(f, SubSeq(f, 1, n), n)
BY Cut, CutPreserves

LEMMA WrittenWhole ==
  ASSUME NEW f \in Seq(Part), NEW f2 \in Seq(Part), NEW b \in Seq(Entry),
         NEW n \in 0 .. Len(b), Wrote(f, f2, b, n), Len(f2) = Len(f) + n
  PROVE  Whole(f2) <=> Whole(f)
<1>1. /\ \A i \in Readable(f) : i \in Readable(f2)
      /\ Whole(f) => \A i \in 1 .. n : Len(f) + i \in Readable(f2)
      /\ Whole(f2) => Whole(f)
  BY WroteReadable
<1>2. Len(f) \in Nat /\ n \in Nat
  OBVIOUS
<1>3. ASSUME Whole(f), NEW i \in 1 .. Len(f2) PROVE i \in Readable(f2)
  <2>1. CASE i \in 1 .. Len(f)
    BY <1>1, <1>3, <2>1 DEF Whole
  <2>2. CASE i \notin 1 .. Len(f)
    <3>1. i - Len(f) \in 1 .. n /\ Len(f) + (i - Len(f)) = i
      BY <1>2, <2>2
    <3>2. Len(f) + (i - Len(f)) \in Readable(f2)
      BY <1>1, <1>3, <3>1
    <3> QED BY <3>1, <3>2
  <2> QED BY <2>1, <2>2
<1>4. Readable(f2) \subseteq 1 .. Len(f2)
  BY DEF Readable
<1> QED BY <1>1, <1>3, <1>4 DEF Whole

\* What was synced stays as it is behind every write and every cut.
LEMMA SyncedStays ==
  ASSUME NEW f \in Seq(Part), NEW f2 \in Seq(Part), NEW n \in 0 .. Len(f),
         n <= Len(f2), \A i \in 1 .. n : f2[i] = f[i]
  PROVE  SubSeq(f2, 1, n) = SubSeq(f, 1, n)
<1>1. n \in 0 .. Len(f2)
  OBVIOUS
<1>2. /\ SubSeq(f, 1, n) \in Seq(Part)
      /\ Len(SubSeq(f, 1, n)) = n
      /\ \A i \in 1 .. n : SubSeq(f, 1, n)[i] = f[i]
  BY SplitFacts
<1>3. /\ SubSeq(f2, 1, n) \in Seq(Part)
      /\ Len(SubSeq(f2, 1, n)) = n
      /\ \A i \in 1 .. n : SubSeq(f2, 1, n)[i] = f2[i]
  BY <1>1, SplitFacts
<1> QED BY <1>2, <1>3, SeqEquality

LEMMA NothingPends ==
  ASSUME NEW f \in Seq(Part), Gapless(f), Unique(f), NEW s \in Nat,
         Continues(f, <<>>, s)
  PROVE  Pending(f, <<>>, s) = <<>>
<1> DEFINE e == <<>>
           q == Pending(f, e, s)
<1>1. e \in Seq(Entry) /\ Len(e) = 0
  OBVIOUS
<1>2. Fresh(f, e, s) \in 0 .. Len(e) /\ q \in Seq(Payload) /\ Len(q) = Fresh(f, e, s)
  <2> HIDE DEF e
  <2> QED BY <1>1, PendingFacts DEF e
<1> HIDE DEF e, q
<1>3. q \in Seq(Payload) /\ Len(q) = 0
  BY <1>1, <1>2
<1>4. q = <<>>
  BY <1>3
<1> QED BY <1>4 DEF q, e

\* A flush moves what is pending into the log, or a first part of it.
LEMMA FlushRefines ==
  ASSUME FileOK, NEW b \in Seq(Entry), NEW s \in Nat, Continues(file, b, s),
         flushLocked(b, s), seq' = s, handle # "none", handle' # "none"
  PROVE  Abs!FlushOf(Pending(file, b, s))
<1> DEFINE q == Pending(file, b, s)
           w == Log(file)
<1>1. /\ file \in Seq(Part) /\ synced \in 0 .. Len(file)
      /\ Unique(file) /\ Gapless(file)
      /\ Len(file) \in Nat /\ Len(b) \in Nat /\ Len(b) \in 0 .. Len(b)
      /\ SubSeq(b, 1, Len(b)) = b
  BY DEF FileOK
<1>2. q \in Seq(Payload) /\ w \in Seq(Payload)
  BY <1>1, PendingFacts, LogFacts
<1>3. CASE FlushSucceeds(b, s)
  <2>1. file' = file \o b /\ synced' = Len(file') /\ buf' = <<>>
    BY <1>3 DEF FlushSucceeds, Synced, Emptied
  <2>2. /\ file' \in Seq(Part)
        /\ Len(file') = Len(file) + Len(b)
        /\ Wrote(file, file', b, Len(b))
    <3>1. LET f2 == file \o SubSeq(b, 1, Len(b))
          IN f2 \in Seq(Part) /\ Len(f2) = Len(file) + Len(b) /\ Wrote(file, f2, b, Len(b))
      BY <1>1, WholeWrite
    <3>2. file \o SubSeq(b, 1, Len(b)) = file'
      BY <1>1, <2>1
    <3> QED BY <3>1, <3>2
  <2>3. Unique(file') /\ Gapless(file') /\ Continues(file', <<>>, s)
    BY <1>1, <2>2, WrotePreserves
  <2>4. PICK m \in 0 .. Len(q) :
          /\ ~ Whole(file) => m = 0
          /\ Whole(file) /\ Len(b) = Len(b) => m = Len(q)
          /\ Log(file') = w \o SubSeq(q, 1, m)
    <3>1. \E m \in 0 .. Len(q) :
            /\ ~ Whole(file) => m = 0
            /\ Whole(file) /\ Len(b) = Len(b) => m = Len(q)
            /\ Log(file') = w \o SubSeq(q, 1, m)
            /\ Pending(file', b, s) = SubSeq(q, m + 1, Len(q))
      BY <1>1, <2>2, WroteLog
    <3> HIDE DEF q, w
    <3> QED BY <3>1
  <2>5. Log(file') = IF ~ Whole(file) THEN w ELSE w \o q
    <3> HIDE DEF q, w
    <3>1. SubSeq(q, 1, 0) = <<>> /\ w \o <<>> = w /\ SubSeq(q, 1, Len(q)) = q
      BY <1>2
    <3> QED BY <2>4, <3>1
  <2>6. LastNumber(SubSeq(file', 1, synced')) = Len(Log(file'))
    <3>1. SubSeq(file', 1, Len(file')) = file'
      BY <2>2
    <3>2. LastNumber(file') = Len(Log(file'))
      BY <2>2, <2>3, LogFacts
    <3> QED BY <2>1, <3>1, <3>2
  <2>7. Pending(file', buf', seq') = <<>>
    <3>1. Pending(file', <<>>, s) = <<>>
      BY <2>2, <2>3, NothingPends
    <3> QED BY <2>1, <3>1
  <2>8. Whole(file') <=> Whole(file)
    BY <1>1, <2>2, WrittenWhole
  <2>9. Abs!Commit(q)
    <3> HIDE DEF q
    <3> QED BY <2>5, <2>6, <2>7, <2>8 DEF Abs!Commit, Whole, w
  <2> QED BY <2>9 DEF Abs!FlushOf
<1>4. CASE FlushFails(b)
  <2>1. buf' = b /\ synced' = synced
    BY <1>4 DEF FlushFails, Retried
  <2>2. PICK n \in 0 .. Len(b) :
          \/ file' = file \o SubSeq(b, 1, n)
          \/ file' = Append(file \o SubSeq(b, 1, n), Torn)
    BY <1>4 DEF FlushFails
  <2>3. /\ file' \in Seq(Part)
        /\ Len(file') \in {Len(file) + n, Len(file) + n + 1}
        /\ Wrote(file, file', b, n)
    <3> DEFINE g == file \o SubSeq(b, 1, n)
               h == Append(file \o SubSeq(b, 1, n), Torn)
    <3>1. file \in Seq(Part) /\ Len(file) \in Nat
      BY <1>1 DEF FileOK
    <3>2. g \in Seq(Part) /\ Len(g) = Len(file) + n /\ Wrote(file, g, b, n)
      BY <3>1, WholeWrite
    <3>3. h \in Seq(Part) /\ Len(h) = Len(file) + n + 1 /\ Wrote(file, h, b, n)
      BY <3>1, TornWrite
    <3>4. file' = g \/ file' = h
      BY <2>2
    <3> HIDE DEF g, h
    <3>5. CASE file' = g
      BY <3>2, <3>5
    <3>6. CASE file' = h
      BY <3>3, <3>6
    <3> QED BY <3>4, <3>5, <3>6
  <2>4. PICK m \in 0 .. Len(q) :
          /\ ~ Whole(file) => m = 0
          /\ Log(file') = w \o SubSeq(q, 1, m)
          /\ Pending(file', b, s) = SubSeq(q, m + 1, Len(q))
    <3>1. \E m \in 0 .. Len(q) :
            /\ ~ Whole(file) => m = 0
            /\ Whole(file) /\ n = Len(b) => m = Len(q)
            /\ Log(file') = w \o SubSeq(q, 1, m)
            /\ Pending(file', b, s) = SubSeq(q, m + 1, Len(q))
      BY <1>1, <2>3, WroteLog
    <3> HIDE DEF q, w
    <3> QED BY <3>1
  <2>5. Pending(file', buf', seq') = SubSeq(q, m + 1, Len(q))
    BY <2>1, <2>4
  <2>6. SubSeq(file', 1, synced') = SubSeq(file, 1, synced)
    <3>1. synced <= Len(file') /\ \A i \in 1 .. synced : file'[i] = file[i]
      BY <1>1, <2>3 DEF Wrote
    <3>2. SubSeq(file', 1, synced) = SubSeq(file, 1, synced)
      BY <1>1, <2>3, <3>1, SyncedStays
    <3> QED BY <2>1, <3>2
  <2>7. Whole(file') => Whole(file)
    BY <1>1, <2>3, WroteReadable
  <2>8. Abs!CommitPart(q)
    <3> HIDE DEF q
    <3>1. (~ Whole(file')) \in {~ Whole(file), TRUE}
      BY <2>7
    <3> QED BY <2>4, <2>5, <2>6, <3>1 DEF Abs!CommitPart, Whole, w
  <2> QED BY <2>8 DEF Abs!FlushOf
<1> QED BY <1>3, <1>4 DEF flushLocked

LEMMA OpenRefines == IInv /\ IInv' /\ OpenWAL => Abs!Start
<1> SUFFICES ASSUME IInv, IInv', OpenWAL PROVE Abs!Start
  OBVIOUS
<1>1. /\ handle = "none" /\ handle' = "open" /\ buf' = <<>> /\ file' = file
      /\ synced' = synced
  BY DEF OpenWAL
<1>2. Continues(file', buf', seq') /\ seq' \in Nat
  BY <1>1 DEF IInv, MemoryOK, TypeOK
<1>3. Pending(file', buf', seq') = <<>>
  <2> DEFINE t == seq'
  <2>1. Continues(file, <<>>, t) /\ t \in Nat
    BY <1>1, <1>2
  <2>2. file \in Seq(Part) /\ Gapless(file) /\ Unique(file)
    BY DEF IInv, FileOK
  <2>3. Pending(file, <<>>, t) = <<>>
    <3> HIDE DEF t
    <3> QED BY <2>1, <2>2, NothingPends
  <2> QED BY <1>1, <2>3
<1> QED BY <1>1, <1>3 DEF Abs!Start

LEMMA AppendRefines ==
  ASSUME IInv, NEW payload \in Payload, AppendEntry(payload)
  PROVE  Abs!LogNext
<1> DEFINE b == Append(buf, [seq |-> seq + 1, payload |-> payload])
           q == Pending(file, buf, seq)
           s == seq + 1
<1>1. /\ handle # "none"
      /\ seq' = s
      /\ handle' = handle
      /\ \/ flushLocked(b, s)
         \/ /\ buf' = b
            /\ UNCHANGED <<file, synced>>
  BY DEF AppendEntry
<1>2. /\ buf \in Seq(Entry)
      /\ seq \in Nat
      /\ s \in Nat
      /\ file \in Seq(Part) /\ Gapless(file) /\ Unique(file)
      /\ Continues(file, buf, seq)
  BY <1>1 DEF IInv, TypeOK, FileOK, MemoryOK
<1>3. b \in Seq(Entry) /\ Continues(file, b, s)
  BY <1>2, AppendedContinues
<1>4. Pending(file, b, s) = Append(q, payload)
  BY <1>2, AppendedPends
<1> HIDE DEF b, s
<1>5. CASE flushLocked(b, s)
  <2>1. Abs!FlushOf(Pending(file, b, s))
    BY <1>1, <1>2, <1>3, <1>5, FlushRefines DEF IInv
  <2>2. Abs!FlushOf(Append(q, payload))
    BY <1>4, <2>1
  <2> QED BY <1>1, <2>2 DEF Abs!LogNext
<1>6. CASE buf' = b /\ UNCHANGED <<file, synced>>
  <2>1. Pending(file', buf', seq') = Append(q, payload)
    BY <1>1, <1>4, <1>6
  <2>2. Abs!Accept(payload)
    BY <1>1, <1>6, <2>1 DEF Abs!Accept
  <2> QED BY <2>2 DEF Abs!LogNext
<1> QED BY <1>1, <1>5, <1>6

LEMMA FlushesRefine == IInv /\ Flush => Abs!LogNext
<1> SUFFICES ASSUME IInv, Flush PROVE Abs!LogNext
  OBVIOUS
<1>1. handle # "none" /\ handle' = handle /\ seq' = seq /\ flushLocked(buf, seq)
  BY DEF Flush
<1>2. FileOK /\ buf \in Seq(Entry) /\ seq \in Nat /\ Continues(file, buf, seq)
  BY <1>1 DEF IInv, TypeOK, MemoryOK
<1>3. Abs!FlushOf(Pending(file, buf, seq))
  BY <1>1, <1>2, FlushRefines
<1> QED BY <1>1, <1>3 DEF Abs!LogNext

LEMMA CloseRefines == IInv /\ CloseFlush => Abs!LogNext
<1> SUFFICES ASSUME IInv, CloseFlush PROVE Abs!LogNext
  OBVIOUS
<1>1. /\ handle # "none" /\ handle' # "none" /\ seq' = seq
      /\ flushLocked(buf, seq)
  BY DEF CloseFlush
<1>2. FileOK /\ buf \in Seq(Entry) /\ seq \in Nat /\ Continues(file, buf, seq)
  BY <1>1 DEF IInv, TypeOK, MemoryOK
<1>3. Abs!FlushOf(Pending(file, buf, seq))
  BY <1>1, <1>2, FlushRefines
<1> QED BY <1>1, <1>3 DEF Abs!LogNext

\* What is cut off was not synced: the log keeps a beginning, the synced part in it.
LEMMA PowerFailureRefines == IInv /\ PowerFailure => Abs!LosePower
<1> SUFFICES ASSUME IInv, PowerFailure PROVE Abs!LosePower
  OBVIOUS
<1>1. /\ file \in Seq(Part) /\ synced \in 0 .. Len(file) /\ Len(file) \in Nat
      /\ Unique(file) /\ Gapless(file)
  BY DEF IInv, FileOK
<1>2. handle' = "none" /\ synced' = synced
  BY DEF PowerFailure, Gone
<1>3. PICK n \in synced .. Len(file) :
        \/ file' = SubSeq(file, 1, n)
        \/ file' = Append(SubSeq(file, 1, n), Torn)
  BY DEF PowerFailure
<1>4. n \in 0 .. Len(file) /\ synced <= n
  BY <1>1
<1>5. /\ file' \in Seq(Part)
      /\ Len(file') \in {n, n + 1}
      /\ CutOff(file, file', n)
  BY <1>1, <1>3, <1>4, Cut
<1>6. Unique(file') /\ Gapless(file') /\ Entries(file') \subseteq Entries(file)
  BY <1>1, <1>4, <1>5, CutPreserves
<1> DEFINE k == SubSeq(file, 1, synced)
<1>7. SubSeq(file', 1, synced') = k
  <2>1. synced <= Len(file') /\ \A i \in 1 .. synced : file'[i] = file[i]
    BY <1>1, <1>4, <1>5 DEF CutOff
  <2>2. SubSeq(file', 1, synced) = k
    BY <1>1, <1>5, <2>1, SyncedStays
  <2> QED BY <1>2, <2>2
<1>8. k \in Seq(Part) /\ Unique(k) /\ Gapless(k) /\ CutOff(file, k, synced)
  BY <1>1, SyncedPart
<1>9. Entries(k) \subseteq Entries(file')
  <2>1. ASSUME NEW i \in Readable(k) PROVE k[i] \in Entries(file')
    <3>1. i \in Readable(file) /\ k[i] = file[i]
      BY <1>1, <1>8, <2>1, CutOffReadable
    <3>2. i \in Nat /\ i <= synced
      <4>1. Len(k) = synced
        BY <1>1
      <4> HIDE DEF k
      <4> QED BY <1>1, <4>1 DEF Readable
    <3>3. i <= n
      BY <1>1, <1>4, <3>2
    <3>4. i \in Readable(file') /\ file'[i] = file[i]
      BY <1>1, <1>4, <1>5, <3>1, <3>3, CutOffReadable
    <3> QED BY <3>1, <3>4 DEF Entries
  <2> HIDE DEF k
  <2> QED BY <2>1 DEF Entries
<1>10. LastNumber(k) \in 0 .. LastNumber(file')
  <2> HIDE DEF k
  <2> QED BY <1>5, <1>6, <1>8, <1>9, LogPrefix
<1>11. /\ LastNumber(file') \in 0 .. LastNumber(file)
       /\ Log(file') = SubSeq(Log(file), 1, LastNumber(file'))
       /\ Len(Log(file)) = LastNumber(file) /\ LastNumber(file) \in Nat
  BY <1>1, <1>5, <1>6, LogPrefix, LogFacts
<1> HIDE DEF k
<1>12. LastNumber(file') \in LastNumber(k) .. Len(Log(file))
  BY <1>10, <1>11
<1>13. \E m \in LastNumber(k) .. Len(Log(file)) : Log(file') = SubSeq(Log(file), 1, m)
  BY <1>11, <1>12
<1>14. LastNumber(SubSeq(file', 1, synced')) = LastNumber(k)
  BY <1>7
<1>15. (Readable(file') # 1 .. Len(file')) \in BOOLEAN
  OBVIOUS
<1> QED BY <1>2, <1>13, <1>14, <1>15 DEF Abs!LosePower, k

LEMMA NextRefines ==
  ASSUME IInv, IInv', [Next]_vars
  PROVE  [Abs!LogNext]_(Abs!logVars)
<1>1. CASE OpenWAL
  BY <1>1, OpenRefines DEF Abs!LogNext
<1>2. CASE Flush \/ CloseFlush
  BY <1>2, FlushesRefine, CloseRefines
<1>3. CASE \E payload \in Payload : AppendEntry(payload)
  BY <1>3, AppendRefines
<1>4. CASE CloseFile
  <2>1. handle # "none" /\ handle' # "none" /\ UNCHANGED <<file, synced, buf, seq>>
    BY <1>4 DEF CloseFile
  <2> QED BY <2>1 DEF Abs!logVars
<1>5. CASE Kill
  <2>1. handle # "none" /\ handle' = "none" /\ UNCHANGED <<file, synced>>
    BY <1>5 DEF Kill, Gone
  <2>2. Abs!Stop
    BY <2>1 DEF Abs!Stop
  <2> QED BY <2>2 DEF Abs!LogNext
<1>6. CASE PowerFailure
  BY <1>6, PowerFailureRefines DEF Abs!LogNext
<1>7. CASE UNCHANGED vars
  BY <1>7 DEF vars, Abs!logVars
<1> QED BY <1>1, <1>2, <1>3, <1>4, <1>5, <1>6, <1>7 DEF Next

LEMMA InitRefines == Init => Abs!LogInit
<1> SUFFICES ASSUME Init PROVE Abs!LogInit
  OBVIOUS
<1>1. file = <<>> /\ synced = 0 /\ handle = "none"
  BY DEF Init
<1>2. IInv
  BY InitIInv
<1>3. Readable(file) = {} /\ Len(file) = 0 /\ 1 .. Len(file) = {}
  BY <1>1 DEF Readable
<1>4. Numbers(file) = {}
  BY <1>3 DEF Numbers, Entries
<1>5. /\ LastNumber(file) \in Nat /\ Numbers(file) = 1 .. LastNumber(file)
      /\ Log(file) \in Seq(Payload) /\ Len(Log(file)) = LastNumber(file)
  BY <1>2, LogFacts DEF IInv, FileOK
<1>6. LastNumber(file) = 0
  <2>1. LastNumber(file) \notin 1 .. LastNumber(file)
    BY <1>4, <1>5
  <2> QED BY <1>5, <2>1
<1>7. Log(file) = <<>>
  BY <1>5, <1>6
<1>8. SubSeq(file, 1, synced) = file
  BY <1>1
<1> QED BY <1>1, <1>3, <1>6, <1>7, <1>8 DEF Abs!LogInit

-----------------------------------------------------------------------------
(* Theorems *)

LEMMA SpecIInv == Spec => []IInv
BY InitIInv, NextIInv, PTL DEF Spec

\* wal.go: the counters and the buffer keep their ranges through Append, Flush,
\* Close and OpenWAL; flushed never runs ahead of seq.
THEOREM WALTypeCorrect == Spec => []TypeOK
<1>1. IInv => TypeOK
  BY DEF IInv
<1> QED BY <1>1, SpecIInv, PTL

\* wal.go, flushLocked and replaySeq: whatever is written twice by a flush that
\* is tried again, or numbered by a process that starts from a log cut short,
\* no two entries that ReadAll returns have one number and differ.
THEOREM OneEntryPerNumber == Spec => []SameSeqSameEntry
<1>1. IInv => SameSeqSameEntry
  BY DEF IInv, FileOK, Unique, SameSeqSameEntry
<1> QED BY <1>1, SpecIInv, PTL

\* wal.go, Append, flushLocked and replaySeq: what ReadAll returns begins with
\* number 1, and no number comes before the one in front of it has.
THEOREM LogHasNoGaps == Spec => []NoGaps
<1>1. IInv => NoGaps
  BY DEF IInv, FileOK, Gapless, NoGaps
<1> QED BY <1>1, SpecIInv, PTL

\* wal.go, Append and flushLocked: what is in the buffer carries the last
\* numbers, and a number of it that is in the log already, after a flush that
\* failed half-way, is there with the same entry.
THEOREM BufferContinues == Spec => []BufferContinuesLog
<1>1. IInv => BufferContinuesLog
  BY DEF IInv, MemoryOK, Continues, BufferContinuesLog
<1> QED BY <1>1, SpecIInv, PTL

\* wal.go, flushLocked: what a flush that returned nil has written behind whole
\* entries is returned by ReadAll for ever, whatever is killed, cut by a power
\* failure or torn by a later write.
THEOREM FlushedEntriesSurvive == Spec => []FlushedSurvive
<1>1. IInv => FlushedSurvive
  BY DEF IInv, FileOK, Kept, Entries, FlushedSurvive
<1> QED BY <1>1, SpecIInv, PTL

\* wal.go, all of Append, Flush, Close, OpenWAL and ReadAll, through failed
\* flushes, kills and power failures: who applies each number once reads a log
\* in which every accepted entry has one place, the order is that of Append, a
\* flush that succeeds makes all of it durable, and no crash takes more than the
\* end of it.
THEOREM WALIsDurableLog == Spec => ImplementsDurableLog
BY InitRefines, NextRefines, SpecIInv, PTL DEF Spec, ImplementsDurableLog, Abs!LogSpec

=============================================================================
