------------------------------- MODULE Merge -------------------------------
(***************************************************************************)
(* internal/merge and internal/filter/ops.go: the combination of filters   *)
(* of one m and one k.  NilFilter stands for the errors.                   *)
(***************************************************************************)
EXTENDS BloomFilter, Sequences

\* None of the filters is nil, and all have the parameters of the first.
Mergeable(fs) ==
  /\ fs # <<>>
  /\ \A i \in DOMAIN fs : fs[i] # NilFilter /\ fs[i].m = fs[1].m /\ fs[i].k = fs[1].k

WithBits(f, bits) == [m |-> f.m, k |-> f.k, bits |-> bits]

UnionMany(fs) ==
  IF Mergeable(fs)
  THEN WithBits(fs[1], UNION {fs[i].bits : i \in DOMAIN fs})
  ELSE NilFilter

IntersectionMany(fs) ==
  IF Mergeable(fs)
  THEN WithBits(fs[1], {b \in fs[1].bits : \A i \in DOMAIN fs : b \in fs[i].bits})
  ELSE NilFilter

Union(a, b) == UnionMany(<<a, b>>)

Intersection(a, b) == IntersectionMany(<<a, b>>)

Difference(a, b) ==
  IF Mergeable(<<a, b>>) THEN WithBits(a, a.bits \ b.bits) ELSE NilFilter

-----------------------------------------------------------------------------
(* The methods of ops.go *)

\* What f is after a method that combines it with another filter in place: an
\* error leaves it alone.
InPlace(f, result) == IF result = NilFilter THEN f ELSE result

Combines(f, other, bits) ==
  InPlace(f, IF Mergeable(<<f, other>>) THEN WithBits(f, bits) ELSE NilFilter)

UnionWith(f, other) == Combines(f, other, f.bits \cup other.bits)

IntersectWith(f, other) == Combines(f, other, f.bits \cap other.bits)

DifferenceWith(f, other) == Combines(f, other, f.bits \ other.bits)

XORWith(f, other) ==
  Combines(f, other, (f.bits \ other.bits) \cup (other.bits \ f.bits))

ResetFilter(f) == WithBits(f, {})

SetBit(f, pos) == IF pos >= f.m THEN f ELSE WithBits(f, f.bits \cup {pos})

ClearBit(f, pos) == IF pos >= f.m THEN f ELSE WithBits(f, f.bits \ {pos})

GetBit(f, pos) == pos < f.m /\ pos \in f.bits

Equals(f, other) ==
  other # NilFilter /\ f.m = other.m /\ f.k = other.k /\ f.bits = other.bits

IsEmpty(f) == f.bits = {}

=============================================================================
