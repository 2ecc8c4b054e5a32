---------------------------- MODULE BloomFilter ----------------------------
(***************************************************************************)
(* The Bloom filter every other component is built on: internal/hash and   *)
(* the core of internal/filter.  A filter is the triple of the Go struct,  *)
(* m positions, k hash functions and the bit array; the array is the set   *)
(* of the indices whose bit is 1, so that f.bits[i] |= 1 << j is a union.  *)
(***************************************************************************)
EXTENDS Integers

CONSTANTS
  Item,      \* the byte strings that are added and tested
  HashWord,  \* 2^64 in the program: the width of h1 + i*h2
  Fnv64a,    \* h1 of each item: FNV-1a of the Go library
  Fnv64      \* h2 of each item: FNV-1 of the Go library

ASSUME HashAssumption ==
  /\ HashWord \in Nat \ {0}
  /\ Fnv64a \in [Item -> 0 .. HashWord - 1]
  /\ Fnv64  \in [Item -> 0 .. HashWord - 1]

\* Mutant: the index is not reduced modulo m.
HashUnreduced(data, i, m) == (Fnv64a[data] + i * Fnv64[data]) % HashWord

\* Double hashing: the product and the sum wrap at the width of a word
\* before they are reduced modulo m.
Hash(data, i, m) ==
  IF m = 0 THEN 0
           ELSE ((Fnv64a[data] + i * Fnv64[data]) % HashWord) % m

\* The indices that Add sets and Test reads.
Positions(data, k, m) == {Hash(data, i, m) : i \in 0 .. k - 1}

\* m and k are positive, and no bit lies behind the m-th.
Filter ==
  {f \in [m : Nat \ {0}, k : Nat \ {0}, bits : SUBSET Nat] :
     f.bits \subseteq 0 .. f.m - 1}

\* A nil *BloomFilter: what New and codec.Unmarshal return beside an error.
NilFilter == [m |-> 0, k |-> 0, bits |-> {}]

FilterOrNil == Filter \cup {NilFilter}

\* New and NewFromParts reject a zero m or k.
ValidParams(m, k) == m > 0 /\ k > 0

NewFilter(m, k) ==
  IF ValidParams(m, k) THEN [m |-> m, k |-> k, bits |-> {}] ELSE NilFilter

\* Mutant: the loop stops one hash function early.
AddItemShort(f, data) == [f EXCEPT !.bits = @ \cup Positions(data, f.k - 1, f.m)]

AddItem(f, data) == [f EXCEPT !.bits = @ \cup Positions(data, f.k, f.m)]

\* Adding items one after the other, in whatever order.
AddItems(f, S) ==
  [f EXCEPT !.bits = @ \cup UNION {Positions(data, f.k, f.m) : data \in S}]

TestItem(f, data) == Positions(data, f.k, f.m) \subseteq f.bits

=============================================================================
