--------------------------- MODULE HashStrategies ---------------------------
(***************************************************************************)
(* The other index functions of internal/hash: enhanced.go, and the double *)
(* hashing of murmur3.go.  The hashes of byte strings are constants, any   *)
(* functions into a word; what is made of them wraps at the word's width.  *)
(* Filters use Hash only.                                                  *)
(***************************************************************************)
EXTENDS BloomFilter

CONSTANTS
  SeededFnv64a,        \* h3: FNV-1a behind a salt byte
  Murmur3h1, Murmur3h2,
  CounterFnv64a(_, _)  \* FNV-1a of an item followed by a number

StrategyAssumption ==
  /\ SeededFnv64a \in [Item -> 0 .. HashWord - 1]
  /\ Murmur3h1 \in [Item -> 0 .. HashWord - 1]
  /\ Murmur3h2 \in [Item -> 0 .. HashWord - 1]
  /\ \A data \in Item, i \in Nat : CounterFnv64a(data, i) \in 0 .. HashWord - 1

Strategy == {"FNV", "Murmur3", "EnhancedDouble", "Triple"}

\* A uint64 reduced modulo m.
Index(x, m) == IF m = 0 THEN 0 ELSE (x % HashWord) % m

Murmur3Hash(data, i, m) == Index(Murmur3h1[data] + i * Murmur3h2[data], m)

\* i * (i - 1) wraps before it is halved.
EnhancedDoubleHash(data, i, m) ==
  Index(Fnv64a[data] + i * Fnv64[data] + ((i * (i - 1)) % HashWord) \div 2, m)

TripleHash(data, i, m) ==
  Index(Fnv64a[data] + i * Fnv64[data] + i * i * SeededFnv64a[data], m)

HashWithStrategy(data, i, m, s) ==
  CASE s = "Murmur3" -> Murmur3Hash(data, i, m)
    [] s = "EnhancedDouble" -> EnhancedDoubleHash(data, i, m)
    [] s = "Triple" -> TripleHash(data, i, m)
    [] OTHER -> Hash(data, i, m)

MultiHash(data, k, m, s) ==
  IF m = 0 \/ k = 0 THEN <<>>
  ELSE [j \in 1 .. k |-> HashWithStrategy(data, j - 1, m, s)]

IndependentHashes(data, k, m) ==
  IF m = 0 \/ k = 0 THEN <<>>
  ELSE [j \in 1 .. k |-> CounterFnv64a(data, j - 1) % m]

=============================================================================
