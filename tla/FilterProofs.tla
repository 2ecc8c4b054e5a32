---------------------------- MODULE FilterProofs ----------------------------
(***************************************************************************)
(* What the operators return that the state machines are built from, for   *)
(* every hash function, every width of the words and every m and k: of     *)
(* BloomFilter, HashStrategies, Codec and Merge.                           *)
(***************************************************************************)
EXTENDS Codec, Merge, HashStrategies, FiniteSetTheorems, TLAPS

-----------------------------------------------------------------------------
(* Remainders *)

\* What a remainder is.
LEMMA ModUnique ==
  ASSUME NEW n \in Nat \ {0}, NEW q \in Int, NEW r \in 0 .. n - 1
  PROVE  (n * q + r) % n = r
<1> DEFINE a == n * q + r
           p == a \div n
           s == a % n
<1>1. a \in Int /\ p \in Int /\ s \in 0 .. n - 1 /\ a = n * p + s
  OBVIOUS
<1>2. n * p + s = n * q + r
  BY <1>1
<1> HIDE DEF a, p, s
<1>3. n * (p - q) = r - s
  BY <1>1, <1>2
<1>4. ASSUME p - q >= 1 PROVE FALSE
  <2>1. n * (p - q) >= n
    BY <1>1, <1>4
  <2> QED BY <2>1, <1>1, <1>3
<1>5. ASSUME p - q <= -1 PROVE FALSE
  <2>1. n * (p - q) <= -n
    BY <1>1, <1>5
  <2> QED BY <2>1, <1>1, <1>3
<1>6. ASSUME p = q PROVE s = r
  BY <1>1, <1>3, <1>6
<1>7. s = r
  BY <1>1, <1>4, <1>5, <1>6
<1> QED BY <1>7 DEF a, s

LEMMA ModParts ==
  ASSUME NEW n \in Nat \ {0}, NEW a \in Int
  PROVE  /\ a \div n \in Int
         /\ a % n \in 0 .. n - 1
         /\ a = n * (a \div n) + (a % n)
OBVIOUS

LEMMA ModSmall ==
  ASSUME NEW n \in Nat \ {0}, NEW r \in 0 .. n - 1
  PROVE  r % n = r
OBVIOUS

LEMMA ModSelf ==
  ASSUME NEW n \in Nat \ {0}
  PROVE n % n = 0
<1>1. (n * 1 + 0) % n = 0
  BY ModUnique
<1> QED BY <1>1

\* The next remainder.
LEMMA ModSucc ==
  ASSUME NEW n \in Nat \ {0}, NEW a \in Int
  PROVE  ((a % n) + 1) % n = (a + 1) % n
<1> DEFINE q == a \div n
           r == a % n
<1>1. q \in Int /\ r \in 0 .. n - 1 /\ a = n * q + r
  BY ModParts
<1> HIDE DEF q, r
<1>2. CASE r + 1 < n
  <2>1. a + 1 = n * q + (r + 1) /\ r + 1 \in 0 .. n - 1
    BY <1>1, <1>2
  <2> QED BY <2>1, <1>1, ModUnique, ModSmall DEF r
<1>3. CASE r + 1 = n
  <2>1. a + 1 = n * (q + 1) + 0 /\ 0 \in 0 .. n - 1 /\ q + 1 \in Int
    BY <1>1, <1>3
  <2>2. (a + 1) % n = 0
    BY <2>1, ModUnique
  <2>3. (r + 1) % n = 0
    BY <1>3, ModSelf
  <2> QED BY <2>2, <2>3 DEF r
<1> QED BY <1>1, <1>2, <1>3

LEMMA ModPred ==
  ASSUME NEW n \in Nat \ {0}, NEW a \in Int, a % n # 0
  PROVE  (a - 1) % n = (a % n) - 1
<1> DEFINE q == a \div n
           r == a % n
<1>1. q \in Int /\ r \in 0 .. n - 1 /\ a = n * q + r
  BY ModParts
<1>2. r # 0
  OBVIOUS
<1> HIDE DEF q, r
<1>3. a - 1 = n * q + (r - 1) /\ r - 1 \in 0 .. n - 1
  BY <1>1, <1>2
<1>4. (a - 1) % n = r - 1
  BY <1>1, <1>3, ModUnique
<1> QED BY <1>4 DEF r

LEMMA ModDifference ==
  ASSUME NEW n \in Nat \ {0}, NEW r \in 0 .. n - 1, NEW b \in Int, (r - b) % n = 0
  PROVE  b % n = r
<1> DEFINE q == (r - b) \div n
<1>1. q \in Int /\ r - b = n * q + 0
  BY ModParts
<1> HIDE DEF q
<1>2. b = n * (-q) + r /\ -q \in Int
  BY <1>1
<1> QED BY <1>2, ModUnique

\* What is reduced at all is reduced by the modulus or more.
LEMMA ModBelow ==
  ASSUME NEW n \in Nat \ {0}, NEW a \in Nat, a >= n
  PROVE  a % n \in Nat /\ a % n <= a - n
<1> DEFINE q == a \div n
           r == a % n
<1>1. q \in Int /\ r \in 0 .. n - 1 /\ a = (n * q) + r
  BY ModParts
<1> HIDE DEF q, r
<1>2. q >= 1
  <2> SUFFICES ASSUME q <= 0 PROVE FALSE
    BY <1>1
  <2>1. n * q <= 0
    BY <1>1
  <2> QED BY <1>1, <2>1
<1>3. n * q >= n
  BY <1>1, <1>2
<1>4. r \in Nat /\ r <= a - n
  BY <1>1, <1>3
<1> QED BY <1>4 DEF r

\* Numbers with one remainder, less than the modulus apart, are the same.
LEMMA ModSame ==
  ASSUME NEW n \in Nat \ {0}, NEW a \in Int, NEW b \in Int,
         a % n = b % n, a <= b, b < a + n
  PROVE  a = b
<1> DEFINE p == a \div n
           q == b \div n
           r == a % n
<1>1. p \in Int /\ r \in 0 .. n - 1 /\ a = (n * p) + r
  BY ModParts
<1>2. q \in Int /\ b = (n * q) + r
  <2>1. b = (n * q) + (b % n) /\ q \in Int
    BY ModParts
  <2> QED BY <2>1
<1> HIDE DEF p, q, r
<1>3. n * q - n * p = n * (q - p) /\ n * p \in Int /\ n * q \in Int
  BY <1>1, <1>2
<1>4. n * (q - p) >= 0 /\ n * (q - p) < n
  BY <1>1, <1>2, <1>3
<1>5. q - p >= 0
  <2> SUFFICES ASSUME q - p <= -1 PROVE FALSE
    BY <1>1, <1>2
  <2>1. n * (q - p) <= -n
    BY <1>1, <1>2
  <2> QED BY <1>1, <1>2, <1>4, <2>1
<1>6. q - p <= 0
  <2> SUFFICES ASSUME q - p >= 1 PROVE FALSE
    BY <1>1, <1>2
  <2>1. n * (q - p) >= n
    BY <1>1, <1>2
  <2> QED BY <1>1, <1>2, <1>4, <2>1
<1>7. p = q
  BY <1>1, <1>2, <1>5, <1>6
<1> QED BY <1>1, <1>2, <1>7

\* Remainders may be taken before or after adding.
LEMMA ModPlus ==
  ASSUME NEW n \in Nat \ {0}, NEW a \in Int, NEW b \in Int
  PROVE  ((a % n) + b) % n = (a + b) % n
<1> DEFINE q == a \div n
           r == a % n
           c == r + b
           p == c \div n
           s == c % n
<1>1. q \in Int /\ r \in 0 .. n - 1 /\ a = n * q + r
  BY ModParts
<1>2. c \in Int
  BY <1>1
<1>3. p \in Int /\ s \in 0 .. n - 1 /\ c = n * p + s
  <2> HIDE DEF c
  <2> QED BY <1>2, ModParts
<1> HIDE DEF q, r, p, s
<1>4. a + b = n * (q + p) + s /\ q + p \in Int
  BY <1>1, <1>3
<1>5. (a + b) % n = s
  BY <1>3, <1>4, ModUnique
<1> QED BY <1>5 DEF s, r

-----------------------------------------------------------------------------
(* Sums *)

Pick(s) == CHOOSE x \in s : TRUE

\* Induction over the subsets of a finite set: G has the good ones.
LEMMA StrongSubsetInduction ==
  ASSUME NEW S, IsFiniteSet(S), NEW G,
         \A T \in SUBSET S : (\A U \in SUBSET T : U # T => U \in G) => T \in G
  PROVE  \A T \in SUBSET S : T \in G
<1> DEFINE Bad == {T \in SUBSET S : T \notin G}
           R == StrictSubsetOrdering(S)
<1> SUFFICES ASSUME Bad # {} PROVE FALSE
  OBVIOUS
<1>1. IsWellFoundedOn(R, FiniteSubsetsOf(S)) /\ FiniteSubsetsOf(S) = SUBSET S
  BY FS_StrictSubsetOrderingWellFounded, FS_FiniteSubsetsOfFinite
<1>2. PICK T \in Bad : \A U \in Bad : <<U, T>> \notin R
  <2>1. Bad \subseteq FiniteSubsetsOf(S)
    BY <1>1
  <2> HIDE DEF Bad, R
  <2> QED BY <1>1, <2>1, WFMin
<1>3. ASSUME NEW U \in SUBSET T, U # T PROVE U \in G
  <2>1. <<U, T>> \in R
    BY <1>3 DEF StrictSubsetOrdering
  <2> QED BY <1>2, <2>1
<1> QED BY <1>3

\* And one element at a time.
LEMMA SubsetInduction ==
  ASSUME NEW S, IsFiniteSet(S), NEW G,
         {} \in G,
         \A T \in SUBSET S : T # {} /\ T \ {Pick(T)} \in G => T \in G
  PROVE  \A T \in SUBSET S : T \in G
<1>1. ASSUME NEW T \in SUBSET S, \A U \in SUBSET T : U # T => U \in G PROVE T \in G
  <2>1. T # {} => Pick(T) \in T
    BY DEF Pick
  <2>2. T # {} => T \ {Pick(T)} \in SUBSET T /\ T \ {Pick(T)} # T
    BY <2>1
  <2> QED BY <1>1, <2>2
<1> QED BY <1>1, StrongSubsetInduction

\* The function by which FoldFunctionOnSet adds up the values of f.
IsIter(g, f, S) ==
  g = [s \in SUBSET S |-> IF s = {} THEN 0 ELSE f[Pick(s)] + g[s \ {Pick(s)}]]

Iter(f, S) == CHOOSE g : IsIter(g, f, S)

LEMMA SumIsIter == \A f, S : SumFunctionOnSet(f, S) = Iter(f, S)[S]
BY DEF SumFunctionOnSet, FoldFunctionOnSet, MapThenFoldSet, Iter, IsIter, Pick

LEMMA IterUnique ==
  ASSUME NEW S, IsFiniteSet(S), NEW f, NEW g, NEW h, IsIter(g, f, S), IsIter(h, f, S)
  PROVE  g = h
<1> DEFINE G == {T \in SUBSET S : g[T] = h[T]}
<1>1. {} \in G
  BY DEF IsIter
<1>2. ASSUME NEW T \in SUBSET S, T # {}, T \ {Pick(T)} \in G PROVE T \in G
  BY <1>2 DEF IsIter
<1>3. \A T \in SUBSET S : T \in G
  <2> HIDE DEF G
  <2> QED BY <1>1, <1>2, SubsetInduction
<1>4. \A T \in SUBSET S : g[T] = h[T]
  BY <1>3
<1> QED BY <1>4 DEF IsIter

\* It is the same for the subsets.
LEMMA IterRestrict ==
  ASSUME NEW S, NEW T \in SUBSET S, NEW f, NEW g, IsIter(g, f, S)
  PROVE  IsIter([s \in SUBSET T |-> g[s]], f, T)
<1> DEFINE h == [s \in SUBSET T |-> g[s]]
<1>1. \A s \in SUBSET T : s \in SUBSET S /\ s \ {Pick(s)} \in SUBSET T
  OBVIOUS
<1>2. \A s \in SUBSET S : g[s] = IF s = {} THEN 0 ELSE f[Pick(s)] + g[s \ {Pick(s)}]
  BY DEF IsIter
<1>3. \A s \in SUBSET T : h[s] = IF s = {} THEN 0 ELSE f[Pick(s)] + h[s \ {Pick(s)}]
  BY <1>1, <1>2
<1>4. h = [s \in SUBSET T |-> h[s]]
  OBVIOUS
<1> HIDE DEF h
<1>5. h = [s \in SUBSET T |-> IF s = {} THEN 0 ELSE f[Pick(s)] + h[s \ {Pick(s)}]]
  BY <1>3, <1>4
<1> QED BY <1>5 DEF h, IsIter

LEMMA IterExists ==
  ASSUME NEW S, IsFiniteSet(S), NEW f
  PROVE  IsIter(Iter(f, S), f, S)
<1> DEFINE G == {T \in SUBSET S : IsIter(Iter(f, T), f, T)}
<1>1. ASSUME NEW T \in SUBSET S, \A U \in SUBSET T : U # T => U \in G PROVE T \in G
  <2> DEFINE v(s) == Iter(f, s)[s]
             g == [s \in SUBSET T |-> IF s = {} THEN 0 ELSE f[Pick(s)] + v(s \ {Pick(s)})]
  <2>1. ASSUME NEW s \in SUBSET T, s # T PROVE g[s] = v(s)
    <3>1. IsIter(Iter(f, s), f, s)
      BY <1>1, <2>1
    <3>2. CASE s = {}
      <4>1. s \in SUBSET s
        OBVIOUS
      <4> QED BY <3>1, <3>2, <4>1 DEF IsIter
    <3>3. CASE s # {}
      <4> DEFINE r == s \ {Pick(s)}
      <4>1. Pick(s) \in s
        BY <3>3 DEF Pick
      <4>2. r \in SUBSET s /\ r \in SUBSET T /\ r # T /\ s \in SUBSET s /\ r \in SUBSET r
        BY <4>1
      <4>3. IsIter(Iter(f, r), f, r)
        BY <1>1, <4>2
      <4> HIDE DEF r
      <4>4. IsIter([w \in SUBSET r |-> Iter(f, s)[w]], f, r)
        BY <3>1, <4>2, IterRestrict
      <4>5. IsFiniteSet(r)
        BY <4>2, FS_Subset
      <4>6. [w \in SUBSET r |-> Iter(f, s)[w]] = Iter(f, r)
        BY <4>3, <4>4, <4>5, IterUnique
      <4>7. Iter(f, s)[r] = v(r)
        BY <4>2, <4>6
      <4>8. Iter(f, s)[s] = f[Pick(s)] + Iter(f, s)[r]
        BY <3>1, <3>3, <4>2 DEF IsIter, r
      <4>9. g[s] = f[Pick(s)] + v(r)
        BY <3>3 DEF r
      <4> QED BY <4>7, <4>8, <4>9
    <3> QED BY <3>2, <3>3
  <2>2. ASSUME NEW s \in SUBSET T, s # {}
        PROVE  s \ {Pick(s)} \in SUBSET T /\ s \ {Pick(s)} # T
    BY <2>2 DEF Pick
  <2>3. \A s \in SUBSET T :
          g[s] = IF s = {} THEN 0 ELSE f[Pick(s)] + g[s \ {Pick(s)}]
    BY <2>1, <2>2
  <2>4. g = [s \in SUBSET T |-> g[s]]
    OBVIOUS
  <2> HIDE DEF g, v
  <2>5. g = [s \in SUBSET T |-> IF s = {} THEN 0 ELSE f[Pick(s)] + g[s \ {Pick(s)}]]
    BY <2>3, <2>4
  <2>6. IsIter(g, f, T)
    BY <2>5 DEF IsIter
  <2>7. IsIter(Iter(f, T), f, T)
    BY <2>6 DEF Iter
  <2> QED BY <2>7
<1> HIDE DEF G
<1>2. \A T \in SUBSET S : T \in G
  BY <1>1, StrongSubsetInduction
<1> QED BY <1>2 DEF G

\* How a sum is made.
LEMMA SumStep ==
  ASSUME NEW S, IsFiniteSet(S), NEW f
  PROVE  /\ SumFunctionOnSet(f, {}) = 0
         /\ \A T \in SUBSET S : T # {} =>
              SumFunctionOnSet(f, T) = f[Pick(T)] + SumFunctionOnSet(f, T \ {Pick(T)})
<1>1. SumFunctionOnSet(f, {}) = 0
  <2>1. IsFiniteSet({})
    BY FS_EmptySet
  <2>2. IsIter(Iter(f, {}), f, {})
    BY <2>1, IterExists
  <2> QED BY <2>2, SumIsIter DEF IsIter
<1>2. ASSUME NEW T \in SUBSET S, T # {}
      PROVE  SumFunctionOnSet(f, T) = f[Pick(T)] + SumFunctionOnSet(f, T \ {Pick(T)})
  <2> DEFINE r == T \ {Pick(T)}
  <2>1. r \in SUBSET T /\ r \in SUBSET r /\ T \in SUBSET T
    OBVIOUS
  <2>2. IsFiniteSet(T)
    BY FS_Subset
  <2>3. IsFiniteSet(r)
    BY <2>1, <2>2, FS_Subset
  <2>4. IsIter(Iter(f, T), f, T) /\ IsIter(Iter(f, r), f, r)
    BY <2>2, <2>3, IterExists
  <2>5. Iter(f, T)[T] = f[Pick(T)] + Iter(f, T)[r]
    BY <1>2, <2>1, <2>4 DEF IsIter
  <2> HIDE DEF r
  <2>6. [w \in SUBSET r |-> Iter(f, T)[w]] = Iter(f, r)
    <3>1. IsIter([w \in SUBSET r |-> Iter(f, T)[w]], f, r)
      BY <2>1, <2>4, IterRestrict
    <3> QED BY <2>3, <2>4, <3>1, IterUnique
  <2>7. Iter(f, T)[r] = Iter(f, r)[r]
    BY <2>1, <2>6
  <2>8. SumFunctionOnSet(f, T) = Iter(f, T)[T] /\ SumFunctionOnSet(f, r) = Iter(f, r)[r]
    BY SumIsIter
  <2>9. SumFunctionOnSet(f, T) = f[Pick(T)] + SumFunctionOnSet(f, r)
    BY <2>5, <2>7, <2>8
  <2> QED BY <2>9 DEF r
<1> QED BY <1>1, <1>2

\* Sums of integers are integers, and sums are added term by term.
LEMMA SumAdds ==
  ASSUME NEW S, IsFiniteSet(S), NEW f, NEW g, NEW h,
         \A x \in S : f[x] \in Int /\ g[x] \in Int /\ h[x] = f[x] + g[x]
  PROVE  /\ SumFunctionOnSet(f, S) \in Int
         /\ SumFunctionOnSet(g, S) \in Int
         /\ SumFunctionOnSet(h, S) = SumFunctionOnSet(f, S) + SumFunctionOnSet(g, S)
<1> DEFINE sf(T) == SumFunctionOnSet(f, T)
           sg(T) == SumFunctionOnSet(g, T)
           sh(T) == SumFunctionOnSet(h, T)
           G == {T \in SUBSET S : sf(T) \in Int /\ sg(T) \in Int /\ sh(T) = sf(T) + sg(T)}
<1>1. sf({}) = 0 /\ sg({}) = 0 /\ sh({}) = 0
  BY SumStep
<1>2. \A T \in SUBSET S : T # {} =>
        /\ sf(T) = f[Pick(T)] + sf(T \ {Pick(T)})
        /\ sg(T) = g[Pick(T)] + sg(T \ {Pick(T)})
        /\ sh(T) = h[Pick(T)] + sh(T \ {Pick(T)})
  BY SumStep
<1> HIDE DEF sf, sg, sh
<1>3. {} \in G
  BY <1>1
<1>4. ASSUME NEW T \in SUBSET S, T # {}, T \ {Pick(T)} \in G PROVE T \in G
  <2>1. Pick(T) \in S
    BY <1>4 DEF Pick
  <2> QED BY <1>2, <1>4, <2>1
<1> HIDE DEF G
<1>5. \A T \in SUBSET S : T \in G
  BY <1>3, <1>4, SubsetInduction
<1>6. S \in G
  BY <1>5
<1> QED BY <1>6 DEF G, sf, sg, sh

\* One term counts once.
LEMMA SumOfOne ==
  ASSUME NEW S, IsFiniteSet(S), NEW y \in S, NEW f, f[y] \in Int,
         \A x \in S : x # y => f[x] = 0
  PROVE  SumFunctionOnSet(f, S) = f[y]
<1> DEFINE sf(T) == SumFunctionOnSet(f, T)
           G == {T \in SUBSET S : sf(T) = IF y \in T THEN f[y] ELSE 0}
<1>1. sf({}) = 0
  BY SumStep
<1>2. \A T \in SUBSET S : T # {} => sf(T) = f[Pick(T)] + sf(T \ {Pick(T)})
  BY SumStep
<1> HIDE DEF sf
<1>3. {} \in G
  BY <1>1
<1>4. ASSUME NEW T \in SUBSET S, T # {}, T \ {Pick(T)} \in G PROVE T \in G
  <2>1. Pick(T) \in T /\ Pick(T) \in S
    BY <1>4 DEF Pick
  <2>2. CASE Pick(T) = y
    BY <1>2, <1>4, <2>1, <2>2
  <2>3. CASE Pick(T) # y
    BY <1>2, <1>4, <2>1, <2>3
  <2> QED BY <2>2, <2>3
<1> HIDE DEF G
<1>5. \A T \in SUBSET S : T \in G
  BY <1>3, <1>4, SubsetInduction
<1>6. S \in G
  BY <1>5
<1> QED BY <1>6 DEF G, sf

\* A sum of numbers is one.
LEMMA SumOfNumbers ==
  ASSUME NEW S, IsFiniteSet(S), NEW f, \A x \in S : f[x] \in Nat
  PROVE  SumFunctionOnSet(f, S) \in Nat
<1> DEFINE sf(T) == SumFunctionOnSet(f, T)
           G == {T \in SUBSET S : sf(T) \in Nat}
<1>1. sf({}) = 0
  BY SumStep
<1>2. \A T \in SUBSET S : T # {} => sf(T) = f[Pick(T)] + sf(T \ {Pick(T)})
  BY SumStep
<1> HIDE DEF sf
<1>3. {} \in G
  BY <1>1
<1>4. ASSUME NEW T \in SUBSET S, T # {}, T \ {Pick(T)} \in G PROVE T \in G
  <2>1. Pick(T) \in S
    BY <1>4 DEF Pick
  <2> QED BY <1>2, <1>4, <2>1
<1> HIDE DEF G
<1>5. \A T \in SUBSET S : T \in G
  BY <1>3, <1>4, SubsetInduction
<1>6. S \in G
  BY <1>5
<1> QED BY <1>6 DEF G, sf

\* Whichever term is taken first.
LEMMA SumFirst ==
  ASSUME NEW S, IsFiniteSet(S), NEW f, \A x \in S : f[x] \in Int, NEW y \in S
  PROVE  SumFunctionOnSet(f, S) = f[y] + SumFunctionOnSet(f, S \ {y})
<1> DEFINE sf(T) == SumFunctionOnSet(f, T)
           G == {T \in SUBSET S : \A x \in T : sf(T) = f[x] + sf(T \ {x})}
<1>1. \A T \in SUBSET S : T # {} => sf(T) = f[Pick(T)] + sf(T \ {Pick(T)})
  BY SumStep
<1>2. ASSUME NEW T \in SUBSET S PROVE sf(T) \in Int
  <2> DEFINE g == [x \in T |-> 0]
  <2>1. IsFiniteSet(T) /\ \A x \in T : f[x] \in Int /\ g[x] \in Int /\ f[x] = f[x] + g[x]
    <3>1. \A v \in Int : v = v + 0
      OBVIOUS
    <3>2. IsFiniteSet(T)
      BY FS_Subset
    <3> QED BY <3>1, <3>2
  <2> HIDE DEF g
  <2> QED BY <2>1, SumAdds
<1> HIDE DEF sf
<1>3. ASSUME NEW T \in SUBSET S, \A U \in SUBSET T : U # T => U \in G PROVE T \in G
  <2> SUFFICES ASSUME NEW x \in T PROVE sf(T) = f[x] + sf(T \ {x})
    OBVIOUS
  <2> DEFINE p == Pick(T)
  <2>1. p \in T /\ p \in S /\ x \in S
    BY DEF Pick
  <2>2. sf(T) = f[p] + sf(T \ {p})
    BY <1>1
  <2> HIDE DEF p
  <2>3. CASE p = x
    BY <2>2, <2>3
  <2>4. CASE p # x
    <3>1. T \ {p} \in G /\ T \ {x} \in G
      BY <1>3, <2>1
    <3>2. sf(T \ {p}) = f[x] + sf((T \ {p}) \ {x}) /\ sf(T \ {x}) = f[p] + sf((T \ {x}) \ {p})
      BY <2>1, <2>4, <3>1
    <3>3. (T \ {p}) \ {x} = (T \ {x}) \ {p}
      OBVIOUS
    <3> DEFINE rest == sf((T \ {x}) \ {p})
    <3>4. rest \in Int /\ f[x] \in Int /\ f[p] \in Int
      BY <1>2, <2>1
    <3>5. sf(T \ {p}) = f[x] + rest /\ sf(T \ {x}) = f[p] + rest
      BY <3>2, <3>3
    <3> HIDE DEF rest
    <3> QED BY <2>2, <3>4, <3>5
  <2> QED BY <2>3, <2>4
<1> HIDE DEF G
<1>4. \A T \in SUBSET S : T \in G
  BY <1>3, StrongSubsetInduction
<1>5. S \in G
  BY <1>4
<1> QED BY <1>5 DEF G, sf

\* Sums of greater terms are greater.
LEMMA SumAtMost ==
  ASSUME NEW S, IsFiniteSet(S), NEW f, NEW g,
         \A x \in S : f[x] \in Int /\ g[x] \in Int /\ f[x] <= g[x]
  PROVE  /\ SumFunctionOnSet(f, S) \in Int /\ SumFunctionOnSet(g, S) \in Int
         /\ SumFunctionOnSet(f, S) <= SumFunctionOnSet(g, S)
<1> DEFINE sf(T) == SumFunctionOnSet(f, T)
           sg(T) == SumFunctionOnSet(g, T)
           G == {T \in SUBSET S : sf(T) \in Int /\ sg(T) \in Int /\ sf(T) <= sg(T)}
<1>1. sf({}) = 0 /\ sg({}) = 0
  BY SumStep
<1>2. \A T \in SUBSET S : T # {} =>
        /\ sf(T) = f[Pick(T)] + sf(T \ {Pick(T)})
        /\ sg(T) = g[Pick(T)] + sg(T \ {Pick(T)})
  BY SumStep
<1> HIDE DEF sf, sg
<1>3. {} \in G
  BY <1>1
<1>4. ASSUME NEW T \in SUBSET S, T # {}, T \ {Pick(T)} \in G PROVE T \in G
  <2>1. Pick(T) \in S
    BY <1>4 DEF Pick
  <2>2. \A a, b, c, d \in Int : a <= b /\ c <= d => a + c \in Int /\ b + d \in Int /\ a + c <= b + d
    OBVIOUS
  <2> QED BY <1>2, <1>4, <2>1, <2>2
<1> HIDE DEF G
<1>5. \A T \in SUBSET S : T \in G
  BY <1>3, <1>4, SubsetInduction
<1>6. S \in G
  BY <1>5
<1> QED BY <1>6 DEF G, sf, sg

\* Equal terms, equal sums.
LEMMA SumSame ==
  ASSUME NEW S, IsFiniteSet(S), NEW f, NEW g, \A x \in S : f[x] \in Int /\ f[x] = g[x]
  PROVE  SumFunctionOnSet(f, S) = SumFunctionOnSet(g, S)
<1>1. /\ SumFunctionOnSet(f, S) \in Int /\ SumFunctionOnSet(g, S) \in Int
      /\ SumFunctionOnSet(f, S) <= SumFunctionOnSet(g, S)
      /\ SumFunctionOnSet(g, S) <= SumFunctionOnSet(f, S)
  BY SumAtMost
<1> QED BY <1>1

\* A set may be summed up in two parts.
LEMMA SumSplit ==
  ASSUME NEW S, IsFiniteSet(S), NEW f, \A x \in S : f[x] \in Int, NEW A \in SUBSET S
  PROVE  /\ SumFunctionOnSet(f, A) \in Int /\ SumFunctionOnSet(f, S \ A) \in Int
         /\ SumFunctionOnSet(f, S) = SumFunctionOnSet(f, A) + SumFunctionOnSet(f, S \ A)
<1> DEFINE sf(T) == SumFunctionOnSet(f, T)
           G == {T \in SUBSET A : sf(S) = sf(T) + sf(S \ T)}
<1>1. ASSUME NEW T \in SUBSET S PROVE sf(T) \in Int
  <2>1. IsFiniteSet(T)
    BY FS_Subset
  <2> QED BY <2>1, SumAtMost, \A x \in T : f[x] <= f[x]
<1>2. ASSUME NEW T \in SUBSET S, NEW y \in T PROVE sf(T) = f[y] + sf(T \ {y})
  <2>1. IsFiniteSet(T)
    BY FS_Subset
  <2> QED BY <2>1, SumFirst
<1>3. sf({}) = 0
  BY SumStep
<1> HIDE DEF sf
<1>4. {} \in G
  <2>1. S \ {} = S /\ sf(S) \in Int
    BY <1>1
  <2> QED BY <1>3, <2>1
<1>5. ASSUME NEW T \in SUBSET A, T # {}, T \ {Pick(T)} \in G PROVE T \in G
  <2> DEFINE y == Pick(T)
             U == T \ {y}
  <2>1. y \in T /\ y \in S
    BY <1>5 DEF Pick
  <2> HIDE DEF y
  <2>2. sf(T) = f[y] + sf(U)
    BY <1>2, <2>1
  <2>3. sf(S \ U) = f[y] + sf(S \ T)
    <3>1. y \in S \ U /\ (S \ U) \ {y} = S \ T /\ S \ U \in SUBSET S
      BY <2>1
    <3> QED BY <1>2, <3>1
  <2>4. sf(S) = sf(U) + sf(S \ U)
    BY <1>5 DEF y
  <2>5. sf(U) \in Int /\ sf(S \ T) \in Int /\ f[y] \in Int
    BY <1>1, <2>1
  <2> HIDE DEF U
  <2>6. sf(S) = sf(T) + sf(S \ T)
    BY <2>2, <2>3, <2>4, <2>5
  <2> QED BY <2>6
<1> HIDE DEF G
<1>6. IsFiniteSet(A)
  BY FS_Subset
<1>7. A \in G
  BY <1>4, <1>5, <1>6, SubsetInduction
<1> QED BY <1>1, <1>7 DEF G, sf

\* A part of the terms is no more than all, if none is negative.
LEMMA SumMore ==
  ASSUME NEW S, IsFiniteSet(S), NEW f, \A x \in S : f[x] \in Nat, NEW A \in SUBSET S
  PROVE  /\ SumFunctionOnSet(f, A) \in Nat /\ SumFunctionOnSet(f, S) \in Nat
         /\ SumFunctionOnSet(f, A) <= SumFunctionOnSet(f, S)
<1>1. IsFiniteSet(A) /\ IsFiniteSet(S \ A)
  BY FS_Subset
<1>2. /\ SumFunctionOnSet(f, A) \in Nat /\ SumFunctionOnSet(f, S \ A) \in Nat
      /\ SumFunctionOnSet(f, S) \in Nat
  BY <1>1, SumOfNumbers
<1>3. SumFunctionOnSet(f, S) = SumFunctionOnSet(f, A) + SumFunctionOnSet(f, S \ A)
  BY SumSplit
<1> QED BY <1>2, <1>3

\* Terms may be summed up class by class.
Class(S, class, i) == {x \in S : class[x] = i}

Classes(S, class, I) == {x \in S : class[x] \in I}

LEMMA SumByClass ==
  ASSUME NEW I, IsFiniteSet(I), NEW S, IsFiniteSet(S),
         NEW f, \A x \in S : f[x] \in Int, NEW class, NEW h,
         \A i \in I : h[i] = SumFunctionOnSet(f, Class(S, class, i))
  PROVE  SumFunctionOnSet(h, I) = SumFunctionOnSet(f, Classes(S, class, I))
<1> DEFINE sh(J) == SumFunctionOnSet(h, J)
           sf(T) == SumFunctionOnSet(f, T)
           In(J) == Classes(S, class, J)
           G == {J \in SUBSET I : sh(J) = sf(In(J))}
<1>1. sh({}) = 0 /\ sf({}) = 0
  BY SumStep
<1>2. \A J \in SUBSET I : J # {} => sh(J) = h[Pick(J)] + sh(J \ {Pick(J)})
  BY SumStep
<1>3. ASSUME NEW T \in SUBSET S, NEW A \in SUBSET T
      PROVE  sf(A) \in Int /\ sf(T \ A) \in Int /\ sf(T) = sf(A) + sf(T \ A)
  <2>1. IsFiniteSet(T)
    BY FS_Subset
  <2> QED BY <2>1, SumSplit
<1>4. \A i \in I : h[i] = sf(Class(S, class, i))
  OBVIOUS
<1> HIDE DEF sh, sf
<1>5. {} \in G
  <2>1. In({}) = {}
    BY DEF Classes
  <2> QED BY <1>1, <2>1
<1>6. ASSUME NEW J \in SUBSET I, J # {}, J \ {Pick(J)} \in G PROVE J \in G
  <2> DEFINE i == Pick(J)
             A == Class(S, class, i)
  <2>1. i \in J /\ i \in I
    BY <1>6 DEF Pick
  <2>2. sh(J) = h[i] + sh(J \ {i}) /\ sh(J \ {i}) = sf(In(J \ {i}))
    BY <1>2, <1>6
  <2> HIDE DEF i
  <2>3. A \in SUBSET In(J) /\ In(J) \ A = In(J \ {i}) /\ In(J) \in SUBSET S
    BY <2>1 DEF Class, Classes
  <2>4. h[i] = sf(A)
    BY <1>4, <2>1
  <2> HIDE DEF A, In
  <2>5. sf(In(J)) = sf(A) + sf(In(J \ {i}))
    BY <1>3, <2>3
  <2>6. sh(J) = sf(In(J))
    BY <2>2, <2>4, <2>5
  <2> QED BY <2>6
<1> HIDE DEF G
<1>7. I \in G
  BY <1>5, <1>6, SubsetInduction
<1> QED BY <1>7 DEF G, sh, sf, In

\* A sum is no more than its number of terms times the greatest.
LEMMA SumAtMostTimes ==
  ASSUME NEW S, IsFiniteSet(S), NEW b \in Nat, NEW f, \A x \in S : f[x] \in 0 .. b
  PROVE  /\ SumFunctionOnSet(f, S) \in Nat
         /\ SumFunctionOnSet(f, S) <= b * Cardinality(S)
<1> DEFINE sf(T) == SumFunctionOnSet(f, T)
           G == {T \in SUBSET S : sf(T) \in Nat /\ sf(T) <= b * Cardinality(T)}
<1>1. sf({}) = 0
  BY SumStep
<1>2. \A T \in SUBSET S : T # {} => sf(T) = f[Pick(T)] + sf(T \ {Pick(T)})
  BY SumStep
<1> HIDE DEF sf
<1>3. {} \in G
  BY <1>1, FS_EmptySet
<1>4. ASSUME NEW T \in SUBSET S, T # {}, T \ {Pick(T)} \in G PROVE T \in G
  <2> DEFINE y == Pick(T)
             U == T \ {y}
             n == Cardinality(U)
  <2>1. y \in T /\ y \in S
    BY <1>4 DEF Pick
  <2>2. IsFiniteSet(T) /\ IsFiniteSet(U)
    BY FS_Subset
  <2>3. Cardinality(T) = n + 1 /\ n \in Nat
    <3>1. Cardinality(U) = Cardinality(T) - 1 /\ Cardinality(T) \in Nat
      BY <2>1, <2>2, FS_RemoveElement, FS_CardinalityType
    <3>2. n \in Nat
      BY <2>2, FS_CardinalityType
    <3> QED BY <3>1, <3>2
  <2>4. sf(T) = f[y] + sf(U) /\ f[y] \in 0 .. b /\ sf(U) \in Nat /\ sf(U) <= b * n
    BY <1>2, <1>4, <2>1
  <2> HIDE DEF U, n, y
  <2>5. b * (n + 1) = b * n + b
    BY <2>3
  <2>6. sf(T) \in Nat /\ sf(T) <= b * (n + 1)
    BY <2>3, <2>4, <2>5
  <2> QED BY <2>3, <2>6
<1> HIDE DEF G
<1>5. S \in G
  BY <1>3, <1>4, SubsetInduction
<1> QED BY <1>5 DEF G, sf

-----------------------------------------------------------------------------
(* BloomFilter *)

\* An index lies in the bit array.
LEMMA HashRange ==
  ASSUME NEW data \in Item, NEW i \in Nat, NEW m \in Nat \ {0}
  PROVE  Hash(data, i, m) \in 0 .. m - 1
<1> DEFINE h1 == Fnv64a[data]
           h2 == Fnv64[data]
           p == i * h2
           w == (h1 + p) % HashWord
<1>1. h1 \in Nat /\ h2 \in Nat /\ HashWord \in Nat \ {0}
  BY HashAssumption
<1>2. p \in Nat
  BY <1>1
<1>3. w \in Nat
  <2> HIDE DEF h1, p
  <2> QED BY <1>1, <1>2
<1>4. w % m \in 0 .. m - 1
  <2> HIDE DEF w
  <2> QED BY <1>3
<1> QED BY <1>4 DEF Hash

\* hash.go: every index Add sets is one of the m.
LEMMA PositionsRange ==
  ASSUME NEW data \in Item, NEW k \in Nat, NEW m \in Nat \ {0}
  PROVE  Positions(data, k, m) \subseteq 0 .. m - 1
BY HashRange DEF Positions

\* The nil filter has no positions to set.
LEMMA NilAddItems ==
  ASSUME NEW S \in SUBSET Item
  PROVE  AddItems(NilFilter, S) = NilFilter
BY DEF AddItems, NilFilter, Positions

\* filter.go, New: valid parameters give a filter, invalid ones nil.
LEMMA NewFilterType ==
  ASSUME NEW m \in Nat, NEW k \in Nat
  PROVE  /\ NewFilter(m, k) \in FilterOrNil
         /\ m > 0 /\ k > 0 => NewFilter(m, k) \in Filter
BY DEF NewFilter, ValidParams, Filter, FilterOrNil, NilFilter

\* A nil *BloomFilter is one of the values Open can be left with.
LEMMA NilType == NilFilter \in FilterOrNil
BY DEF FilterOrNil

\* No filter New or NewFromParts returns is taken for nil.
LEMMA FilterIsNotNil == NilFilter \notin Filter
BY DEF Filter, NilFilter

\* Adding items changes neither m nor k, loses no bit, and makes the items
\* present, and sets no bit behind the m-th.
LEMMA AddItemsFacts ==
  ASSUME NEW f \in Filter, NEW S \in SUBSET Item
  PROVE  /\ AddItems(f, S).m = f.m
         /\ AddItems(f, S).k = f.k
         /\ \A x \in S : TestItem(AddItems(f, S), x)
         /\ \A x \in Item : TestItem(f, x) => TestItem(AddItems(f, S), x)
         /\ AddItems(f, S) \in Filter
BY PositionsRange DEF AddItems, TestItem, Filter

\* filter.go, Add: one call is the replay of one Add record.
LEMMA AddItemIsAddItems ==
  ASSUME NEW f \in Filter, NEW x \in Item
  PROVE  AddItem(f, x) = AddItems(f, {x})
BY DEF AddItem, AddItems, Filter

\* The filter that adding items makes, field by field.
LEMMA AddItemsRecord ==
  ASSUME NEW f \in Filter, NEW S \in SUBSET Item
  PROVE  AddItems(f, S) =
           [m |-> f.m, k |-> f.k,
            bits |-> f.bits \cup UNION {Positions(x, f.k, f.m) : x \in S}]
<1> DEFINE g == AddItems(f, S)
           added == UNION {Positions(x, f.k, f.m) : x \in S}
<1>1. g \in Filter /\ g.m = f.m /\ g.k = f.k
  BY AddItemsFacts
<1>2. g.bits = f.bits \cup added
  BY DEF AddItems, Filter
<1> HIDE DEF g, added
<1>3. g = [m |-> g.m, k |-> g.k, bits |-> g.bits]
  BY <1>1 DEF Filter
<1>4. g = [m |-> f.m, k |-> f.k, bits |-> f.bits \cup added]
  BY <1>1, <1>2, <1>3
<1> QED BY <1>4 DEF g, added

\* Items may be added at once or in two parts.
LEMMA AddItemsUnion ==
  ASSUME NEW f \in Filter, NEW S \in SUBSET Item, NEW T \in SUBSET Item
  PROVE  AddItems(AddItems(f, S), T) = AddItems(f, S \cup T)
<1> DEFINE P(U) == UNION {Positions(x, f.k, f.m) : x \in U}
           g == AddItems(f, S)
<1>1. P(S \cup T) = P(S) \cup P(T)
  OBVIOUS
<1>2. g \in Filter /\ g.m = f.m /\ g.k = f.k
  BY AddItemsFacts
<1>3. g.bits = f.bits \cup P(S)
  BY AddItemsRecord
<1>4. S \cup T \in SUBSET Item
  OBVIOUS
<1>5. AddItems(f, S \cup T) = [m |-> f.m, k |-> f.k, bits |-> f.bits \cup P(S \cup T)]
  BY <1>4, AddItemsRecord
<1> HIDE DEF g
<1>6. AddItems(g, T) = [m |-> f.m, k |-> f.k, bits |-> g.bits \cup P(T)]
  BY <1>2, AddItemsRecord
<1> HIDE DEF P
<1>7. AddItems(g, T) = AddItems(f, S \cup T)
  BY <1>1, <1>3, <1>5, <1>6
<1> QED BY <1>7 DEF g

-----------------------------------------------------------------------------
(* Codec *)

\* Two numbers with the same remainder modulo a word of 8 values or more need
\* as many bytes only if they are equal.
LEMMA ByteLenTruncated ==
  ASSUME NEW m \in Nat, NEW u \in Nat, u >= 8, ByteLen(m) = ByteLen(m % u)
  PROVE  m % u = m
<1> DEFINE r == m % u
           q == m \div u
<1>1. r \in Nat /\ r < u /\ q \in Nat
  OBVIOUS
<1>2. m = u * q + r
  OBVIOUS
<1>3. CASE q = 0
  BY <1>1, <1>2, <1>3
<1>4. CASE q >= 1
  <2>1. u * q >= u
    BY <1>1, <1>4
  <2>2. m >= r + 8
    <3> HIDE DEF r, q
    <3> QED BY <1>1, <1>2, <2>1
  <2>3. (m + 7) \div 8 > (r + 7) \div 8
    <3> HIDE DEF r, q
    <3> QED BY <2>2, <1>1
  <2> QED BY <2>3 DEF ByteLen
<1> QED BY <1>1, <1>3, <1>4

\* codec.go, Marshal: what is written is a blob, whatever the filter.
LEMMA MarshalType ==
  ASSUME NEW f \in FilterOrNil
  PROVE  Marshal(f) \in Blob
<1>1. CASE f = NilFilter
  BY <1>1 DEF Marshal, EmptyBlob, Blob
<1>2. CASE f # NilFilter
  <2> DEFINE mm == f.m % Uint32
             kk == f.k % Uint32
  <2>0. f \in Filter
    BY <1>2 DEF FilterOrNil
  <2>1. mm \in Nat /\ kk \in Nat
    BY <2>0, Uint32Assumption DEF Filter
  <2>2. ByteLen(f.m) \in Nat
    BY <2>0 DEF ByteLen, Filter
  <2>3. ByteLen(f.m) = ByteLen(mm) => mm = f.m
    BY <2>0, ByteLenTruncated, Uint32Assumption DEF Filter
  <2>4. f.bits \subseteq 0 .. f.m - 1 /\ f.bits \in SUBSET Nat
    BY <2>0 DEF Filter
  <2> HIDE DEF mm, kk
  <2>5. [m |-> mm, k |-> kk, bits |-> f.bits, len |-> ByteLen(f.m), sealed |-> TRUE] \in Blob
    BY <2>1, <2>2, <2>3, <2>4 DEF Blob
  <2> QED BY <1>2, <2>5 DEF Marshal, mm, kk
<1> QED BY <1>1, <1>2

\* codec.go, Unmarshal: what is read back is a filter or an error.
LEMMA UnmarshalType ==
  ASSUME NEW b \in Blob
  PROVE  Unmarshal(b) \in FilterOrNil
BY DEF Unmarshal, Blob, Filter, FilterOrNil, ValidParams

\* A filter whose parameters fit the header comes back as it was.
THEOREM RoundTrip ==
  ASSUME NEW f \in Filter, f.m < Uint32, f.k < Uint32
  PROVE  Unmarshal(Marshal(f)) = f
<1>1. f.m % Uint32 = f.m /\ f.k % Uint32 = f.k
  BY Uint32Assumption DEF Filter
<1>2. f # NilFilter
  BY FilterIsNotNil
<1>3. f = [m |-> f.m, k |-> f.k, bits |-> f.bits]
  BY DEF Filter
<1> QED BY <1>1, <1>2, <1>3 DEF Marshal, Unmarshal, ValidParams, Filter

\* codec.go, Marshal and Unmarshal: m is cut to 32 bits in the header, and the
\* bit section is then longer than the header asks for, by a byte at least.  So
\* a filter too wide for the format is not read back as a smaller one.
THEOREM NoOtherFilterReadBack ==
  ASSUME NEW f \in FilterOrNil, f.k < Uint32
  PROVE  Unmarshal(Marshal(f)) \in {f, NilFilter}
<1>1. CASE f = NilFilter
  BY <1>1 DEF Marshal, Unmarshal, EmptyBlob
<1>2. CASE f # NilFilter /\ f.m < Uint32
  <2>1. f \in Filter
    BY <1>2 DEF FilterOrNil
  <2> QED BY <1>2, <2>1, RoundTrip
<1>3. CASE f # NilFilter /\ f.m >= Uint32
  <2> DEFINE m == f.m
             r == m % Uint32
             b == Marshal(f)
  <2>1. m \in Nat /\ Uint32 \in Nat \ {0} /\ Uint32 >= 8 /\ m >= Uint32
    BY <1>3, Uint32Assumption DEF FilterOrNil, Filter
  <2>2. b.m = r /\ b.len = ByteLen(m)
    BY <1>3 DEF Marshal
  <2> HIDE DEF b, m
  <2>3. r \in Nat /\ r <= m - Uint32
    BY <2>1, ModBelow
  <2> HIDE DEF r
  <2>4. ByteLen(r) < ByteLen(m)
    BY <2>1, <2>3 DEF ByteLen
  <2>5. ByteLen(r) \in Int /\ ByteLen(m) \in Int
    BY <2>1, <2>3 DEF ByteLen
  <2>6. b.len # ByteLen(b.m)
    BY <2>2, <2>4, <2>5
  <2> QED BY <2>6 DEF Unmarshal, b
<1> QED BY <1>1, <1>2, <1>3, Uint32Assumption DEF FilterOrNil, Filter

\* format.go, ConvertV1ToV2: a legacy blob that can be read is read as the same
\* filter after the conversion, and one that cannot is not made readable.
THEOREM ConvertKeepsFilter ==
  ASSUME NEW b \in Blob, b.m < Uint32, b.k < Uint32
  PROVE  Unmarshal(ConvertV1ToV2(b)) = UnmarshalV1(b)
<1> DEFINE f == UnmarshalV1(b)
<1>1. CASE f = NilFilter
  <2>1. ConvertV1ToV2(b) = EmptyBlob
    BY <1>1 DEF ConvertV1ToV2, Marshal
  <2>2. Unmarshal(EmptyBlob) = NilFilter
    BY DEF Unmarshal, EmptyBlob
  <2> QED BY <1>1, <2>1, <2>2
<1>2. CASE f # NilFilter
  <2>1. b.len = ByteLen(b.m) /\ ValidParams(b.m, b.k) /\ f = [m |-> b.m, k |-> b.k, bits |-> b.bits]
    BY <1>2 DEF UnmarshalV1
  <2>2. f \in Filter /\ f.m < Uint32 /\ f.k < Uint32
    BY <2>1 DEF Blob, Filter, ValidParams
  <2> HIDE DEF f
  <2>3. Unmarshal(Marshal(f)) = f
    BY <2>2, RoundTrip
  <2> QED BY <2>3 DEF ConvertV1ToV2, f
<1> QED BY <1>1, <1>2

\* format.go, Inspect and Validate: of what Marshal wrote of a filter whose k fits
\* the header, Inspect tells the filter's own shape and length just when Validate
\* accepts it.  Of one that is too wide Inspect tells a smaller one.
THEOREM InspectTells ==
  ASSUME NEW f \in Filter, f.k < Uint32
  PROVE  Validate(Marshal(f)) <=>
           InspectV2(Marshal(f)) = [m |-> f.m, k |-> f.k, bitsLen |-> ByteLen(f.m)]
<1> DEFINE b == Marshal(f)
<1>1. f.m \in Nat \ {0} /\ f.k \in Nat \ {0} /\ f # NilFilter /\ f \in FilterOrNil
  BY FilterIsNotNil DEF Filter, FilterOrNil
<1>2. b.m = f.m % Uint32 /\ b.k = f.k % Uint32 /\ b.len = ByteLen(f.m) /\ b.sealed
  BY <1>1 DEF Marshal
<1>3. f.k % Uint32 = f.k
  BY <1>1, Uint32Assumption
<1> HIDE DEF b
<1>4. ASSUME Validate(b)
      PROVE  InspectV2(b) = [m |-> f.m, k |-> f.k, bitsLen |-> ByteLen(f.m)]
  <2>1. Unmarshal(b) \in {f, NilFilter}
    BY <1>1, NoOtherFilterReadBack DEF b
  <2>2. Unmarshal(b) = f
    BY <1>4, <2>1 DEF Validate
  <2>3. Unmarshal(b) = [m |-> b.m, k |-> b.k, bits |-> b.bits]
    BY <1>4 DEF Validate, Unmarshal
  <2>4. b.m = f.m /\ b.k = f.k
    BY <2>2, <2>3
  <2> QED BY <2>4 DEF InspectV2
<1>5. ASSUME InspectV2(b) = [m |-> f.m, k |-> f.k, bitsLen |-> ByteLen(f.m)]
      PROVE  Validate(b)
  <2>1. b.m = f.m
    BY <1>5 DEF InspectV2
  <2>2. ValidParams(b.m, b.k) /\ b.len = ByteLen(b.m)
    BY <1>1, <1>2, <1>3, <2>1 DEF ValidParams
  <2>3. Unmarshal(b) = [m |-> b.m, k |-> b.k, bits |-> b.bits]
    BY <1>2, <2>2 DEF Unmarshal
  <2>4. Unmarshal(b).m = f.m
    BY <2>1, <2>3
  <2>5. NilFilter.m = 0
    BY DEF NilFilter
  <2> QED BY <1>1, <2>4, <2>5 DEF Validate
<1> QED BY <1>4, <1>5 DEF b

-----------------------------------------------------------------------------
(* Merge *)

\* merge.go: a merge of filters returns a filter of their shape, or an error.
LEMMA MergedType ==
  ASSUME NEW fs \in Seq(FilterOrNil)
  PROVE  /\ UnionMany(fs) \in FilterOrNil
         /\ IntersectionMany(fs) \in FilterOrNil
         /\ Mergeable(fs) =>
              /\ UnionMany(fs) \in Filter /\ IntersectionMany(fs) \in Filter
              /\ UnionMany(fs).m = fs[1].m /\ UnionMany(fs).k = fs[1].k
              /\ IntersectionMany(fs).m = fs[1].m /\ IntersectionMany(fs).k = fs[1].k
<1>1. CASE Mergeable(fs)
  <2>1. 1 \in DOMAIN fs /\ \A i \in DOMAIN fs : fs[i] \in Filter
    BY <1>1 DEF Mergeable, FilterOrNil
  <2>2. fs[1].m \in Nat \ {0} /\ fs[1].k \in Nat \ {0}
    BY <2>1 DEF Filter
  <2>3. \A i \in DOMAIN fs : fs[i].bits \subseteq 0 .. fs[1].m - 1
    BY <1>1, <2>1 DEF Mergeable, Filter
  <2>4. UNION {fs[i].bits : i \in DOMAIN fs} \subseteq 0 .. fs[1].m - 1
    BY <2>3
  <2>5. {b \in fs[1].bits : \A i \in DOMAIN fs : b \in fs[i].bits} \subseteq 0 .. fs[1].m - 1
    BY <2>1, <2>3
  <2>6. ASSUME NEW B \in SUBSET (0 .. fs[1].m - 1)
        PROVE  /\ WithBits(fs[1], B) \in Filter
               /\ WithBits(fs[1], B).m = fs[1].m /\ WithBits(fs[1], B).k = fs[1].k
    BY <2>2 DEF WithBits, Filter
  <2> QED BY <1>1, <2>4, <2>5, <2>6 DEF UnionMany, IntersectionMany, FilterOrNil
<1>2. CASE ~Mergeable(fs)
  BY <1>2 DEF UnionMany, IntersectionMany, FilterOrNil
<1> QED BY <1>1, <1>2

\* merge.go, Union: "The resulting filter will report "present" for any item
\* that was added to either filter."
THEOREM UnionReportsAll ==
  ASSUME NEW fs \in Seq(FilterOrNil), Mergeable(fs),
         NEW i \in DOMAIN fs, NEW x \in Item, TestItem(fs[i], x)
  PROVE  TestItem(UnionMany(fs), x)
<1>1. UnionMany(fs).m = fs[i].m /\ UnionMany(fs).k = fs[i].k
  BY MergedType DEF Mergeable
<1>2. fs[i].bits \subseteq UnionMany(fs).bits
  BY DEF UnionMany, WithBits
<1> QED BY <1>1, <1>2 DEF TestItem

\* merge.go, UnionMany: nodes that each add their own items have, merged, the
\* filter of a node that added them all, bit for bit.
THEOREM UnionOfNodes ==
  ASSUME NEW f \in Filter, NEW n \in Nat \ {0}, NEW S \in [1 .. n -> SUBSET Item]
  PROVE  UnionMany([i \in 1 .. n |-> AddItems(f, S[i])])
           = AddItems(f, UNION {S[i] : i \in 1 .. n})
<1> DEFINE fs == [i \in 1 .. n |-> AddItems(f, S[i])]
           all == UNION {S[i] : i \in 1 .. n}
           P(T) == UNION {Positions(x, f.k, f.m) : x \in T}
<1>1. DOMAIN fs = 1 .. n /\ 1 \in 1 .. n
  OBVIOUS
<1>2. \A T \in SUBSET Item : AddItems(f, T) = WithBits(f, f.bits \cup P(T))
  BY AddItemsRecord DEF WithBits
<1>3. \A i \in 1 .. n : /\ fs[i] \in Filter /\ fs[i].m = f.m /\ fs[i].k = f.k
                        /\ fs[i].bits = f.bits \cup P(S[i])
  <2> TAKE i \in 1 .. n
  <2>1. S[i] \in SUBSET Item /\ fs[i] = AddItems(f, S[i])
    OBVIOUS
  <2>2. AddItems(f, S[i]).bits = f.bits \cup P(S[i])
    BY <1>2, <2>1 DEF WithBits
  <2> HIDE DEF fs, P
  <2> QED BY <2>1, <2>2, AddItemsFacts
<1>4. Mergeable(fs)
  <2>1. fs # <<>>
    BY <1>1
  <2> HIDE DEF fs
  <2> QED BY <1>1, <1>3, <2>1, FilterIsNotNil DEF Mergeable
<1>5. UNION {fs[i].bits : i \in 1 .. n} = f.bits \cup P(all)
  <2> HIDE DEF fs
  <2>1. UNION {fs[i].bits : i \in 1 .. n} = UNION {f.bits \cup P(S[i]) : i \in 1 .. n}
    BY <1>3
  <2> QED BY <1>1, <2>1
<1>6. UnionMany(fs) = WithBits(f, f.bits \cup P(all))
  <2> HIDE DEF fs, P, all
  <2> QED BY <1>1, <1>3, <1>4, <1>5 DEF UnionMany, WithBits
<1>7. all \in SUBSET Item
  OBVIOUS
<1> HIDE DEF P, all, fs
<1>8. UnionMany(fs) = AddItems(f, all)
  BY <1>2, <1>6, <1>7
<1> QED BY <1>8 DEF fs, all

\* merge.go, Intersection: "The resulting filter will only report "present" for
\* items where both filters agree", and it does report those.
THEOREM IntersectionAgrees ==
  ASSUME NEW fs \in Seq(FilterOrNil), Mergeable(fs), NEW x \in Item
  PROVE  TestItem(IntersectionMany(fs), x) <=> \A i \in DOMAIN fs : TestItem(fs[i], x)
<1> DEFINE p == Positions(x, fs[1].k, fs[1].m)
<1>1. IntersectionMany(fs).m = fs[1].m /\ IntersectionMany(fs).k = fs[1].k
  BY MergedType
<1>2. 1 \in DOMAIN fs
  BY DEF Mergeable
<1>3. \A i \in DOMAIN fs : TestItem(fs[i], x) <=> p \subseteq fs[i].bits
  BY DEF Mergeable, TestItem
<1>4. \A b : b \in IntersectionMany(fs).bits <=> \A i \in DOMAIN fs : b \in fs[i].bits
  BY <1>2 DEF IntersectionMany, WithBits
<1>5. TestItem(IntersectionMany(fs), x) <=> p \subseteq IntersectionMany(fs).bits
  BY <1>1 DEF TestItem
<1> HIDE DEF p
<1> QED BY <1>3, <1>4, <1>5

\* merge.go, Difference: an item of the second filter is not in the difference,
\* whatever else its bits take along.
THEOREM DifferenceRemoves ==
  ASSUME NEW a \in Filter, NEW b \in Filter, Mergeable(<<a, b>>),
         NEW x \in Item, TestItem(b, x)
  PROVE  ~TestItem(Difference(a, b), x)
<1> DEFINE d == Difference(a, b)
<1>1. d.m = a.m /\ d.k = a.k /\ d.bits = a.bits \ b.bits
  BY DEF Difference, WithBits
<1>2. a.m = b.m /\ a.k = b.k
  <2>1. 2 \in DOMAIN <<a, b>> /\ <<a, b>>[1] = a /\ <<a, b>>[2] = b
    OBVIOUS
  <2> QED BY <2>1 DEF Mergeable
<1>3. Hash(x, 0, b.m) \in Positions(x, b.k, b.m)
  BY DEF Positions, Filter
<1>4. Hash(x, 0, b.m) \in b.bits
  BY <1>3 DEF TestItem
<1> HIDE DEF d
<1>5. ~TestItem(d, x)
  BY <1>1, <1>2, <1>3, <1>4 DEF TestItem
<1> QED BY <1>5 DEF d

-----------------------------------------------------------------------------
(* The methods that change a filter in place *)

\* Two filters that can be combined have one shape.
LEMMA PairMergeable ==
  ASSUME NEW a \in Filter, NEW b \in Filter
  PROVE  Mergeable(<<a, b>>) <=> a.m = b.m /\ a.k = b.k
<1>1. DOMAIN <<a, b>> = {1, 2} /\ <<a, b>>[1] = a /\ <<a, b>>[2] = b /\ <<a, b>> # <<>>
  OBVIOUS
<1>2. a # NilFilter /\ b # NilFilter
  BY FilterIsNotNil
<1> DEFINE ab == <<a, b>>
<1>3. Mergeable(ab) <=> ab[1].m = ab[2].m /\ ab[1].k = ab[2].k
  <2>1. DOMAIN ab = {1, 2} /\ ab # <<>> /\ ab[1] # NilFilter /\ ab[2] # NilFilter
    BY <1>1, <1>2
  <2> HIDE DEF ab
  <2> QED BY <2>1 DEF Mergeable
<1> HIDE DEF ab
<1> QED BY <1>1, <1>3 DEF ab

\* The shape stays, and the bits are the combined ones or, after an error, its own.
LEMMA CombinesFacts ==
  ASSUME NEW a \in Filter, NEW b \in Filter, NEW bits \in SUBSET (a.bits \cup b.bits)
  PROVE  LET c == Combines(a, b, bits)
         IN  /\ c \in Filter /\ c.m = a.m /\ c.k = a.k
             /\ c.bits = IF a.m = b.m /\ a.k = b.k THEN bits ELSE a.bits
<1>1. CASE a.m = b.m /\ a.k = b.k
  <2>1. Mergeable(<<a, b>>)
    BY <1>1, PairMergeable
  <2>2. WithBits(a, bits) \in Filter
    BY <1>1 DEF WithBits, Filter
  <2>3. Combines(a, b, bits) = WithBits(a, bits)
    BY <2>1, <2>2, FilterIsNotNil DEF Combines, InPlace
  <2> QED BY <1>1, <2>2, <2>3 DEF WithBits
<1>2. CASE ~(a.m = b.m /\ a.k = b.k)
  BY <1>2, PairMergeable DEF Combines, InPlace
<1> QED BY <1>1, <1>2

\* Filters with equal fields are equal.
LEMMA SameFilter ==
  ASSUME NEW a \in Filter, NEW b \in Filter, a.m = b.m, a.k = b.k, a.bits = b.bits
  PROVE  a = b
<1>1. a = [m |-> a.m, k |-> a.k, bits |-> a.bits]
  BY DEF Filter
<1>2. b = [m |-> b.m, k |-> b.k, bits |-> b.bits]
  BY DEF Filter
<1> QED BY <1>1, <1>2

\* ops.go, Union: a filter that takes in two others is the same filter in
\* whatever order they come, those of another shape included, which it rejects,
\* and to take one in again changes nothing.
THEOREM UnionInAnyOrder ==
  ASSUME NEW a \in Filter, NEW b \in Filter, NEW c \in Filter
  PROVE  /\ UnionWith(UnionWith(a, b), c) = UnionWith(UnionWith(a, c), b)
         /\ UnionWith(UnionWith(a, b), b) = UnionWith(a, b)
<1>1. ASSUME NEW f \in Filter, NEW g \in Filter
      PROVE  /\ UnionWith(f, g) \in Filter
             /\ UnionWith(f, g).m = f.m /\ UnionWith(f, g).k = f.k
             /\ UnionWith(f, g).bits =
                  IF f.m = g.m /\ f.k = g.k THEN f.bits \cup g.bits ELSE f.bits
  BY CombinesFacts DEF UnionWith
<1> DEFINE x == UnionWith(a, b)
           y == UnionWith(a, c)
<1>2. x \in Filter /\ y \in Filter /\ UnionWith(x, c) \in Filter /\ UnionWith(y, b) \in Filter
  BY <1>1
<1>3. /\ UnionWith(x, c).m = a.m /\ UnionWith(y, b).m = a.m
      /\ UnionWith(x, c).k = a.k /\ UnionWith(y, b).k = a.k
      /\ UnionWith(x, c).bits = UnionWith(y, b).bits
  <2>1. /\ x.m = a.m /\ x.k = a.k /\ y.m = a.m /\ y.k = a.k
        /\ x.bits = IF a.m = b.m /\ a.k = b.k THEN a.bits \cup b.bits ELSE a.bits
        /\ y.bits = IF a.m = c.m /\ a.k = c.k THEN a.bits \cup c.bits ELSE a.bits
    BY <1>1
  <2> HIDE DEF x, y
  <2>2. /\ UnionWith(x, c).m = x.m /\ UnionWith(y, b).m = y.m
        /\ UnionWith(x, c).k = x.k /\ UnionWith(y, b).k = y.k
        /\ UnionWith(x, c).bits = IF x.m = c.m /\ x.k = c.k THEN x.bits \cup c.bits ELSE x.bits
        /\ UnionWith(y, b).bits = IF y.m = b.m /\ y.k = b.k THEN y.bits \cup b.bits ELSE y.bits
    BY <1>1, <1>2
  <2> QED BY <2>1, <2>2
<1> HIDE DEF x, y
<1>4. UnionWith(x, c) = UnionWith(y, b)
  BY <1>2, <1>3, SameFilter
<1>5. UnionWith(x, b) = x
  <2>1. x.m = a.m /\ x.k = a.k /\ (a.m = b.m /\ a.k = b.k => b.bits \subseteq x.bits)
    <3>1. /\ x.m = a.m /\ x.k = a.k
          /\ x.bits = IF a.m = b.m /\ a.k = b.k THEN a.bits \cup b.bits ELSE a.bits
      BY <1>1 DEF x
    <3> QED BY <3>1
  <2>2. /\ UnionWith(x, b) \in Filter
        /\ UnionWith(x, b).m = x.m /\ UnionWith(x, b).k = x.k
        /\ UnionWith(x, b).bits = IF x.m = b.m /\ x.k = b.k THEN x.bits \cup b.bits ELSE x.bits
    BY <1>1, <1>2
  <2>3. UnionWith(x, b).bits = x.bits
    BY <2>1, <2>2
  <2> QED BY <1>2, <2>2, <2>3, SameFilter
<1> QED BY <1>4, <1>5 DEF x, y

\* ops.go, XOR: whoever has the old filter and the difference of the two gets
\* the new one, bit for bit.
THEOREM XORRestores ==
  ASSUME NEW a \in Filter, NEW b \in Filter, a.m = b.m, a.k = b.k
  PROVE  XORWith(a, XORWith(a, b)) = b
<1> DEFINE d == XORWith(a, b)
<1>1. d \in Filter /\ d.m = a.m /\ d.k = a.k
      /\ d.bits = (a.bits \ b.bits) \cup (b.bits \ a.bits)
  BY CombinesFacts DEF XORWith
<1> HIDE DEF d
<1>2. /\ XORWith(a, d) \in Filter /\ XORWith(a, d).m = a.m /\ XORWith(a, d).k = a.k
      /\ XORWith(a, d).bits = (a.bits \ d.bits) \cup (d.bits \ a.bits)
  BY <1>1, CombinesFacts DEF XORWith
<1>3. XORWith(a, d).bits = b.bits
  BY <1>1, <1>2
<1>4. XORWith(a, d) = b
  BY <1>2, <1>3, SameFilter
<1> QED BY <1>4 DEF d

\* ops.go, ClearBit: exactly the items that have the bit among their positions
\* are lost.
THEOREM ClearBitLoses ==
  ASSUME NEW f \in Filter, NEW pos \in Nat, NEW x \in Item
  PROVE  TestItem(ClearBit(f, pos), x) <=>
           TestItem(f, x) /\ pos \notin Positions(x, f.k, f.m)
<1>1. Positions(x, f.k, f.m) \subseteq 0 .. f.m - 1
  BY PositionsRange DEF Filter
<1>2. CASE pos >= f.m
  <2>1. pos \notin Positions(x, f.k, f.m)
    BY <1>1, <1>2 DEF Filter
  <2> QED BY <1>2, <2>1 DEF ClearBit
<1>3. CASE ~(pos >= f.m)
  BY <1>3 DEF ClearBit, WithBits, TestItem
<1> QED BY <1>2, <1>3

-----------------------------------------------------------------------------
(* HashStrategies *)

\* Whatever is added up, the index is one of the m.
LEMMA IndexRange ==
  ASSUME NEW x \in Int, NEW m \in Nat \ {0}
  PROVE  Index(x, m) \in 0 .. m - 1
<1>1. x % HashWord \in Nat
  BY HashAssumption
<1> DEFINE w == x % HashWord
<1> HIDE DEF w
<1>2. w % m \in 0 .. m - 1
  <2>1. w \in Nat
    BY <1>1 DEF w
  <2> QED BY <2>1
<1> QED BY <1>2 DEF Index, w

\* hash.go: Hash is the index of h1 + i * h2.
LEMMA HashIsIndex ==
  ASSUME NEW data \in Item, NEW i \in Nat, NEW m \in Nat
  PROVE  Hash(data, i, m) = Index(Fnv64a[data] + i * Fnv64[data], m)
BY DEF Hash, Index

\* A value that is multiplied by a number, and one that is halved after it has
\* wrapped, are numbers.
LEMMA Terms ==
  ASSUME NEW i \in Nat, NEW h \in Int
  PROVE  i * h \in Int /\ i * i * h \in Int /\ ((i * (i - 1)) % HashWord) \div 2 \in Int
<1>1. i * h \in Int /\ i * i \in Int /\ i * (i - 1) \in Int
  OBVIOUS
<1> DEFINE p == i * i
           q == i * (i - 1)
           r == q % HashWord
<1>2. p * h \in Int
  <2> HIDE DEF p
  <2> QED BY <1>1 DEF p
<1>3. r \in Int
  <2>1. q \in Int
    BY <1>1
  <2> HIDE DEF q
  <2> QED BY <2>1, HashAssumption
<1>4. r \div 2 \in Int
  <2> HIDE DEF r
  <2> QED BY <1>3
<1> QED BY <1>1, <1>2, <1>4

\* enhanced.go, MultiHash and IndependentHashes: every position is one of the
\* filter's m, for every strategy and every number of hash functions.
THEOREM PositionsInRange ==
  ASSUME StrategyAssumption,
         NEW data \in Item, NEW k \in Nat, NEW m \in Nat, NEW s \in Strategy
  PROVE  /\ \A j \in DOMAIN MultiHash(data, k, m, s) :
              MultiHash(data, k, m, s)[j] \in 0 .. m - 1
         /\ \A j \in DOMAIN IndependentHashes(data, k, m) :
              IndependentHashes(data, k, m)[j] \in 0 .. m - 1
<1>0. CASE m = 0 \/ k = 0
  BY <1>0 DEF MultiHash, IndependentHashes
<1>1. CASE m # 0 /\ k # 0
  <2>1. /\ Fnv64a[data] \in Int /\ Fnv64[data] \in Int /\ SeededFnv64a[data] \in Int
        /\ Murmur3h1[data] \in Int /\ Murmur3h2[data] \in Int
    BY HashAssumption DEF StrategyAssumption
  <2>2. ASSUME NEW i \in Nat PROVE HashWithStrategy(data, i, m, s) \in 0 .. m - 1
    <3> DEFINE a == i * Fnv64[data]
               b == i * Murmur3h2[data]
               c == i * i * SeededFnv64a[data]
               d == ((i * (i - 1)) % HashWord) \div 2
    <3>1. a \in Int /\ b \in Int /\ c \in Int /\ d \in Int
      BY <2>1, Terms
    <3> HIDE DEF a, b, c, d
    <3>2. /\ Fnv64a[data] + a \in Int /\ Murmur3h1[data] + b \in Int
          /\ Fnv64a[data] + a + d \in Int /\ Fnv64a[data] + a + c \in Int
      BY <2>1, <3>1
    <3>3. Index(Fnv64a[data] + a, m) \in 0 .. m - 1
      BY <1>1, <3>2, IndexRange
    <3>4. Index(Murmur3h1[data] + b, m) \in 0 .. m - 1
      BY <1>1, <3>2, IndexRange
    <3>5. Index(Fnv64a[data] + a + d, m) \in 0 .. m - 1
      BY <1>1, <3>2, IndexRange
    <3>6. Index(Fnv64a[data] + a + c, m) \in 0 .. m - 1
      BY <1>1, <3>2, IndexRange
    <3>7. Hash(data, i, m) \in 0 .. m - 1
      BY <3>3, HashIsIndex DEF a
    <3>8. Murmur3Hash(data, i, m) \in 0 .. m - 1
      BY <3>4 DEF Murmur3Hash, b
    <3>9. EnhancedDoubleHash(data, i, m) \in 0 .. m - 1
      BY <3>5 DEF EnhancedDoubleHash, a, d
    <3>10. TripleHash(data, i, m) \in 0 .. m - 1
      BY <3>6 DEF TripleHash, a, c
    <3> QED BY <3>7, <3>8, <3>9, <3>10 DEF HashWithStrategy, Strategy
  <2>3. ASSUME NEW i \in Nat PROVE CounterFnv64a(data, i) % m \in 0 .. m - 1
    <3>1. CounterFnv64a(data, i) \in Nat
      BY HashAssumption DEF StrategyAssumption
    <3> QED BY <1>1, <3>1
  <2>4. \A j \in 1 .. k : j - 1 \in Nat
    OBVIOUS
  <2> QED BY <1>1, <2>2, <2>3, <2>4 DEF MultiHash, IndependentHashes
<1> QED BY <1>0, <1>1

\* enhanced.go: the quadratic terms leave the first position alone, so that
\* with one hash function these strategies make the filters that Hash makes.
THEOREM FirstPositionAgrees ==
  ASSUME StrategyAssumption, NEW data \in Item, NEW m \in Nat
  PROVE  /\ HashWithStrategy(data, 0, m, "EnhancedDouble") = Hash(data, 0, m)
         /\ HashWithStrategy(data, 0, m, "Triple") = Hash(data, 0, m)
<1>1. Fnv64a[data] \in Int /\ Fnv64[data] \in Int /\ SeededFnv64a[data] \in Int
      /\ HashWord \in Nat \ {0}
  BY HashAssumption DEF StrategyAssumption
<1>2. 0 * 0 * SeededFnv64a[data] = 0 /\ ((0 * (0 - 1)) % HashWord) \div 2 = 0
  BY <1>1
<1>3. 0 * Fnv64[data] = 0
  BY <1>1
<1>4. EnhancedDoubleHash(data, 0, m) = Index(Fnv64a[data] + 0 * Fnv64[data], m)
  BY <1>1, <1>2, <1>3 DEF EnhancedDoubleHash
<1>5. TripleHash(data, 0, m) = Index(Fnv64a[data] + 0 * Fnv64[data], m)
  BY <1>1, <1>2, <1>3 DEF TripleHash
<1> QED BY <1>4, <1>5, HashIsIndex DEF HashWithStrategy

=============================================================================
