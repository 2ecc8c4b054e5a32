----------------------------- MODULE MCCounting -----------------------------
(***************************************************************************)
(* Two filters of four two-bit counters.  The positions of a and b overlap *)
(* in one; both hashes of d fall on the same position, as they do for any  *)
(* item whose second hash is a multiple of m.                              *)
(***************************************************************************)
EXTENDS Counting, TLC

CONSTANTS f1, f2

MCCF == {f1, f2}

\* The filters are interchangeable.
MCSymmetry == Permutations(MCCF)

MCDistinctItem == {"a", "b"}
MCDuplicateItem == {"a", "d"}

MCFnv64a == [x \in Item |-> CASE x = "a" -> 0 [] x = "b" -> 1 [] x = "d" -> 2]
MCFnv64 == [x \in Item |-> CASE x = "a" -> 1 [] x = "b" -> 1 [] x = "d" -> 4]

=============================================================================
