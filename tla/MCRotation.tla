----------------------------- MODULE MCRotation -----------------------------
(***************************************************************************)
(* Two hash functions.  Of two partitions, items a and c go to             *)
(* partition 0 and b to partition 1.                                       *)
(***************************************************************************)
EXTENDS Rotation, TLC

CONSTANTS l1, l2, c1

MCOneLoop == {l1}
MCTwoLoops == {l1, l2}
MCOneClient == {c1}

MCOneItem == {"b"}
MCTwoItems == {"a", "b"}
MCThreeItems == {"a", "b", "c"}

MCFnv64a == [x \in Item |-> CASE x = "a" -> 0 [] x = "b" -> 1 [] x = "c" -> 2]
MCFnv64 == [x \in Item |-> CASE x = "a" -> 1 [] x = "b" -> 1 [] x = "c" -> 0]

\* Only the number of loops and clients matters.
MCSymmetry == Permutations(Loop) \cup Permutations(Client)

=============================================================================
