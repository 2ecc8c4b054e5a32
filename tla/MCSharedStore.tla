--------------------------- MODULE MCSharedStore ---------------------------
(***************************************************************************)
(* Three processes.  The records of a and b, and a checkpoint, have three  *)
(* different sizes, so that what overlaps does not line up.                *)
(***************************************************************************)
EXTENDS SharedStore, TLC

CONSTANTS p1, p2, p3

MCProcess == {p1, p2, p3}
MCSymmetry == Permutations(Process)

MCItem == {"a", "b"}
MCFnv64a == [x \in Item |-> IF x = "a" THEN 0 ELSE 3]
MCFnv64 == [x \in Item |-> 1]
MCItemSize == [x \in Item |-> IF x = "a" THEN 2 ELSE 3]

=============================================================================
