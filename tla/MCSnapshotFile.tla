--------------------------- MODULE MCSnapshotFile ---------------------------
(***************************************************************************)
(* Two or three add processes on a file that is absent, or a legacy one    *)
(* with parameters that are not the defaults, and item b in it.            *)
(***************************************************************************)
EXTENDS SnapshotFile, TLC

CONSTANTS p1, p2, p3

MCProcess == {p1, p2, p3}
MCSymmetry == Permutations(Process)

MCItem == {"a", "b"}
MCFnv64a == [x \in Item |-> IF x = "a" THEN 0 ELSE 3]
MCFnv64 == [x \in Item |-> 1]

MCLegacy == {[m |-> 5, k |-> 1, bits |-> {3}, len |-> 1, sealed |-> FALSE]}

=============================================================================
