------------------------------ MODULE MCStore ------------------------------
(***************************************************************************)
(* Small instances of Store.  With four positions and two hash functions   *)
(* the items collide in part: b is a false positive of some sets, and the  *)
(* hash of c wraps at the width of a word.                                 *)
(***************************************************************************)
EXTENDS Store

MCItem == {"a", "b", "c"}

MCFnv64a ==
  [x \in MCItem |-> CASE x = "a" -> 0 [] x = "b" -> 2 [] x = "c" -> 14]

MCFnv64 ==
  [x \in MCItem |-> CASE x = "a" -> 1 [] x = "b" -> 1 [] x = "c" -> 3]

=============================================================================
