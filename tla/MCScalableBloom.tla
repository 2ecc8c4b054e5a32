-------------------------- MODULE MCScalableBloom --------------------------
(***************************************************************************)
(* targetFPR and fprScale are both 1/2, so that the rate of level l is     *)
(* 1 / 2^(l+1); the formulas of filter.go in fixed point.                  *)
(***************************************************************************)
EXTENDS ScalableBloom, TLC

MCItem == {"a", "b", "c"}

MCFnv64a == [x \in Item |-> CASE x = "a" -> 0 [] x = "b" -> 1 [] x = "c" -> 13]
MCFnv64 == [x \in Item |-> CASE x = "a" -> 1 [] x = "b" -> 3 [] x = "c" -> 9]

Ceiling(x, y) == (x + y - 1) \div y

\* -n * ln(fpr) / ln(2)^2 * 1.02, at least 8.
MCRequiredBits(n, l) ==
  LET m == Ceiling(n * (l + 1) * 14716, 10000) IN IF m < 8 THEN 8 ELSE m

\* m / n * ln(2), rounded, at least 1.
MCOptimalK(m, n) ==
  LET k == (2 * m * 6931 + n * 10000) \div (n * 20000) IN IF k < 1 THEN 1 ELSE k

\* -ln(1 - fpr^(1/k)) / k, in thousandths, of the levels 0 to 3.
PerBit == <<
  <<693, 287, 133, 64>>,
  <<613, 346, 218, 143>>,
  <<526, 331, 231, 168>>,
  <<459, 306, 225, 173>>,
  <<408, 283, 215, 170>>,
  <<369, 263, 204, 165>> >>

MCMaxInsertions(m, k, l) == (m * PerBit[k][l + 1]) \div 1000

=============================================================================
