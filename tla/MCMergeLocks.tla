---------------------------- MODULE MCMergeLocks ----------------------------
(***************************************************************************)
(* Three goroutines, enough for a ring of three merges, of two with a third*)
(* goroutine that queues behind it, and of f.Merge(f) with two more.       *)
(***************************************************************************)
EXTENDS MergeLocks

CONSTANTS f, g, h, t1, t2, t3

MCFilters == {f, g, h}
MCThread == {t1, t2, t3}

\* A merge with itself, a ring of two and a ring of three.
MCMerges == {<<f, f>>, <<f, g>>, <<g, f>>, <<g, h>>, <<h, f>>}

=============================================================================
