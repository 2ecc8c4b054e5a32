---------------------------- MODULE MCCollector -----------------------------
(***************************************************************************)
(* Two goroutines.                                                         *)
(***************************************************************************)
EXTENDS Collector, TLC

CONSTANTS t1, t2

MCThread == {t1, t2}

MCRecorded == {"tests", "hits", "misses", "overflows"}

MCAnyCall == {"TakeSnapshot", "Metrics", "Reset", "Uptime"}

MCSymmetry == Permutations(Thread)

=============================================================================
