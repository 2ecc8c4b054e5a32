------------------------------- MODULE MCWAL -------------------------------
(* Small instances of WAL. *)
EXTENDS WAL, TLC

CONSTANTS p, q

MCPayload == {p, q}

\* Payloads are compared, and nothing else.
MCSymmetry == Permutations(MCPayload)

=============================================================================
