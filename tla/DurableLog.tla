----------------------------- MODULE DurableLog -----------------------------
(***************************************************************************)
(* What the write-ahead log promises to one process after another: a log   *)
(* in which every accepted entry has the place of its number, once, and    *)
(* in which nothing is behind a gap.  An entry that is accepted waits; a   *)
(* flush moves what waits into the log, all of it or a first part, and a   *)
(* flush that succeeds makes the whole log safe from a power failure.      *)
(* A log that was damaged once grows no more: what is flushed into it is   *)
(* lost without an error.                                                  *)
(***************************************************************************)
EXTENDS Naturals, Sequences

CONSTANT Payload

VARIABLES
  log,      \* what a reader makes of the file, by number
  kept,     \* so many entries of it survive a power failure
  pending,  \* accepted, and not in the log yet
  up,       \* a process has the log open
  damaged   \* a part of an entry is in the way

logVars == <<log, kept, pending, up, damaged>>

LogInit ==
  /\ log = <<>>
  /\ kept = 0
  /\ pending = <<>>
  /\ up = FALSE
  /\ damaged = FALSE

Start ==
  /\ ~up
  /\ up' = TRUE
  /\ UNCHANGED <<log, kept, pending, damaged>>

Accept(p) ==
  /\ up
  /\ pending' = Append(pending, p)
  /\ UNCHANGED <<log, kept, up, damaged>>

\* All that waits is in the log, and the log is safe.
Commit(waiting) ==
  /\ log' = IF damaged THEN log ELSE log \o waiting
  /\ kept' = Len(log')
  /\ pending' = <<>>
  /\ UNCHANGED <<up, damaged>>

\* A first part of what waits is in the log, and the rest waits on.
CommitPart(waiting) ==
  /\ \E n \in 0 .. Len(waiting) :
       /\ damaged => n = 0
       /\ log' = log \o SubSeq(waiting, 1, n)
       /\ pending' = SubSeq(waiting, n + 1, Len(waiting))
  /\ damaged' \in {damaged, TRUE}
  /\ UNCHANGED <<kept, up>>

FlushOf(waiting) == up /\ (Commit(waiting) \/ CommitPart(waiting))

Stop ==
  /\ up
  /\ up' = FALSE
  /\ pending' = <<>>
  /\ UNCHANGED <<log, kept, damaged>>

\* What was not safe is cut off, at any place; a part of an entry may be left,
\* or go with what is cut off.
LosePower ==
  /\ \E n \in kept .. Len(log) : log' = SubSeq(log, 1, n)
  /\ up' = FALSE
  /\ pending' = <<>>
  /\ damaged' \in BOOLEAN
  /\ UNCHANGED kept

LogNext ==
  \/ Start
  \/ \E p \in Payload : Accept(p) \/ FlushOf(Append(pending, p))
  \/ FlushOf(pending)
  \/ Stop
  \/ LosePower

LogSpec == LogInit /\ [][LogNext]_logVars

=============================================================================
