----------------------------- MODULE DurableSet -----------------------------
(***************************************************************************)
(* What the append-only store promises to one process after another.       *)
(* There is a set of committed items, on disk.  While a process has the    *)
(* set open it may ask for membership: a committed item is always found,   *)
(* another one may be (a false positive).  A process that dies loses       *)
(* nothing but the item whose insertion it was about to finish.            *)
(***************************************************************************)
CONSTANT Item

VARIABLES
  committed,   \* the items a later process will find
  up,          \* a process has the set open
  answers      \* the items it would be told are present

setVars == <<committed, up, answers>>

SetTypeOK ==
  /\ committed \subseteq Item
  /\ up \in BOOLEAN
  /\ answers \subseteq Item

SetInit ==
  /\ committed = {}
  /\ up = FALSE
  /\ answers = {}

\* A fresh set replaces whatever was there; its creator may die half-way.
New ==
  /\ ~up
  /\ committed' = {}
  /\ up' \in BOOLEAN
  /\ answers' = {}

Reopen ==
  /\ ~up
  /\ up' = TRUE
  /\ answers' \in SUBSET Item
  /\ committed \subseteq answers'
  /\ UNCHANGED committed

Insert(x) ==
  /\ up
  /\ committed' = committed \cup {x}
  /\ answers' \in SUBSET Item
  /\ answers \cup {x} \subseteq answers'
  /\ UNCHANGED up

\* The process dies inserting x, which may or may not have become durable.
DieInserting(x) ==
  /\ up
  /\ committed' \in {committed, committed \cup {x}}
  /\ up' = FALSE
  /\ answers' = {}

Leave ==
  /\ up
  /\ up' = FALSE
  /\ answers' = {}
  /\ UNCHANGED committed

SetNext ==
  \/ New
  \/ Reopen
  \/ \E x \in Item : Insert(x) \/ DieInserting(x)
  \/ Leave

SetSpec == SetInit /\ [][SetNext]_setVars

=============================================================================
