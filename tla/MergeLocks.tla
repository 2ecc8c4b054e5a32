----------------------------- MODULE MergeLocks -----------------------------
(***************************************************************************)
(* The locks of internal/counting.  Every CountingFilter has a             *)
(* sync.RWMutex; a call changes at most one filter, whose lock it takes to *)
(* write, first, and only reads at most one, whose lock it takes to read,  *)
(* second:                                                                 *)
(*                            changes   only reads                         *)
(*   f.Merge(g)               f         g                                  *)
(*   f.Add, Remove, Reset     f         None                               *)
(*   f.Test, Clone, Data ...  None      f                                  *)
(* What the calls do to the counters is in module Counting.                *)
(***************************************************************************)
EXTENDS FiniteSets

CONSTANTS
  Filters,  \* the *CountingFilters of a program
  Thread,   \* its goroutines
  None,     \* no filter, no goroutine
  Merges    \* the pairs <<f, g>> the program calls f.Merge(g) for

ASSUME LocksAssumption ==
  /\ Merges \subseteq Filters \X Filters
  /\ None \notin Filters \cup Thread

VARIABLES
  pc,       \* where each goroutine is
  op,       \* the filter its call changes, and the one it only reads
  writer,   \* who writes, or has locked out new readers and waits to write
  readers   \* who holds the lock to read

lockVars == <<pc, op, writer, readers>>

Ops == Merges \cup {<<f, None>> : f \in Filters} \cup {<<None, f>> : f \in Filters}

First(t) == op[t][1]
Second(t) == op[t][2]

InitLocks ==
  /\ pc = [t \in Thread |-> "idle"]
  /\ op = [t \in Thread |-> <<None, None>>]
  /\ writer = [f \in Filters |-> None]
  /\ readers = [f \in Filters |-> {}]

Goto(t, label) == pc' = [pc EXCEPT ![t] = label]

Call(t) ==
  /\ pc[t] = "idle"
  /\ \E o \in Ops :
       /\ op' = [op EXCEPT ![t] = o]
       /\ Goto(t, IF o[1] = None THEN "rlock" ELSE "lock")
  /\ UNCHANGED <<writer, readers>>

\* RWMutex.Lock, first half: the writers queue, and the one whose turn it is
\* locks out new readers.
Lock(t) ==
  /\ pc[t] = "lock"
  /\ writer[First(t)] = None
  /\ writer' = [writer EXCEPT ![First(t)] = t]
  /\ Goto(t, "drain")
  /\ UNCHANGED <<op, readers>>

ReadersGone(f) == readers[f] = {}

\* Mutant: Merge locks its own filter only.
AfterLockUnread(t) == "in"

\* Merge locks the other filter next.
AfterLock(t) == IF Second(t) = None THEN "in" ELSE "rlock"

\* RWMutex.Lock, second half: the readers there are leave.
Drain(t) ==
  /\ pc[t] = "drain"
  /\ ReadersGone(First(t))
  /\ Goto(t, AfterLock(t))
  /\ UNCHANGED <<op, writer, readers>>

\* RWMutex.RLock.
RLock(t) ==
  /\ pc[t] = "rlock"
  /\ writer[Second(t)] = None
  /\ readers' = [readers EXCEPT ![Second(t)] = @ \cup {t}]
  /\ Goto(t, "in")
  /\ UNCHANGED <<op, writer>>

\* Mutant: no defer other.mu.RUnlock().
StillReading(t) == readers

RUnlocked(t) == [f \in Filters |-> IF f = Second(t) THEN readers[f] \ {t} ELSE readers[f]]

\* The deferred unlocks.
Return(t) ==
  /\ pc[t] = "in"
  /\ writer' = [f \in Filters |-> IF f = First(t) THEN None ELSE writer[f]]
  /\ readers' = RUnlocked(t)
  /\ op' = [op EXCEPT ![t] = <<None, None>>]
  /\ Goto(t, "idle")

Step(t) == Lock(t) \/ Drain(t) \/ RLock(t) \/ Return(t)

NextLocks == \E t \in Thread : Call(t) \/ Step(t)

\* Go's locks let no goroutine that waits be overtaken for ever.
LocksFairness ==
  \A t \in Thread :
    SF_lockVars(Lock(t)) /\ WF_lockVars(Drain(t)) /\ SF_lockVars(RLock(t)) /\ WF_lockVars(Return(t))

LocksSpec == InitLocks /\ [][NextLocks]_lockVars

FairLocksSpec == LocksSpec /\ LocksFairness

-----------------------------------------------------------------------------
(* Properties *)

\* The locks are held by the calls that need them, and by no others.
LocksTypeOK ==
  /\ pc \in [Thread -> {"idle", "lock", "drain", "rlock", "in"}]
  /\ op \in [Thread -> Ops \cup {<<None, None>>}]
  /\ \A f \in Filters :
       /\ writer[f] # None =>
            /\ First(writer[f]) = f
            /\ pc[writer[f]] \in {"drain", "rlock", "in"}
       /\ \A t \in readers[f] : Second(t) = f /\ pc[t] = "in"

\* While a call changes a filter, no other call reads or changes it, not even
\* one that merges the filter into another: for that Merge takes both locks,
\* each in the right mode, and keeps both to its end.
Exclusive ==
  \A t, u \in Thread :
    t # u /\ pc[t] = "in" /\ pc[u] = "in" /\ First(t) # None =>
      First(t) # First(u) /\ First(t) # Second(u)

\* Calls of Merge that each hold their filter and wait for the next one's.
MergeCycle ==
  \E ring \in (SUBSET Thread) \ {{}} :
    \A t \in ring : pc[t] = "rlock" /\ writer[Second(t)] \in ring

\* A call's next action is possible: its lock is free, or only unlocks are left.
CanStep(t) ==
  \/ pc[t] = "lock" /\ writer[First(t)] = None
  \/ pc[t] = "drain" /\ ReadersGone(First(t))
  \/ pc[t] = "rlock" /\ writer[Second(t)] = None
  \/ pc[t] = "in"

Hung ==
  /\ \E t \in Thread : pc[t] # "idle"
  /\ \A t \in Thread : ~CanStep(t)

\* Merge, snapshot.go: nothing but a ring of merges, a filter merged with itself
\* being the smallest, stops the calls for good; readers, writers and queues do not.
OnlyRingsBlock == Hung => MergeCycle

\* As long as no merges form a ring, every call returns, under any load of
\* readers and writers: a program that merges in one direction only never hangs.
MergesReturn == \A t \in Thread : pc[t] # "idle" ~> pc[t] = "idle" \/ MergeCycle

=============================================================================
