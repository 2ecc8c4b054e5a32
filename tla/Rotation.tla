------------------------------ MODULE Rotation ------------------------------
(***************************************************************************)
(* internal/partition: a RotatingFilter (rotation.go) over a partitioned   *)
(* Filter (partition.go).  Goroutines add items; clients rotate, snapshot  *)
(* and restore; every Start() begins one more automatic loop.  Filter's    *)
(* lock makes each of its methods one step.  RotatingFilter's own lock, mu,*)
(* covers a whole rotation, snapshot or restore, but Add and Test do not   *)
(* take it and run between their steps.  Saturations are numbers of bits.  *)
(* A snapshot is restored only into a filter of the shape it came from, so *)
(* Restore's error returns never happen; nobody resets partitions behind   *)
(* the RotatingFilter's back, through Filter().                            *)
(***************************************************************************)
EXTENDS BloomFilter, Sequences, FiniteSets

CONSTANTS
  N,            \* partitions
  M, K,         \* bits and hash functions of each
  Strategies,   \* those in use, of "RoundRobin" and "Saturation"
  Limit,        \* SaturationLimit, in bits
  Loop,         \* the goroutines Start() may create
  Client,       \* goroutines that call Rotate, Snapshot and Restore
  NoOne,        \* mu is free
  NoSnapshot,
  MaxRotations  \* bound of the runs: no rotation is asked for after as many

Part == 0 .. N - 1
Thread == Loop \cup Client

ASSUME RotationAssumption ==
  /\ N \in Nat \ {0}
  /\ M \in Nat \ {0}
  /\ K \in Nat \ {0}
  /\ Strategies \subseteq {"RoundRobin", "Saturation"}
  /\ Limit \in Nat
  /\ Loop \cap Client = {}
  /\ NoOne \notin Thread
  /\ NoSnapshot \notin [Part -> SUBSET (0 .. M - 1)]
  /\ MaxRotations \in Nat

VARIABLES
  partitions,  \* the bits set in each
  strategy,    \* rf.cfg.Strategy, which never changes
  current,     \* rf.current
  stopped,     \* rf.stopped, and rf.stop is closed
  history,     \* rf.history
  mu,          \* the holder of rf.mu
  pc,          \* where each goroutine is
  local,       \* variables of a rotation, snapshot or restore under way
  snap,        \* the last snapshot, kept by its caller
  live,        \* history: the items added, and not reset since
  snapLive,    \* history: the items live when the last snapshot began
  since,       \* history: rotations done since an item was added or put back, N
               \* standing for all from N on
  snapItems    \* history: the items added or put back less than N rotations
               \* before the last snapshot copied their partition

ghosts == <<live, snapLive, since, snapItems>>
vars == <<partitions, strategy, current, stopped, history, mu, pc, local, snap, ghosts>>

Start0 == [next |-> 0, idx |-> 0, bits |-> 0, base |-> {}]

TypeOK ==
  /\ partitions \in [Part -> SUBSET (0 .. M - 1)]
  /\ strategy \in Strategies
  /\ current \in Part
  /\ stopped \in BOOLEAN
  /\ \A i \in DOMAIN history : history[i] \in [partition : Part, saturation : 0 .. M]
  /\ mu \in Thread \cup {NoOne}
  /\ pc \in [Thread -> {"off", "select", "done", "idle", "rotate", "scan", "reset",
                        "snapshot", "copy", "copying", "restore", "put"}]
  /\ local \in [Thread -> [next : 0 .. N, idx : Part, bits : 0 .. M,
                           base : SUBSET (0 .. M - 1)]]
  /\ snap \in [Part -> SUBSET (0 .. M - 1)] \cup {NoSnapshot}
  /\ live \subseteq Item /\ snapLive \subseteq Item
  /\ since \in [Item -> 0 .. N] /\ snapItems \subseteq Item

Init ==
  /\ partitions = [i \in Part |-> {}]
  /\ strategy \in Strategies
  /\ current = 0
  /\ stopped = FALSE
  /\ history = <<>>
  /\ mu = NoOne
  /\ pc = [t \in Thread |-> IF t \in Loop THEN "off" ELSE "idle"]
  /\ local = [t \in Thread |-> Start0]
  /\ snap = NoSnapshot
  /\ live = {} /\ snapLive = {}
  /\ since = [x \in Item |-> N] /\ snapItems = {}

-----------------------------------------------------------------------------
(* Adding and testing *)

Route(data) == Hash(data, 0, N * 1000) % N

Routed(idx) == {x \in Item : Route(x) = idx}

\* The items of a partition that fewer than N rotations have passed over.
Recent(idx) == {x \in Routed(idx) : since[x] < N}

Add(data) ==
  /\ partitions' = [partitions EXCEPT ![Route(data)] = @ \cup Positions(data, K, M)]
  /\ live' = live \cup {data}
  /\ since' = [since EXCEPT ![data] = 0]
  /\ UNCHANGED <<strategy, current, stopped, history, mu, pc, local, snap, snapLive, snapItems>>

Test(data) == Positions(data, K, M) \subseteq partitions[Route(data)]

Saturation(idx) == Cardinality(partitions[idx])

-----------------------------------------------------------------------------
(* The lock of the RotatingFilter *)

Goto(t, label) == pc' = [pc EXCEPT ![t] = label]

\* Mutant: the lock is not waited for.
MuTaken == TRUE

MuFree == mu = NoOne

\* A goroutine that waits for mu gets it, and what it came for begins.
Lock(t) ==
  /\ MuFree
  /\ pc[t] \in {"rotate", "snapshot", "restore"}
  /\ mu' = t
  /\ Goto(t, [rotate |-> "scan", snapshot |-> "copy", restore |-> "put"][pc[t]])
  /\ snap' = IF pc[t] = "snapshot" THEN [i \in Part |-> {}] ELSE snap
  /\ snapLive' = IF pc[t] = "snapshot" THEN live ELSE snapLive
  /\ snapItems' = IF pc[t] = "snapshot" THEN {} ELSE snapItems
  /\ UNCHANGED <<strategy, partitions, current, stopped, history, local, live, since>>

\* mu is released, and a loop goes back to its select.
Return(t) ==
  /\ mu' = NoOne
  /\ local' = [local EXCEPT ![t] = Start0]
  /\ Goto(t, IF t \in Loop THEN "select" ELSE "idle")

-----------------------------------------------------------------------------
(* rotateOnce *)

\* One look at a saturation.  Round robin looks at the current partition only.
Scan(t) ==
  LET idx == IF strategy = "RoundRobin" THEN current ELSE local[t].next
  IN  /\ pc[t] = "scan"
      /\ local[t].next < (IF strategy = "RoundRobin" THEN 1 ELSE N)
      /\ local' =
           IF strategy = "RoundRobin" \/ Saturation(idx) > local[t].bits
             THEN [local EXCEPT ![t].next = @ + 1, ![t].idx = idx, ![t].bits = Saturation(idx)]
             ELSE [local EXCEPT ![t].next = @ + 1]
      /\ UNCHANGED <<strategy, partitions, current, stopped, history, mu, pc, snap, ghosts>>

Scanned(t) ==
  /\ pc[t] = "scan"
  /\ local[t].next = IF strategy = "RoundRobin" THEN 1 ELSE N

Event(t) == [partition |-> local[t].idx, saturation |-> local[t].bits]

\* Mutant: the limit is not looked at.
AnySaturation(t) == TRUE

\* Round robin does not ask.
SaturatedEnough(t) == strategy = "Saturation" => local[t].bits >= Limit

\* Mutant: an early return that forgets the lock.
ReturnLocked(t) ==
  /\ UNCHANGED <<mu, local>>
  /\ Goto(t, IF t \in Loop THEN "select" ELSE "idle")

ReturnEarly(t) == Return(t)

\* No partition is saturated enough.
Skip(t) ==
  /\ Scanned(t)
  /\ ~SaturatedEnough(t)
  /\ ReturnEarly(t)
  /\ UNCHANGED <<strategy, partitions, current, stopped, history, snap, ghosts>>

NextPartition == (current + 1) % N

\* The event is in the history before the partition is reset.
Record(t) ==
  /\ Scanned(t)
  /\ SaturatedEnough(t)
  /\ current' = IF strategy = "RoundRobin" THEN NextPartition ELSE current
  /\ history' = Append(history, Event(t))
  /\ Goto(t, "reset")
  /\ UNCHANGED <<strategy, partitions, stopped, mu, local, snap, ghosts>>

OneMore(n) == IF n < N THEN n + 1 ELSE N

\* Mutant: rf.current, which has moved on.
ToResetCurrent(t) == current

ToReset(t) == local[t].idx

\* Mutant: ResetPartition takes the last index for one out of range.
ClearedButLast(idx) ==
  IF idx < N - 1 THEN [partitions EXCEPT ![idx] = {}] ELSE partitions

Cleared(idx) == [partitions EXCEPT ![idx] = {}]

Reset(t) ==
  /\ pc[t] = "reset"
  /\ partitions' = Cleared(ToReset(t))
  /\ live' = live \ Routed(local[t].idx)
  /\ since' = [x \in Item |-> OneMore(since[x])]
  /\ Return(t)
  /\ UNCHANGED <<strategy, current, stopped, history, snap, snapLive, snapItems>>

-----------------------------------------------------------------------------
(* Clients, and the automatic loops *)

\* A client calls Rotate, Snapshot, or Restore with the snapshot it has.
Call(c) ==
  /\ pc[c] = "idle"
  /\ \/ Len(history) < MaxRotations /\ Goto(c, "rotate")
     \/ Goto(c, "snapshot")
     \/ snap # NoSnapshot /\ Goto(c, "restore")
  /\ UNCHANGED <<strategy, partitions, current, stopped, history, mu, local, snap, ghosts>>

\* Start() may be called again, and after Stop().
Start(l) ==
  /\ pc[l] = "off"
  /\ Goto(l, "select")
  /\ UNCHANGED <<strategy, partitions, current, stopped, history, mu, local, snap, ghosts>>

\* The ticker's case of the select; it may be chosen when the filter is
\* stopped too, if a tick is waiting.
Tick(l) ==
  /\ pc[l] = "select"
  /\ Len(history) < MaxRotations
  /\ Goto(l, "rotate")
  /\ UNCHANGED <<strategy, partitions, current, stopped, history, mu, local, snap, ghosts>>

\* Mutant: Stop sends one value, which one loop receives.
StopReceivedOnce == stopped /\ \A l \in Loop : pc[l] # "done"

\* Stop closes the channel, and every loop sees it closed.
StopReceived == stopped

\* The other case: the channel is closed.
LoopEnds(l) ==
  /\ pc[l] = "select"
  /\ StopReceived
  /\ Goto(l, "done")
  /\ UNCHANGED <<strategy, partitions, current, stopped, history, mu, local, snap, ghosts>>

\* A second Stop returns an error.
Stop ==
  /\ MuFree
  /\ ~stopped
  /\ stopped' = TRUE
  /\ UNCHANGED <<strategy, partitions, current, history, mu, pc, local, snap, ghosts>>

-----------------------------------------------------------------------------
(* Snapshot and Restore *)

\* The sub-filter is looked up, and the copying of its bits begins.
CopyBegin(t) ==
  /\ pc[t] = "copy"
  /\ local[t].next < N
  /\ local' = [local EXCEPT ![t].base = partitions[local[t].next]]
  /\ Goto(t, "copying")
  /\ UNCHANGED <<strategy, partitions, current, stopped, history, mu, snap, ghosts>>

\* The copy is made without the Filter's lock: of the bits that Add sets while
\* it is made, any may be in it.
CopyEnd(t) ==
  LET idx == local[t].next
  IN  /\ pc[t] = "copying"
      /\ \E seen \in SUBSET (partitions[idx] \ local[t].base) :
           snap' = [snap EXCEPT ![idx] = local[t].base \cup seen]
      /\ snapItems' = snapItems \cup Recent(idx)
      /\ local' = [local EXCEPT ![t].next = @ + 1, ![t].base = {}]
      /\ Goto(t, "copy")
      /\ UNCHANGED <<strategy, partitions, current, stopped, history, mu, live, snapLive, since>>

\* Partition by partition: items are added between two of them.
Put(t) ==
  LET idx == local[t].next
  IN  /\ pc[t] = "put"
      /\ idx < N
      /\ partitions' = [partitions EXCEPT ![idx] = snap[idx]]
      /\ live' = (live \ Routed(idx)) \cup (snapLive \cap Routed(idx))
      /\ since' = [x \in Item |-> IF x \in snapItems \cap Routed(idx) THEN 0 ELSE since[x]]
      /\ local' = [local EXCEPT ![t].next = @ + 1]
      /\ UNCHANGED <<strategy, current, stopped, history, mu, pc, snap, snapLive, snapItems>>

AllCopied(t) ==
  /\ pc[t] \in {"copy", "put"}
  /\ local[t].next = N
  /\ Return(t)
  /\ UNCHANGED <<strategy, partitions, current, stopped, history, snap, ghosts>>

-----------------------------------------------------------------------------

Rotate(t) == Scan(t) \/ Skip(t) \/ Record(t) \/ Reset(t)

Step(t) == Rotate(t) \/ CopyBegin(t) \/ CopyEnd(t) \/ Put(t) \/ AllCopied(t)

Next ==
  \/ \E data \in Item : Add(data)
  \/ \E t \in Thread : Lock(t) \/ Step(t)
  \/ \E c \in Client : Call(c)
  \/ \E l \in Loop : Start(l) \/ Tick(l) \/ LoopEnds(l)
  \/ Stop

\* A Go mutex hands itself over to a goroutine that has waited for long, and a
\* select chooses at random among the cases that are ready.
Fairness ==
  /\ \A t \in Thread : SF_vars(Lock(t)) /\ WF_vars(Step(t))
  /\ \A l \in Loop : SF_vars(LoopEnds(l))

Spec == Init /\ [][Next]_vars

FairSpec == Spec /\ Fairness

-----------------------------------------------------------------------------
(* Properties *)

\* However many loops and clients rotate, the partitions take turns: the one
\* that is reset is the one whose last reset is the longest ago.
RoundRobinOrder ==
  strategy = "RoundRobin" =>
    /\ \A i \in DOMAIN history : history[i].partition = (i - 1) % N
    /\ current = Len(history) % N

\* Round robin, and nothing stays for N rotations: every bit that is set in a
\* partition is one of an item that was added to it, or put back into it with a
\* snapshot, fewer than N rotations ago.  A snapshot puts back only items of
\* which this was true when it copied their partition.
EverythingExpires ==
  strategy = "RoundRobin" =>
    \A i \in Part : partitions[i] \subseteq UNION {Positions(x, K, M) : x \in Recent(i)}

\* An item is not lost before the reset of its partition: an Add that runs
\* between the steps of a rotation, a snapshot or a restore is either undone
\* by it or still there, and restoring brings back all that was in the filter
\* when the snapshot was begun.
Present == \A x \in live : Test(x)

\* The Saturation strategy never resets a partition under the limit, though
\* the decision is taken some time before.
OnlySaturatedReset ==
  [][\A t \in Thread :
       strategy = "Saturation" /\ Reset(t) => Saturation(local[t].idx) >= Limit]_vars

\* After Stop, every automatic loop ends, also one that was about to rotate,
\* and one that is started later.
StopEndsLoops == stopped ~> \A l \in Loop : pc[l] \in {"off", "done"}

\* Every call returns: a rotation that has nothing to do gives back the lock
\* too.
CallsReturn == \A c \in Client : pc[c] # "idle" ~> pc[c] = "idle"

-----------------------------------------------------------------------------
(* What the documentation says and the code does not do *)

\* "Stop halts the automatic rotation goroutine": once it has returned, no
\* loop rotates.
StopHalts == [][stopped => \A l \in Loop : ~Record(l)]_vars

\* "StrategySaturation resets the most saturated partition".
MostSaturatedReset ==
  [][\A t \in Thread :
       strategy = "Saturation" /\ Reset(t) =>
         \A i \in Part : Saturation(i) <= Saturation(local[t].idx)]_vars

\* "saturation before reset": what the history says of a rotation is how
\* saturated the partition was when it was reset.
SaturationBeforeReset ==
  [][\A t \in Thread :
       Reset(t) => history[Len(history)].saturation = Saturation(local[t].idx)]_vars

=============================================================================
