----------------------------- MODULE Collector ------------------------------
(***************************************************************************)
(* internal/stats, stats.go: a Collector that goroutines share.  The seven *)
(* counters are atomics, read and written one at a time; mu guards the     *)
(* history of snapshots, and the creation time when Reset writes it, but   *)
(* not when it is read.  Times are counted instead of measured: created is *)
(* the number of the Reset that wrote it, a word at a time as a time.Time  *)
(* is, and a timestamp the number of the reading of the clock.             *)
(***************************************************************************)
EXTENDS Integers, Sequences, FiniteSets

CONSTANTS
  Thread,
  MaxHist,   \* c.maxHist, after the default
  Recorded,  \* the calls made: fields counted, and
  Others,    \*   a subset of {"TakeSnapshot", "Metrics", "Reset", "Uptime"}
  NoOne,
  MaxCalls   \* bound of the runs: the number of calls

\* In the order Metrics loads them and Reset zeroes them.
Fields == <<"adds", "tests", "hits", "misses", "removes", "overflows", "underflows">>

Field == {Fields[i] : i \in DOMAIN Fields}

ASSUME CollectorAssumption ==
  /\ MaxHist \in Nat \ {0}
  /\ Recorded \subseteq Field
  /\ Others \subseteq {"TakeSnapshot", "Metrics", "Reset", "Uptime"}
  /\ MaxCalls \in Nat
  /\ NoOne \notin Thread

VARIABLES
  counters,
  history,
  created,  \* the two words of c.created
  mu,       \* the holder of c.mu
  pc, call, \* where each goroutine is, and in which call
  local,    \* what it has read
  calls,    \* history: calls begun
  clock,    \* history: readings of the clock
  resets    \* history: how often the history was cleared

ghosts == <<calls, clock, resets>>
vars == <<counters, history, created, mu, pc, call, local, ghosts>>

Zero == [f \in Field |-> 0]
Unread == [next |-> 1, metrics |-> Zero, created |-> <<0, 0>>, stamp |-> 0, era |-> 0]

Snapshots == [metrics : [Field -> Nat], created : Nat \X Nat, stamp : Nat, era : Nat]

TypeOK ==
  /\ counters \in [Field -> 0 .. MaxCalls]
  /\ history \in Seq(Snapshots)
  /\ created \in Nat \X Nat
  /\ mu \in Thread \cup {NoOne}
  /\ pc \in [Thread -> {"idle", "tested", "load", "wall", "ext", "append",
                        "store", "clear", "setWall", "setExt"}]
  /\ \A t \in Thread :
       /\ local[t].next \in 1 .. Len(Fields) + 1
       /\ local[t].metrics \in [Field -> 0 .. MaxCalls]
       /\ mu = t <=> pc[t] \in {"setWall", "setExt"}
  /\ resets <= calls

Init ==
  /\ counters = Zero
  /\ history = <<>>
  /\ created = <<0, 0>>
  /\ mu = NoOne
  /\ pc = [t \in Thread |-> "idle"]
  /\ call = [t \in Thread |-> "none"]
  /\ local = [t \in Thread |-> Unread]
  /\ calls = 0 /\ clock = 0 /\ resets = 0

Goto(t, label) == pc' = [pc EXCEPT ![t] = label]

Begin(t) == pc[t] = "idle" /\ calls < MaxCalls /\ calls' = calls + 1

Return(t) ==
  /\ Goto(t, "idle")
  /\ call' = [call EXCEPT ![t] = "none"]
  /\ local' = [local EXCEPT ![t] = Unread]

Increment(f) == counters' = [counters EXCEPT ![f] = @ + 1]

-----------------------------------------------------------------------------
(* Recording *)

\* RecordAdd, RecordRemove, RecordOverflow, RecordUnderflow.
Record(t) ==
  /\ Begin(t)
  /\ \E f \in Recorded \ {"tests", "hits", "misses"} : Increment(f)
  /\ UNCHANGED <<history, created, mu, pc, call, local, clock, resets>>

\* Mutant: the outcome is counted first.
OutcomeFirst == Recorded \cap {"hits", "misses"}

CountedFirst == Recorded \cap {"tests"}

\* RecordTest: the test is counted,
RecordTest(t) ==
  /\ Begin(t)
  /\ \E f \in CountedFirst : Increment(f)
  /\ Goto(t, "tested")
  /\ UNCHANGED <<history, created, mu, call, local, clock, resets>>

\* and then whether it was a hit or a miss.
RecordOutcome(t) ==
  /\ pc[t] = "tested"
  /\ \E f \in Recorded \cap {"hits", "misses"} : Increment(f)
  /\ Goto(t, "idle")
  /\ UNCHANGED <<history, created, mu, call, local, ghosts>>

-----------------------------------------------------------------------------
(* Metrics, TakeSnapshot, Uptime and Reset *)

Call(t) ==
  /\ Begin(t)
  /\ \E name \in Others :
       /\ call' = [call EXCEPT ![t] = name]
       /\ Goto(t, CASE name \in {"Metrics", "TakeSnapshot"} -> "load"
                    [] name = "Uptime" -> "wall"
                    [] name = "Reset" -> "store")
  /\ local' = [local EXCEPT ![t].era = resets]
  /\ UNCHANGED <<counters, history, created, mu, clock, resets>>

\* Mutant: the fields are taken from the last to the first.
FieldBackwards(i) == Fields[Len(Fields) + 1 - i]

FieldAt(i) == Fields[i]

Load(t) ==
  LET i == local[t].next
  IN  /\ pc[t] = "load"
      /\ i <= Len(Fields)
      /\ local' = [local EXCEPT ![t].metrics[FieldAt(i)] = counters[FieldAt(i)],
                                ![t].next = i + 1]
      /\ UNCHANGED <<counters, history, created, mu, pc, call, ghosts>>

\* The timestamp is read after the counters.
Loaded(t) ==
  /\ pc[t] = "load"
  /\ local[t].next > Len(Fields)
  /\ IF call[t] = "Metrics"
       THEN Return(t) /\ UNCHANGED clock
       ELSE /\ clock' = clock + 1
            /\ local' = [local EXCEPT ![t].stamp = clock + 1]
            /\ Goto(t, "wall")
            /\ UNCHANGED call
  /\ UNCHANGED <<counters, history, created, mu, calls, resets>>

\* time.Since(c.created), without the lock.
ReadWall(t) ==
  /\ pc[t] = "wall"
  /\ local' = [local EXCEPT ![t].created[1] = created[1]]
  /\ Goto(t, "ext")
  /\ UNCHANGED <<counters, history, created, mu, call, ghosts>>

ReadExt(t) ==
  /\ pc[t] = "ext"
  /\ local' = [local EXCEPT ![t].created[2] = created[2]]
  /\ Goto(t, "append")
  /\ UNCHANGED <<counters, history, created, mu, call, ghosts>>

UptimeReturns(t) ==
  /\ pc[t] = "append" /\ call[t] = "Uptime"
  /\ Return(t)
  /\ UNCHANGED <<counters, history, created, mu, ghosts>>

\* A tenth of the history, and at least one snapshot, is evicted from a full one.
Evicted == IF MaxHist \div 10 < 1 THEN 1 ELSE MaxHist \div 10

Snapshot(t) ==
  [metrics |-> local[t].metrics, created |-> local[t].created,
   stamp |-> local[t].stamp, era |-> local[t].era]

\* Mutant: one snapshot too many before the history counts as full.
HistoryOverfull == Len(history) > MaxHist

HistoryFull == Len(history) >= MaxHist

AppendSnapshot(t) ==
  LET kept == IF HistoryFull THEN SubSeq(history, Evicted + 1, Len(history)) ELSE history
  IN  /\ pc[t] = "append" /\ call[t] = "TakeSnapshot"
      /\ mu = NoOne
      /\ history' = Append(kept, Snapshot(t))
      /\ Return(t)
      /\ UNCHANGED <<counters, created, mu, ghosts>>

\* Reset zeroes the counters one by one,
Store(t) ==
  LET i == local[t].next
  IN  /\ pc[t] = "store"
      /\ counters' = [counters EXCEPT ![FieldAt(i)] = 0]
      /\ local' = [local EXCEPT ![t].next = i + 1]
      /\ Goto(t, IF i = Len(Fields) THEN "clear" ELSE "store")
      /\ UNCHANGED <<history, created, mu, call, ghosts>>

\* Mutant: the history is kept.
HistoryKept == history

HistoryCleared == <<>>

\* takes mu and clears the history,
Clear(t) ==
  /\ pc[t] = "clear"
  /\ mu = NoOne
  /\ mu' = t
  /\ history' = HistoryCleared
  /\ resets' = resets + 1
  /\ Goto(t, "setWall")
  /\ UNCHANGED <<counters, created, call, local, calls, clock>>

\* and writes the creation time.
SetWall(t) ==
  /\ pc[t] = "setWall"
  /\ created' = [created EXCEPT ![1] = resets]
  /\ Goto(t, "setExt")
  /\ UNCHANGED <<counters, history, mu, call, local, ghosts>>

SetExt(t) ==
  /\ pc[t] = "setExt"
  /\ created' = [created EXCEPT ![2] = resets]
  /\ mu' = NoOne
  /\ Return(t)
  /\ UNCHANGED <<counters, history, ghosts>>

Next ==
  \E t \in Thread :
    \/ Record(t) \/ RecordTest(t) \/ RecordOutcome(t)
    \/ Call(t)
    \/ Load(t) \/ Loaded(t) \/ ReadWall(t) \/ ReadExt(t)
    \/ UptimeReturns(t) \/ AppendSnapshot(t)
    \/ Store(t) \/ Clear(t) \/ SetWall(t) \/ SetExt(t)

Spec == Init /\ [][Next]_vars

-----------------------------------------------------------------------------
(* Properties *)

\* Without Reset, the outcomes recorded never exceed the tests, and lag behind
\* by the calls of RecordTest under way.
OutcomesFollowTests ==
  resets = 0 /\ (\A t \in Thread : call[t] # "Reset") =>
    counters["tests"] - (counters["hits"] + counters["misses"]) =
      Cardinality({t \in Thread : pc[t] = "tested"})

\* A Reset may fall between a test and its outcome, and many may overlap.  Once
\* none is under way, hits and misses are ahead of the tests by less than the
\* number of goroutines: Resets do not add up, as each zeroes the tests first.
ExcessBounded ==
  (\A t \in Thread : call[t] # "Reset") =>
    counters["hits"] + counters["misses"] - counters["tests"] < Cardinality(Thread)

\* Without Reset, the misses and hits of a snapshot are not short of its tests
\* by more than the other goroutines can account for, however much is recorded
\* while its fields are read.
UndercountBounded ==
  resets = 0 /\ (\A t \in Thread : call[t] # "Reset") =>
    \A i \in DOMAIN history :
      LET m == history[i].metrics
      IN  m["tests"] - (m["hits"] + m["misses"]) < Cardinality(Thread)

\* Whoever takes them, no more than MaxHist snapshots are kept.
HistoryBounded == Len(history) <= MaxHist

\* Snapshots begun before a Reset can end up in the history it cleared, but
\* only one for each goroutine that was in TakeSnapshot.
FewStaleSnapshots ==
  Cardinality({i \in DOMAIN history : history[i].era < resets}) < Cardinality(Thread)

-----------------------------------------------------------------------------
(* What the documentation says and the code does not do *)

\* "Snapshot represents a point-in-time metrics snapshot": at no time are
\* there more hits than tests.
PointInTime ==
  \A i \in DOMAIN history : history[i].metrics["hits"] <= history[i].metrics["tests"]

\* "Older snapshots are evicted": the history never loses a snapshot while it
\* keeps an older one.
OlderEvicted ==
  [][Len(history') > 0 /\ resets' = resets =>
       \A i \in DOMAIN history, j \in DOMAIN history' :
         (\A k \in DOMAIN history' : history'[k].stamp # history[i].stamp) =>
           history[i].stamp < history'[j].stamp]_vars

\* "It is safe for concurrent use": Uptime computes with a time that Reset or
\* NewCollector wrote.
UptimeWhole ==
  \A t \in Thread : pc[t] = "append" => local[t].created[1] = local[t].created[2]

=============================================================================
