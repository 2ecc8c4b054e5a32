------------------------------- MODULE Store -------------------------------
(***************************************************************************)
(* internal/store/store.go: a filter kept in an append-only file of Add    *)
(* and Checkpoint records, replayed on Open.  One handle at a time has the *)
(* file open (SharedStore has several).  The file is the state of its      *)
(* 8-byte header, the m written there, and the sequence of the records     *)
(* behind it.                                                              *)
(***************************************************************************)
EXTENDS Records, FiniteSets

CONSTANTS
  MValues, KValues,  \* the parameters stores are created with
  CLI,               \* TRUE: called as main.go does.  It creates a file only
                     \* where none is, and exits at the first error.
                     \* FALSE: any caller of the package.
  PowerFails,        \* TRUE: the machine may lose what was not synced
  MaxRecords         \* bound of the runs: records in the file

ASSUME StoreAssumption ==
  /\ MValues \subseteq Nat
  /\ KValues \subseteq Nat
  /\ CLI \in BOOLEAN
  /\ PowerFails \in BOOLEAN
  /\ MaxRecords \in Nat

VARIABLES
  header,    \* "absent": no file; "short": no readable header; "complete"
  filterM,   \* the m of the header
  recs,      \* the records of the file
  open,      \* a *Store has the file open
  filter,    \* its filter
  acked,     \* history: the items whose Add returned nil
  tried      \* history: the items Add was called with

vars == <<header, filterM, recs, open, filter, acked, tried>>

TypeOK ==
  /\ header \in {"absent", "short", "complete"}
  /\ filterM \in Nat
  /\ recs \in Seq(Record)
  /\ open \in BOOLEAN
  /\ filter \in FilterOrNil
  /\ acked \subseteq tried
  /\ tried \subseteq Item

-----------------------------------------------------------------------------
(* Operations *)

\* What a write of one record can leave in the file: all of it, nothing, or
\* a part of it.
Outcome == {"full", "none", "torn"}

Written(rs, rec, out) ==
  CASE out = "full" -> Append(rs, rec)
    [] out = "none" -> rs
    [] out = "torn" -> Append(rs, Torn)

Init ==
  /\ header = "absent"
  /\ filterM = 0
  /\ recs = <<>>
  /\ open = FALSE
  /\ filter = NilFilter
  /\ acked = {}
  /\ tried = {}

\* Create refuses invalid parameters before it touches the file, then
\* truncates it and writes the header.  The process may die, or the write
\* fail, between the two.
Create(m, k) ==
  /\ ~open
  /\ ValidParams(m, k)
  /\ CLI => header = "absent"
  /\ recs' = <<>>
  /\ acked' = {}
  /\ tried' = {}
  /\ \/ /\ header' = "complete"
        /\ filterM' = m % Uint32
        /\ open' = TRUE
        /\ filter' = NewFilter(m, k)
     \/ /\ header' = "short"
        /\ filterM' = 0
        /\ UNCHANGED <<open, filter>>

\* Open cuts the file behind the last record that parses.  Replaying an Add
\* record into a nil filter panics before the file is touched.
Open ==
  /\ ~open
  /\ header = "complete"
  /\ \E n \in 0 .. Len(recs) :
       LET valid == SubSeq(recs, 1, n)
       IN \E c \in 0 .. n :
            /\ IsValidEnd(recs, n)
            /\ IsLastCheckpoint(valid, c)
            /\ \/ ReplayStart(filterM, valid, c) # NilFilter
               \/ ItemsAfter(valid, c) = {}
            /\ recs' = valid
            /\ filter' = Replay(filterM, valid, c)
  /\ open' = TRUE
  /\ UNCHANGED <<header, filterM, acked, tried>>

\* Mutant: the error is printed and the process goes on.
DiesNot == UNCHANGED <<open, filter>>

\* The call ends the process: it was killed, or main.go exits on an error.
Dies == open' = FALSE /\ filter' = NilFilter

\* Add sets the bits, then writes the record.  Only a full write returns nil;
\* a caller of the package may go on after an error.
Add(data) ==
  /\ open
  /\ filter # NilFilter
  /\ Len(recs) < MaxRecords
  /\ \E out \in Outcome :
       /\ recs' = Written(recs, AddRecord(data), out)
       /\ \/ /\ out = "full" \/ ~CLI
             /\ filter' = AddItem(filter, data)
             /\ acked' = IF out = "full" THEN acked \cup {data} ELSE acked
             /\ UNCHANGED open
          \/ /\ Dies
             /\ UNCHANGED acked
  /\ tried' = tried \cup {data}
  /\ UNCHANGED <<header, filterM>>

\* Add on the nil filter of a store whose header says m = 0 panics.
AddPanics ==
  /\ open
  /\ filter = NilFilter
  /\ Dies
  /\ UNCHANGED <<header, filterM, recs, acked, tried>>

Checkpoint ==
  /\ open
  /\ Len(recs) < MaxRecords
  /\ \E out \in Outcome :
       /\ recs' = Written(recs, CheckpointRecord(Marshal(filter)), out)
       /\ \/ /\ out = "full" \/ ~CLI
             /\ UNCHANGED <<open, filter>>
          \/ Dies
  /\ UNCHANGED <<header, filterM, acked, tried>>

\* Close closes the descriptor and nothing else; a process killed between
\* two calls leaves the same file.
Close ==
  /\ open
  /\ open' = FALSE
  /\ filter' = NilFilter
  /\ UNCHANGED <<header, filterM, recs, acked, tried>>

\* No operation of the store syncs the file.  When the machine loses power
\* the header, or any number of the last records, may be gone or torn.
PowerFailure ==
  /\ PowerFails
  /\ header # "absent"
  /\ \/ /\ header = "complete"
        /\ \E n \in 0 .. Len(recs) :
             \/ recs' = SubSeq(recs, 1, n)
             \/ n < Len(recs) /\ recs' = Append(SubSeq(recs, 1, n), Torn)
        /\ UNCHANGED <<header, filterM>>
     \/ /\ header' \in {"absent", "short"}
        /\ filterM' = 0
        /\ recs' = <<>>
  /\ open' = FALSE
  /\ filter' = NilFilter
  /\ UNCHANGED <<acked, tried>>

Next ==
  \/ \E m \in MValues, k \in KValues : Create(m, k)
  \/ Open
  \/ Close
  \/ \E data \in Item : Add(data)
  \/ AddPanics
  \/ Checkpoint
  \/ PowerFailure

Spec == Init /\ [][Next]_vars

-----------------------------------------------------------------------------
(* Properties *)

\* The parameters the format can represent.
ParamsFit ==
  /\ \A m \in MValues : m < Uint32
  /\ \A k \in KValues : k < Uint32
  /\ DefaultK < Uint32

\* Whoever opens the file as it is finds x.
Recoverable(x) ==
  /\ header = "complete"
  /\ \A n \in 0 .. Len(recs) : \A c \in 0 .. n :
       /\ IsValidEnd(recs, n)
       /\ IsLastCheckpoint(SubSeq(recs, 1, n), c)
       => LET f == Replay(filterM, SubSeq(recs, 1, n), c)
          IN f # NilFilter /\ TestItem(f, x)

\* An item whose Add returned nil is found after every crash of the process
\* and every reopen: store.go's crash recovery.
AckedSurvive == \A x \in acked : Recoverable(x)

\* The open handle answers as the next Open would, bit for bit.  A k other
\* than the default is only known to a checkpoint.
ReopenMatchesMemory ==
  open => \A c \in 0 .. Len(recs) :
            IsLastCheckpoint(recs, c) /\ (c > 0 \/ filter.k = DefaultK)
            => Replay(filterM, recs, c) = filter

\* Every Add record in front of the first torn one counts on reopen, whatever
\* checkpoint the replay starts from: "making earlier Add records unnecessary
\* (but harmless)" in the comment of Checkpoint.
ValidPrefixRecovered ==
  \A n \in 1 .. Len(recs) :
    recs[n].typ = "add" /\ (\A i \in 1 .. n : recs[i].typ # "torn")
    => Recoverable(recs[n].item)

\* The strengthening the proofs carry.  Every checkpoint of a file unmarshals
\* and holds the items of the Add records in front of it ...
Adds(rs) == {j \in 1 .. Len(rs) : rs[j].typ = "add"}

Fits(f) == f \in Filter /\ f.m < Uint32 /\ f.k < Uint32

CheckpointsCover(rs) ==
  \A i \in 1 .. Len(rs) :
    rs[i].typ = "checkpoint"
    => /\ Fits(Unmarshal(rs[i].payload))
       /\ \A j \in Adds(rs) : j < i => TestItem(Unmarshal(rs[i].payload), rs[j].item)

\* ... the header has an m to start from, the open filter holds the items of
\* all Add records, and without a file there are no records.
FileInv ==
  /\ CheckpointsCover(recs)
  /\ header = "complete" => filterM \in 1 .. Uint32 - 1
  /\ header # "complete" => recs = <<>> /\ ~open
  /\ open => Fits(filter) /\ \A j \in Adds(recs) : TestItem(filter, recs[j].item)

\* For a caller that stops at the first error: a torn record is the last one,
\* its writer is gone, and what was acknowledged is in the file.
StopInv ==
  /\ \A i \in 1 .. Len(recs) : recs[i].typ = "torn" => i = Len(recs) /\ ~open
  /\ \A x \in acked : \E j \in Adds(recs) : recs[j].item = x

\* A bit is set in memory because of an item somebody wanted to add, even if
\* the file was cut, the checkpoint skipped or m changed by a reopen: what was
\* never added is absent but for collisions ("definitely absent", filter.go).
NothingInvented ==
  open => filter.bits \subseteq
            UNION {Positions(x, filter.k, filter.m) : x \in tried}

\* The store, used as main.go uses it, implements a durable set.
Committed == {recs[j].item : j \in Adds(recs)}

Answers == IF open THEN {x \in Item : TestItem(filter, x)} ELSE {}

Abs == INSTANCE DurableSet WITH committed <- Committed, up <- open, answers <- Answers

ImplementsDurableSet == Abs!SetSpec

-----------------------------------------------------------------------------
(* What the documentation says and the code does not do *)

\* store.go, Open: "Silently discards any incomplete trailing record".  What
\* it cuts off is incomplete, and the records that are complete stay.
DiscardsOnlyIncomplete ==
  [][Open => \A i \in 1 .. Len(recs) : recs[i].typ # "torn" => i <= Len(recs')]_vars

\* README.md, options of store-add: "-k hash functions (new store only)".  The
\* k of a store is the one it was created with.
KeepsK == [][Open => filter'.k \in KValues]_vars

\* store.go: "On Open, the store replays from the last valid Checkpoint
\* forward."  A checkpoint with a payload that does not unmarshal is not one.
ReplaysFromLastValidCheckpoint ==
  open => \A i \in 1 .. Len(recs) :
            recs[i].typ = "add" => TestItem(filter, recs[i].item)

\* README.md: "Append-only store mode (crash-safe, incremental)".  A file that
\* is there can be opened.
CrashLeavesOpenableFile == ~open /\ header # "absent" => ENABLED Open

\* store.go: "Close flushes and closes the store file".  What a closed store
\* has kept so far, it keeps.
ClosedStaysDurable ==
  [][/\ ~open /\ ~open'
     /\ \A i \in 1 .. Len(recs) : recs[i].typ # "torn"
     /\ AckedSurvive
     => AckedSurvive']_vars

=============================================================================
