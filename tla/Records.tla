------------------------------ MODULE Records ------------------------------
(***************************************************************************)
(* The records of a store file, and what Open makes of a sequence of them: *)
(* internal/store/store.go.  A record of which only a part reached the     *)
(* file is Torn.  What parseRecord cannot parse ends the replay, and CRC32 *)
(* is taken to have no collisions, so whatever follows a Torn entry is out *)
(* of reach whatever it holds.                                             *)
(***************************************************************************)
EXTENDS Codec, Sequences

CONSTANT DefaultK  \* the k of a replay that meets no checkpoint: 7

ASSUME RecordsAssumption == DefaultK \in Nat \ {0}

Torn == [typ |-> "torn"]
AddRecord(data) == [typ |-> "add", item |-> data]
CheckpointRecord(blob) == [typ |-> "checkpoint", payload |-> blob]

Record ==
  [typ : {"torn"}] \cup [typ : {"add"}, item : Item]
                   \cup [typ : {"checkpoint"}, payload : Blob]

\* Mutant: the last record that parses is cut off as well.
IsValidEndEarly(rs, n) ==
  \E last \in 0 .. Len(rs) :
    /\ \A i \in 1 .. last : rs[i].typ # "torn"
    /\ last < Len(rs) => rs[last + 1].typ = "torn"
    /\ n = IF last = 0 THEN 0 ELSE last - 1

\* The scan stops in front of the first record that does not parse: n
\* records are valid.
IsValidEnd(rs, n) ==
  /\ \A i \in 1 .. n : rs[i].typ # "torn"
  /\ n < Len(rs) => rs[n + 1].typ = "torn"

\* The first pass of Open: c is the position of the last record of type
\* Checkpoint, 0 (the code's -1) when there is none.
IsLastCheckpoint(rs, c) ==
  /\ c > 0 => rs[c].typ = "checkpoint"
  /\ \A i \in c + 1 .. Len(rs) : rs[i].typ # "checkpoint"

\* Mutant: the second pass forgets what the checkpoint holds.
ReplayStartFresh(m, rs, c) == NewFilter(m, DefaultK)

\* The filter the second pass starts from.  A checkpoint that does not
\* unmarshal is skipped: the filter is then made from the header.
ReplayStart(m, rs, c) ==
  IF c > 0 /\ Unmarshal(rs[c].payload) # NilFilter
  THEN Unmarshal(rs[c].payload)
  ELSE NewFilter(m, DefaultK)

\* Mutant: the second pass starts one record too late.
ItemsAfterNext(rs, c) ==
  {rs[i].item : i \in {j \in c + 2 .. Len(rs) : rs[j].typ = "add"}}

ItemsAfter(rs, c) ==
  {rs[i].item : i \in {j \in c + 1 .. Len(rs) : rs[j].typ = "add"}}

\* The second pass of Open, from position c on.
Replay(m, rs, c) == AddItems(ReplayStart(m, rs, c), ItemsAfter(rs, c))

=============================================================================
