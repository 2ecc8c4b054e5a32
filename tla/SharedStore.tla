---------------------------- MODULE SharedStore ----------------------------
(***************************************************************************)
(* The commands store-add, store-check and checkpoint of main.go, run by   *)
(* several processes on one store file.  Each has a descriptor of its own, *)
(* with its own offset: the file is not opened with O_APPEND and nothing   *)
(* locks it.  Open, of a store-check too, reads the file, and later cuts   *)
(* it where the reading found its end.  What is behind the header is a     *)
(* sequence of cells; a record takes several, and a cell says which part   *)
(* of which record was last written there.  One write is one step.         *)
(***************************************************************************)
EXTENDS Records

CONSTANTS
  Process,
  Ms, Ks,             \* the parameters stores are created with
  ItemSize,           \* cells of the Add record of each item
  CheckpointSize,     \* cells of a Checkpoint record
  MaxCommands         \* bound of the runs: commands

ASSUME SharedStoreAssumption ==
  /\ Ms \subseteq 1 .. Uint32 - 1
  /\ Ks \subseteq 1 .. Uint32 - 1
  /\ ItemSize \in [Item -> Nat \ {0}]
  /\ CheckpointSize \in Nat \ {0}
  /\ MaxCommands \in Nat

VARIABLES
  fileHeader,  \* "absent", "short", or "complete"
  fileM,       \* the m of the header
  cells,       \* what is behind the header
  proc,        \* the processes
  commands,    \* how many commands there were
  solo,        \* history: the items added by a process while it was alone
  shared       \* history: processes that were not alone since they began

sharedVars == <<fileHeader, fileM, cells, proc, commands, solo, shared>>

-----------------------------------------------------------------------------
(* The file *)

Hole == [rec |-> Torn, part |-> 0]

Size(rec) == IF rec.typ = "add" THEN ItemSize[rec.item] ELSE CheckpointSize

Encoded(rec) == [i \in 1 .. Size(rec) |-> [rec |-> rec, part |-> i]]

\* A record parses at an offset if all of its cells are there.
ParsesAt(cs, off) ==
  /\ off < Len(cs)
  /\ cs[off + 1].part = 1
  /\ LET rec == cs[off + 1].rec
     IN /\ off + Size(rec) <= Len(cs)
        /\ SubSeq(cs, off + 1, off + Size(rec)) = Encoded(rec)

\* The records Open reads from an offset on, and where it stops.
Scan(cs) ==
  LET from[off \in 0 .. Len(cs)] ==
        IF ParsesAt(cs, off)
        THEN LET rest == from[off + Size(cs[off + 1].rec)]
             IN [recs |-> <<cs[off + 1].rec>> \o rest.recs, end |-> rest.end]
        ELSE [recs |-> <<>>, end |-> off]
  IN from[0]

Parsed(cs) == Scan(cs).recs

\* Mutant: the process goes on where the file ends.
ValidEndOfFile(cs) == Len(cs)

\* Mutant: the end is noted before the last record is read, and not after.
ValidEndBefore(cs) ==
  LET rs == Parsed(cs)
  IN IF rs = <<>> THEN 0 ELSE Scan(cs).end - Size(rs[Len(rs)])

ValidEnd(cs) == Scan(cs).end

\* Mutant: the file is not cut.
ResizedNot(cs, n) == cs

\* Truncate, which may lengthen the file as well.
Resized(cs, n) == [i \in 1 .. n |-> IF i <= Len(cs) THEN cs[i] ELSE Hole]

\* Write at an offset, over what is there, or past a hole.
WrittenAt(cs, off, new) ==
  [i \in DOMAIN cs \cup 1 .. off + Len(new) |->
     CASE i \in off + 1 .. off + Len(new) -> new[i - off]
       [] i \in DOMAIN cs \ (off + 1 .. off + Len(new)) -> cs[i]
       [] OTHER -> Hole]

-----------------------------------------------------------------------------
(* The processes *)

Idle == [pc |-> "idle", todo |-> {}, offset |-> 0, filter |-> NilFilter]

Active == {p \in Process : proc[p].pc # "idle"}

SharedInit ==
  /\ fileHeader = "absent"
  /\ fileM = 0
  /\ cells = <<>>
  /\ proc = [p \in Process |-> Idle]
  /\ commands = 0
  /\ solo = {}
  /\ shared = {}

\* store-add asks os.Stat whether to create or to open the file; the other
\* commands open it.  What a checkpoint has to do is one checkpoint.
Begin(p, todo) ==
  /\ proc[p].pc = "idle"
  /\ commands < MaxCommands
  /\ proc' = [proc EXCEPT ![p].todo = todo,
                          ![p].pc = IF fileHeader = "absent" /\ todo \cap Item # {}
                                    THEN "create" ELSE "open"]
  /\ commands' = commands + 1
  /\ shared' = IF Active = {} THEN {} ELSE Active \cup {p}
  /\ UNCHANGED <<fileHeader, fileM, cells, solo>>

\* os.Create, over what another process may have made since the Stat.
CreateBy(p) ==
  /\ proc[p].pc = "create"
  /\ fileHeader' = "short"
  /\ fileM' = 0
  /\ cells' = <<>>
  /\ proc' = [proc EXCEPT ![p].pc = "header"]
  /\ UNCHANGED <<commands, solo, shared>>

\* The header is at offset 0, whatever has become of the rest of the file.
WriteHeader(p, m, k) ==
  /\ proc[p].pc = "header"
  /\ fileHeader' = "complete"
  /\ fileM' = m
  /\ proc' = [proc EXCEPT ![p].pc = "ready", ![p].filter = NewFilter(m, k)]
  /\ UNCHANGED <<cells, commands, solo, shared>>

\* ReadFile, which has to find a whole header, and both passes.
Read(p) ==
  /\ proc[p].pc = "open"
  /\ fileHeader = "complete"
  /\ LET rs == Parsed(cells)
     IN \E c \in 0 .. Len(rs) :
          /\ IsLastCheckpoint(rs, c)
          /\ proc' = [proc EXCEPT ![p].pc = "cut", ![p].offset = ValidEnd(cells),
                                  ![p].filter = Replay(fileM, rs, c)]
  /\ UNCHANGED <<fileHeader, fileM, cells, commands, solo, shared>>

\* OpenFile, Seek and Truncate, on the file as it is now.
Cut(p) ==
  /\ proc[p].pc = "cut"
  /\ cells' = Resized(cells, proc[p].offset)
  /\ proc' = [proc EXCEPT ![p].pc = "ready"]
  /\ UNCHANGED <<fileHeader, fileM, commands, solo, shared>>

Writes(p, rec) ==
  /\ cells' = WrittenAt(cells, proc[p].offset, Encoded(rec))
  /\ UNCHANGED <<fileHeader, fileM, commands, shared>>

AddBy(p, data) ==
  /\ proc[p].pc = "ready"
  /\ data \in proc[p].todo \cap Item
  /\ Writes(p, AddRecord(data))
  /\ proc' = [proc EXCEPT ![p].todo = @ \ {data}, ![p].offset = @ + ItemSize[data],
                          ![p].filter = AddItem(@, data)]
  /\ solo' = IF p \in shared THEN solo ELSE solo \cup {data}

CheckpointBy(p) ==
  /\ proc[p].pc = "ready"
  /\ "checkpoint" \in proc[p].todo
  /\ Writes(p, CheckpointRecord(Marshal(proc[p].filter)))
  /\ proc' = [proc EXCEPT ![p].todo = @ \ {"checkpoint"}, ![p].offset = @ + CheckpointSize]
  /\ UNCHANGED solo

\* The process has done what it was called for, reports an error, or is killed.
Ends(p) ==
  /\ proc[p].pc # "idle"
  /\ proc' = [proc EXCEPT ![p] = Idle]
  /\ UNCHANGED <<fileHeader, fileM, cells, commands, solo, shared>>

\* A write that stops half-way is the last thing the process does.
Fails(p) ==
  /\ proc[p].pc = "ready"
  /\ \E rec \in {AddRecord(x) : x \in proc[p].todo \cap Item}
                \cup {CheckpointRecord(Marshal(proc[p].filter)) : c \in proc[p].todo \ Item} :
       \E n \in 1 .. Size(rec) - 1 :
         cells' = WrittenAt(cells, proc[p].offset, SubSeq(Encoded(rec), 1, n))
  /\ proc' = [proc EXCEPT ![p] = Idle]
  /\ UNCHANGED <<fileHeader, fileM, commands, solo, shared>>

SharedNext ==
  \E p \in Process :
    \/ \E todo \in (SUBSET Item) \cup {{"checkpoint"}} : Begin(p, todo)
    \/ CreateBy(p)
    \/ \E m \in Ms, k \in Ks : WriteHeader(p, m, k)
    \/ Read(p) \/ Cut(p)
    \/ \E data \in Item : AddBy(p, data)
    \/ CheckpointBy(p) \/ Fails(p) \/ Ends(p)

SharedSpec == SharedInit /\ [][SharedNext]_sharedVars

-----------------------------------------------------------------------------
(* Properties *)

SharedTypeOK ==
  /\ fileHeader \in {"absent", "short", "complete"}
  /\ fileM \in 0 .. Uint32 - 1
  /\ cells \in Seq([rec : Record, part : Nat])
  /\ \A p \in Process :
       /\ proc[p].pc \in {"idle", "create", "header", "open", "cut", "ready"}
       /\ proc[p].todo \in (SUBSET Item) \cup SUBSET {"checkpoint"}
       /\ proc[p].offset \in Nat
       /\ proc[p].filter \in FilterOrNil
       /\ proc[p].filter # NilFilter <=> proc[p].pc \in {"cut", "ready"}
  /\ commands \in 0 .. MaxCommands
  /\ solo \subseteq Item
  /\ shared \subseteq Process

\* Whoever opens the file as it is finds x.
Findable(x) ==
  /\ fileHeader = "complete"
  /\ LET rs == Parsed(cells)
     IN \E c \in 0 .. Len(rs) :
          IsLastCheckpoint(rs, c) /\ TestItem(Replay(fileM, rs, c), x)

\* What a store-add acknowledged that no other command overlapped from its
\* beginning on is found for ever, through all overlaps and deaths to come:
\* handles that truncate and overwrite do so behind it, and a checkpoint of a
\* filter that lacks what others add meanwhile does not lack it.
SoloSurvive == \A x \in solo : Findable(x)

\* A process that is alone, after whatever others left, appends: its offset is
\* the end of the file, and all in front of it is readable.
AloneAtEnd ==
  \A p \in Process :
    proc[p].pc = "ready" /\ p \notin shared
    => proc[p].offset = Len(cells) /\ ValidEnd(cells) = Len(cells)

\* README.md calls the file append-only.  It is, for whoever reads it, as long
\* as a process is alone: a step leaves the readable records what they are, or
\* puts one more behind them, and nothing that lay behind a gap comes back.
LoneAppends ==
  [][fileHeader = "complete" /\ Active \cap shared = {} =>
       LET old == Parsed(cells)
           new == Parsed(cells')
       IN new \in {old} \cup {Append(old, new[i]) : i \in DOMAIN new}]_sharedVars

-----------------------------------------------------------------------------
(* What the documentation says and the code does not do *)

\* store.go, Open: "Truncate any partial trailing record".  It cuts whole ones
\* too, that another process has written since the file was read.
CutsOnlyPartial ==
  [][\A p \in Process : Cut(p) => proc[p].offset >= ValidEnd(cells)]_sharedVars

\* README.md: "Append-only store mode (crash-safe, incremental)".
AppendOnly ==
  [][fileHeader = "complete" => ValidEnd(cells') >= ValidEnd(cells)]_sharedVars

=============================================================================
