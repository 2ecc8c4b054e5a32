---------------------------- MODULE SnapshotFile ----------------------------
(***************************************************************************)
(* The commands add and check of main.go, on a filter kept in one file.    *)
(* Every add is a process that reads the file, adds its items in memory,   *)
(* and replaces the file with os.WriteFile: truncate, then write.  Nothing *)
(* keeps two of them apart, and a process may die at any point.            *)
(***************************************************************************)
EXTENDS Codec

CONSTANTS
  Process,
  DefaultM, DefaultK,  \* 65536 and 7
  Legacy               \* the blobs of v1 files there may be to begin with

ASSUME SnapshotFileAssumption ==
  /\ DefaultM \in 1 .. Uint32 - 1
  /\ DefaultK \in 1 .. Uint32 - 1
  /\ Legacy \subseteq Blob
  /\ \A b \in Legacy : b.m < Uint32 /\ b.k < Uint32

VARIABLES
  file,    \* absent, damaged (a part of what was to be written), or a blob
  pc,      \* where each process is
  mem,     \* its filter
  adding,  \* its items
  solo,    \* history: items added while no other add ran, or from the beginning
  shared   \* history: processes that were not alone from their read to now

vars == <<file, pc, mem, adding, solo, shared>>

Absent == [state |-> "absent", blob |-> EmptyBlob]
Damaged == [state |-> "damaged", blob |-> EmptyBlob]
V1(blob) == [state |-> "v1", blob |-> blob]
V2(blob) == [state |-> "v2", blob |-> blob]

\* What check has to answer from; nil when it reports an error.
Contents ==
  CASE file.state = "v1" -> UnmarshalV1(file.blob)
    [] file.state = "v2" -> Unmarshal(file.blob)
    [] OTHER -> NilFilter

Init ==
  /\ file \in {Absent} \cup {V1(b) : b \in Legacy}
  /\ pc = [p \in Process |-> "idle"]
  /\ mem = [p \in Process |-> NilFilter]
  /\ adding = [p \in Process |-> {}]
  /\ solo = {x \in Item : Contents # NilFilter /\ TestItem(Contents, x)}
  /\ shared = {}

Active == {p \in Process : pc[p] # "idle"}

\* Mutant: a file that cannot be read is replaced by a new one.
BaseForgiving ==
  IF Contents = NilFilter THEN NewFilter(DefaultM, DefaultK) ELSE Contents

\* Mutant: the parameters of the file are not taken over.
BaseDefaults == [NewFilter(DefaultM, DefaultK) EXCEPT !.bits = Contents.bits]

\* The filter to add to.
Base == IF file = Absent THEN NewFilter(DefaultM, DefaultK) ELSE Contents

\* The process ends with an error on a file that does not unmarshal.
Read(p, items) ==
  /\ pc[p] = "idle"
  /\ Base # NilFilter
  /\ mem' = [mem EXCEPT ![p] = AddItems(Base, items)]
  /\ pc' = [pc EXCEPT ![p] = "read"]
  /\ adding' = [adding EXCEPT ![p] = items]
  /\ shared' = IF Active = {} THEN {} ELSE Active \cup {p}
  /\ UNCHANGED <<file, solo>>

\* os.WriteFile opens the file with O_TRUNC.
Truncate(p) ==
  /\ pc[p] = "read"
  /\ file' = Damaged
  /\ pc' = [pc EXCEPT ![p] = "truncated"]
  /\ UNCHANGED <<mem, adding, solo, shared>>

Ends(p) ==
  /\ pc' = [pc EXCEPT ![p] = "idle"]
  /\ mem' = [mem EXCEPT ![p] = NilFilter]
  /\ adding' = [adding EXCEPT ![p] = {}]

\* Over what another process may have written since: the blobs are of one
\* length (SameShape), so the last one written is there as a whole.
Write(p) ==
  /\ pc[p] = "truncated"
  /\ file' = V2(Marshal(mem[p]))
  /\ solo' = IF p \in shared THEN solo ELSE solo \cup adding[p]
  /\ Ends(p)
  /\ UNCHANGED shared

\* The write fails, or the process dies before it or within it.  A part of
\* this blob over the whole of another's is damage, unless they agree there.
Fails(p) ==
  /\ pc[p] # "idle"
  /\ file' \in IF pc[p] = "truncated" THEN {file, Damaged} ELSE {file}
  /\ Ends(p)
  /\ UNCHANGED <<solo, shared>>

Next ==
  \E p \in Process :
    \/ \E items \in (SUBSET Item) \ {{}} : Read(p, items)
    \/ Truncate(p) \/ Write(p) \/ Fails(p)

Spec == Init /\ [][Next]_vars

-----------------------------------------------------------------------------
(* Properties *)

TypeOK ==
  /\ file.state \in {"absent", "damaged", "v1", "v2"}
  /\ file.blob \in Blob
  /\ pc \in [Process -> {"idle", "read", "truncated"}]
  /\ mem \in [Process -> FilterOrNil]
  /\ \A p \in Process : pc[p] = "idle" <=> mem[p] = NilFilter
  /\ adding \in [Process -> SUBSET Item]
  /\ solo \subseteq Item
  /\ shared \subseteq Process

\* All the filters in memory, and the one in the file, have one m and one k:
\* processes that write over each other write blobs of one length, and
\* positions that were computed once stay good, from the legacy file on.
SameShape ==
  LET Filters == {mem[p] : p \in Active} \cup ({Contents} \ {NilFilter})
  IN  \A f, g \in Filters : f.m = g.m /\ f.k = g.k

\* What was in the file when it was first used, and what an add put there
\* while no other ran, is in the file as long as it can be read, through every
\* overlap and crash of later ones.
SoloSurvive == Contents # NilFilter => \A x \in solo : TestItem(Contents, x)

\* The strengthening the proofs carry.
Representable(f) == f \in Filter /\ f.m < Uint32 /\ f.k < Uint32

\* What is in the file, and in every process's memory, holds the items that
\* must not get lost; a process that has not met another is alone.
SoloInv ==
  /\ Contents # NilFilter =>
       Representable(Contents) /\ \A x \in solo : TestItem(Contents, x)
  /\ file = Absent => solo = {}
  /\ \A p \in Active :
       /\ Representable(mem[p])
       /\ \A x \in solo \cup adding[p] : TestItem(mem[p], x)
       /\ p \notin shared => Active = {p}

\* As long as there is no file, everyone starts from the defaults.
ShapeInv ==
  /\ SameShape
  /\ file = Absent => \A p \in Active : mem[p].m = DefaultM /\ mem[p].k = DefaultK

=============================================================================
