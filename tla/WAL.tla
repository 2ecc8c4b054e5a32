-------------------------------- MODULE WAL --------------------------------
(***************************************************************************)
(* internal/store/wal.go: a log of numbered entries with a buffer in       *)
(* memory.  The mutex makes Append and Flush one step each for the other   *)
(* goroutines; Close takes the mutex for its flush only, and closes the    *)
(* file later.  A flush may fail, or the process die, at any write.  The   *)
(* file is the sequence of what the writes left in it, Torn for a part of  *)
(* an entry; CRC32 is taken to have no collisions, so that ReadAll and     *)
(* OpenWAL see the entries in front of the first Torn and no others.       *)
(***************************************************************************)
EXTENDS Integers, Sequences, FiniteSets

CONSTANTS
  Payload,     \* what is appended; the type byte is part of it
  BufferSize,  \* WALConfig.BufferSize
  TornWrites,  \* TRUE: a write can leave a part of an entry in the file
  MaxSeq,      \* bound of the runs: sequence numbers
  MaxFile      \* bound of the runs: length of the file

ASSUME WALAssumption ==
  /\ BufferSize \in Nat \ {0}
  /\ TornWrites \in BOOLEAN
  /\ MaxSeq \in Nat
  /\ MaxFile \in Nat

VARIABLES
  file,      \* what the writes left
  synced,    \* so much of it survives a power failure
  handle,    \* "none", "open", "closing" (inside Close) or "closed"
  seq,       \* w.seq
  buf,       \* w.buf
  capacity,  \* cap(w.buf)
  flushed,   \* w.flushed
  failed,    \* the last call returned an error
  promised   \* history: the entries of the flushes that returned nil and had
             \* no torn entry in front of what they wrote

vars == <<file, synced, handle, seq, buf, capacity, flushed, failed, promised>>

Entry == [seq : Nat \ {0}, payload : Payload]

\* Not an entry: no flush numbers one 0.
Torn == [seq |-> 0]

TypeOK ==
  /\ file \in Seq(Entry \cup {Torn})
  /\ synced \in 0 .. Len(file)
  /\ handle \in {"none", "open", "closing", "closed"}
  /\ seq \in Nat
  /\ buf \in Seq(Entry)
  /\ capacity \in Nat
  /\ flushed \in 0 .. seq
  /\ failed \in BOOLEAN
  /\ promised \subseteq Entry

-----------------------------------------------------------------------------
(* Reading *)

\* The positions decodeWALEntry gets to.
Readable(f) == {i \in 1 .. Len(f) : \A j \in 1 .. i : f[j] # Torn}

\* What ReadAll returns, but for the order.
Entries(f) == {f[i] : i \in Readable(f)}

\* Mutant: the numbers start again with every process.
LastSeqZero(f, s) == s = 0

\* replaySeq: the largest number seen, 0 in an empty log.
LastSeq(f, s) ==
  /\ \A e \in Entries(f) : e.seq <= s
  /\ s = 0 \/ \E e \in Entries(f) : e.seq = s

-----------------------------------------------------------------------------
(* Operations *)

Init ==
  /\ file = <<>>
  /\ synced = 0
  /\ handle = "none"
  /\ seq = 0
  /\ buf = <<>>
  /\ capacity = 0
  /\ flushed = 0
  /\ failed = FALSE
  /\ promised = {}

\* The file is opened for appending as it is, a torn end included.
OpenWAL ==
  /\ handle = "none"
  /\ handle' = "open"
  /\ \E s \in 0 .. MaxSeq : LastSeq(file, s) /\ seq' = s
  /\ buf' = <<>>
  /\ capacity' = BufferSize
  /\ flushed' = 0
  /\ failed' = FALSE
  /\ UNCHANGED <<file, synced, promised>>

\* What a caller may count on once b is flushed.
Promises(b) ==
  IF Readable(file) = 1 .. Len(file) THEN {b[i] : i \in 1 .. Len(b)} ELSE {}

\* Mutant: the Sync is left out.
SyncedNothing == synced

\* Sync covers the whole file.
Synced == Len(file')

\* Mutant: the buffer is not emptied.
NotEmptied(b) == b

Emptied(b) == <<>>

\* All entries written and synced; s is w.seq.
FlushSucceeds(b, s) ==
  /\ handle # "closed"
  /\ Len(file) + Len(b) <= MaxFile
  /\ file' = file \o b
  /\ synced' = Synced
  /\ flushed' = s
  /\ buf' = Emptied(b)
  /\ promised' = promised \cup Promises(b)
  /\ failed' = FALSE

\* Mutant: the buffer is emptied before its entries are written.
Dropped(b) == <<>>

\* A retry starts again with the first entry.
Retried(b) == b

\* The write of entry n + 1 failed, or all were written and Sync failed.
FlushFails(b) ==
  /\ \E n \in 0 .. Len(b) :
       /\ handle = "closed" => n = 0
       /\ Len(file) + n < MaxFile
       /\ \/ file' = file \o SubSeq(b, 1, n)
          \/ /\ TornWrites
             /\ n < Len(b)
             /\ handle # "closed"
             /\ file' = Append(file \o SubSeq(b, 1, n), Torn)
  /\ buf' = Retried(b)
  /\ failed' = TRUE
  /\ UNCHANGED <<synced, flushed, promised>>

flushLocked(b, s) == FlushSucceeds(b, s) \/ FlushFails(b)

Flush ==
  /\ handle # "none"
  /\ flushLocked(buf, seq)
  /\ UNCHANGED <<handle, seq, capacity>>

\* The append of Go doubles the capacity of a small slice that is full.  It is
\* full here only if the flush that should have emptied it failed.
Grown(b, c) == IF Len(b) = c THEN 2 * c ELSE c

AppendEntry(payload) ==
  /\ handle # "none"
  /\ seq < MaxSeq
  /\ seq' = seq + 1
  /\ capacity' = Grown(buf, capacity)
  /\ LET b == Append(buf, [seq |-> seq', payload |-> payload])
     IN \/ /\ Len(b) >= capacity'
           /\ flushLocked(b, seq')
        \/ /\ Len(b) < capacity'
           /\ buf' = b
           /\ failed' = FALSE
           /\ UNCHANGED <<file, synced, flushed, promised>>
  /\ UNCHANGED handle

\* Close, first half: a failed flush is returned and leaves the file open.
CloseFlush ==
  /\ handle = "open"
  /\ flushLocked(buf, seq)
  /\ handle' = IF failed' THEN "open" ELSE "closing"
  /\ UNCHANGED <<seq, capacity>>

\* Close, second half, without the mutex.
CloseFile ==
  /\ handle = "closing"
  /\ handle' = "closed"
  /\ failed' = FALSE
  /\ UNCHANGED <<file, synced, seq, buf, capacity, flushed, promised>>

Gone ==
  /\ handle' = "none"
  /\ seq' = 0
  /\ buf' = <<>>
  /\ capacity' = 0
  /\ flushed' = 0
  /\ failed' = FALSE

\* The process ends, and its buffer with it.  One killed inside a flush leaves
\* what a failed flush leaves.
Kill ==
  /\ handle # "none"
  /\ Gone
  /\ UNCHANGED <<file, synced, promised>>

\* What was not synced may be gone, or torn.
PowerFailure ==
  /\ \E n \in synced .. Len(file) :
       \/ file' = SubSeq(file, 1, n)
       \/ /\ TornWrites
          /\ n < Len(file)
          /\ file' = Append(SubSeq(file, 1, n), Torn)
  /\ Gone
  /\ UNCHANGED <<synced, promised>>

Next ==
  \/ OpenWAL
  \/ Flush
  \/ \E payload \in Payload : AppendEntry(payload)
  \/ CloseFlush
  \/ CloseFile
  \/ Kill
  \/ PowerFailure

Spec == Init /\ [][Next]_vars

-----------------------------------------------------------------------------
(* Properties *)

\* A number stands for one entry: what is read twice, after a flush that
\* failed half-way and was tried again, is the same entry twice.
SameSeqSameEntry ==
  \A e, d \in Entries(file) : e.seq = d.seq => e = d

\* Replaying the readable entries from the start meets no gap, whatever was
\* lost in a buffer, cut by a power failure or written again.
NoGaps ==
  \A i \in Readable(file) :
    file[i].seq > 1 => \E j \in 1 .. i - 1 : file[j].seq = file[i].seq - 1

\* The entries in memory carry the last numbers, and what they are numbered
\* is either not in the log yet or in there as the same entry.
BufferContinuesLog ==
  handle # "none" =>
    /\ \A i \in 1 .. Len(buf) : buf[i].seq = seq - Len(buf) + i
    /\ \A e \in Entries(file), i \in 1 .. Len(buf) : e.seq = buf[i].seq => e = buf[i]
    /\ flushed # 0 => flushed = seq - Len(buf)

\* What a flush that returned nil has written behind whole entries is read back
\* after any crash, any power failure, and whatever is torn later.
FlushedSurvive == promised \subseteq Entries(file)

\* The log, as who applies each number once reads it, implements an abstract one.
\* A number that the log has is not pending, though the buffer may still have it.
Numbers(f) == {e.seq : e \in Entries(f)}

LastNumber(f) == CHOOSE n \in 0 .. Len(f) : Numbers(f) = 1 .. n

Log(f) == [n \in 1 .. LastNumber(f) |-> (CHOOSE e \in Entries(f) : e.seq = n).payload]

Fresh(f, b, s) == IF LastNumber(f) + Len(b) <= s THEN Len(b) ELSE s - LastNumber(f)

Pending(f, b, s) ==
  [i \in 1 .. Fresh(f, b, s) |-> b[Len(b) - Fresh(f, b, s) + i].payload]

Abs == INSTANCE DurableLog WITH
  log <- Log(file),
  kept <- LastNumber(SubSeq(file, 1, synced)),
  pending <- IF handle = "none" THEN <<>> ELSE Pending(file, buf, seq),
  up <- handle # "none",
  damaged <- Readable(file) # 1 .. Len(file)

ImplementsDurableLog == Abs!LogSpec

-----------------------------------------------------------------------------
(* What the documentation says and the code does not do *)

\* wal.go: "ReadAll reads all valid entries from the WAL file".
ReadsAllValidEntries ==
  \A i \in 1 .. Len(file) : file[i] # Torn => file[i] \in Entries(file)

\* wal.go: "FlushedSeq returns the last flushed sequence number".
FlushedSeqIsLastFlushed ==
  handle = "open" => \A e \in promised : e \in Entries(file) => e.seq <= flushed

\* wal.go: "sequence numbers for ordered replay".
OrderedReplay ==
  \A i, j \in Readable(file) : i < j => file[i].seq < file[j].seq

\* wal.go: "number of entries to buffer before auto-flush", "Auto-flushes when
\* buffer is full".  With so many entries the flush was at least tried.
FullBufferIsFlushed == Len(buf) >= BufferSize => failed

\* wal.go: "Close flushes and closes the WAL file".
CloseWritesAll == [][CloseFile => buf = <<>>]_vars

=============================================================================
