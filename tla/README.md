# TLA+ models of the Bloom filter store

Specifications, model-checking runs and proofs for the Go program in `src/`: a
library of Bloom filters (`internal/...`) and the command line in `main.go`
that keeps them in files. This file says what the system consists of, which
module stands for which code, what every run shows and what is proved, and
what is still to be done.

## 1. The system

| component | state | operations | hard behaviours |
|---|---|---|---|
| hash (`hash/hash.go`) | none | `Hash(data, i, m)` = (h1 + i·h2 mod 2^64) mod m | the product and sum wrap; two of the k positions may coincide |
| filter (`filter/filter.go`) | m, k, bits | `New`, `NewFromParts`, `Add`, `Test` | none by itself: no lock, nil on invalid parameters |
| codec (`codec/codec.go`) | none | `Marshal`, `MarshalV1`, `Unmarshal` of v1 and v2 | m and k are cut to 32 bits while the bits are written in full |
| store (`store/store.go`) | file: header (m), Add and Checkpoint records; in memory the filter and an offset | `Create`, `Open` (two-pass replay, truncation), `Add`, `Checkpoint`, `Close` | crash at any write, torn records, errors the caller ignores, replay from the last checkpoint, nothing is synced; processes with offsets of their own on one file |
| write-ahead log (`store/wal.go`) | file, buffer, `seq`, `flushed` | `OpenWAL`, `Append`, `Flush`, `Close`, `ReadAll`, `FlushedSeq` | flush that fails half-way and is retried, numbers given again after a crash, appending behind a torn entry, buffer growing after failed flushes, `Close` in two halves |
| counting filter (`counting/`) | packed counters, count, RWMutex | `Add`, `Remove`, `Reset`, `Test`, `Clone`, snapshots, `Merge` | overflow at the width of a counter, removal of false positives, clamping merges, two locks in `Merge` |
| partitioned and rotating filter (`partition/`) | partitions, current, stopped, history, two locks | `Add`, `Test`, `Rotate`, `Start`, `Stop`, `Snapshot`, `Restore` | saturation read, event recorded and partition reset in separate steps; loops racing `Stop`; copies without the lock |
| collector (`stats/stats.go`) | seven atomics, history of snapshots, creation time, mutex | `Record*`, `Metrics`, `TakeSnapshot`, `Reset`, `Uptime` | multi-step reads and increments, snapshots appended later than taken, creation time read without the lock |
| rate tracker (`stats/rate.go`) | ring of buckets, mutex | `Record`, `Total`, `Rate`, `Reset` | stale buckets, unaligned starts, two origins of time, windows that are no multiple of a bucket |
| snapshot-file commands (`main.go`) | one file | `add`, `check`, `info` | processes that overlap; `os.WriteFile` truncates before it writes |
| builder and scalable filter (`filter/builder.go`) | slice of filters, `currentN`, `maxN` | `Build`, `Add`, `Test`, `Len`, `grow` | `Len` computed from formulas, not counted; capacities that wrap, a fallback, a clamped rate |
| filter and merge operations (`filter/ops.go`, `merge/merge.go`) | none | union, intersection, difference, XOR in place and as functions, single bits, estimates | shape mismatches |
| hash strategies (`hash/enhanced.go`, `murmur3.go`) | none | indices by double, enhanced, triple and independent hashing | sums and products that wrap |
| format inspection (`codec/format.go`) | none | `Inspect`, `Validate`, `ConvertV1ToV2` | none by itself |
| capacity, flag parsing | none | pure functions | none a model checker reaches |

How they interact: `main.go` calls the store (`store-add`, `store-check`,
`checkpoint`) or reads and rewrites a snapshot file through the codec (`add`,
`check`, `info`). The store calls filter and codec directly. The rotating
filter holds its own mutex around a rotation and takes the lock of the
partitioned filter once per call it makes; `Add` and `Test` take that one only.
A counting filter's `Merge` holds its own lock to write and the other's to
read. The log, the counting and rotating filters and the collector are shared
by goroutines, and so is the rate tracker; the store, the plain and the scalable
filter have no locks. Nothing locks a store file against other processes.

What makes each component correct:

* store: what was acknowledged is found by every later process; a reopen
  rebuilds the filter that was in memory; a checkpoint never hides an item;
  nothing that was not added appears.
* store with several processes: what a process added while it was alone stays,
  whatever overlaps later; whoever is alone appends behind a readable file.
* snapshot file: processes agree on m and k; a crash or an overlap damages the
  file detectably or leaves what was in it before.
* log: one entry per number, no gaps in what is readable, flushed entries
  survive, the buffer continues the file; to its reader it is a list that only
  grows, except for what a power failure may take.
* counting: counters say how often each position was taken, through merges,
  copies and removals; the locks stop the program only by merges that form a ring.
* rotation: partitions take turns, no bit outlives a round and no item goes before
  its turn, the saturation strategy never resets a partition under the limit, loops
  end after `Stop`.
* rate tracker: nothing counts after it left the window, what is recent is not
  lost, and `Rate` divides by no more than the window, nor by so little that it
  exceeds the busiest tick of the window, the events of the present tick apart.
* scalable filter: no false negatives, no filter filled past its rate, `Len`
  never too low.
* collector: outcomes and tests stay consistent up to calls under way, the
  history is bounded, `Reset` leaves at most the snapshots that were being taken.

## 2. Modules

| module | models | state and actions in terms of the code |
|---|---|---|
| `BloomFilter` | `hash.go`, `filter.go` | a filter is a record `[m, k, bits]`, bits the set of indices that are 1; `AddItem`, `TestItem`, `NewFilter` are `Add`, `Test`, `New`; the FNV hashes are constants, any functions into a word |
| `Codec` | `codec.go`, `format.go` | a `Blob` keeps the header fields (modulo `Uint32`), the bits, the real length of the bit section and whether the checksum fits; `Marshal`, `Unmarshal`, `UnmarshalV1`, and `ConvertV1ToV2`, `Validate`, `Inspect` of `format.go` |
| `DurableSet` | the promise of the store | a set that is up or down; a crash loses nothing that was committed |
| `Records` | the record format and the two passes of `Open` | a file as a sequence of records, a partly written one is `Torn`; `IsValidEnd`, `IsLastCheckpoint` and `Replay` are what `Open` finds, cuts and rebuilds |
| `Store` | `store.go` and the store commands, one handle | `recs` is the file behind the header; one action per operation, each with the outcomes of its write. `CLI` selects the caller: `main.go` creates only missing files and exits at the first error, any other caller goes on |
| `SharedStore` | the store commands in several processes | the file is a sequence of cells, each with the part of a record last written there; a process has an offset, and reading, truncating and every write are steps of their own. `CreateBy`, `AddBy` and `CheckpointBy` are what `Create`, `Add` and `Checkpoint` of `Store` are here |
| `Merge` | `merge.go`, `ops.go` | operators on filters and sequences of filters, with `NilFilter` for the errors; the methods of `ops.go` as what they make of the receiver |
| `HashStrategies` | `enhanced.go`, `murmur3.go` | operators with the wraps of 64-bit arithmetic |
| `ScalableBloom` | `builder.go` | `grow` is `NextCap`, `NextLevel`, `NextFilter`, `NextMaxN`; a rate is the number of times it was tightened, the sizing formulas are constants |
| `RateTracker` | `rate.go` | `RecordEvents` is `Record`; buckets over a clock of ticks; the mutex makes every call one step; `Truncated` and `bucketIndex` keep their two origins of time |
| `SnapshotFile` | `add` and `check` on a snapshot file | one process per `add`: `Read`, `Truncate`, `Write`, `Fails`; `Contents` is what `check` sees |
| `WAL` | `wal.go` | the mutex makes `Append` and `Flush` one action each; `Close` is two; a flush has the outcomes of each of its writes and of `Sync`; `Kill` and `PowerFailure` are the environment |
| `DurableLog` | the promise of the log | entries by number, those that wait, how many are safe; a log with a part of an entry in the way is damaged, and grows no more |
| `Counting` | `counting.go`, `snapshot.go` | counters as functions into the counter's width; every call is a step because it holds the lock; `Clone` copies all, `Snapshot` is `MarshalSnapshot` and `UnmarshalSnapshot`, which cut the count to a signed word (`Signed`) and fail for an m that is too wide |
| `MergeLocks` | the locks of the counting filter | a call is the pair of locks it takes; RWMutex as in Go, a waiting writer locks out new readers; `AfterLock` is what `Merge` locks beside its own filter |
| `Rotation` | `partition.go`, `rotation.go` | the lock of the partitioned filter is a step; the mutex of the rotating filter is the variable `mu`, and a rotation, snapshot or restore runs over several steps |
| `Collector` | `stats.go` | one step per atomic access; the creation time has two words, written one at a time |

`Store` and `SharedStore` extend `Records`, which with `SnapshotFile` extends
`Codec`, which extends `BloomFilter`, so the replay and the rewriting work on real
filters with colliding positions and truncated parameters. `Store` takes a file
for a sequence of records, which is what one handle makes of it; `SharedStore`
cuts records into cells, because other handles overwrite parts of them.
`Counting`, `Rotation`, `ScalableBloom`, `Merge` and `HashStrategies` extend
`BloomFilter`. `Store`
instantiates `DurableSet` with a refinement mapping: the committed set is the
items of the Add records in the file, the answers are what the open filter says.
`WAL` instantiates `DurableLog`: the abstract log has at place n the entry with
number n that a reader finds in the file, whether it was written once or again by
a retried flush; what waits is the part of the buffer whose numbers are not in
the file yet; safe are the entries of the synced part; and the log is damaged
while a torn entry stands in front of the file's end. A flush into a damaged log
succeeds, and what it writes is lost: the abstract log says so.
`Counting` and `MergeLocks` are two views of one component: the first takes
calls as atomic, the second shows that they exclude each other (`Exclusive`),
which is what makes that sound.

`MCxxx` modules hold the instances for TLC, `xxxProofs` modules the theorems:
`FilterProofs` those about `BloomFilter`, `Codec`, `Merge` and `HashStrategies`, on
which all others rest; `StoreProofs` also those about `SharedStore`,
`CountingProofs` about `MergeLocks` and `StatsProofs` about `Collector` and
`RateTracker`. These modules extend both components they are about, so
`SharedStore`, `MergeLocks` and `RateTracker` name their specifications
`SharedSpec`, `LocksSpec` and `RateSpec`. Definitions with a comment that
begins with `Mutant:` are faulty variants of the definition they precede;
`PROJECT.json` says which property each of them breaks. They are part of no
specification.

## 3. Runs

| run | configuration | what it shows |
|---|---|---|
| `store_cli` | `MCStoreCLI` | as `main.go` uses the store, killed at any write: `AckedSurvive`, `ReopenMatchesMemory` bit for bit, and the refinement of `DurableSet` |
| `store_library` | `MCStoreLibrary` | errors ignored, power failures: checkpoints cover what is before them (`FileInv`), every record before the first torn one counts (`ValidPrefixRecovered`) |
| `store_wide` | `MCStoreWideLibrary` | m at and above the header's width, where m is cut to 0 or 1 and checkpoints do not unmarshal: still no bit without an item (`NothingInvented`) |
| `snapshot_file` | `MCSnapshotFile` | three overlapping `add` processes that may fail and die: `SameShape`, `SoloSurvive` |
| `wal` | `MCWAL` | failing flushes, kills, power failures, torn entries: `SameSeqSameEntry`, `NoGaps`, `BufferContinuesLog`, `FlushedSurvive` for what was flushed behind whole entries, and the refinement of `DurableLog` |
| `counting` | `MCCounting` | any callers, removal of false positives included: `ExactCounters`, of the counters until a merge clamps and of the count until a snapshot cuts it, and in its lowest bits after that; `NeverOvercounts` always |
| `merge_locks` | `MCMergeLocks` | a merge with itself, a ring of two and a ring of three: mutual exclusion, which a merge that does not lock the other filter would break; where no call can go on there is a ring (`OnlyRingsBlock`); and every call returns unless a ring has closed (`MergesReturn`, liveness) |
| `rotation` | `MCRotation` | either strategy, two loops and a client that rotate, snapshot, restore and stop: `RoundRobinOrder`, `EverythingExpires`, `Present`, `OnlySaturatedReset`; both loops end after `Stop` and every client's call returns (liveness) |
| `collector` | `MCCollector` | recording against snapshots, `Reset` and `Uptime`: `OutcomesFollowTests`, `ExcessBounded`, `UndercountBounded`, `HistoryBounded`, `FewStaleSnapshots` |
| `shared_store` | `MCSharedStore` | three processes on one store file, overlapping, failing and dying anywhere: `SoloSurvive`, `AloneAtEnd`, and, as an action property, `LoneAppends`: while nobody active has met another, a step leaves the readable records as they are or adds one |
| `rate_tracker` | `MCRateTracker` | windows that are and are not multiples of the bucket, defaults, unaligned buckets: `NothingStale`, `KeepsRecent`, `RateBounded` |
| `scalable` | `MCScalableBloom` | growth by 1, 2 and 4 through capacities that wrap to 0 and the fallback: `NoFalseNegatives`, `WithinTarget`, `LenNeverBelow` |

The code does not do everything its documentation says. Those sentences are
stated as definitions at the end of the modules, under the heading "What the
documentation says and the code does not do", each with the sentence it comes
from. Each has a counterexample that TLC finds within seconds when the
definition takes the place of the properties in the configuration named (and
symmetry, where it is on, is left out):

| definition | configuration | what happens |
|---|---|---|
| `KeepsK` | `MCStoreCLI`, `KValues = {3}` | the header has no k: without a checkpoint the reopened filter has the default k. Its items are found, because the replay adds them again with that k; the bits and the rate of false positives are those of another filter |
| `DiscardsOnlyIncomplete` | `MCStoreLibrary` | a caller goes on after a failed write; `Open` discards the complete records behind the torn one too |
| `ReplaysFromLastValidCheckpoint` | `MCStoreWideLibrary` | the replay starts behind the last checkpoint record, valid payload or not, and loses what was before it |
| `CrashLeavesOpenableFile` | `MCStoreCLI` | a death within `Create` leaves a file no command accepts |
| `ClosedStaysDurable` | `MCStoreLibrary` | nothing is synced, and a power failure after `Close` loses items |
| `CutsOnlyPartial` | `MCSharedStore` | a command truncates the file where it had read its end, and cuts off the whole records another process wrote since |
| `AppendOnly` | `MCSharedStore` | so the readable part of the file gets shorter; a `Create` that races another does the same |
| `ReadsAllValidEntries` | `MCWAL` | entries flushed behind a torn one are never read |
| `FlushedSeqIsLastFlushed` | `MCWAL` | it is 0 after `OpenWAL` |
| `OrderedReplay` | `MCWAL` | a retried flush writes its first entries again |
| `FullBufferIsFlushed` | `MCWAL` | a failed flush leaves the buffer full, its capacity doubles, and with it the trigger |
| `CloseWritesAll` | `MCWAL` | an entry appended between the halves of `Close` is neither written nor refused |
| `AddNeverLowers` | `MCCounting`, items `MCDuplicateItem` | two hashes of an item meet on one counter at its maximum - 1: it passes the check for overflow and wraps to 0 |
| `SnapshotKeepsCount` | `MCCounting` | the count is written in 32 bits and read back signed: one above `MaxInt32` comes back negative |
| `StopHalts` | `MCRotation` | a loop past its select rotates once more |
| `MostSaturatedReset` | `MCRotation`, items `MCThreeItems`, one loop, `Limit` 1, one rotation | the partition was the most saturated at the time of the scan |
| `SaturationBeforeReset` | `MCRotation` | items were added between the reading and the reset |
| `PointInTime` | `MCCollector` | a snapshot with more hits than tests |
| `OlderEvicted` | `MCCollector` | two snapshots were appended out of order, and the newer one goes |
| `UptimeWhole` | `MCCollector` | half of one creation time and half of another |
| `TotalIsComplete` | `MCRateTracker` | a bucket that is not where Truncate puts it expires while its index is current, and its events are dropped |
| `SensibleDefaults` | `MCRateTracker` | the default bucket is larger than a window below a second |
| `RateIsAverage` | `MCRateTracker` | buckets that no event met have left the window, so `Rate` divides by the time with events |
| `LenExact` | `MCScalableBloom` | `Len` counts what the full filters would hold at the first rate, more than they got |
| `GrowsLarger` | `MCScalableBloom` | a capacity that wraps makes the new filter smaller than the one before |

### Bounds

* Store: three items over four or five positions with two or three hash
  functions. b is a false positive of a set that does not hold it, the hash of c
  wraps. Four records (`MaxRecords`) are enough for add, checkpoint, add, torn
  record with a reopen between any two; the effect of a longer file is that of
  its last checkpoint and what follows, and the invariants are proved for every
  length. `Uint32` = 8 puts 8 and 9 bits on and over the edge.
* Snapshot file: three processes, so that a pair overlaps while the third comes
  or goes; a legacy file with other parameters than the defaults.
* Log: a buffer of two, four numbers (`MaxSeq`), five entries in the file
  (`MaxFile`): a full buffer that fails half-way, is retried, is lost, and
  has its numbers given again.
* Counting: two filters of four two-bit counters, counts and net numbers of items
  between -6 and 6 (`MaxItems`), signed words from -5 to 4 (`MaxInt32`): clamping,
  removal of false positives and counts that a snapshot cuts occur, and wrapping
  with the items of `AddNeverLowers`.
* Locks: three filters and three goroutines, for a ring of three, a ring of two
  with a goroutine queueing behind it, and a self-merge with two.
* Shared store: three processes, so that two overlap while a third comes, and
  three commands (`MaxCommands`): one that is alone and two that overlap, in any
  order. Records and checkpoints have three sizes, so that what one process
  writes over another's does not line up.
* Rotation: two partitions, two loops, a client, and two rotations beyond what
  has begun (`MaxRotations`, which bounds what is asked for), a whole turn. One
  item, in the partition that is not the first in turn, can be added at any
  step. A second item multiplies the states past what a run can hold, and adds
  no step: partitions share no bits, and an item meets the others of its own
  partition only as bits that are set already. The client can be in any call
  while both loops rotate.
* Rate tracker: twelve ticks with an event or none in each, windows of 1, 4, 5 and
  the default 7, buckets of 1, 3 and the default 2, and four ticks between the
  zero time and 1970, which the bucket of 3 does not divide: a window passes
  between any two events.
* Scalable filter: capacities of three bits, which growth by 4 makes 0 in the
  first or second step and growth by 1 never; eleven Adds (`MaxAdds`), enough for
  five filters of the smallest size, one more than there are levels. The
  formulas are those of the program in fixed point, with rates of 1/2 and less.
* Collector: two goroutines, a history of two, five calls (`MaxCalls`). The
  evicted tenth of a larger history is one snapshot here, as for every `MaxHist`
  below 20.

`store_cli` checks the type invariant of `Store`. The other modules state theirs
(`TypeOK`, `SharedTypeOK`, `LocksTypeOK`, `RateTypeOK`); they hold in their
configurations too, when added to the invariants, and are theorems, for which no
run is needed. Only that of `Collector`, which bounds the counters by `MaxCalls`,
is not one; `PlaceInv` of `StatsProofs` types the fields there.

Symmetry is used only where the permuted values are compared and nothing else,
and in no run with a liveness property.

Deadlock checking is off where the system may stop: after a crash in `Create`
nothing can be done with the file, a ring of merges never returns, no `add` gets
past a damaged snapshot file, the commands on a shared store come to an end,
the collector's callers may stop calling, and so may those who add.

### Fairness

* `MergeLocks`: a goroutine that waits for a Go lock is not overtaken for ever
  (starvation mode of `sync.Mutex`, and readers let through between two
  writers), hence strong fairness for `Lock` and `RLock`; readers that are being
  waited for leave and calls finish, hence weak fairness for `Drain` and
  `Return`. Nothing forces a goroutine to begin a call.
* `Rotation`: strong fairness for `Lock` as above, weak fairness for the steps
  inside a call, and strong fairness for `LoopEnds`: when the stop channel is
  closed and a tick is waiting too, `select` chooses at random, so the closed
  channel is chosen eventually. Neither ticks nor calls are assumed to happen.

All other specifications are safety only and state no fairness.

## 4. Proofs

For every value of the constants: any number of items, hash functions,
parameters, processes, goroutines, records, partitions and filters. Every
invariant, every action property and both refinements of the runs of section 3
are proved; what is left to TLC is liveness. A theorem
`Spec => []P` rests on an inductive invariant: a formula that holds initially,
that every step keeps, and that implies `P`. They were model-checked before they
were proved.

* `FilterProofs`, about the operators the state machines are built from; the other
  proofs rest on it.
  * Remainders, sums over finite sets, and filters: positions lie within the
    filter, what adding sets and preserves, and that adding sets of items is
    adding their union.
  * `RoundTrip`, a filter whose m and k fit 32 bits is unmarshalled as it was
    marshalled. `ByteLenTruncated` is the arithmetic behind it: a truncated m
    never asks for the same number of bytes, so such a blob is rejected and not
    misread, which is `NoOtherFilterReadBack`. `ConvertKeepsFilter`, a legacy blob
    keeps its filter, or stays unreadable, when it is converted; `InspectTells`,
    of what `Marshal` wrote, `Inspect` reports the filter's own shape and length
    just when `Validate` accepts it, for every k that fits the header.
  * `UnionOfNodes`, a union of filters is bit for bit the filter of all the items,
    in any distribution over any number of nodes; `UnionReportsAll`,
    `IntersectionAgrees` and `DifferenceRemoves`, what the three operations
    report; `UnionInAnyOrder`, uniting in place with two filters in either order is
    the same, mismatches included, and uniting again changes nothing; `XORRestores`, the difference and the old filter
    give the new one; `ClearBitLoses`, clearing a bit loses exactly the items that
    use it.
  * `PositionsInRange`, for every hash strategy; and `FirstPositionAgrees`.
* `ScalableBloomProofs`: `ScalableTypeCorrect`, `FiltersWithinTarget`, `ItemsFound` and
  `LenCountsAll`, for any hash, sizes and growth. `WithinTarget` is not inductive: it
  does not say how much the last filter may still be given. `IInv` adds that
  `currentN` is what the last filter was given, and that its limit `maxN`, or the
  one Add that `grow` is followed by whatever the limit, is within its own rate.
  `LenNeverBelow` follows filter by filter: no full filter was given more than
  the formula counts for it.
* `StoreProofs`, one handle:
  * `TypeCorrect`, without further assumptions;
  * `FileInvariant` and `PrefixRecovered`, assuming `ParamsFit` (m and k fit the
    header; `ReplaysFromLastValidCheckpoint` shows what happens otherwise). `FileInv` is the
    inductive invariant: every checkpoint unmarshals to a filter that holds the
    items of all Add records in front of it, and the open filter holds those of
    the whole file. `ValidPrefixRecovered` alone is not inductive: it says
    nothing of checkpoints behind which a record is still to come, nor of the
    filter the next checkpoint is made from;
  * `StopInvariant`, `AckedItemsSurvive`, `MemoryMatchesFile` and
    `StoreIsDurableSet` for the caller that stops at the first error and a
    machine that keeps its power. `StopInv` adds that a torn record is the last
    one and its writer gone, and that what is acknowledged has a record. With
    `FileInv` it gives `AckedSurvive`, and the refinement of `DurableSet`: the
    initial states map to initial ones, every step to a step or a stutter;
  * `StoreInventsNothing`, for any m, cut to 32 bits or not, and every k that fits
    (`KFits`). `SoundInv` adds that the checkpoints in the file, too, have no bit
    without an item. A k of 2^32 and more is left out with reason: cut to 32
    bits, it makes a checkpoint unmarshal to a filter with fewer hash functions.
* `StoreProofs`, several processes on one file (`SharedStore`): `SharedTypeCorrect`,
  `SoloAddsSurvive`, `AloneAppends` and `LoneProcessAppends`, for any number of
  processes and records of any sizes, assuming that the default k fits 32 bits
  (it is 7). `SharedInv` has
  three parts: the types; `AloneInv`, a process that is alone has read the whole
  file, or is about to cut or write where its readable part ends; and `SavedInv`,
  for each item of `solo` there is an offset that the scan of the file comes to,
  with the whole record of the item; every checkpoint behind it, or part of one,
  holds the item; and no process has its offset in front of that record's end or a
  filter without the item. The third part is why overlaps do no harm to it: they cut and
  write behind the record, and what they write keeps the item. What the scan
  comes to depends only on the cells in front (`ReachedAlike`). `LoneProcessAppends`
  is about steps and not states: from `AloneInv` a lone process acts at the end
  of the readable part, and then the records do not change when what is behind
  is cut off (`CutParsed`), one more is there when a whole record is written
  (`WriteParsed`), and none when its writer fails half-way (`PartParsed`).
* `SnapshotFileProofs`: `SnapshotTypeCorrect`; `SoloInvariant`, from which
  `SoloItemsSurvive`; and `ShapeInvariant`, from which `OneShape`. `SoloInv` is
  needed because `SoloSurvive` speaks of the file only, while the next contents
  of the file are in some process's memory: each filter in memory holds the
  items that must not be lost and its own, and a process that has met no other
  is alone, so that when its items become `solo` nobody has read the file
  without them. `ShapeInv` adds that while there is no file, everyone starts
  from the defaults.
* `WALProofs`: `WALTypeCorrect`, `OneEntryPerNumber`, `LogHasNoGaps`,
  `BufferContinues` and `FlushedEntriesSurvive`, through any failing flushes, torn
  writes, kills and power failures. None of the properties is inductive alone:
  that the log has no gap depends on what the next flush will write, and that
  on what an earlier one has left. `IInv` adds `Continues`, which ties the
  buffer to the file: a number of the buffer that is in the file already is the
  same entry there, no number is above `seq`, and the number in front of the
  buffer is in the file, unless the file is torn, in which case nothing written from
  now on is read and no gap can appear. `Kept` adds to `FlushedSurvive` that what is
  promised lies in the synced part. The lemmas `WroteReadable` and
  `CutOffReadable` say once what a write and a power failure do to what is
  readable; the steps cite them. `WALIsDurableLog`: the initial states map to initial
  ones and every step, under `IInv`, to a step of `DurableLog` or to none. `NoGaps`
  makes the abstract log a sequence, `SameSeqSameEntry` gives each of its places
  one entry, and `Continues` makes what the buffer holds beyond the file exactly
  what waits. A flush that wrote some entries and failed is a `CommitPart`, its
  repetition a `Commit` of the rest, and a write of what the file already has is
  a step that changes nothing.
* `RotationProofs`, each invariant on top of those before: `LockInv`, at most one
  goroutine is inside `mu` and the variable says which; `TurnInv`, a round robin that
  has looked is at the current partition, which gives `TurnsInOrder`; `DueInv`,
  every bit of a partition is one of an item of it for which the rotations done since
  it was added or put back, and those to come before the partition's own, are fewer
  than the partitions, and `SnapInv`, that a snapshot has bits of `snapItems` only:
  together they give `NothingOutlivesTurns`; `CopyInv`, what a snapshot
  began with is in the copies already made, and in the filter for those that are
  not, which gives `LiveItemsPresent` through `Restore`; and `SeenInv`, what a
  rotation saw of a partition is still in it, so `ResetsOnlySaturated` holds though
  the reading is old when it is used. `RotationTypeCorrect` as well.
* `CountingProofs`: `CountingTypeCorrect`; `CountersExact`, `CountersNeverTooHigh` and
  `PresentItemsFound`, assuming finitely many items each with k different
  positions (`DistinctPositions`; `AddNeverLowers` shows what happens otherwise);
  and without that assumption `CountersExactInWord`: until a merge cuts one,
  counters are what they should be modulo their width. What a counter should be
  is a sum over the items, and the lemmas say what each call does to it. `CountInv`
  says of the count what `FitsInv` says of the counters, and that a count that went
  through a snapshot differs from the sum by whole words (`SignedType`).
* The same module, about `MergeLocks`: `LocksTypeCorrect` and `CallsExclude`, by
  `LocksInv`: a call has what it needs where it is, and what is held is held by a
  call that needs it. `OnlyMergesHang`, where no call can go on, some merges wait
  for one another in a ring: each waiting call is followed to the one that it
  waits for, and only a merge that waits for its second lock holds anything
  (`WaitingMerges`, `HungInARing`). From it `OneWayMergesNeverHang`, for a program
  whose merges form no ring: its hypothesis is that in every nonempty set of
  filters there is one that none of the set, itself included, is merged into, as
  when filters have ranks and are merged upwards only.
* `StatsProofs`: `HistoryStaysBounded`; `OutcomesAccounted`, `ExcessStaysBounded`,
  `SnapshotsNearlyWhole` and `StaleSnapshotsFew` for any finite, nonempty set of
  goroutines. `ExcessBounded` is not inductive: while a `Reset` is under way nothing
  is known of the counters it has yet to zero. `ExcessInv` says what is known
  outside of that, counting the tests under way, and `GapInv` follows the fields of a
  snapshot one by one. `StaleInv` counts the stale snapshots still on their way to
  the history along with those in it.
* The same module, about `RateTracker`: `RateTypeCorrect`, `RateStaysBounded`,
  `TotalNeverStale` and `TotalKeepsRecent`, for any window and bucket that
  `RateAssumption` allows. `StaleFree` bounds each bucket by the events of its own
  index since its start; summing over the buckets gives `NothingStale`, as no
  tick has two indices, and `RateStaysBounded`, as a bucket has events of no more
  ticks than its share of the divisor and the present one. `KeepInv` says the converse of events in well-placed
  buckets whose turn in the ring has not come again.

The assumptions on constants are `HashAssumption`, `Uint32Assumption`,
`RecordsAssumption`, `StoreAssumption`, `SharedStoreAssumption`,
`SnapshotFileAssumption`, `WALAssumption`, `CountingAssumption`, `LocksAssumption`,
`RotationAssumption`, `CollectorAssumption`, `RateAssumption` and
`ScalableAssumption`, in the modules that declare the constants.
`ScalableAssumption` states two things about the formulas of `filter.go`: a filter
sized for n items takes at least one at the rate it is sized for, and a looser
rate never allows fewer. Floating point keeps this for every `targetFPR` between
1e-10 and 1 - 1e-14; section 5 says what happens outside. The theorems about
hash strategies assume `StrategyAssumption`: hashes of items fit the word.

The induction theorems of the library take the property as an operator, which
the provers cannot instantiate. Where an induction is needed it is on a
set instead: `StrongSubsetInduction` of `FilterProofs`, for sums
(`IterExists`, `SumStep` and the lemmas behind them), and `DownInduction` of
`StoreProofs`, from the end of a file to its beginning, for the recursive function
in `Scan` of `SharedStore`. The formula to be proved goes into the definition of
the set.

Only model-checked: liveness (`MergesReturn`, `StopEndsLoops`, `CallsReturn`), which the
prover's backends do not reach, nor `ENABLED` (in `CrashLeavesOpenableFile`).

## 5. Abstractions

* A record, entry or blob that is not completely written never parses: CRC32 is
  taken to have no collisions, and the length checks are modelled.
* A write leaves all, nothing or a part of what it was given. Two processes'
  writes to a snapshot file are each whole; they start at offset 0 and have one
  length, which `SameShape` justifies.
* A legacy (v1) file has no bits behind its m-th and m and k that fit their
  fields, as `MarshalV1` writes it.
* In `SharedStore` a write of a whole record is one step, as one `write` call on a
  local file is, or stops half-way as the last thing its process does. Bytes are
  grouped into cells, at least two to a record; the bytes of an old record
  never spell a new one. A command that fails in `Open` after reading ends there.
* The rate tracker's clock never goes back (`time.Time` keeps a monotonic reading),
  and all its calls happen at ticks. `Rate` is represented by its divisor, its
  dividend being `Total`.
* The sizing formulas of `filter.go` are constants with `ScalableAssumption`. For
  targets below 1e-10, which the assumption leaves out, `grow` replaces a rate by
  the looser 1e-10: the later filters take more than the first rate allows, and
  `Len` counts fewer items than there are. Allocations succeed.
* A snapshot of a counting filter has m, k and the count in 32 bits. With an m of
  more bits it cannot be read back: the data is longer than the cut m asks for,
  and the CRC is looked for in the wrong place. With a k of more bits it is read
  back as a filter with fewer hash functions, with no error; such a filter is not
  of the one shape of `Counting`, so `Snapshot` is for m and k that fit. The count
  is cut in the model as in the code.
* Saturations are numbers of bits in place of ratios with the constant m.
* Times are counted, not measured.
* `Restore` gets snapshots of its own shape only, and partitions are reset by
  rotations only.
* Histories that only the properties read (`acked`, `tried`, `solo`, `shared`,
  `promised`, `net`, `clamped`, `cut`, `live`, `since`, `snapLive`, `snapItems`, `calls`, `clock`,
  `resets`, `added`, `held`, `born`, `events`) are marked as such where they are declared.

Not modelled: the cardinality estimates of `merge.go`, the capacity advice and
`Dispersion` of `enhanced.go`, floating point without state; the rounds inside the
FNV and Murmur3 hashes, whose outcomes are any values here; `Restore` of snapshots
with another shape and the partitioned filter's own reset methods; flag parsing
and wording. See "components" in `PROJECT.json`.

## 6. Plan

Done, in this order: `BloomFilter` and `Codec`; `Store` with `DurableSet` and its
proofs; `WAL`; `Counting` and `MergeLocks`; `Rotation`; `Collector`; `SnapshotFile`
with its proofs; the operators of `Merge` with their proofs; `Records` and
`SharedStore`; `RateTracker`; `ScalableBloom` with its proofs; `ops.go` and
`format.go` with their proofs; `HashStrategies`; the proofs of `WAL`, `Rotation`,
`Counting`, `MergeLocks`, `Collector`, `SharedStore` and `RateTracker`;
`DurableLog` and the refinement; the absence of other deadlocks than rings of
merges; the appends of lone processes.

To do, the most important first:

1. An abstract multiset for `Counting`, with the refinement proved.
2. `Rotation`: the partitioned filter's own reset methods, `Restore`'s error
   path that leaves some partitions replaced.
3. Nodes that add items, exchange filters and merge them in place, as a state
   machine over the operators of `Merge`.
