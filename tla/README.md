# A verification project for Positorium

Positorium is an embedded and served database of *posits*: immutable
propositions, each a set of appearances of things in roles with a value and a
time. Clients send Traqula scripts; the engine runs one script at a time,
keeps everything in memory, and makes it durable in an append-only store. The
modules here model the engine's core, TLC checks them on small instances, and
TLAPS proves the central results for every instance.

All paths are relative to the repository.

## 1. Inventory

| Component | State | Operations | What is hard | What makes it correct |
|---|---|---|---|---|
| Append-only log store (`src/storage.rs`) | log file, manifest, `manifest.next`, directory entries, `store.lock`; per process committed length, next sequence and batch numbers, `poisoned` | open, initialise, append a batch, flush, snapshot | crashes, I/O errors and power failures at every step, two processes, uncertain outcomes | a store with a manifest always opens; an acknowledged batch is never lost; a writer never overwrites a committed batch |
| Constructs and keepers (`src/construct.rs`) | identity generator, role, appearance, appearance set and posit keepers, lookups | bootstrap, restore, create roles, create posits with assertions | deduplication against memory and within a command, failed appends, identities after a restart | replay accepts whatever was written, memory equals replay, identities keep their meaning |
| Script execution (`src/traqula.rs`) | execution owner, per-script variables, limits, cancellation token | run commands, search-or-add, stream results, explain | cancellation and deadlines racing the owner and the commit, check-then-add | a command is all or nothing, conditional adds do not duplicate, the owner is always released |
| Query interface (`src/interface.rs`) | registry of active queries | start, cancel, join | a worker ending while it is cancelled, waiting for the owner | the registry has exactly the queries that a cancellation still reaches |
| HTTP server (`src/server.rs`, `src/main.rs`) | request limits, bounded event channel, cancel-on-drop | buffered and streamed queries | slow or vanished clients while the owner is held | rows and counts agree, one last event, a vanished client frees the owner |
| Query pipeline and planner (`src/traqula/query.rs`, `src/traqula/query/*`) | per search: bindings, stack of patterns, heap of ranked rows | check, plan, join, filter, order, limit | two executors and many plans for one meaning; errors that depend on the order of evaluation | rows are the join whatever the plan; both executors agree; no plan hides an error |
| Temporal comparison and reduction (`src/datatype.rs`, `src/datatype/temporal.rs`) | frontier per group | compare, observe, dominates, retain maximal | incomparable times of mixed precision | the linear algorithm keeps the pairwise maxima |
| Information in effect (`src/effect.rs`) | none (reads the store) | resolve a cut | retractions, equal times, flawed evidence | what is in effect is the latest certain assertion of each positor |
| Maintenance (`src/maintenance.rs`) | source and destination stores, export files, identity maps | inspect, back up, export, import | a writer or another reader at the same time, a crash or a power failure in the middle of a backup or an import, files from elsewhere | a backup is a committed prefix, renaming is one to one, a complete remap file means a complete destination |
| Terrain report (`src/terrain.rs`) | none (captures the posits, then aggregates) | capture, group, project, sum, reconcile | three indexes read one after the other beside a writer, sums over masks in place, limits everywhere | a report is of one state, its parts add up |
| Budgets (`src/traqula/budget.rs`) | work and memory counters | charge, reserve, resize, release | every error path must release | the counter equals the sum of live reservations |
| Literals, bindings | none | parse, render, wrap | | |

Interaction: the server calls the query interface, which starts a worker
thread per query; the worker takes the execution owner and runs the script;
`add` commands call the constructs, which call the log store under its mutex;
`search` commands run through the pipeline, which asks the effect resolver and
the reduction; results flow back through callbacks and a bounded channel; a
terrain report takes the execution owner as a script does; maintenance opens
the store from another process and meets the writer at `store.lock`.

## 2. Plan

Done, in this order:

1. `DurableLog` (the promise) and `LogStore` (the files): refinement,
   inductive invariant, proofs.
2. `PositStore` on top of `DurableLog`: commands, crash, replay.
3. `ScriptExecution`: owner, deadlines, cancellation, registry, search-or-add,
   streams; safety, liveness, proofs.
4. `Temporal`, `Reduction` (with proofs) and `Effect`.
5. `Pattern`, `QueryPlan` and `Query`: both executors against the join.
6. `Backup`: snapshot readers with their shared lock beside the writers of
   `LogStore`, and a physical backup; proofs.
7. `LogicalReplay` (what a reopened store accepts), shared by `PositStore`,
   which now fails at every step and loses power, and `Transfer`: export and
   import with the renaming of identities; proofs.
8. `Terrain`: the report beside a writer.
9. The variables of a script in `ScriptExecution`: identities handed from a
   search-or-add to later commands; proofs.

10. Proofs of what was only checked before: `PositStore` and the replay it
    shares with `Transfer`, the round trip, streams and registry of
    `ScriptExecution`, `Effect` as a whole, `Terrain`.
11. Proofs about `Query`: the static checks and the planner against whatever
    the executors do, with an invariant about the stack of frames.

Next:

12. That both executors keep every row of the join (`RowsAreTheJoin`), from the
    same invariant.
13. `explain` and the row channel of a query handle in `ScriptExecution`.

Every module keeps its parameters as constants with named assumptions, has
one action per operation or step, and declares no RECURSIVE operator.

## 3. The modules

```
MCBackup -> Backup -> LogStore ... implements ..... DurableLog
MCPositStore -> PositStore -> LogicalReplay ....... uses DurableLog
MCTransfer -> Transfer -> LogicalReplay ........... uses DurableLog
MCTerrain -> Terrain -> Temporal
MCScriptExecution -> ScriptExecution
MCEffect -> Effect -> Reduction -> Temporal
MCQuery -> Query -> QueryPlan -> Pattern -> Temporal
```

### LogStore: `src/storage.rs`

A batch is what one `append_batch` writes: its member frames and the Commit
frame. The log is a sequence of a header and batches; a `torn` entry is any
other bytes. Every file has a visible content and a content on the medium.
A step of the module is one system call or one check of `open_internal`,
`initialize_store`, `write_manifest`, `append_batch` or `flush`; `IOError`
makes any of them fail, `ProcessExit` stops a process between two of them, and
`PowerLoss` stops all of them and leaves, for each part of a file that was not
synced, the old content, the new one or a torn one. The renames within one
directory reach the medium in the order in which they were made (a journalled
file system). A power failure leaves the manifest that was synced last or the
latest one; one in between, where a process died before it synced its rename and
the next one has renamed again, leaves what a power failure just before the
second rename may leave, and is not a case of its own. The entry of the store directory in its parent is a matter of its own: it
may be lost until the parent is synced (`SyncParent`), which happens only if the
path names one (`ParentNamed`) or the directory was there before
(`DirectoryPreexists`). `sync_directory` does nothing on systems other than
Unix (`src/storage.rs:1268`); the model is of Unix.
`acked` is a history variable: batches whose append returned `Ok`.

### DurableLog

The promise: whole batches become visible one after the other, reach the
medium, and are acknowledged only then. `LogStore` implements it under the
mapping `history <- Durable`, `served <- Visible`; `PositStore` and `Transfer`
use its actions.

### Backup: `StoreSnapshot` of `src/storage.rs`, `inspect_store` and `backup_store` of `src/maintenance.rs`

`Backup` extends `LogStore` with one maintenance tool: it takes `store.lock`
shared (`ShareLock`), validates the committed part of the log
(`ReadSnapshot`), and copies it into a new directory: the log
(`CreateDestination`, `CopyLog`, `SyncCopy`), then the manifest, which is read
from the source a second time (`CopyManifest`, `SyncCopiedManifest`), then the
directories (`SyncCopyDirectory`, `SyncCopyParent`), then opens the copy to
verify it (`Report`). `ToolEnds` stops it anywhere, by an error or the end of
its process; a power failure hits store, tool and copy at once and keeps of the
copy what `synced` says. What a writer does is an action of `LogStore`,
unchanged but for the lock. `origin` and `reported` are history variables.

### LogicalReplay

Definitions only: the records of a store and what `Database::new` accepts when
it replays them: the built-in roles, role names in normal form and unique,
identities used once, posits with known roles, no two appearances in one role
(`Canonical`, what the decoding of a record insists on).

### PositStore: `src/construct.rs`, `add_posit` of `src/traqula.rs`, replay

The generator, the keepers, the interning indexes and the durable log.
`CreateRoles`, `Bind` (with `BindFails`) and `Stage` are the commands;
`Publish`, `Persist` and `Keep` carry a staged batch through the log and into
the keepers, and may fail or stop at every step; `Open` and `OpenEmpty` are
`Database::new`, and a power failure takes back a batch that was visible and
not durable. `BindFails` is a command cut short while it binds, by a cancellation
or a posit that is not well formed; `RefuseRecord` is a record that
`append_batch` refuses without poisoning the writer. A value stands for a value
with its time; codec records always accompany the first batch and are left out;
commands are constants of the model (`RoleCommands`, `PositCommands`). A command
has slots: identities it inserts, and identities it recalls, each chosen by
itself (`RecallFor`), so that a fan-out over a name with several identities is a
command with several targets. A client may write an assertion envelope as a
posit of its own, in the built-in roles and with a certainty, about anything.
Two history variables: `answered` has the records reported to a client as
stored, `asserted` the envelopes that `and assert` wrote or found written.

### Transfer: `export_store` and `import_store` of `src/maintenance.rs`

An export is a file of lines, one per record. An import reads a file
(`StartImport`: `read_export`, `validate_imported`), gives every identity a new
number (`SkipNumber`, `AssignNumber`), writes the renamed records into a new
store in batches (`PublishBatch`, `PersistBatch`, `AppendReturns`, the actions
of `DurableLog`), verifies it (`Verify`, `Inspect`), and writes the remap file
(`WriteRemap`, `SyncRemap`). Both may stop anywhere, and the power may fail
anywhere; then the operator removes what is left. `named` says which of the two
paths name a parent: only then is the entry of the destination (`anchored`) or
of the remap file synced, and a power failure may take away an entry that was
not (`DestinationVanishes`, `RemapSuffers`), each without the other. A
destination in which `LogStore::open` was interrupted is `made = "unfinished"`:
it may be the one of finding 1, and nothing is claimed of it. Files from elsewhere
(`OtherFiles`) are reordered, incomplete or no exports. `MaxThing` is the
largest identity, `u64::MAX`.

### Terrain: `src/terrain.rs`

A writer keeps the posits of a command index by index under the execution
owner; the report takes the same owner, counts the posits, reads the keeper and
two indexes (`Capture`), releases it, and aggregates what it has: the latest
records (`SelectCurrent`, the reduction of `Reduction`), frames of all and of
current posits (`BuildFrames`), profiles (`Populate`), isopleths summed bit by
bit (`SumBit`), allocations and their reconciliation (`FinishFrame`). Every
limit has its error and an interruption may come anywhere. Totals that are only
counted, and how roles and parts are named in the output, are left out, and with
the names the internal error of a role that the keeper does not know
(`src/terrain.rs:775`): `NoInternalError` is about the other ones.
`TerrainAssumption` says that databases and appearance sets are finite and that
a command keeps posits that no other command and no database has, because their
identities come from the generator.

### ScriptExecution: `Engine` of `src/traqula.rs`, `src/interface.rs`, `src/server.rs`

Every client sends one script, a sequence of `add role`, `add posit`, `search`
and `search ... or add` commands, as a stream, a buffered request or a query
of the interface. `Acquire` is a successful `try_lock`, `GiveUp` a waiter whose
token is cancelled or whose deadline has passed; `NextCommand`, `Search`,
`Prepare`, `Commit`, `Succeed`, `Interrupt` and `CommandFails` are the loop of
the engine; `EmitMeta`, `EmitRow`, `StopAtLimit`, `EndSet` are the streaming
sinks and the limit; `ReportEnd`, `ReportError`, `ReportAborted` and `Respond`
end the request. A full channel of `Capacity` events disables a sending step:
that is `blocking_send`. The environment starts scripts, cancels them, lets
deadlines pass, reads events and disconnects. `Crowds` says which clients are
there at the same time. An addition is one step here (its steps are in
`PositStore`). The names of a script stand for additions (`variables`): an
addition binds its name, and a search with a fallback binds all that it found
(`Promoted`), whatever the limit; a command that recalls a name is about all of
it. How many rows a fallback has is left open (`FallbackRows`): one for every
combination of the identities its names stand for; they pass through the same
limit and sink. `explain` and warnings are left out.

### Temporal, Reduction and Effect: `src/datatype.rs`, `src/datatype/temporal.rs`, `src/effect.rs`

`Temporal` has times as half-open intervals of instants. The calendar is the
constant `Boundary`, constrained by `TemporalAssumption` only; the last unit of
a kind has no end, because computing it overflows. Leap seconds are left out.

`Reduction` runs `retain_maximal_by_key` row by row: a pass that observes
frontiers and a pass that retains. `base` is a history variable that says how
many comparisons were made before. `Effect` runs `resolve_budgeted` on top of
it: candidates in order of identity, both cuts, retractions, two reductions,
limits and errors at every row. The final sort of the slice is left out, the
result is a set.

### Pattern, QueryPlan and Query: `src/traqula/query.rs`, `src/traqula/query/`

`Pattern` is what one posit pattern matches: candidates from the indexes,
members, values and times against the bindings so far, histories with a
cutoff, deferral of a pattern whose cutoff is not bound yet, and slices of
information in effect (as a definition there, step by step in `Effect`).

`QueryPlan` is what is decided before a search runs: the domains of variables
and the static checks, the order of patterns, their access path, which
predicates are pushed down, and why a search has to be materialised.

`Query` runs the search: the incremental executor as a stack of frames (one per
pattern, with the candidates and matches left), the materialising executor
relation by relation, absence blocks, DISTINCT, the heap of ranked rows, and
the counting sink with its limit. The client may stop at the schema or at any
row, and an interruption may come anywhere. Loops over a sequence that carry
rows along (`Accumulate`) are recursive functions, so that proofs can follow
them. `DatabasesAssumption` says that a store is finite, that its identities are
numbers, that literals are compared by amounts, and that times are times;
`QueriesAssumption` is what the parser guarantees: the kinds of the slots, no
more than one `in effect` per pattern and one limit, sequences of patterns and
of sort keys, and names that no variable has; `KindsAssumption`, that every kind
of time has a place in the derived order. Parsing, explanations, the accounting of memory and the
order of a slice's rows are left out. Times are ordered; appearance sets, which
`order_value` (`src/traqula/query.rs:2371`) can order too, are never sort keys
here.

## 4. What the runs check

| Run | Shows | Instance |
|---|---|---|
| `logstore` | a store with a manifest opens, acknowledged batches are durable, the writer agrees with the manifest, what a snapshot validated stays so, a copy that opens is the snapshot and a reported one survives, and the refinement of `DurableLog` | two processes, two kinds of batch, at most two batches in the log: a batch, a torn successor, and its overwriting after a restart; one maintenance tool |
| `logstore_init_crash` | finding 1 | the store directory is created too |
| `positstore` | replay is accepted, memory equals the replay, the generator stays above everything, an envelope that `and assert` wrote or found follows its target in every log that may be read, and nothing is acknowledged that is not durable | one role, one value, 13 identities: a role, an asserted insertion, a repeated and asserted recall, a fan-out over two identities, a client's own envelope and an ambiguous set, with two faults (command cut short, refused record, crash, failed write, power failure) anywhere |
| `positstore_answers` | finding 2 | 12 identities, two faults |
| `script` | conditional additions do not duplicate, scripts are serial, commands are published once or not at all, recalls are complete, an interruption is prompt, streams are well formed and their tallies exact, the registry is exact, the owner runs | a stream, a buffered request and an interface query that add the same key; or two streams of one and two result sets, one of which recalls what it found. Limit and channel capacity are 1, so that both are reached, a fallback has one row or two, and the recall is about two matches of which one was sent |
| `script_live` | every script ends if clients read or go away; waiters give up even if they do not | a stream with a query without deadline |
| `script_stalled` | finding 3 | the same |
| `effect` | reductions keep the pairwise maxima with the promised number of comparisons, the slice is the documented one | up to four assertions of a pool with overlapping, equal and sentinel times, retractions and flawed evidence, in two orders, under two cuts, with limits that some of them reach |
| `query` | rows are the join, incremental and materialised executors agree, static checks suffice, no plan hides an error, a stream takes no row back, estimates are bounds | all pairs of 13 patterns as join, union and absence, and some 30 more bodies with modifiers and limits 0, 1, 2 and none, over four stores; stopped or interrupted anywhere |
| `query_things` | finding 4 | one more pair of patterns |
| `transfer` | the renaming is one to one and never the identity, a complete remap file means a whole destination, and a durable one if its path names a parent; what an export wrote is accepted, and durably reproduced if both paths do; a destination that was opened once opens again wherever the import stopped, if names are normalized | three stores (empty; assertions about assertions and a gap in the identities; a role that is a thing) and nine files from elsewhere; every choice of paths with and without a parent; batches of one record; the last identity is 15, so that the numbers run out for one of them |
| `terrain` | a report is of one state between commands, its internal errors never occur, its isopleths count the things with all their roles | 320 databases of up to seven posits, a writer of two more, two cutoffs; every limit is exceeded by some of them and kept by others |

Every run checks for deadlock. A model that is meant to stop has a `Finished`
disjunct that says where it may.

*Bounds.* `MaxBatches`, `MaxRecords` and `MaxFaults` are bounds of the models,
not of the code, and so is `MaxThing` in `PositStore`; in `Transfer` it stands
for the largest identity of the code. `CopyLeftAlone` in `MCBackup` stops the
exploration where a writer runs beside a copy that a tool left behind: neither
touches the other, and the proofs do not need the bound. `OneLeftover` in
`MCPositStore` stops it where failed commands have left more than one appearance
or appearance set behind in a process that still writes: nothing reads them but
a command that builds the same ones. The instances were chosen so that every action fires and every
hazard listed in `PROJECT.json` with a property occurs; each property was seen
to fail when one definition is changed as a plausible bug would (`mutants`).

*Fairness.* The safety runs assume none. `script_live` and `script_stalled` use
`EngineSpec`: weak fairness of every worker (threads are scheduled, and a
waiter polls `try_lock` with a sleep in between) and of every deadline (time
passes). `try_lock` gives no order among waiters, so nothing stronger is
assumed; a waiter cannot starve here because each client sends one script.
That clients read their streams is nothing the code can enforce: it is a
premise of `EveryScriptEnds` (`ReaderFairness`), not of `WaitersGiveUp`.

### Findings

1. A crash or an error between the creation of the log and the rename of the
   first manifest leaves a directory that no later open accepts.
2. A command whose records are all kept is answered without any sync. After a
   crash between the rename of a manifest and the sync of its directory, the
   answer may be about a batch that a power failure takes back.
3. A client that keeps its stream open and does not read blocks the worker in
   `blocking_send` while it holds the owner; its deadline passes without effect.
4. A variable that one pattern binds to a thing and another asks to be a posit
   fails the search instead of not matching.

### Found while modelling

Not the subject of a run:

- Rows are ordered by times with the derived order of `TimeType`
  (`src/datatype.rs:246`), which compares the variants first: with mixed
  precisions they are not in temporal order, and the end of time precedes every
  year, against `docs/development/DECISIONS.md:393` and `:397`. `Query` sorts
  as the code does.
- An export has no last line that says it is one. A file that was cut off
  between two lines is imported without complaint as a store of fewer posits;
  `RemapFileMeansComplete` is about the file that was read.
- `read_export` does not ask whether role names are in normal form. A foreign
  file with another name is written to a destination whose replay refuses it;
  `PartialDestinationLoads` has the premise.
- For a path without a parent component, the entry of a directory or file that
  is created is not synced (`src/storage.rs:1281`, against
  `docs/reference/STORAGE.md:257`): a power failure takes acknowledged batches
  away with the store directory. The same holds of a backup and of an import,
  which always creates its destination (`src/maintenance.rs:262`), and of its
  remap file (`:633`), with such paths in `docs/guides/OPERATIONS.md:47`. With a
  parent, a process that ends between the rename of the first manifest and the
  sync of the parent leaves a store that later opens use without that sync.
  `logstore` and `AcknowledgedAlwaysDurable` are about a store directory that is
  on the medium; `ReportedAlwaysSurvives`, `RemapFileAlwaysMeansComplete` and
  `TransferRoundTrip` about directories that are created, with the premise that
  the paths name a parent.
- A failed command leaves appearances and appearance sets of posits that were
  never stored in the in-memory indexes (`src/construct.rs:1064`, against
  `docs/reference/STORAGE.md:259`), as `BindFails` does here. No property forbids it,
  `MemoryIsReplay` being about the keepers of roles and posits; the totals of a
  terrain report count them (`src/terrain.rs:477`).
- The final event of a single stream repeats the tally of the last search, also
  when that search has no result set (`src/traqula.rs:1484`, against
  `docs/development/DECISIONS.md:912`). `FinalTallyCounts` excludes such scripts.

## 5. Proofs

Eight modules hold theorems. Each is about every value of the constants that
satisfies the named assumptions, so about every number of clients, processes,
rows and faults; what the assumptions say is in the module that declares them.

**DurableLog and LogStore.** `LogStoreProofs` proves `IInv` inductive and from
it `TypeOK`, `Recoverable` and `WriterIsCurrent`, for any set of processes,
payloads and bounds. None of these is inductive alone: that the committed part
replays after a crash depends on both copies of the log agreeing on it
(`CommittedIsSynced`), which depends on the process that holds the lock having
synced the log before it staged the manifest (`OwnerInv`), which depends on
nobody else writing in between (`LockIsExclusive`), and on a manifest being
renamed only when its own bytes are on the medium (`ManifestsAreWhole`).

`Refinement` says that every step of `LogStore` is a step or a stutter of
`DurableLog`, assuming that the store directory was on the medium before the
first open, and `AcknowledgedAlwaysDurable` derives `AcknowledgedIsDurable`
from the promise of the abstract log (`PromiseKept`).

**Backup**, in the same module. `ToolsAreInvisible` says that a behaviour of
the store beside a maintenance tool is a behaviour of the store, so that
everything above holds there. `BackupInvariant` then proves `BackupInv`, which
adds to `IInv` that the store is unchanged while the tool shares the lock (no
process owns it, and only an owner writes), and that the copy is built and
synced in the order of the steps (`CopyInv`). From it follow
`SnapshotAlwaysStable`, `CopiesAlwaysWhole` and `ReportedAlwaysSurvives`; the
last two need that the manifest is the last file written, which `CopyInv` states
as: a copy with a valid manifest is whole on the medium.

**LogicalReplay.** `LogicalReplayProofs` has no state. It proves what
`PositStore` and `Transfer` need of a replay: what a replay accepts is
consistent (`ReplayIsConsistent`), a batch that fits what is there is accepted
behind it, and how records, identities and names of a log grow with a batch.

**PositStore.** `PositStoreProofs` proves that a restart is accepted after any
commands, failures, crashes and power failures (`ReplayIsAccepted`), that memory
is what would be replayed (`MemoryIsWhatReplays`), that the generator is above
everything (`GeneratorStaysAbove`), that an envelope that `and assert` wrote or
found follows its target (`AssertionsKeepTargets`; clients' own envelopes may be
about anything, as `tests/in_effect.rs:141` shows), and that the log is used as `DurableLog` allows
(`PositStoreUsesDurableLog`). The first does not follow from itself: that the
next batch fits is decided before it is staged, from memory. So the invariant
says that both the visible and the durable log replay (`LogInv`, because a power
failure puts one in the place of the other), that memory holds what is visible
between two commands and lacks exactly the staged batch while it is written
(`MemoryInv`), that what `add posit` has bound refers to kept roles and passed
identities (`BoundInv`), and that a staged batch fits (`StagedInv`). For the
targets it says of every envelope in `asserted` that the posit it names has the
smaller identity and is in each log the envelope is in, or in the same staged
batch.

**Transfer.** `RemapAlwaysFaithful` proves for every file, exported or not, and
every batch size that no two identities get one number and none its own. The
invariant is `Numbering`: every number given is below the next one.
`RemapFileAlwaysMeansComplete` adds where in the import the destination is
verified (`Writing`) and that the remap file is written afterwards (`Artifact`).
`ImportingInvariant` says where an import is: the destination holds the first
records of the file, renamed; all roles are in its first batch; the renaming
keeps the order of the identities; and what is on the medium of destination and
remap file follows from which paths name a parent (`Placed`). From it follow
that a destination whose `LogStore::open` had finished opens wherever the import
stopped, if the names in the file are normalized, and has the target of every
envelope that came after its target in the exported store
(`PartialDestinationsLoad`; those of `and assert` do), and the round trip
(`TransferRoundTrip`): what an export wrote is accepted, and an import of it
that was reported, to paths that name a parent, has durably reproduced the store
up to the renaming. `TransferAssumption` says of the
exported stores that they are finite and consistent, which is what
`ReplayIsConsistent` proves of every store that opens.

**ScriptExecution.** `ScriptExecutionProofs` proves for any clients, scripts,
limits and capacities that the owner is released on every path
(`OwnerIsReleased`), that scripts run serially, that conditional additions are
unique, and that commands are atomic. The inductive invariant adds to the type
what is true of each client: it owns the database while it runs, it has added
nothing before, its own additions are of commands behind its instruction
pointer or of the fallback in progress, and whatever a search-or-add found
absent is still absent when it adds. That the last holds is the point of the
owner: the check and the addition are different steps. `CommandsAreAtomic`
needs a second invariant, `ProgressInv`, about how far each command got.
`RecallsAlwaysComplete` needs a third, `NamesInv`: the names of a running script
stand for exactly the additions by that name of its own and, once a search with
a fallback is past, of all others; while the script runs nobody else adds.

`ControlInv` says that a script that has been interrupted and added once since
is not at a commit any more, from which `InterruptionAlwaysPrompt` and
`RegistryAlwaysExact` follow. `StreamsInv` is about the events of a client,
those it has read followed by those still in the channel: each fits the ones
before it, and the kind of the last one and the rows since the last schema are
what the place of the worker and its sink say. No step but those of its own
worker appends to a stream, and reading only moves an event from the channel.
From it follow `StreamsAlwaysWellFormed` and `FinalTallyAlwaysCounts`.

**Reduction and Effect.** `EffectProofs` proves `ReductionKeepsMaxima` for every
input and every calendar that satisfies `TemporalAssumption`: a row is retained
if and only if no row of its group is definitely after it. The argument is that
`DefinitelyBefore` is a strict order (`BeforeIsStrictOrder`) which the greatest
start of a group decides: a row is dominated by some row only if it is dominated
by the witness. `OneRelationHolds` says that of two times exactly one of
before, after and overlapping holds. `ReductionCountsItsWork` proves the number
of comparisons that the comment promises: in the second pass one row of a group,
its witness, is not compared, and the invariant (`WorkIsCounted`) counts the
witnesses that were passed.

`SliceAlwaysDefined` proves that the slice `resolve` returns is the one its
definition gives. The invariant `SliceInv` follows the passes: what has been
collected is what is in the cut (`Collected`); for every retracted pair the
latest start of its retractions is known (`RetractionsKnown`), which decides
whether any of them is later than an assertion; and the rows of both reductions
are the ones that the definition reduces (`Reduced`).

**Terrain.** `TerrainProofs` proves that a report is of one state of the
database (`CaptureAlwaysCoherent`), that its internal errors never occur
(`InternalErrorsNeverOccur`) and that its isopleths count the things with all
their roles (`SupportAlwaysExact`), for any databases, commands and limits. The
invariant has two parts. `CoherentInv`: the indexes of the writer follow one
another by at most one posit, and agree when no command is under way; of every
command they have all posits or none but for the rest that is still to be kept;
and the report owns the database from its first step to its capture.
`AggregateInv`: profiles are functions from the things of a frame to masks; the
sum of a mask counts the things that have it and beyond it only bits already
summed (`SummedUp`), so that the bit that comes next adds what was not counted
yet; and a finished frame stays exact, because nothing it is about changes any
more. The code's own sums add up because they count the elements of a finite set
by what a function maps them to (`TotalOfParts`); that lemma first has to show
that the recursive function behind the sum exists (`AccumulatorUpTo`).

**Pattern, QueryPlan and Query.** `QueryProofs` proves, for any stores and
searches that satisfy the two assumptions, that what `prepare` checks is enough:
a search that was planned never ends with an unbound variable, a recall that
cannot be resolved or a variable of another domain (`CheckedSearchesBind`), and
that the candidates of a frame are never more than were estimated
(`EstimatesBound`). The code reports these errors deep inside the executors, in
`Binding::bind`, `match_appearance`, `indexed_things`, `resolve_cutoff` and the
collection of identities, all of which trust checks that were made before the
search was planned, about another order of patterns.

The argument follows the names. The *uses* of a body are the names of its
patterns, each with the domains it is used at; the static checks allow only
`Thing` and `Posit` together. `Bound(U, K)` is the set of bindings that bind
names of `U`, each at one of its domains, and know every name of `K`. Then:

- every operator of `Pattern` takes a binding of `Bound(U, K)` to rows of
  `Bound(U, K \cup Uses(pattern))`, or to an error that a search may end with
  (`PatternIsBuilt`, for structural patterns, histories and information in
  effect; `CandidatesAreBounded` for the indexes), if the pattern is *ready*:
  its cuts and alternatives are in `K`;
- the planner only places a pattern that is ready, and places all of them
  (`CompileIsSound`), because the static check resolved them in some order and
  what one order makes known any other makes known as well (`ResolvedIsLeast`);
- so the inductive invariant, `SearchInv` (`SearchIsSound`), can say that frame
  `i` of the walk holds a binding that knows what the patterns before it bind,
  and matches that know its own as well, that a relation of the materialising
  executor holds rows with all exported names, and that the plan is the one the
  checks were about. An absence block starts from such a row and its own names,
  which may have other domains than in a branch.

Rows that a stream has handed on cannot be taken back, so a plan may only stream
if no later row can be refused (`StreamedRowsStand`). `materialization_reason`
decides it from the query: no value to compare with, no information in effect,
no literal compared other than by its text. What the proof adds is that this is
enough at run time: a predicate is pushed down to a frame where its variable is
bound, at the domain that the planner saw, which is that of the exported name
(`PushedPredicatesDecide`), a sort key is compared before the first row is out
(`Delivering` in `SearchInv`), and the only error left is the `Invariant` of the
finding `query_things`. It also means that pushing a predicate down, or stopping
at a limit, hides no error of another row (`StreamsHideNoError`).

An index is never too narrow (`LookupsLoseNoMatch`): a posit that the structural
match would accept, or fail on, is among the candidates, exactly once, whichever
of the role postings, time order, singletons and lists of bound things the
planner found cheapest. The proof takes the identities that a look-up leaves out
and shows for each why `match_posit` refuses it, by induction over the members.

A top-k heap is right only if forgetting a row can never matter later. Rows are
compared by sort keys of several domains, some descending, and ties are broken
by the ordinal. `QueryProofs` first shows that this is an order: within one
domain a value is compared by one number or two (`ValuesAreOrdered`; a time by
its kind and then its unit), a key of the exported names is of one domain in all
rows, so the first key that differs orders rows weakly (`OrderIsWeak`), and the
ordinals make it strict and total (`RanksAreStrict`). Then the rows the heap
keeps are closed under what is ahead of them, from which it follows that it
keeps what it would keep had it seen all rows at once (`HeapKeepsTheFirst`), and
that these are the first rows of the complete order, with the one lookahead row
that tells truncation from an exact fit (`HeapIsAPrefix`). Over a run,
`DeliveryInv` (`DeliveryIsSound`) carries this along, relative to `SearchInv`:
the heap is within its bound (`HeapIsBounded`), rows leave in order
(`RowsLeaveInOrder`), and DISTINCT delivers no row twice in any of the four ways
a row can take to the client (`DistinctRowsOnce`).

`SearchInv` is about sets too large for TLC to enumerate; the run checks the two
properties themselves. A pattern evaluated over a sequence is a recursive
function; that it exists and stays in a set is proved once (`RecursionExists`,
`StaysIn`).

*Only model-checked.* `RowsAreTheJoin`, `AsMaterialized` and
`ErrorsAreNotHidden` compare what the executors do with a definition of the
answer, and count rows. `QueryProofs` shows that every row is typed as the
checks promise and that no look-up loses one, not that no row is lost or
repeated: that needs, for every operator, that each solution is found exactly
once, and for the last two that two orders of evaluation make the same bag of
rows; of `ErrorsAreNotHidden` only the half about streams is proved. Liveness (`EveryScriptEnds`,
`WaitersGiveUp`) is out of the prover's reach. The four findings are
counterexamples of instances and need no proof.

## 6. Not modelled

- Frame encoding, checksums and literals are pure functions of their input and
  covered by round-trip tests; a torn frame is one that fails its checksum.
- Hardware that reorders a journalled directory or loses synced data.
- Budgets (`src/traqula/budget.rs`): the counters belong to one execution and
  its thread, and reservations give their bytes back in `Drop`, which the
  compiler inserts on every path; a model would assume what is in question.
  That a budget may end an execution at any step is modelled where it matters.
- Parsing, `explain` and the language bindings have no state that other
  components depend on. The JSON of an export line and the command line of the
  maintenance tool are left out.
- The server's other routes and the validation of requests, which keep no state.
- A panic of a worker, which poisons the owner's mutex.
