# Specifications of the feature store

TLA+ modules for the feature store in `src/`: an in-memory, sharded store of
feature rows with versioned field layouts, an online read cache, offline
imports, backfills, TTL expiry and an online/offline consistency check, served
over HTTP.  The modules are checked with TLC on small instances; what is proved
with TLAPS holds for every value of the constants.

## 1. The system

| component | state | operations | interacts with |
|---|---|---|---|
| version manager (`internal/version`) | versions, last version per table, active pointer, under `Manager.mu` | `Create`, `Publish`, `Rollback`, `ResolveActive`, `Get`, `SwitchEvents` | calls the store's cache hooks after unlocking; read by every read |
| store (`internal/store/store.go`) | shards of entries, under `Store.mu` | `Read`, `Write(At)`, `MergeWrite`, `CompareAndWrite`, `Delete`, `ExpandShards`, `RollbackBatch` | asks the router and the manager, owns cache, journal and results |
| read cache (`cache.go`) | snapshot per key and version, own lock | `Get`, `Put`, `InvalidateEntity`, `InvalidateVersion`, `ClearAll` | filled by readers, invalidated by writers and by the manager |
| router (`internal/entity`) | shard count and route table, own lock | `Route`, `Lookup`, `Expand` | grown before the store is |
| importer (`internal/ingest`), journal | batches (no lock), journal (own lock) | `Import`, `Rollback` | `EntryFor`, `Append`, `MergeWrite`, one after the other |
| backfill (`internal/compute`), results | tasks (no lock), committed results (own lock) | `Run`, `Retry` | `EntryFor`, then `CompareAndWrite` |
| TTL scanner (`internal/ttl`) | none | `Scan`, `ExpireKey` | `Keys`, `WrittenAt`, then `Delete` |
| consistency check (`internal/sync`) | none | `Check`, `Partition` | `SwitchEvents`, `Keys`, `WrittenAt`, `ReadVersion` |
| table registry (`internal/table`) | table definitions, own lock | `Register`, `Get` | read by `Create` and `Import` |
| HTTP server (`cmd/featurestore`) | none of its own | one handler per operation | runs every request in a goroutine of its own |

There is one process and nothing is persisted, so there is no crash recovery.
What is hard is the concurrency: handlers take four separate locks one after
the other and use under one what they read under another (or under none), an
expansion is two steps on two locks, a panicking handler keeps its lock, and the
version lifecycle admits call sequences that nobody intended.  The properties that make each part correct:

* version manager: lineages stay within a table, the active pointer stays on a
  selectable version, a rolled-back version never returns, publish times are final;
* read path: what is cached is what the store holds, a snapshot is a view of
  one write, no field outside the version's layout is shown, a read is atomic;
* expansion: the store is brought up to the router however expansions overlap, no data is
  dropped, keys stay readable, the operation ends;
* conditional writes: the order of versions is the order of their creation, and what
  is stored is compared before it is replaced;
* import: what a batch wrote can be reverted, a rollback restores exactly what
  the batch overwrote, a merge touches only the file's columns;
* TTL: a scan misses nothing that is too old, and leaves alone what is not;
* backfill: a result adds its counters once and touches nothing else, a retry
  skips what was written and only that, a task's count ends where its input does;
* consistency check: every entry of the range is compared once, every difference
  reported once.

`PROJECT.json` lists the hazards line by line.

## 2. Modules

| module | models |
|---|---|
| `VersionManager` | `internal/version`: `Create`, `Publish`, `Rollback`, `ResolveActive` and the state machine |
| `VersionManagerProofs` | the theorems about it |
| `MCVersionManager` | its instance for TLC |
| `StoreProofs` | lemmas about `Store`: what each critical section preserves; the order of version numbers |
| `OnlineReadsProofs` | the theorems about `OnlineReads` |
| `AtomicReadsProofs` | the refinement of `AtomicStore`, step by step; what holds without expansions |
| `ImporterProofs`, `BackfillProofs` | what the steps of a batch and of a backfill request preserve |
| `JobsProofs` | the theorems about imports, scans and backfills in `BackgroundJobs` |
| `ConsistencyCheckProofs` | the windows of a check, and the theorems about it in `BackgroundJobs` |
| `VersionOrder` | `versionRank` and `versionNewer` |
| `MCVersionOrder` | one entry and the conditional writes that reach it, under every pair of version numbers |
| `Store` | extends `VersionManager`: router, shards and cache, and one operator per critical section on them |
| `OnlineReads` | extends `Store`: the server's handlers as concurrent clients |
| `AtomicStore` | abstract: a store whose reads are one step |
| `MCOnlineReads` | the instances of `OnlineReads` for TLC |
| `Importer` | extends `Store`: imports row by row, the journal, and batch rollbacks |
| `TTLScanner` | extends `Store`: a scan, key by key |
| `Backfill` | extends `Store`: tasks, runs and retries key by key, the committed results |
| `CachedReads` | extends `Store`: readers that fill the cache, in the two steps that matter to a check |
| `ConsistencyCheck` | extends `CachedReads`: switch events, windows, and the comparison key by key |
| `BackgroundJobs` | composes these with online reads and writes, expansions and version switches |
| `MCBackgroundJobs` | its instance for TLC, and the mixes of jobs it looks at |

### VersionManager

`versions`, `lastByTable` and `active` are the manager's fields of those names.
A version id is `<table>-v<n>` with `n = len(m.versions)+1`, and versions are never removed, so the position `n` stands for the id.  `activeID` is left
out: it is always written together with `active` and never read.  So are
`CreatedAt` and the order `List` gives.  Each operation holds `Manager.mu` for
its whole effect and is one action; a call that returns an error changes
nothing and is a stuttering step (in particular an unknown table or id).
`Create` copies the fields its table has in the registry then; since
a table may be registered again, they are any of `Schemas[t]`.  `Transition`
refuses an edge that does not exist and leaves the record alone: `Rollback` and
`Publish` ignore that refusal, and the model does what they do.

### Store

The route table is the identity on the shard count, so `Route(k)` is the hash
modulo `routerShards`.  The hash is a constant function (`Hash`).  `HomeShard`
is where writers go (with the fallback to shard 0); readers index with the
route itself.  Entries, snapshots and field maps are records and functions;
an absent field is `NoValue`, anything absent is `None`.  Not modelled:
`Snapshot.WrittenAt` (nobody reads it), values' types, deep copies (values are
immutable in TLA+).
`Boot` is the state in which `main` starts serving: a published version of
user_profile (`BootTable`) and a draft of item_profile (`DraftTable`), no entries.
`CompareAndWrite` asks the router twice under `Store.mu`, for the lookup and
for the shard it puts a new entry into, and `Store.mu` does not stop the router from being
expanded in between.  An entry that the lookup finds is refused or written in place
(`CompareAndWrite`, one step); if it finds none, `CompareAbsent` and `InsertEntry` are two steps,
of which the second asks again.  What an expansion re-routed the key to in between is overwritten
uncompared, as in the code.  Who takes the two steps keeps the lock (`LockHeld` in `OnlineReads`,
`StoreFree` in `Backfill`); the router's half of an expansion does not need it.
The cache is a map from key and version; only the empty id and ids of
created versions are ever used.

### OnlineReads

A client is a goroutine serving requests: `pc` is what it does next, `req`
holds the handler's local variables.  A read is
`StartRead` (resolve the version), `GetCached`, `LookupAbsent`/`LookupEntry`/`LookupPanic`,
`CopyEntry`, `PutCached`, `Respond`: one action per lock it takes, and the copy
of the live entry, made under no lock, in between.  While a client is about to copy,
its locals follow the entry it points to (an entry deleted from its shard no longer
changes, `Detached`): a write and a conditional write give the entry a new field map,
so the one before joins `former`; a merge assigns into the map in place, so every field
of `map` collects the values it has had (`MergedInto`).  The copy takes one of the maps, for
each field one of its values, and any version id in `ids`.  A map that is iterated while it is
assigned to may also make the Go runtime abort the process (`AbortCopy`): all clients stop for good.
Inside a map header or a string the copy could tear further; the model stays at whole assignments.
`raced` is a history variable: the key was rewritten, removed or re-routed
after the lookup.

A write is `StartUpdate` (the handler; `Write` takes the time here, before the
lock) and one critical section, in which the cache is invalidated; a conditional write that finds no entry is
`FindNothing` and `Insert`.  Delete,
conditional write and merge are the store calls of the TTL scanner, the backfill and the import; in
the model any client may make them, in any order.  `Switch` is `Publish` or
`Rollback` under the manager's lock, `Flush` the cache hooks that run after the unlock: two or three calls, of which the last clears everything; the version-wise ones before it can only remove snapshots earlier.
An expansion is `StartExpand` (reads the count), `ExpandRouter` or
`RefuseShrink`, `ReportExpansion` (reads the count again) and `ExpandStore`.

No HTTP request creates a version or registers a table after boot
(`Draftsman` does, standing for code linked with the server; tests do it this
way).  With only the boot versions a rollback has no parent to go to.

`LookupPanic` needs a word.  `Read` evaluates `s.shards[route][key]` between
`RLock` and `RUnlock`, without `defer`.  In the gap of an expansion the route may be
beyond the slice; the index panics, `net/http` recovers the goroutine,
and the read lock stays taken (`leaked`).  `sync.RWMutex` then admits readers until the first writer
waits, and after that nobody (`CanLock`, `CanRLock`).

Between the two steps of an expansion the router is ahead of the store.
`ShardsMatchRouter` says who brings the store up to date: an expansion between its two steps that carries
exactly the router's count and has seen the count grow, so that it will not report a failure (`CatchingUp`); a process that
`AbortCopy` stopped for good is the exception it names.  `ExpansionsCatchUp` says that it is done: expansions
overtake each other, those that find the count unchanged fail and leave, readers and writers take the lock again and
again, and still the store ends up with the router's count, unless a read panicked in the gap.

### Importer

`Import` is `StartImport` (checks, column window, entry in the batches map) and
then, per row, `CopyBefore` (`EntryFor`), `AppendOp` (`Journal.Append`) and
`MergeRow` (`MergeWrite`): three critical sections, as in the code.  The schema a
window is computed from is any of the table's `Schemas`, as columns are added
online.  A rollback is `StartRollback` (`OpsFor`), one `RevertOp` or `SkipOp` per
operation, and `ClearJournal`; it may start while the import is still running.
`Journal.ops` is one slice that `OpsFor`
and `Clear` filter by a batch id; the model keeps it per batch (`journal[b]`), which loses only the order
between operations of different batches, and nothing looks at that.
An import of a batch id may be repeated before or after a rollback, but there is
one import and one rollback of a batch at a time.  Segments are left out, since
they only number the rows.  The batches map is a set of ids; the
unlocked access to the Go map is not modelled.  No HTTP request
rolls a batch back; linked code and the tests do.

`history` holds, per batch, what the properties need to remember: the entry a key
had before the batch touched it (`touched`, `base`), whether somebody else wrote it
or an expansion re-routed it since (`disturbed`), whether the batch was the last to write it (`owns`), and
whether an import overlapped a rollback (`overlapped`, `cut`).  No guard reads it.
`ImportedIsJournaled` and `RollbackRestores` are stated for the
keys nobody else wrote (a rollback writes to the shard a key is routed to then, and leaves alone what an
expansion orphaned, hence the re-routing) and the batches whose import and rollback did not overlap, because
beyond that the code promises nothing it keeps: the run `no_write_forgotten` shows the overlap.

### TTLScanner

A scan lists a shard (`ListKeys`), looks each key's write time up (`CheckKey`) and
deletes the key when it is too old (`DeleteKey`): three critical sections.  Keys
come in any order, as they do from a Go map.  `scan.old` and `scan.young` are history:
the keys whose entry was, or was not, too old when the scan began, and that nobody else has written or re-routed since.
One scan runs at a time.  `ScanIsComplete` says that of the first nothing is left at the end, `ScanSparesYoung` that the
others are still there at any time, although the clock goes on while the scan works and a key may be listed in two shards: an age is
always that at the time the scan was asked for.  Neither says anything of a key that others write meanwhile: check and
delete are two critical sections, and a fresh write in between is removed.  The comment
"a fresh write is never removed by the same scan that observes it" (`ttl.go:13`) holds of an entry
the scan has looked at, not of one written after the check; the model deletes it as the code does, and no run shows it.  Beside expansions
the shard a key is listed from need not be the one it is routed to; the scan then
looks at the live entry of the key, wherever that is.

### Backfill

A request is a goroutine (`attempt[r]`) that works off its plan: `StartRun` or
`StartRetry` (the handler, `BuildPlan`, the task record), then per key, in the order of
the keys, `CheckCommitted` (only a retry), `ReadCurrent` (`EntryFor` and the additive update),
`WriteResult` (`CompareAndWrite` of an existing entry, and the task's count) or `FindNothing` and `InsertResult` (when there
is none), and `MarkCommitted` (only a
retry whose result was accepted).  These are four critical sections, and requests for the
same task may overlap.  What the code does and a reader may not expect is kept:

* `BuildPlan` keeps repeated keys, and `resultFor` returns the first row for a key
  each time; `writeResult` adds into that row's own map, so the second round starts from what the
  first one computed (`result`);
* the signature is a sum of lengths over all rows (`Weight`), so equal lengths are
  equal signatures;
* only `Retry` asks and feeds the registry; a `Run` records nothing (`committed_once`);
* integers wrap around at the width of their type (`IntWidth` stands for 2^64), a
  pair that is not of integers replaces;
* a second `Run` of a task replaces its record, while the first counts on its own,
  now unreachable one (`runner` says whose record is in the map);
* a `Run` of no rows never enters the loop that completes its task: it stays "running", though
  `Task.Completed()` holds of it.  The source nowhere says that such a task ends, so this is a remark and not a finding;
  `TasksSettle` claims completion only of tasks that have processed a row.

`TasksSettle` counts the places of a plan that are still open as a set: for each key, one per
occurrence left (`Open`).  `InsertsOnlyAbsent` is about the two routes of a conditional write: a result that is inserted
because nothing was found overwrites nothing, whoever else was waiting to write the key, unless the key was re-routed
in between.  In that one case the code overwrites whatever lies there, also an entry of a newer version, where
`store.go:257` says "stale writes are rejected"; the model does so, too.  A newer version may be overwritten as well
from the tenth version on, which `version_order` shows.

`CompareAndWrite` never returns an error, so state "partial" is unreachable
and left out.  `trail` is history: the signature of the last and of every result a retry wrote,
every result any call wrote, and whether retries of the task overlapped.  The unlocked
access to the tasks map is not modelled.

### ConsistencyCheck

`StartCheck` reads the switch events once and cuts the range into windows
(`Partition` when there is no switch); then, per window and shard, `CountShards`,
`ListWindowKeys`, `CheckTime` per key (in any order) and `CompareKey`.  The read of a
key is one step here: what happens inside a read is the subject of `OnlineReads`.  It
leaves its snapshot in the cache, as the code does, so a later window may compare a cached
snapshot.  Values are compared in their printed form (`Text`: the integer 1 and the
string "1" print alike), and only the fields the online snapshot has are looked at.  A
version that was published without a time or superseded gives no switch event; whatever events there are, the windows
cover the range, which is what `ComparedOnce` checks.  The offline view is a constant function.
The check reads through the cache, and online readers fill it.  `CachedReads` has them in two steps: `CopyMissed` (the
version is resolved, the key looked up, the entry copied) and `PutCopy`, with anything in between; a hit changes nothing.
That a copy may be torn is left to `OnlineReads`: a key that is written while it is copied counts as overtaken (`raced`) in either case.
`steady`, `compared` and `switched` are history.  Both properties are about entries that lie in the
shard of their key and in no other, with no stale read of the key in the cache and no overtaken reader about to put one
there when the check begins, and that are neither written nor
re-routed during the check.  They hold whatever readers put into the cache meanwhile; that readers overtaken before the check do
hide differences when they put their copy during it is the reason for the exemption.  An entry
that an expansion left behind makes the check list its key twice, or list it and not find it.  A stale read
also comes about without any race: a check reads a key that an expansion has just re-routed away from its
entry and caches the empty snapshot; the next expansion routes the key back, nothing invalidates the
cache, and from then on reads and checks show nothing for an entry that is there.
In the gap of an expansion the read waits here, where the code panics: that is the
subject of `OnlineReads`.  One check runs at a time.

### BackgroundJobs

All of these interleave with online writes, expansions, version switches and the
clock.  Everything at once is too large to explore, so each behaviour has a set of jobs
chosen in its initial state (`jobs`), one of the constant `Mixes`; a job outside
the set is never sent, one inside it may be sent any number of times its bounds allow.  Each mix puts together jobs
that meet in the code:

| mix | what meets |
|---|---|
| b1, write, clock | an import and its rollbacks, online writes between their steps |
| b1, scan, clock | an import and its rollbacks, a scan that deletes between their steps |
| b2, b3 | two batches that share a key: each overwrites, journals and restores what the other wrote |
| b2, expand | an import and its rollbacks while its keys are re-routed |
| scan, write, expand, clock | a scan while keys are re-routed and entries orphaned |
| r1, r2 | two backfill requests for one task: runs and retries that overlap, or follow each other |
| r1, write, write version | additions and conditional writes that meet online writes, with and without a version id |
| r1, expand | conditional writes whose two routes differ, results left behind and written again |
| check, write, switch, clock | a check while versions are published and rolled back and keys are rewritten |
| check, write, read, clock | a check while readers, overtaken or not, put their copies into the cache it reads |
| check, write, expand | a check that lists keys by shard and reads them by route, while routes change |

An online write is one step with any time up to now: `Write` takes the time before
it takes the lock, and a writer may have been waiting arbitrarily long.  The handler passes on the version id of the
request, which nobody checks: job "write" sends none, job "write version" those of `OnlineRefs`, so a backfill may be refused
because of an online write.  Every job tells the
history of the others which keys it wrote.  While a backfill is between `FindNothing` and `InsertResult` it holds `Store.mu`, and
everything but the router's half of an expansion waits (`Turn`); steps that do not take that lock come to the same before
or after the two.  A version switch flushes the cache in the same step
here, and an expansion waits for the one before it: those
interleavings, and what happens inside a read, are explored in `OnlineReads`.

### AtomicStore and the refinement

The abstract store has content, a layout per version, the resolved version and
one reply per client; `Answer` gives, in one step, the content of a key as the
version resolved in that step shows it.  `OnlineReads` implements it with
`content[k]` the live entry of `k`, `layout` and `resolved` from the manager, and
`reply[c]` present as soon as the handler has resolved its version: until the
response exists, it is the view of the live entry.  So the read is linearised at
the resolution of the version, and cache, locks, unlocked copy and late flushes
must all be invisible.  This holds for clients that keep to their own keys
(`OwnKeys`), with version switches and creations in between; with shared keys it
does not, as `cache_coherent` shows.  A corollary for the code: as the
version is part of the cache key, the flush after a switch is not what keeps
reads correct.

## 3. Runs

Passing runs:

| run | instance | what it shows |
|---|---|---|
| `version_lifecycle` | 2 tables, 4 versions, 3 clock readings | the invariants of the manager under every call sequence. Four versions give one table a lineage of three with another table's version in between, and leave room for a rollback of a rollback. |
| `online_races` | 2 clients, 1 key, 3 versions, reads, writes, conditional writes, merges, deletes, switches | `FilteredReads`: no column outside the layout; `StaleOnlyByRace`: a cached read goes stale only through a reader that was overtaken. Two clients suffice: staleness needs one reader and one writer. Versions have one column or none (an empty layout filters nothing). |
| `shard_expansion` | 3 clients, 1 key, 1 to 3 shards; one reads, writes, conditionally writes and expands, the others expand | overlapping expansions drop nothing and bring the store up to the router's count unless a read lock leaks, which happens only in a gap. Three clients are two expansions overtaking each other and a reader or writer, or three expansions; every expansion moves the key to another shard, so a conditional write may find nothing and insert elsewhere. |
| `implements_atomic_store` | 2 clients with a key each, 1 shard, 3 versions, 2 clock readings, no expansion | the refinement, whatever the other client does |
| `background_jobs` | the eleven mixes above (about 1.5 million states); 2 keys, 2 shards growing to 4, 3 versions, TTL 1, clock to 3, 3 backfill requests | the properties of the jobs. Import: the second row of `b1` lacks the column the first one sets, and the schema may have a column the file lacks. Scan: u1 is in the second shard, and clock 3 is the first reading at which an entry can be older than the TTL. Backfill: requests come under either of two versions; inputs are nothing, a counter beside a text, and three rows of two keys out of order with one repeated; 4 integer values make sums wrap; 3 requests are a run, a retry and another retry, two of which may overlap. Check: ranges of up to 4 clock readings with a step of 2, so there are one or two windows, with and without a remainder, or as many as there are switches; one reader suffices, as each copy it puts may be of any moment; the fourth shard routes u1 back to where it was with two. |

Runs whose property the code violates (each is a finding in `PROJECT.json`):

| run | what the source says | what happens |
|---|---|---|
| `active_is_published` | the pointer refers to the "currently active (published) version" | a rollback to a superseded parent leaves it on a superseded version; reads resolve no version and show all fields |
| `version_order` | the rank "follows the publish sequence" | the digits are reversed: v10 ranks below v2 |
| `cache_coherent` | the cache is used "when the entry is unchanged since the last read" | a reader overtaken by a write caches the old snapshot |
| `reads_find_writes` | a write and a read "always agree on the destination shard" | an expansion re-routes keys and leaves their entries behind |
| `committed_once` | a retry "must never write a result that was already committed by an earlier attempt" | a Run records nothing: the Retry after it adds the same counters again |
| `no_write_forgotten` | a rollback reverts "every journaled write of a batch", also in flight | a row journaled before and merged after a rollback stays, without an operation to revert it |
| `expansion_completes` | `ExpandShards` makes the shards "match the router" | a read panics in the gap and keeps its lock; the expansion waits forever |

Bounds: `MaxVersions`, `MaxTime`, `MaxShards` and `MaxOps` appear in the guards of `Create`,
`Tick`, in the range of requested counts and in the guard of `StartImport` (an import starts
only when its operations fit into the journal); `Clients`, `Keys`, `Values`,
`Payloads`, `WriteRefs`, `Ops`, `KeysOf`, `Batches`, `Files`, `Rows`, `OnlineKeys`, `Tasks`, `Runners`,
`Inputs`, `BackfillRefs`, `OnlineRefs`, `Readers`, `Offline` and `Mixes` restrict what is asked of the server,
never what it does.  `MaxAttempts` (guard of `StartAttempt`) bounds how many backfill requests are sent.
`IntWidth` is not a bound but the width of the counters, which the instance makes small.  Deadlock is not checked where versions and time run out
with no request left to serve, or where the leaked lock really stops the server.
Symmetry is used in `online_races` only, whose two clients are
interchangeable and which checks no liveness; elsewhere clients, keys and jobs have different roles.

Fairness: `FairServerSpec` lets every handler that can take a step again and again eventually take one
(`SF_vars(Handle(c))`).  The Go scheduler runs every runnable goroutine; and a handler that waits for `Store.mu` can take its step
only while nobody holds it, so that it does get it is strong fairness, which the locks give: a writer waiting for a
`sync.RWMutex` keeps later readers out, waiting readers go before the next writer, and a `sync.Mutex` hands itself to
a waiter that has been starving.  Requests are not fair: no client has
to send one, and none has to create a version.  The counterexample of
`expansion_completes` is a run in which the expanding handler can never take a
step again.

## 4. Proofs

All theorems hold for every value of the constants that meets the named
assumptions, which say what the constants are (sets of tables and fields, hash
values, positive counts, files and inputs that are rows) and nothing about how many there
are: `SchemasAssumption`, `BoundsAssumption`, `StoreAssumption`, `BootAssumption`,
`ServerAssumption`, `ImporterAssumption`, `TTLAssumption`, `BackfillAssumption`,
`CheckAssumption`, `JobsAssumption`.  TLC evaluates each of them on the runs.

| theorem | property | of |
|---|---|---|
| `TypeCorrect`, `LineageCorrect`, `ActiveStaysSelectable`, `OnePublished`, `ActiveLostAfterRollback`, `UndatedAfterRollback`, `RolledBackStays`, `PublishTimeStays` | all properties of `version_lifecycle` | `VersionManager` |
| `ServerTypeCorrect` | `ServerTypeOK` | `OnlineReads` |
| `ReadsAreFiltered` | `FilteredReads` | `OnlineReads` |
| `OnlyRacesStale` | `StaleOnlyByRace` | `OnlineReads` |
| `ShardCountsAgree` | `ShardsMatchRouter` | `OnlineReads` |
| `LeaksOnlyInTheGap` | `LeakMeansHalfExpanded` | `OnlineReads` |
| `NoEntryLost` | `ExpansionKeepsData` | `OnlineReads` |
| `ReadsAreAtomic` | `ImplementsAtomicStore` | `OnlineReads`, `AtomicStore` |
| `PrivateCacheIsCoherent`, `RoutesAgreeUnexpanded` | `CacheCoherent` and `ReadsFindWrites`, which runs find violated, under conditions | `OnlineReads` |
| `ImportsAreJournaled`, `RollbacksRestore`, `MergesKeepOtherFields` | `ImportedIsJournaled`, `RollbackRestores`, `MergeKeepsOtherFields` | `Importer` in `BackgroundJobs` |
| `ScansSpareYoung`, `ScansAreComplete` | `ScanSparesYoung`, `ScanIsComplete` | `TTLScanner` in `BackgroundJobs` |
| `OnlyWrittenIsCommitted`, `BackfillsAddUp`, `NoRetryCountsTwice`, `NothingIsOverwritten`, `TasksAreSettled` | `CommittedWasWritten`, `ResultsAddUp`, `RetriesCountOnce`, `InsertsOnlyAbsent`, `TasksSettle` | `Backfill` in `BackgroundJobs` |
| `OrderedBelowTen`, `TenfoldNotNewer` | none: `VersionNewer` on any numbers | `VersionOrder` |
| `ComparesOnce`, `ReportsEveryDifference` | `ComparedOnce`, `DifferencesReported` | `ConsistencyCheck` in `BackgroundJobs` |

### The version manager

`PublishStep` and `RollbackStep` say, version by version, what the
two operations do.  `RollbackStep` needs the lineage: a parent is older than its
child, so the two transitions of a rollback never hit the same record.  `IInv` is
the conjunction of the invariants with `DraftsUndated` (no draft has a publish
time).  None is inductive without the others: `ActiveSelectable` needs the
lineage for rollbacks, `RolledBackForever` needs `ActiveSelectable`,
`PublishTimeIsFinal` needs `DraftsUndated`, as only drafts are published with a time.  Each action preserves
`IInv` by a lemma of its own.

`StoreProofs` builds on it: `ManagerOK` (that invariant and the bound on versions) holds
from `Boot` on, and `LayoutKept` says that a version keeps the layout it was created with.
The rest is one lemma per critical section (`PutEntryStep`, `GrowShardsStep`, `CachePutStep`, ...):
a route stays inside the shard slice, a write touches one entry and one cache line.
`LeastNat` stands in for induction where a definition chooses a least element.

### The order of versions

`versionRank` is a loop over the digits, here the recursive function `RankFrom`.  A recursive function is a
`CHOOSE`: nothing is known of it before its equation has a solution.  `RanksExist` gives, for every `N`, a
function that meets the equation up to `N` (a least `N` without one would have a predecessor that has one), `RanksUnique` that any two
agree, and `RankFromDef` puts them together.  From the equation follow the two theorems: up to nine the order is that of
creation (`OrderedBelowTen`), and beyond a trailing zero is lost, so that v10 is no newer than v1, v20 no newer than v2 and so
on for every n (`TenfoldNotNewer`).  The latter generalises what `version_order` shows for v10.

### Online reads

Four invariants, each proved action by action on top of those before it:

* `TypeInv`: types, and that a handler holds what its next step needs
  (`LocalsFit`: a handler about to put has a snapshot, one about to copy an entry);
* `FilterInv`: cache cells and snapshots belong to known versions and show only their layout.
  `FilteredReads` alone is not inductive: a version that did not exist yet when a cell was filled
  could be created with a smaller layout;
* `ExpandInv`: while the store is behind the router, some expansion is on its way that carries exactly the
  router's count.  Without it nothing brings the store up to date;
* `FreshInv`: a reader that was not overtaken still sees the entry it looked up.  `StaleOnlyByRace` needs it
  for the step that puts a snapshot into the cache.

`ReadsAreAtomic` has two hypotheses, `PrivateKeys` (no two clients use a key) and `NoExpansions`:
they are the conditions under which the refinement holds at all, and the run
`implements_atomic_store` has them.  `PrivateInv` adds that nobody is ever overtaken and nothing
cached is stale.  Each handler's step is shown to be an abstract step or to change nothing, with
the reply fixed at the resolution of the version.

Two of the documented properties that runs find violated are proved under the conditions that the violations
lack.  `PrivateCacheIsCoherent` is a part of `PrivateInv`.  `RoutesAgreeUnexpanded` needs `NoExpansions` only: clients may
share keys, and `RouteInv` says that with equal shard counts no writer falls back to the first shard.

### Background jobs

`JobsInv` is the conjunction of the manager's and the store's types and one invariant per kind of job:

* `ImporterInv`.  `ImportedIsJournaled` needs that what is about to be merged is journaled, and that
  a rollback without an overlapping import meets every key the batch owns: it clears the journal at its end.
  `RollbackRestores` needs that the *first* operation for each touched key holds the entry from before the batch,
  unless it is the one about to be journaled, and that a rollback has restored
  the key or still has that operation in front of it;
* `ScanInv`: what was too old when the scan began lies in a shard to come or is listed already, and what was
  not is never the key about to be deleted;
* `BackfillInv`: a result is its row until the key is read, and the update of the entry that was read until it is
  written; a result is in the trail before it is marked; while retries of a task do not overlap, the registry holds what
  was written last, but for the key that is about to be marked;
* `CheckInv`: types, as far as the check's reads put snapshots into the cache.

For the count of a task, `SettleInv` is proved on top of `JobsInv`: what a task has processed and the open
places of the run counted on add up to its total.  `TasksSettle` is not inductive: it needs that a run
under way has a record to count on, its own or a later run's, and that a request that ended works on no
task any more.  The places of a new plan are as many as its rows
(`PlanCounted`) by a bijection, of each row to the pair of its key and the number of rows with that key so far; a
step takes one place away (`OnePlaceLess`).

`NothingIsOverwritten` has an invariant of its own, `HeldInv`: at most one request is between `FindNothing` and `InsertResult`, and
what it found absent stays absent where it looked, because every step but the router's waits for the lock and the
router moves no entry.

`ImporterProofs` and `BackfillProofs` show that a batch's and a request's own steps keep their invariant and write at most
one entry; `JobsProofs` shows that everybody else's steps do, because they say which key they wrote or re-routed.
No hypothesis beyond the assumptions: any mixes, so also the whole product of jobs that TLC cannot explore, and any
number of batches, rows, runners, shards and keys.

### The consistency check

`WindowsCover` says that every time of the range lies in exactly one window.  `Partition` is arithmetic with
multiples of the step.  For the switch events, `SortedExists` puts any set of published versions in order of time, each at
the place that counts those before it, and `CutIntoWindows` finds the first window that ends after a
given time.  `ComparedInv` says, for each entry that is still what it was when the check began, in which window its write time lies,
and that it has been compared if and only if the check is past that window, or past the entry in it (`Ahead`).
It needs that what is listed of a shard is at home there, and that the count read for the window includes
the entry's shard.  `FreshCopies` says that a reader that was not overtaken is about to put exactly what a read of its key
gives now.  `ReportedInv` adds that the cached read of an entry left alone is not stale, that no overtaken reader is about to make it so, and that
the differences found for it are those of its fields, once it has been compared, and none before.  `KindsOfStep`
sorts the other jobs' steps: a reader's, or one that removes an entry, or writes it in the shard its key is looked for, and
empties its cache line.

### Only model-checked

* `ExpansionsCatchUp`, the one liveness property that holds: it rests on fairness, which is out of the prover's reach (its
  safety half, that somebody is left to bring the store up to date, is `ShardsMatchRouter` and proved);
* the properties of the runs that the code violates (two of them are proved under conditions, see above).

Every other property of a passing run is a theorem.  Where a definition is recursive or counts (`RankFrom`, the open
places of a plan), the proofs argue by least counterexample or by a bijection; what `Signature` sums up to is left open, as
the theorems about retries hold for any signature.

## 5. Plan

1. done: all modules, and the proofs of every safety and action property of the passing runs.
2. Abstract: an atomic batch with an undo log, implemented by imports and
   rollbacks that do not overlap.
3. More mixes: a backfill beside an import, and an import beside both
   a scan and a writer.  They are too large for the instance as it stands (the theorems cover them).

## 6. Not modelled

JSON decoding and key parsing, HTTP status codes, the static page, the hash function, deep copies
and value formatting (pure, or without effect on the state).
The table registry appears as the choice of a version's fields.  The unlocked Go maps of the importer
and the backfill (`batches`, `tasks`) are modelled one access at a time: a data race on them may abort the
process, after which nothing is left to say.  `Journal.OpsForSegment` and `LastBefore`, `Importer.Clear` and batch
records and segment numbers have no reader among the operations the server runs.
