# Verification of pg_infer

pg_infer is a PostgreSQL extension (Rust, pgrx) that answers SQL queries about
the knowledge held in the weights of a language model. A model is a *vindex* (a
directory of memory-mapped matrices), loaded in the backend process or served
over HTTP by one server or by a grid of servers; other crates of the repository
extract vindexes, patch and save them, and run the model. This directory holds
TLA+ models of the parts of the program that keep state, TLC configurations that
check them on small instances, and TLAPS proofs of their main properties for every
instance.

- [Inventory](#inventory): the parts of the system
- [Modules and code](#modules-and-code): which module models what, and how
- [Runs](#runs): what TLC checks, the bounds, the fairness
- [Proofs](#proofs): what is proved, and along which argument
- [Findings](#findings): where code and documentation disagree
- [Plan](#plan): what could come next
- [Limits](#limits): what is only model-checked, what is not modelled

To check one run: `tlc -config GateCap.cfg MCGateCache.tla`; to check one proof:
`tlapm GridRouterProofs.tla`. `PROJECT.json` gives for every definition the lines
of the source it stands for, for every property a mutation of the model that
breaks it, and the list of hazards the properties are aimed at.

## Inventory

Each PostgreSQL backend is a process with one thread that runs SQL. What the
extension adds to it is process-local: a cache of loaded models, and threads for
HTTP. The table `infer.models` is what the processes share. The other crates are
libraries and command-line tools; what their processes share is files.

| Part | State | Operations | Status |
|---|---|---|---|
| Model registry, `src/src/registry.rs`, `model_mgmt.rs` | rows of `infer.models`; per process `BACKEND_CACHE`: entries, LRU list, total bytes, a mutex | register (local, remote, grid, batch), drop, query, evict | modelled |
| Cancellable client, `infer-client/src/transport.rs`, `src/src/interrupt.rs` | command channel, reply channels, cancel tokens, runtime thread | single calls, batches, cancel, drop | modelled, and shown to implement CallService |
| Grid backend, `src/src/backend/grid.rs` | route table under an RwLock, round-robin counter, stop flag, poller thread | connect, refresh, query, drop | modelled |
| Remote backend, `src/src/backend/remote.rs` | capabilities found at connect | one HTTP call or batch per operation, fallbacks for missing endpoints | modelled |
| Access method, `src/src/am*.rs` | scan descriptor, ranked results | beginscan, rescan, gettuple, endscan | scan modelled for the indexes that are written (version 1) |
| Access method: build, cost, options | a metapage | ambuild, the planner's cost | not modelled: ambuild writes one page, aminsert does nothing |
| Gate cache, `infer-vindex/src/index/gate.rs` | decoded layers, LRU queue, cap | resolve a layer, set the cap | partly: the f16 path |
| Edits and saving of an index, `index/mutate.rs`, `index/accessors.rs` | heap and mapped copies of gate vectors and metadata, warmed layers; files | set, delete, bake down, warm up, search, save, load | partly: one layer, no ternary files, no down and up overrides |
| Patch overlay, `infer-vindex/src/patch/overlay*.rs`, `vindexfile/mod.rs` | patches, overrides, deleted features | apply, remove, rebuild, direct edits, Vindexfile INSERT and DELETE, read, bake down | partly: one layer, features of the base |
| KNN store, `patch/knn_store.rs` | entries, lazily rebuilt key matrices, two mutexes | add, remove, query, clone, reload | modelled, and shown to implement FactStore |
| Vindex extraction, `extract/streaming.rs`, `extract/build.rs`, `walker/vector_extractor.rs` | the files of a directory, stage markers | build, resume, extraction of vectors with resume | partly: files and their order, not their numbers |
| Loading, checksums, download, `infer-vindex/src/format` | files | write, verify, load | partly: the checksums, and a load as what an index maps |
| Knowledge graph library, `infer-core` | graph, BFS frontier, checkpoint log | extract by BFS, append, replay | partly: the traversal and the log |
| Inference engine, `infer-inference` | residuals and K/V of the context, files of residuals, shard map of experts | decode a token, append and read chains, call experts, reshard | partly: these three, not the arithmetic |
| HNSW graph of a vindex, `index/hnsw.rs` | levels, neighbour lists, entry point | build, search | modelled |
| HNSW graph of the extension, `src/src/hnsw.rs` | nodes, neighbour lists | insert, prune, search | not modelled: only the scan of a version-2 index uses it, and nothing writes one |
| Storage engine and epochs, `infer-vindex/src/storage` | epochs, thresholds | mutate, compact | not modelled: no code outside its directory calls it |
| Clustering, Vindexfile parser, model loading, quantisation, compute backends | tensors, text | numeric kernels, parsers | not modelled: nothing is kept between two calls |
| SQL query functions, settings, errors, tracing | none of their own | each is `with_backend` around a query | through the registry |

How the parts interact. A query function calls `with_backend`, which looks the
model up in the cache and on a miss reads its row with SPI, loads it and inserts
it, evicting older models over the budget. The backend it hands out is a local
vindex (whose gate cache decodes layers, in the workers of a parallel search), a
remote backend, which owns a client and its runtime thread, or a grid, which
owns a route table of remote backends and a poller thread. A cancellation
reaches the client through a *tick*, called each 50 ms while the SQL thread
waits, which reads `InterruptPending`. An index scan reads the whole table, has
the backend rank the texts, and hands out the ranked rows; in between, other
queries use the same backend. A vindex is written by an extraction, mapped by a
load, covered by a patch overlay (which owns the KNN store) or edited in place,
baked and saved, possibly to where it came from. The checkpoint log keeps the
edges that a traversal finds.

What is hard here, and what makes each part correct:

- **Registry.** Two kinds of state with different lifetimes: rows are
  transactional and shared, cache entries are neither. The cache must stay
  consistent with itself (list, map and total), never evict what it hands out,
  serve a session by its own registrations, and be stale only for reasons that
  can be named. What a transaction or a savepoint takes back of the rows stays in the
  cache. An ERROR under the mutex poisons it.
- **Client.** A reply races the tick that cancels it. Nothing of a finished call
  may remain in the channel, every caller must get an answer whatever fails
  (the start of the thread, the server, the client's drop), and a cancellation
  must reach its own call and no other.
- **Grid.** A discovery made without the lock is applied under it while queries
  wait. No query may lose its backend, connections must survive a refresh, each
  server must be there once, and a dropped grid must take its thread with it.
- **Remote backend and scan.** What a server can do is asked once and kept; the
  server may be replaced at any time, and a missing endpoint is told from an
  error by its text. Five routes are never asked about, though a server may lack them. A scan keeps its results while other queries run on the same
  connection; a rescan must leave nothing of the text before.
- **Gate cache.** The cap is an atomic outside the mutexes. Queue and slots must
  agree, the cap must hold after any overlap of the calls, the layer in use must
  stay.
- **Edits and saving.** A gate vector has up to four copies, and each search reads
  another one. A save rewrites files in place, one after the other, some under the
  mapping of the old one.
- **Overlay.** Each operation of a patch decides some of three maps; removing a
  patch from the middle applies the others again. A search merges overrides into
  the base's hits, and a base that is asked for too few loses results.
- **KNN store.** Readers rebuild the same matrix while others score it, with one
  lock at a time and a dirty mark in another mutex; a panic poisons one of them.
- **HNSW graph.** A full list evicts in one direction, so links become one-way; what
  a search can still reach must be lost to nearer features only, and edits of the
  vectors do not reach the graph.
- **Extraction.** A build may be stopped between any two files, in a directory
  with the files of another; what `index.json`, its checksums and the marker say
  must be true of what is there. A resume decides from the text of a file what is
  complete.
- **Graph.** A log of which the last line may be cut, in the middle of a character
  too, and then written on. Depth and entity limits that must not make the result
  depend on the order of the answers.
- **Engine.** A window slides over the context, rows move from a hot to a cold
  tier, and keys depend on absolute positions that are recomputed from counters.
  Appends that fail half-way leave bytes behind. The map of shards is replaced
  while other threads use it.

The full list of hazards, each at its line, is under `hazards` in
`PROJECT.json`, with the properties that cover it or the reason none does.

## Modules and code

Each component module declares its state, one action per operation or step, the
specification, and after them its properties. An operator whose comment calls it
a *mutant* is a plausible bug of the operator after it; no specification uses it.
`Lists` has the list operations that the LRU lists, the KNN store, the scan and the
files share. The `MC*` modules hold symmetry sets, constants and test data for TLC,
the `*Proofs` modules the theorems, `DataLemmas` what they need of lists, orders,
sums and functions.

Three modules compose others: PatchOverlay holds a KnnStore, IndexScan extends
RemoteBackend, and Programs puts nine programs that never meet beside one
another (MCPrograms has their test data). Two are abstract specifications: CallService, which CancellableClient
implements, and FactStore, which KnnStore implements. The registry loads a model
in one step, and a query of the grid is one too, because what the modules below
do in between changes no state of the module above.

**ModelRegistry.** `committed` and `pending` are `infer.models` under READ
COMMITTED: a session sees what is committed and what it wrote, a write waits for
the transaction that holds the row. `saved` are its open savepoints, explicit ones
and those of PL/pgSQL blocks with an EXCEPTION clause; an error or a rollback takes the
rows back to one of them (`BackTo`) or ends the transaction (`Closed`), and `undone`
(history) are the registrations that went that way. Every upsert is a new
registration number, so that a stale entry can be told from a fresh one. `cache`,
`lru` and `total` are the three fields of `BackendCache`; `poisoned` is its
mutex. The lookup, the load, each eviction and the query are steps of their own
(`FetchRow`, `LoadSucceeds`, `EvictOne`, `EvictDone`, `QueryReturns`), so other
sessions interleave with all of them. `FetchPanics` is an ERROR of the SELECT,
which pgrx unwinds through the guard of the mutex. A backend has the bytes it was
measured at (`bytes`) and those it has now (`live`): `Decode` makes it grow.

**CancellableClient.** A call is a pair of a caller and a number. `pc` follows
`run`/`batch_with_tick`: sending (blocks on a full channel), waiting in slices,
ticking, and after a cancel draining. `HangUp` is the end of the runtime thread:
the commands left in the channel go, and the reply senders with them. The slots
of a batch end or are cancelled one by one, in any order, which is what the
concurrency limit of the batch allows the client to observe. An `Interrupt` may come at any
time; `ticks` says whether the call has a tick. `Drop` needs that no caller is in
a call, which the borrow of the client guarantees.

**CallService** is what the client promises: callers ask, are accepted in a line,
may wish to be cancelled, and the first of the line is answered once, by its own
outcome. The refinement mapping hides the channel, the thread, the tokens and the
slices: `line` is the job that runs followed by the channel's queue, `wishes` are
the callers whose current token is set, `outcome` is what the caller has or will
find in its reply channel, `open` that the runtime has not exited.

**GridRouter.** `fg` is the SQL thread (connect, query, drop), `upd` the thread
that refreshes: `connect` itself for the first discovery, then the poller. The
read lock is `fg = "using"`, the write lock `upd \in {"removing", "adding"}`. A
discovery is any member of `Lists`. Stale servers are removed one by one, then the
list is walked: a known URL is skipped, another is connected or, unreachable,
skipped. `existing` is computed once, as in the code.

**GateCache.** `Lookup` is the lock and the decode; `LoadCap` the atomic load of
the cap; `UseCapped`/`UseUncapped` the rest of the touch, the use of the data and
the unlock (an eviction skips the layer in use, as the code does). A setter stores the cap (`StoreCap`) and then shrinks under both
mutexes (`Shrink`), so any number of steps of others fits in between. `recent`
and `uncapped` are history variables: no action reads them.

**KnnStore.** A query is three steps, because it takes one lock at a time: look at
the dirty mark and rebuild the matrix, clear the mark, score. Edits need the store
for themselves, so they come only when no query is under way. A key is known by
its entry and width; a row of another width than the residual's makes the score
panic with the lock held (`poisoned`), or the rebuild, if it is the first.
**FactStore** answers at once from the entries that are there; the refinement says
that no query indexes the entries by the rows of an older matrix.

**PatchOverlay.** One layer, scores as numbers, a patch as a list of operations
that are applied one at a time (`ApplyOp`); `RemovePatch` empties the overrides and
puts the remaining patches into `todo`. `log` is what was applied since the overlay
was empty. `Found` is what a search may return: the base is asked for 2K hits, the
deleted are dropped, the overrides merged in. The Vindexfile's INSERT looks for a free slot as
`find_free_feature` does, its DELETE matches tokens of the base.

**VindexBuild.** A directory as a function from file names to what determined their
bytes; a build of one of two programs (streaming, which can be resumed, and in
memory) creates and fills its files one after the other, the index up to three
times, and may stop after any step. `VerifyTells` is the checksums' promise, `ReportedIsWhole` that a
build which says it has finished has left all its files.

**VectorFiles.** The NDJSON file of one component with its buffer: what was written
out is chosen when the process dies, a cut line may break within a character, and
the scan of the next run takes a layer for complete once one line shows it. A number
that is cut may name another layer (`CutNames`: of which layers the number begins that of which others).
`hurt` are the layers that lost a record to a death, `mistaken` those that a cut number
names though the file did not show them.

**VindexEdit.** The four copies of a gate vector (file, mapping, heap, warmed) and the
three of the metadata; each edit, each search and each file of a save is an action,
and a save may be cut between two files. `meant` is what the edits mean, `goal`
what a save intended.

**GateGraph.** A layer is the table of its features' similarities. `Connect` is one
pass of the build's inner loop: a search at the level, the list of the feature, and
its place in the lists of the others (`Connected`). `Search` is the search of a
finished graph. `selected` remembers what a feature was connected to. The lists are
the taken slots, the heaps are sets, which is the same as long as no two scores are
equal (`GraphAssumption`). VindexEdit has the other half: `BuildGraph` keeps the
vectors a graph was built from in `hnsw_cache`, and no edit takes them back.

**KnowledgeWalk.** `extract_bfs` with its queue, depth and limits; each edge goes to
the log as a text and a line end, with a death, or a write that fails, between or
within them: `on_edge` has no result, so after a failed append the extraction goes on.
A replay skips lines that are no edge; a line that is no UTF-8 ends it with an error
(`Readable`), and then no further extraction begins. `had` are all edges that
extractions ever added, `cuts` the appends that were cut. No code in the repository combines the traversal and
the log: the model does it through the `on_edge` callback, as the library offers it.

**RemoteBackend.** The server is one of several versions and may be replaced at any
time; `capabilities` is what it said at connect. An operation sends one request:
to an endpoint it may do without (`Optional`), which it asks the report for, or to one
that every server is expected to have (`Required`: describe, infer, relations, stats,
walk), for which it does not; of these only stats is known to be there, once, at
connect. `result` tells data, nothing, unsupported and error apart. `causes` collects
what happened (a replaced server, a body misread as a missing endpoint, ...).
**IndexScan** adds the scan descriptor: `Rescan` sets the text, the first
call for a tuple scans the table and has it ranked (`Rank`, `RankEnds`), the next ones
hand out `results` (`NextTuple`); other
queries run on the same backend between them.

**TokenDecode.** A row of keys and values is known by the position of its token and
the position it was rotated for. The residual engine clips its hot window into a
cold tier and recomputes absolute positions from counters; the K/V cache clips.
`attended` is what the last token saw.

**TraceFiles.** Three layouts of an append-only file: chains found by their
number, and boundaries or contexts found through an index of offsets. An append
writes its pieces at the end, then its index entry, then the count; it may be cut
before any of them, and the writer reopened.

**ExpertDispatch.** Threads decode tokens layer by layer: the router chooses, the
map of shards is read under its lock, one batch goes to each shard, the answers are
added up; that an answer has each expert of its batch once is assumed. A `reshard` connects, then waits for readers and swaps. Shards may fail;
`due` is what the map in force at each layer asks for.

## Runs

| Run | Question | Properties | Bounds |
|---|---|---|---|
| RegistrySessions | Is the cache consistent, and stale for named reasons only, when sessions interleave? | LruMatchesCache, OwnRegistrationServed, StalenessHasACause | 2 sessions, 2 models, 3 registrations, batches of 1, 1 savepoint |
| RegistryMemory | Do bytes add up, do evictions take the oldest and only when due, and never what was just loaded? | TotalMatchesEntries, RunningBackendIsCached, EvictionsAreJustified | 1 session, 3 models, sizes 0, 1, 3, budgets 3, 5, 4 registrations |
| RegistryResident (violation) | Is the memory of loaded models bounded by `infer.max_memory`? | ResidentWithinBudget | 1 session, 2 models of 2, budget 4, growth of 1 |
| ClientShared | Are calls and jobs matched, does every call return, does the client implement CallService? | JobsHaveWaiters, WaitersHaveJobs, CancelOnlyWhenAsked, CallReturns, ServesCalls | 2 callers, channel of 1, 2 calls each, batches of 0 to 2 |
| ClientSilent | Do a cancel and a drop work without the server? | InterruptEndsCall, RuntimeExits | 1 caller, channel of 1, 3 calls |
| ClientConnect (violation) | Does an interrupt end every call? | InterruptEndsAnyCall | 1 caller, 1 call |
| GridRoundRobin | Are connections kept, queries served and spread evenly, the grid cleaned up? | UsedBackendIsKept, OneBackendPerUrl, OnlyListedServed, EvenDistribution, ConnectionsKept, QueryGetsTable, DropCleansUp | 3 URLs, 3 backends, 4 queries, lists of distinct URLs |
| GridDuplicates (violation) | Has each URL one backend when a discovery repeats it? | OneBackendPerUrl | 2 URLs, 2 backends |
| GateCap | Do queue, slots and cap agree for every overlap? | CapHolds, QueueIsRecency | 4 layers, 2 setters, caps 0 to 3 |
| GateUncapped (violation) | Does the cap bound layers decoded before it was set? | LiveWithinCap | 3 layers, caps 1 and 2, started at 0 |
| PatchLayers | Is the overlay what its operations yield in order, do searches, baking and INSERTs agree with it, does the store answer from its entries? | Replay, BakeAgrees, SearchExact, FactsKept, StoreAnswers | 3 slots, 2 tokens, 3 operations, 7 patches, K = 1, keys of widths 1 and 2, 2 readers |
| Programs | Nine programs that keep files or state of a query: is what they leave or return what their inputs say? | StateOK, and those of the table below | below |

The programs of the run Programs:

| Program | Properties | Bounds |
|---|---|---|
| VindexBuild | ReportedIsWhole, VerifyTells | 6 settings of the builds, 3 builds in one directory |
| VectorFiles | LayersSurvive | the layers 12, 0 and 1, of 2 features, 5 runs |
| VindexEdit | SearchSeesEdits, SaveKeepsEdits | 2 slots, 2 vectors, 2 tokens and one text without an id, 3 edits |
| KnowledgeWalk | WalkKept | 3 models of 4 valid entities and 2 relations, 2 lists of seeds, depth 2, 4 entities, 1 call or append that fails, 3 sessions |
| RemoteBackend, IndexScan | FeaturesKept, ScanReturnsRanking | 5 versions of the server, 4 tables of 3 rows, 2 query texts |
| TokenDecode | SeesContext | windows of 0 to 3 or none, 7 tokens |
| TraceFiles | ReadsAppended | 2 pieces, 3 index entries, 4 appends, offsets modulo 5 |
| ExpertDispatch | TokensAreWhole | 2 threads, 2 experts, 2 layers, 3 maps, 2 reshards |
| GateGraph | GraphFindsNearest | layers of 4, 6 and 10 features, 5 draws of levels, lists of 4 and 2, 2 residuals |

They share a run because none has a next-state relation that needs another's, and
each is small by itself; a behavior picks one of them at the start and the others
stand still. `StateOK` is the type invariant of the one that runs. The type
invariants of the other runs are not checked by TLC; all of them are proved (below).

Why the bounds are enough for what is asked:

- *Registry.* Staleness needs one other session and three registrations (an old
  row, a new one, one more after it). One savepoint has rows before and after it, which
  is what a query behind `ROLLBACK TO` needs; the proofs are for any number of them. A
  batch is one upsert after the other; that two sessions wait for each other's rows
  (a deadlock, which ends as any error) comes up with two calls of one name in each
  transaction, and RegistryMemory has batches of 2. An eviction of two victims at once needs three models; size 0
  (a remote backend), a model as large as the budget of 3 and two that exceed it
  are all there. The second session cannot reach the caches of the first, so
  memory is checked with one.
- *Client.* One place in a channel with two callers makes a sender wait, a job
  queue behind a cancelled one and a shutdown wait for a place. Two calls of
  a caller let the token of the first outlive it. Batches of 0, 1 and 2 items end
  empty, at once, or mixed. The number of calls is a bound in the guard of
  `StartCall`, so the client is dropped in the end or stays idle.
- *Grid.* Three servers let a table lose one, keep one and gain one in one
  refresh; four queries go once around the longest table and start again.
  `Backends` as large as `Urls` is no bound as long as each URL has one backend:
  there is always an unused identity for a server to add.
- *Gate.* A queue of three can be cut by a cap of one to two victims; two
  setters can store and shrink in opposite orders; a fourth layer makes a miss at
  the largest cap.
- *Overlay.* Three operations put an insertion under a deletion under an update, in
  patches of which the middle one can be removed. With K = 1 and three slots the
  base is asked for two hits, and both can be deleted or overridden while the third
  is the right one: the case in which a search could lose a result. The merge is
  proved for every K. Two readers rebuild the same matrix at once; one key of the
  wrong width poisons the store before or after a rebuild.
- *Files.* Three builds are one that is whole, one over it that is cut, and one that
  resumes or starts anew. Five runs over three layers cut each of them and
  come back twice; the number of one begins that of another. Three edits, each of which may be followed by a save, a
  load, a warm-up or the build of a graph, reach every pair of copies of one slot with the other slot
  unchanged. Three sessions of the walk replay a log that was cut twice.
- *HNSW.* Four features fit into every list of level 0, so that each is linked; six
  evict, and one is in no list; with ten the entry point, inserted last, gives up a
  link although its list has a place. The levels put it first, last and between.
- *Query.* A server may lose an endpoint, gain one, or have no report: five versions
  cover each for every optional operation, and one has a report without the routes that
  are not asked about, another without those that operations fall back to. Three rows can tie, lack a text, or be
  reachable only through another row.
- *Engine.* Seven tokens push a window of three out twice; a window of 0 keeps
  nothing hot. Four appends put a counted one after a cut one and before another;
  offsets modulo 5 wrap at the third entry, if an append was cut before it. Two layers and two maps that disagree show a
  swap between two layers and within one.

Deadlock is checked in the registry, gate and overlay runs. The client and grid runs
disable it because their systems do stop: a client that is dropped, a grid whose
connect failed or that was dropped, and in both the bounds on calls. The programs
of the last run stop when their bounds are used up.

Fairness. Callers and the runtime thread are threads (weak fairness on
`Caller(c)` and `Runtime`); a sender blocked on a full channel is served in turn
(strong fairness on `Send`, std's channel queues its senders).
`Spec` adds weak fairness on `SomeItemEnds`, because every request carries the
client's timeout; `SilentSpec` does not, for the properties that must hold while
a server is silent and its timeout has not expired. Interrupts, new calls and the
drop are never fair. In the grid, `Refresh` and `QueryEnds` are weakly fair
because their requests have timeouts, and `TakeLock` strongly, because a reader
that waits for the std RwLock while the poller locks and unlocks it again and
again gets it between two polls (the poller sleeps for seconds). The other
specifications state no fairness: their programs run when they are called, may die
at any step, and are asked for safety only.

## Proofs

The theorems hold for any value of the constants under the named assumptions of the
modules (`RegistryAssumption`, `ClientAssumption`, `GridAssumption`,
`GateAssumption`, `KnnAssumption`, `OverlayAssumption` and `PatchAssumption`,
`BuildAssumption`, and `ProgramsAssumption`, which joins those of the other eight
programs), which TLC evaluates in the runs. Every invariant that a passing run
checks is also proved, each from an inductive invariant that says more:

- **ModelRegistryProofs.** `TypeCorrect`; `LruCorrect` (the LRU list and the map
  hold the same models, each once); `TotalCorrect` (the byte total is the sum over
  the entries: a sum is a fold over a set, of which `SumFacts` says what changing one
  summand does; no saturating subtraction is ever cut off); `RunningCorrect` (the
  backend handed out is cached and the youngest); `OwnRegistrationCorrect`. The last
  is not inductive: it needs `CacheCoherent`, which says the same of every cached
  entry and of the row a load has already read, and that a poisoned session runs no
  query (its evictions do nothing, so its entries may be wrong, but are never
  served), and `SavepointsNest`: what was written at a savepoint is written since, so
  that going back to it cannot bring back a row that nothing evicted. `RunningCorrect` rests on `LruCorrect`: the victim is never the last of
  the list. Two action properties follow from these: `EvictionsAreJustifiedAlways`
  (the only entry that eviction passes over is the youngest, so its victim is the
  oldest) and `StalenessHasACauseAlways` (which needs the types only).
- **CancellableClientProofs.** `TypeCorrect`; `JobsHaveWaitersAlways`, whose
  strengthening `FreshReply` says that a caller about to send has an empty reply
  channel; a job in the channel or running is the *current* call of a caller that
  waits, and the drain after a cancel is what keeps this true. From it,
  `WaitersHaveJobsAlways` (the converse: nobody waits for nothing) and
  `CancelOnlyWhenAskedAlways`, from `TokensMatch`: a token belongs to a call made
  before or now, that of the current call is set by its own tick only, and a
  cancelled slot is one of a job whose token is set. `ClientServesCalls` is the
  refinement: under these invariants each step of the client is one of CallService
  or changes nothing there.
- **GridRouterProofs.** `TypeCorrect`; `UsedBackendIsKeptAlways`, from
  `LockExcludes` (the write lock excludes a query); `OnlyListedServedAlways`, from
  `RefreshInv` (while stale servers go, the list is still the whole discovery and
  every URL of the table is in `existing`; while servers are added, table and rest
  of the list were listed); `OneBackendPerUrlAlways`, under the hypothesis
  `DistinctDiscoveries` (every discovery names each URL once), from `AddInv` (what
  is still to be looked at is in the table only if `existing` says so);
  `ConnectionsKeptAlways`, an action property. The hypothesis is real: the run
  GridDuplicates drops it and breaks the property. `EvenDistributionAlways` comes from
  `EvenInv`: for some q and d the d servers whose turn was last have q + 1 queries and
  the others q, where the turn of a server is counted back from `next` modulo the
  length of the table.
- **GateCacheProofs.** `TypeCorrect`, `TrackedAreLiveAlways` and
  `ResolvedIsLiveAlways` from `QueueInv` (the queue is free of repetitions and names
  live layers; the layer in use is live, because a setter waits for the mutex).
  `CapHoldsAlways` from `CapInv`: unless a layer was resolved without a cap, the
  live layers are those of the queue and the one just decoded; the queue is within
  the cap, or the cap is off, or a setter that stored it has yet to cut the queue;
  and a call that holds an older cap does so only while such a setter waits.
  `QueueIsRecencyAlways` from `RecencyInv`: between the lookup of a layer and its
  touch the queue lags behind the order of the last uses by just that layer.
- **PatchOverlayProofs.** Of the overlay: `TypeCorrect`; `LastOpDecidesAlways` (for
  each slot, and for each of the three maps, the last operation of the log that
  touches it there decides; `DecidedInv` carries it through the operations of an
  unfinished patch); `BakeAgreesAlways`; `SearchExactAlways`, from `TwiceIsEnough`:
  if no more than K of the base are deleted or overridden, the best 2K of the base
  hold the best K of the rest; `FactsKeptAlways`, from `FreeFacts` (a slot that an
  INSERT may take holds no fact). Of KnnStore: `StoreTypeCorrect`;
  `CleanIsCurrentAlways` (a matrix that is not marked is that of the entries);
  `StoreAnswersFromEntries`, that the store implements FactStore, and
  `StoreAnswersAlways`, that it does so inside the overlay. The invariant must cover a
  reader that rebuilds while another one already scores, and `Sound`: without a key of
  a wrong width nothing panics, and a mutex is poisoned only after one. Of both:
  `ReplayAlways`. `EntriesInv` says which additions of the log survive its
  removals, as a strictly growing list of their places, so that an addition extends
  the list and a removal thins it out; `PatchesInv` that without direct edits the log
  is the patches of the list one after the other and the part of the next that was
  applied.
- **VindexProofs.** Of VindexBuild: `TypeCorrect`, and from `BuildInv`
  `VerifyTellsAlways` and `ReportedIsWholeAlways`. The invariant relates what a
  build has yet to do (`RestInv`) to what is there: the files behind it are its own
  and whole, whatever the others are of (`FilesInv`), the index it has left or is
  about to write is right for those files (`IndexInv`), and the checksums in any
  index are those of whole files of one source (`SumsInv`). Of VindexEdit:
  `SearchSeesEditsAlways` and `SaveKeepsEditsAlways`, from what the heap and the
  mapping hold while a vindex is open (`HeapInv`, `MappedInv`) and which files of a
  save are done (`SaveInv`). Of VectorFiles: `LayersSurviveAlways`, from `BufferInv`
  (the buffer is the header of a new file and the first records of the layer that is
  written) and `RecordsInv` (a layer of which the file shows a line is whole, hurt or
  mistaken, the others are still to be written, each once). Of GateGraph:
  `GraphFindsNearestAlways`, from `GraphInv`. Its parts say what the lists may name
  (`ListsOK`), what each feature was connected to (`ChosenOK`), that a list gives up
  one of these only while it is full and for a nearer one, or as the list of the entry
  point (`KeptOK`), and that the entry point finds all that were inserted before it if
  no list can be full (`EntryOK`). A step of the build needs that its search finds
  something other than the feature it inserts, and the last claim of the property that
  a beam as wide as the layer drops nothing, so that its results are closed under links
  when no candidate is left.
- **ProgramsProofs.** Of RemoteBackend: `FeaturesKeptAlways`; without a connection
  nothing is kept, with one the report is the server's unless the server was replaced
  (`ConnectionInv`), and of what has a replacement an operation asks only for what
  the report does not deny, and meets a missing route only as it ends
  (`OperationInv`). Nothing is assumed of what servers mount. Of IndexScan:
  `ScanReturnsRankingAlways`, from `ScanInv`: the answer of a rank has each candidate once, the best first (`RankState`), so the results have each
  row once, the nearest first, with the distance that is due (`ResultsState`), and the
  executor has those of a prefix that their TIDs lead to, in their order
  (`ReturnedState`). Of KnowledgeWalk: `WalkKeptAlways`. The depths at which the
  entities were visited are not in the state; `BfsInv` says that there is an assignment of them for which the queue is in the
  order of its depths, which differ by one at most, and whatever an edge leads to is
  covered a step behind its near end. `LogInv` says how many of the edges ever added a
  replay may lack: two for each cut append, one of them only when something was written
  behind it (`Debt`), and that no line or tail is cut in a character unless an append was. Of TokenDecode: `SeesContextAlways`, for
  windows and generations of any length: the hot residuals continue the cold ones
  (`ResidualInv`), cold keys are of the whole cold tier or gone, a K/V cache holds the
  last tokens (`CacheInv`). Of TraceFiles: `ReadsAppendedAlways`. No piece is in the
  file twice, and those of the append under way are the last (`DataInv`); each counted
  append lies in one stretch (`KeptInv`), at its computed place exactly if none was cut
  before (`PlaceInv`). Of ExpertDispatch: `TokensAreWholeAlways`, for any number of
  threads and shards: the batches of a layer were routed with the map in force, because
  a swap waits for the readers of a call (`Waiting`), and a token has each expert of its
  earlier layers once (`Summed`). Last, `StateOKAlways`: the program that runs is one
  of the nine, and each has its types.

Data that the model computes by steps (a sum, a concatenation, the levels of a
search, a beam) is a recursive function on an interval or on subsets. That such a
function exists, and so has the values that its definition says, is proved in
`DataLemmas` from an induction rule stated with a set (`Induction`, from the least
element that is not in it) rather than with a predicate: `StepsExist`, `SumsExist`.
`PlacesInOrder` does the same for sorting: an element's place under a strict order is
the number of those before it, and there is one for each place.

## Findings

Each of these is a run that TLC must find violated.

1. `RegistryResident`: `tuning.md` calls `infer.max_memory` the maximum RSS of all
   loaded models; a backend is measured once, when it is inserted and before it
   has decoded a layer, so models that each fit can exceed it without an eviction.
2. `ClientConnect`: `interrupt.rs` promises cancellation in about 100 ms;
   `RemoteBackend::connect` has no tick and runs also inside a query that misses
   the cache, so only the request's timeout ends it.
3. `GridDuplicates`: a discovery that names a URL twice (as two entries without a
   URL do) makes two backends for one server, which then gets a double share.
4. `GateUncapped`: layers decoded while there was no cap are in no queue; a cap
   set later does not evict them, against the comment that it shrinks at once.

Met while reading, without a run of their own. Where a property holds only with
an exception for one of these, its comment names the exception.

*Registry, client, grid, gate cache.* `grid.md` passes a URL as the second
argument of `infer_create_model_grid`, which the code takes for a model id. The grid's
"zero resolution latency" does not hold while a refresh connects under the write
lock; a discovery that succeeds and lists nothing empties the route table. The
client's crate calls it cheap to clone, but it has no `Clone`. A backend
loaded from a registration that is then rolled back stays cached. So it does when only
a savepoint is rolled back, or an EXCEPTION clause takes the error up: the transaction
then goes on being served by the row that is gone, though it sees an earlier one of its
own, and later queries after its commit too. Warmup fills all
layers whatever the cap. `infer.max_memory` is at least 512, so the branch for 0 as
unlimited is never taken (the model's `Budgets` exclude 0). An interrupt that is no
cancellation makes a remote query fail as cancelled.

*Remote backend and scan.* Capabilities are asked once: the endpoints of a server
that was upgraded stay unused until a reconnection, those of a downgraded one are
probed. A missing endpoint is recognised by "404" in the error's text, which
may be in a body or a port. describe, walk, infer, relations and stats are requested
whatever the report says, so that a server that has said it lacks one
(`upstream.md:233-235` names such a server) costs a request and an error with a 404
instead of the "unsupported" that the other operations give; connect checks for stats
only. An index scan returns the TID that the table scan saw,
which for a tuple updated in place is no root of its chain, so that the row is
missing from the scan, though a comment in `am_build.rs` says that tuples without
an index entry are found by a heap scan. Rows that are NULL or empty are left out. A
candidate whose walk fails gets the distance `f64::MAX`, outside the range that the
doc of `score_to_distance` names. On an ERROR the scan state leaks.

*Overlay and KNN store.* Removing a patch drops direct edits; its doc speaks of the last patch, the code removes
any. A slot with an empty gate vector scores 0 in the overlay, but `bake_down`
keeps the base's vector; a deleted slot keeps its vector when baked. DELETE of a
Vindexfile matches the base's tokens only. One key of a wrong width makes queries
panic until the store is replaced.

*Edits and saving.* `save_vindex` writes f32 vectors and leaves the `dtype` of the
configuration, so that an f16 vindex saved this way is read back garbled, though
the crate's README shows this call. `save_down_meta` of a mapped index writes only the metadata on
the heap. Deleting metadata of a mapped index has no effect. A Vindexfile INSERT has
no token id, so that its text is lost by a save. `gate_knn` on f32 mappings or
warmed layers, and batch searches on any mapping, do not see edits. `bake_down`
drops down and up overrides. `down_meta.bin` is cut in place under its mapping; a
torn `index.json` makes the vindex unloadable. Warmup decodes ternary gates as f16.

*HNSW graph.* The beam of a search goes by the signed similarity, so a feature of
great negative score is missed unless the beam is as wide as the layer, though a
comment says that the order by magnitude is there "to match brute-force" semantics;
the doc of `search` says "sorted by score descending". A feature that is similar to
few (a short vector) may be in no list, and is then never found. The entry point is
used before it is inserted: its insertion overwrites its list, which names itself
then and may lose features that were connected to it (`GivenUp`). `set_gate_vector`
leaves the graph as it is, so a search looks for an edited feature where it was.

*Extraction.* A resumed streaming build returns Ok at the marker of an earlier one.
Only the last marker has an effect. Checksums cover neither router, tokenizer nor
q4k files. A loader adopts files that earlier builds left. `build_vindex_resume`
of `build.rs` needs a file that `build_vindex` does not write. Of the
extraction of vectors: a layer cut by a crash counts as complete, the first record
behind a torn line is lost, a character cut in two makes every resume fail, a number cut
in two may name another layer (of the layers 12 and 1, a death within 12 makes the
resume skip 1, which nobody extracted, and say that all is done), and the file
of the embeddings is skipped once it exists. `write_gate_vectors` of `build.rs` drops
its buffered writer without a flush, so that a last write that fails is not reported.

*Knowledge graph.* An unended line of the log swallows the next edge; a character
cut in two makes every replay fail, with all the edges before it, and nothing takes the
line out again: "Survives crashes" (`checkpoint.rs:9`) does not hold then. An append
that fails leaves its edge in memory only.

*Engine.* After a cut append a `TraceWriter` counts later chains that are then read
shifted. Offsets of boundaries wrap at 4 GiB. A K/V cache with a window of W attends
to W + 1 rows, or to W in layers that share another's; a window of 0 means none for
the cache and an empty one for the residual engine. A decode step that returns
None loses the store. In the remote experts, a reshard waits for the forwards under
way and may hold up new ones, though its doc promises no interruption; a shard
that answers an expert short or twice is not noticed (in the model a shard that
answers does so for each expert once). The L1 cache of FFN outputs stops inserting when it
is full, where its doc says FIFO.

## Plan

What would come next, in order:

| Part | Question | How |
|---|---|---|
| down and up overrides, several layers | do searches and baking agree on them too? | two more maps in PatchOverlay |
| local backend's `rank`, under the scan | does it return the same ranking as the remote one? | a second backend for IndexScan, with an abstract one above both |
| load within the registry | is an eviction during a remote connect consistent? | the registry's load as the calls of RemoteBackend |
| other engines of `infer-inference` | what do their caches keep? | rows by position, as in TokenDecode |
| ternary and q4k gates | which copy does a search read? | more copies in VindexEdit |
| HNSW graph of the extension | degree bounds, reachability after pruning | once it has a caller; as GateGraph |
| storage engine and epochs | do compaction and epochs agree? | once it has a caller |

Abstract specifications worth stating: a registry in which a query is served by
some row that was visible in its session at some time since the
transaction began or the entry was loaded; the overlay as a fold of its patches
(now the property `Replay`); a vindex directory as its last complete build.

## Limits

Only model-checked: liveness (`CallReturns`, `InterruptEndsCall`, `RuntimeExits`,
`QueryGetsTable`, `DropCleansUp`), which the prover does not reach. The safety
properties of the runs are proved as well.

Abstracted: what a load reads or maps (one step that succeeds with a size or
fails), HTTP status and bodies but for what tells a missing endpoint, URLs, the
numbers in layers, keys and scores, the text
of errors. Time is abstracted to order: a slice, a poll interval or a timeout may
end at any time. The wrap of the round-robin counter at 2^64 is out of any bound,
and so is whatever needs more layers than a program models. Files are written by one
process at a time. The last write to `gate_vectors.bin` in memory builds and the writes
in place of TraceFiles are assumed to succeed, and the slots of a batch to be filled
before the reply (`Reply`). Prepared transactions and cursors held over a rollback are
left out. An interrupt is always a cancellation: the other kinds that
PostgreSQL has would be external to the model.

Not modelled:

- Numeric code (forward passes, attention and FFN kernels on every device,
  clustering, quantisation): pure functions of tensors, by far the largest part of
  the repository. Nothing is kept between two calls, and a model checker says
  nothing about floating point.
- Parsers and converters (model detection, GGUF, safetensors, tokenizers, the
  Vindexfile's grammar, downloads): pure I/O.
- The planner's cost arithmetic, SQL functions, settings, errors and tracing: no state
  of their own; formatting of rows.
- The HNSW graph of the extension, the storage engine with its epochs, and version 2
  of the index: nothing calls the builders and writers, so nothing is there that
  the code which would read them could meet.
- Of what is modelled partly: the formats of the gate cache but f16; ternary files;
  down and up overrides; layers beyond one; the other engines and the server
  processes of the command-line tools.
