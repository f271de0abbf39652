# yappod2 in TLA+

These modules specify the search engine yappod2: its on-disk index and everyone
who changes it, the two daemons with their threads, and the algorithms that turn
documents into segments and segments into answers. TLC checks them on small
instances, TLAPS proves the central safety properties of the index store and of
the executors for every value of the constants. `PROJECT.json` maps every
definition to the lines it models, and lists the runs, the hazards and the
theorems.

## The system

An **index** is a directory: `manifest.yap2` names a generation and its segments,
`update.wal` logs one update, each segment is a directory of seven files written
once, and `writer.lock` and `compaction.lock` are flock files. An update appends
segments and publishes a new manifest by a rename. A compaction replaces a range
of segments by fewer ones; it drops the writer lock while it rewrites. Recovery
replays or discards the WAL. Updates come from the core daemon and from command
line tools, so several processes meet in this directory.

The **core daemon** accepts connections, spreads them over reactors (event
loops), admits requests by limiters, and hands them to two executors: searches go
to several workers, ingests to one worker that gathers batches. A search runs on
a reference counted runtime: one generation's snapshot, readers and ANN corpus.
A reloader follows the manifest; a maintenance thread compacts and rebuilds ANN.

The **front daemon** is what clients talk to. Its workers vet and admit a request
and call the core, with a timeout.

A **search** collects lexical hits (Block-Max WAND over posting lists), vector
hits (an ANN base corpus and newer segments), fuses them, and returns a page with
a cursor or a context of passages.

## Modules

| Module | Models | State and actions |
|---|---|---|
| `Segments` | what segments mean | operators: latest event of a document, what a compaction collects, how output is cut |
| `IndexStore` | `indexing/yappo_update_v2.c`, `yappo_update_wal_v2.c`, `yappo_compact_v2.c`, `storage/yappo_manifest_v2.c`, `yappo_compaction_status_v2.c`, `yappo_writer_lock_v2.c`, `publish_batch` of the builder | `manifest`, `wal`, `dirs`, `survivors` (what a power loss may leave), the two locks, and per thread a label `pc` with the locals of its call. One action per step between two changes of shared state |
| `IndexSpec` | what the index promises | a map from ids to documents; `Submit`, `Commit`, `Reply` |
| `Executor` | `server/yappo_executor_v2.c` | ring, counters and accepting flag behind the mutex, the place of each worker; one action per critical section, wait or work call |
| `WorkQueue` | what an executor promises | a bounded FIFO queue with a door |
| `Limiter` | `config/yappo_runtime_policy_v2.c` (limiter) | acquire and release of requests and bytes, used by `Server` and `Front` |
| `Server` | `server/yappo_core_reactor_v2.c`, `app/yappod_core.c` | connections, event callbacks, mailboxes, admission, submission, completion, and the order of the shutdown; composed with two `WorkQueue`s |
| `Runtime`, `Calls` | `server/yappo_http_v2.c`, `storage/yappo_snapshot_v2.c`: ingest groups, reloader, maintenance | reference counts, the current runtime, the running replacement, the writer's groups, generations on disk |
| `Front` | `app/yappod_front.c`, `server/yappo_core_http_v2.c` | workers, admissions, calls, timeouts |
| `Service` | front and core together | the composition with its fairness |
| `Chunker` | `common/yappo_unicode.c` (chunking) | normalised text, chunk boundaries in graphemes, overlap, positions, passage ids, words |
| `Metadata` | `components/yappo_metadata_v2.c`, `query/yappo_filter_v2.c` | metadata files and filters: write, read, compile, evaluate |
| `Lexical` | `yappo_lexical_v2.c`, `yappo_lexical_reader_v2.c`, `query/yappo_lexical_search_v2.c` | posting lists with blocks, AND, OR and phrase scans |
| `CandidateSet` | `CANDIDATE_SET` of `query/yappo_query_v2.c` | array, heap and open-addressing hash |
| `Query` | `yappo_query_v2.c`, `yappo_hybrid.c`, `yappo_ann_corpus_v2.c` | collection over segments, ANN calls, reciprocal rank fusion |
| `SegmentFiles` | writers and readers of the seven files | byte counts, and what a load insists on |
| `Planner` | `yappo_segment_planner_v2.c` | predicted sizes, slices, merged tail, refusals |
| `Search` | `http_execute_loaded` with the index beneath it | one request with its pages while batches, compactions and rebuilds happen |
| `MCIndexStore`, `MCService`, `MCSearch` | | values for TLC |
| `IndexStoreInv` | | the invariants of types and locks the proofs share |
| `SegmentsProofs`, `IndexStoreTypes`, `IndexStoreSound`, `IndexStoreSteps`, `IndexStoreContents`, `IndexStoreTheorems` | | proofs about `IndexStore` |
| `ExecutorProofs` | | proofs about `Executor` |

The parts fit together at three seams. `Executor` implements `WorkQueue`, and
`Server` uses `WorkQueue`. `IndexStore` implements `IndexSpec`, and `Runtime` and
`Search` treat an update as the one step `IndexSpec` makes of it. `Limiter` is
shared by both daemons.

### How steps were chosen

A step is the code between two changes of state another actor can see: one
critical section, one system call on the index directory, one callback of an
event loop. Reads made under a lock are joined with what they are read for. A
failure of a call (`malloc`, `write`, `fsync`, `pthread_create`, a client that
hangs up) is a disjunct of its action, and in `IndexStore` `Faults` says which
may happen. `flock` is released by the kernel when a process dies, so a kill frees
the locks of all threads of that process. A power loss puts the index directory
into one of `survivors`: the states since the last fsync of the directory.

### What is abstracted

Documents, terms and contents are small values. Scores are integers that keep the
monotony of BM25F, not its fractions. A character has one byte. ICU is external:
one character stands for those whose normal form is longer, one combines with the
character before it into a grapheme, a blank ends a sentence, and every other
grapheme is a word. The HNSW library is external and approximate in reality; here
it ranks its keys exactly, so `VectorExact` is about the code around it (retries,
visibility, filters, merging) and not about recall. `Search` asks only indexes a
server can load; that a server stays at an older generation otherwise is part of
`Runtime`. File sizes are computed from field widths and
checked against what the writers write; CRCs and byte order are left out. HTTP
409 is not told apart from 503. Statistics, logging and rendering are left out.

## Runs

| Run | Shows |
|---|---|
| `store_crash` | two updating processes and the core's compactor, one process killed at any step: `ImplementsIndex` (the store refines `IndexSpec`), `AtMostOnce`, `RangeStable`, `TypeOK` |
| `store_power` | the core's updater and compactor, two kills or power losses: `ManifestSound`, `AckedDurable`, `ErrorNotApplied`, `LoggedRecoverable`, `WalDecidable` |
| `store_faults` | every system call around the commit point may fail: `AtMostOnce`, `IndexReflectsLog` |
| `store_live` | one crash, directories that cannot be removed, a batch the indexer refuses: `CallsReturn`, `WalSettles` |
| `executor` | one or two workers, or a batch worker: `NoJobSleeps` (no lost wakeup), `ImplementsQueue`, `AcceptedRuns`, `CloseReturns`, `TypeOK` with the counters' balance |
| `server` | two connections, two requests, a stop at any moment: `CompletionSafe`, `LimitersBalanced`, `WriterHasRoom`, `RequestsEnd`, `StopReturns` |
| `service` | front, core and another process: `RefsExact`, `OneGeneration`, `AppliedOnce`, `ReadYourWrites`, `CatchesUp`, `AnnCatchesUp` |
| `search` | a scan of the chunked documents against what planner, files, postings, candidate sets, ANN calls, fusion and pages make of them: `PlanMatchesSegments`, `SegmentsLoad`, `LexicalExact`, `VectorExact`, `CandidateSetsConsistent`, `PagesFollowRanking`, `ContextRespectsLimits`, `InvalidFilterRefused`, `Answered` |
| `wal_overwritten`, `compaction_moves_base`, `manifest_sync_fails`, `or_ranking` | what the code does against what the documentation says, see below |

### Bounds

* **Store.** Two batches, one overwriting the built document and one deleting it
  and writing another (a third with a duplicate id is refused); two or three
  threads. `MaxGen` 4 lets both updates and a compaction publish and reaches the
  generation limit; `MaxSegments` 3 reaches the segment limit; one slice per batch
  in the larger runs, two in the violation runs. One or two crashes: a crash, its
  recovery and a crash in the recovery.
* **Executor.** Three jobs for a ring of two slots: the ring fills and wraps.
  `MaxBatch` 2 makes full, partial and timed out batches.
* **Server.** Two connections on one reactor, so that one connection's callbacks
  run while another's job is out; two requests reach keep-alive, a full limiter
  and a refused submission. Reactors share only the executors and limiters. The
  writer's batches hold one request here; `executor` has the longer ones. The
  joins of reloader and maintenance are one step of the shutdown, without the
  threads, which end at the stop flag and touch nothing of the server.
* **Service.** Two calls, one front worker that may give up on the first call
  while the core goes on with it, three generations, one change by another process.
  The front admits nothing after the last call of the model.
* **Search.** About 700 scenarios (`MCSearch`): up to four documents, passages
  of at most three characters or one longer grapheme, segments at and beyond the
  reader's limit on tombstones, blocks of two postings, a candidate floor of two in
  place of 100, so that truncation, block skipping, ANN retries, several pages and
  every refusal happen. `CursorMaxOffset` 3 reaches the largest offset.

No symmetry is used. Deadlock is checked in every passing run. `Executor`,
`Server` and `Search` have an explicit step for the states in which they may rest
(`Finished`, `Quiet`, `Rest`); recovery, reloader and maintenance run for ever.

### Fairness

* **Store:** strong fairness of each thread's steps. Only the two flocks block,
  and a thread that asks for one again and again gets it. A process that finds a
  WAL recovers it at its start. Nobody is obliged to submit or to compact.
* **Executor:** weak fairness of each worker, of thread creation and of joining;
  strong fairness of the batch deadline, because it is an absolute instant that
  interrupted waits do not move.
* **Server:** the threads run, jobs end, an idle connection times out. Clients owe
  nothing.
* **Service:** a thread no lock stops goes on; writer and reloader get
  `update_lock` in the end; the maintenance thread comes back. The front, clients
  and other processes owe nothing, except that a compaction finishes deleting.
* **Search:** the thread that runs a request is not stopped. The ghost `tick`
  flips with each of its steps, so the fairness condition does not need the
  enabledness of the whole query.

## Proofs

| Theorem | Statement |
|---|---|
| `IndexStoreTypes!TypeCorrect` | `Spec => []TypeOK` |
| `IndexStoreTypes!WritersExclude` | `Spec => []WriterExclusion`: only the thread that `writer.lock` names is between taking and releasing it |
| `IndexStoreSound!Sound` | `NoSyncFaults /\ Spec => []ManifestSound` |
| `IndexStoreTheorems!PublishedOnce` | `Spec => []AtMostOnce` |
| `IndexStoreTheorems!AckedStays` | `Spec => []AckedDurable` |
| `IndexStoreTheorems!RefusedNeverShows` | `NoLateFaults /\ Spec => []ErrorNotApplied` |
| `IndexStoreTheorems!RangesStay` | `Spec => []RangeStable` |
| `IndexStoreTheorems!ContentsShown` | `Spec => []IndexReflectsLog` |
| `IndexStoreTheorems!IndexImplemented` | `~PowerLoss /\ NoLateFaults /\ Spec => ImplementsIndex` |
| `IndexStoreTheorems!LoggedStays` | `SingleProcess /\ Spec => []LoggedRecoverable` |
| `IndexStoreTheorems!WalDecided` | `NoWalFaults /\ SingleProcess /\ Spec => []WalDecidable` |
| `ExecutorProofs!NoWakeupLost` | `Spec => []NoJobSleeps` |
| `ExecutorProofs!TypeCorrect` | `Spec => []TypeOK` |
| `ExecutorProofs!QueueImplemented` | `Spec => ImplementsQueue` |

They hold for any sets of threads, processes, documents, batches, workers and
jobs and any bounds, with kills, power losses and failures. Where a theorem has a
condition, TLC finds the property violated on a small instance without it:

* `NoSyncFaults`: no fsync fails behind the rename of the manifest or of the
  compaction status. Either failure alone breaks `ManifestSound` (run
  `manifest_sync_fails` shows the first, the second needs a power loss);
* `NoLateFaults`: the fsyncs behind a change of `update.wal` and of the manifest,
  and the unlink of `update.wal`, succeed. Each failure alone makes a call return
  an error although its batch is published or will be replayed;
* `~PowerLoss`: a power loss may take back a published batch nobody was told of,
  which `IndexSpec` has no step for;
* `SingleProcess`: all writers die together. The runs `wal_overwritten` and
  `compaction_moves_base` show what two processes do;
* `NoWalFaults`: the fsyncs behind a change of `update.wal` and its unlink
  succeed. Each failure alone leaves a WAL that breaks `WalDecidable`; its
  caller was told an error, and `LoggedRecoverable` holds all the same.

The assumptions are `StoreAssumption`, `WalAssumption`, `ExecutorAssumption` and
the ones of `Segments`; TLC evaluates them in the runs. The inductive invariants
are invariants of the instances of `store_crash`, `store_power`, `store_faults`
and `executor` as well; `RecoveryInv` also of one process with a power loss and
every failure.

**Types and locks.** `TypeOK` is not inductive. A publication takes its names and
its log from what the thread loaded, so the proof carries `WriterExclusion` (who
is where holds which lock), the batch a call works on, the checked range of a
compaction, and that `dirs` is finite (a fresh name exists). The control facts are
proved first, action by action.

**Whole manifests.** A manifest stays whole because whoever removes directories
removes only what no manifest names. `SoundInv` says why:

* `SurvivorsWhole`: the present index directory is one a power loss may leave,
  and each of those names durable segments with distinct names;
* `MineKept`, `MineUnpublished`: what a thread has written is on disk, belongs to
  nobody else, is synced before it is published, and is named by no manifest
  until then, so that the cleanup of a failed call removes nothing published;
* `BaseCurrent`: what a thread loaded under the writer lock is still the
  manifest, and where garbage is collected no older manifest can come back;
* `RangeInv`: a compaction's range stays in the manifest while the lock is
  dropped, and no segment has one of its names once it was replaced;
* `CompactionExclusion`: only the holder of `compaction.lock` compacts.

The proof first classifies all actions by their effect on the files
(`StepEffect`: nothing, a load, a WAL change, an fsync, a write, a removal, a
publication, a kill, a power loss) and then shows per conjunct that each effect
preserves it. The later modules classify the actions in the same way, each by
what matters to it.

**Callers.** `IndexStoreSteps` follows a batch through its stages. Until its WAL is
renamed into place no state of the index directory that a power loss may leave
knows of it (`Untouched`); a WAL whose batch is published counts from an older
generation (`Single`), so recovery does not replay it; a thread that replays or
publishes works on the manifest it loaded (`StageOk`). `OnceInv` puts these
together; `AckedInv` adds that a finishing call's batch is in the manifest,
`ErrorInv` that a failing call's batch is nowhere or still has its WAL to remove.

**Contents.** `SegmentsProofs` shows what slices, bisections, ranges and replaced
ranges mean for a document: a plan that covers a batch says what the batch says,
however it is cut again; appending its segments shows the next log; replacing a
range by a copy of what it says shows the same log. `ContentsInv` says that every
thread's plan covers its batch or its range, that the segments it has written copy
the plan's first slices, and that every manifest a power loss may leave shows the
document each id has by that manifest's log. The refinement follows step by step:
a publication of an update is `Commit`, the start and the return of a call are
`Submit` and `Reply`, everything else, compactions included, is a stutter.
`RangesStay` needs only that updates append under the writer lock to the manifest
they loaded and that one compaction runs at a time.

**Recovery.** `RecoveryInv` says that every state a power loss may leave keeps the
logged batches and is decided, and that a WAL some thread has not seen belongs to
a thread that is at work. Behind `update_recover` a thread relies on there being no
WAL but does not look again; with one process that is right, because the WAL of a
caller without an answer is left behind only when all threads die. A failed fsync
or unlink leaves other WALs, of callers that were told an error; so the invariant
speaks of the batches that matter (`Matters`): all of them without such failures,
otherwise those that are logged and unanswered.

**Executor.** `Shape` is inductive: types, who may be where in which phase
(`WorkerShape`, `PhaseShape`), and that the jobs in the ring and in the workers'
hands are accepted, not done and all different (`JobShape`). With it every action
has one of eleven effects on the queue, and each effect keeps `NoJobSleeps`, the
balance of the counters and the refinement of `WorkQueue`.

Only model-checked: every liveness property (fairness and `ENABLED` are out of
the prover's reach), the `server` and `service` invariants, and all of the
`search` side, whose operators are recursive: what they compute for every input
would need induction over data.

## Where code and documentation differ

* **`wal_overwritten`.** `update_apply` recovers and applies under two
  acquisitions of `writer.lock`. A process that recovered before another one was
  killed behind its synced WAL renames its own WAL over it. The design document
  promises recovery from every synced WAL. Within the core alone it cannot happen
  (`LoggedStays`).
* **`compaction_moves_base`.** A compaction looks for a WAL only before it drops
  the writer lock. Publishing later it can move the manifest to the WAL's target
  generation, and recovery then takes the batch for published.
* **`manifest_sync_fails`.** A failing fsync behind the rename of the manifest is
  returned as a failed publication, and the cleanup removes segments the renamed
  manifest names.
* **`or_ranking`.** The OR scan advances terms to the pivot across blocks whose
  bounds it has not looked at, and misses documents of the top k.
  `LexicalExact` is therefore stated for searches in which nothing can be pruned.

Seen on the way and given no run of their own: the core joins its parts in
another order than the design document lists, and completions posted behind the
last turn of a reactor are dropped; a cursor past the largest offset is handed
out and then refused; a later page of a hybrid search looks at more candidates, so
ranks beyond the candidate floor may move (`StableRanking` excludes it).

Differences the properties are worded around:

* **A client error behind the log.** The segment limit and the writing of slices
  come after the WAL is synced, can return a status that counts as the client's
  fault, and ignore a failure to remove the WAL. The next recovery then publishes
  the group although it is applied again one by one or answered 400, where
  `yappod-front-api.md:331` says a batch answered 400 is rejected as a whole.
  `AppliedOnce` leaves such calls (the ghost `left`) out of "at most once" and "not
  after a 400", and keeps for them the order and what a 200 promises.
* **Graphemes.** A chunk is longer than `max_chars` when its one grapheme is, and
  the overlap is rounded up to whole graphemes (`indexing.md:80`, `84`); positions
  count characters of the normalised text (`indexing.md:87`). `SegmentsLoad` states
  what the chunker does.
* **Tombstones.** Only the reader limits the tombstones of a segment. A batch or a
  compaction can publish one with more, which then cannot be loaded; `SegmentsLoad`
  says that nothing else makes a written segment unloadable.
* **Filters.** `exists` takes an object and an empty array for a missing value
  (`search.md:198`), and a filter that does not compile is refused only where there
  is something to filter (`search.md:144`).

## Not modelled

* **Observability, probes, snippets, prompt text:** counters and formatting that
  nothing else reads.
* **Configuration, command line tools, JSON and TSV parsing:** sequential; the
  values they accept are constants or inputs here.
* **Embedding client:** no program of the repository calls it.
* **Sockets and buffered I/O:** wrappers whose failures are outcomes of the
  actions that use them.
* **Index builder around `publish_batch`:** works in a private temporary directory
  that is renamed into place; nothing concurrent happens there.
* **ANN cache file:** an optimisation guarded by checksums and a fingerprint.
* **HNSW, ICU, libevent, the kernel:** external, modelled by how they are used.
