# TLA+ models of Next.js and Turbopack

This directory models parts of this repository in TLA+, checks them with TLC on small instances and proves
the main properties for every instance with TLAPS. The repository holds the Next.js framework
(`packages/next`), the Turbopack bundler with the incremental engine it runs on (`turbopack/crates`), and a
few small applications. Most of it transforms data. The models are about the parts that keep state while
something else happens: a database that may stop between any two writes, operations that run while a
snapshot is taken, tasks that execute while what they read is changing, threads that name tasks, and, in the
client and the server of the framework, promises that settle in an order nobody chose.

All source paths below are relative to `src/`; `mod.rs` is
`turbopack/crates/turbo-tasks-backend/src/backend/mod.rs`.

## 1. The system

### 1.1 How the parts interact

    turbopack (bundler), next-core, next-api           functions that turbo-tasks evaluates
            |  calls functions, reads and writes cells
    turbo-tasks, turbo-tasks-backend                    the task graph, in memory
            |  TurboTasksExecution: tasks execute, read each other, and are invalidated
            |  TurboTasksTaskCache: a call gets the id of its task
            |  TurboTasksSnapshot: operations change the graph, a snapshot takes the log
            |  save_snapshot: one write batch per snapshot
    turbo-persistence                                   a directory of immutable files
            |  WriteBatch: threads fill the batch, finish writes the files
            |  TurboPersistence: commit, compaction, recovery
            |  CompactionSelector: which files to merge, which to move
    the file system

    next client                                         the router of a page
            AppRouterActionQueue: actions dispatched while earlier ones run
            SegmentCache: links schedule prefetches, the cache keeps what was requested
            SegmentLRU: the list that decides what the cache forgets
            |  requests of routes, segments and dynamic data
    next server
            ResponseCache: one rendering for many requests, kept in memory and in files

### 1.2 Components

Modelled, or modelled in part:

| component | state | operations | what is hard | what makes it correct |
|---|---|---|---|---|
| turbo-persistence database (`db.rs`) | SST, blob and del files, CURRENT; the reader's list of files and sequence number; the flag that admits one write operation | open, write_batch, commit, compact, get | a crash between two steps of a commit; left-over files; files of one commit found in any order; reuse of numbers | a batch is atomic and durable; a restart finds what readers saw; compaction changes no answer; a number never names two files |
| compaction selection (`compaction/selector.rs`) | none: an algorithm over the list of hash ranges | get_compaction_jobs | nested loops that restart; files used by jobs that were given up | no file in two jobs; concurrent merges are disjoint; overlapping files are merged by age, and a newer file that overlaps a merged one goes with it or behind it |
| write batch (`write_batch.rs`, `collector.rs`) | a collector per thread, a stack of idle collectors, the counter of numbers, lists of new files | put, delete, finish, reset | collectors swapped while they are drained; tasks that take numbers in any order; an error in one of them | every entry in one file; numbers consecutive and in order; finish returns |
| snapshots (`mod.rs`, `kv_backing_storage.rs`) | the counter of running operations with a request bit, the suspended operations, the log | start_operation, operation_suspend_point, drop of the guard; snapshot; startup | an atomic counter beside a mutex and two condition variables; failure to save; a stop at any time | nothing runs while the log is taken; what is saved can be completed; who waits is woken |
| executing tasks and invalidation (`mod.rs`, `backend/operation/*`, `turbo-tasks/src/manager.rs`, `state.rs`) | per task: InProgress, Dirty, output, cell, edges in both directions, the spawned job; the State | schedule, start, call, reads of outputs and cells, update_cell, update_output, completion, clean-up of edges, invalidation, stop | every step under the lock of one task only; a value is published before its readers are told; stale executions; cells that are computed again | every value read is current, or its reader is about to execute; one job per task; exact edges; every job ends |
| task ids and task cache (`mod.rs`, `id_factory.rs`, `bi_map.rs`, `kv_backing_storage.rs`) | the cache, the id factory, the log of names, the names and the next id in storage | get_or_create_persistent_task, the saving of names, the start of a new backend | two threads create one task; names logged outside operations; ids reused; a stop between the logs and the save | a task has one id and an id one task, over restarts |
| app router action queue (`app-router-instance.ts`, `use-action-queue.ts`) | the router state, the pending and the last node of a linked list, needsRefresh | dispatchAction, runAction, runRemainingActions, handleResult | navigations that discard the pending action; its promise settling later; rejections | the queue does not stop; no update is lost; order; what is shown is the state |
| segment cache and prefetching (`segment-cache-impl/scheduler.ts`, `cache.ts`, `lru.ts`, `links.ts`) | tasks in a heap, a count of connections; routes and segments with a status, maps and LRUs, revalidations; visible links | a link appears, leaves or is hovered; a prefetch; navigate, revalidate; the queue's microtask; answers and closed connections | entries replaced, evicted or invalidated while their answer is awaited; answers in any order; a task blocked on an entry that goes away | every prefetch ends; the limit of connections; pending means requested; a full segment is not replaced by a partial one |
| response cache (`response-cache/index.ts`, `lib/batcher.ts`, `incremental-cache/*`) | pending promises per key, an entry in memory, the files of the page, the times tags were revalidated | a request, normal, prefetch or on demand; the flow that reads, renders, stores; revalidateTag | one flow for many requests; several files per page; revalidation, restart or error in the middle | no page of two renderings; nothing older than the last revalidation; every request is answered |

Not modelled (the reasons are also in `PROJECT.json`):

| component | state and operations | what is hard | why not, or when |
|---|---|---|---|
| SST format, lookup, block cache (`static_sorted_file*.rs`, `lookup_entry.rs`, `merge_iter.rs`) | immutable files, a value cache over them; encode, look up, iterate | encoding boundaries | sequential; the models take a file as a function from keys to entries |
| aggregation (`backend/operation/aggregation_update.rs`, `backend/storage.rs`) | children, aggregation numbers, dirty counts, collectibles, activeness, strongly consistent reads | concurrent changes of an aggregation tree | the largest algorithm of the crate; planned (section 2) |
| database layer (`database/*`) | a handle to the background compaction, a startup cache, a fresh-database switch, cached read transactions | compaction at shutdown, staleness of the startup cache | planned. LMDB itself is external |
| turbo-tasks manager (but for `schedule` and the stop), events, scopes | foreground and background job counts, listeners, scheduled futures | lost wake-ups, shutdown | planned: event and job counts |
| turbo-tasks-memory | an earlier in-memory backend | the same as the new one | replaced by turbo-tasks-backend |
| turbo-tasks-fs watcher | pending paths, invalidators, locks per path | a read that registers while a batch of changes is collected | planned |
| bundler crates, next-core, next-api, napi | none of their own | - | pure functions evaluated by turbo-tasks |
| dev server, node process pool | update streams; idle and busy processes | retries, processes that die | planned |
| next client: reducers, prefetch cache, promise queue | cache nodes, expiry times, running counts | stale prefetches | promise queue planned; the action queue takes a reducer as a promise |
| next client: pages router | route info, a cancel callback | late answers | later |
| next server: use cache, its default handler, LRU | entries with tags and times, pending sets | an entry read while it is being set; tags over several handlers | planned |
| next server: after, streams, rendering | callbacks to run after a response | callbacks that add callbacks | after-context planned; rendering belongs to React |
| dev server: on-demand entries, hot reloading | entries that are added, building, built, disposed | disposal while building | planned |
| build, export, cli, telemetry, shared helpers | none that outlives a run | a worker pool | a pipeline that runs once |
| create-next-app, codemods, eslint plugin, fonts | none | - | tools without concurrent state |
| polymarket bots | what was posted before | a stop between posting and recording | planned, small |
| saat-iki | a scripted story | - | a sequential reducer |
| vendored bundles, docs, examples, tests | - | - | read as statements of what the code promises |

The individual hazards, each at its line, are in `PROJECT.json` under `hazards`, with the properties that
watch them or the reason why none does.

## 2. Plan

Done, in the order of importance: the database first, because everything persistent rests on it, with the
algorithm whose result decides whether compaction is correct; then who writes into it.

1. `CompactionSelector`, `MCCompactionSelector` (their proofs are in `TurboPersistenceProofs`)
2. `KVStore` (abstract), `TurboPersistence`, `MCTurboPersistence`, `TurboPersistenceProofs`
3. `TurboTasksSnapshot`, `TurboTasksSnapshotProofs`
4. `WriteBatch`, `WriteBatchProofs`
5. `AppRouterActionQueue`, `AppRouterActionQueueProofs`
6. `TurboTasksTaskCache`, `TurboTasksTaskCacheProofs`
7. `TurboTasksExecution`, `MCTurboTasksExecution`, `TurboTasksExecutionProofs`
8. `SegmentCache`, `MCSegmentCache`, `SegmentCacheInvariant`, `SegmentCacheProofs`, and `SegmentLRU` for the list
   under it
9. `ResponseCache`, `ResponseCacheProofs`

What is left, in order:

10. *Composition of the backend.* `TurboTasksTaskCache` contains a coarse snapshot (its `connect_child` does
    not run while the logs are taken). Show that `TurboTasksSnapshot` implements that part by a refinement
    mapping, and state a `BackingStore` abstraction (a batch is saved as a whole, or not) that both use and
    `KVStore` implements.
11. *Database layer:* `TurboKeyValueDatabase` (background compaction and shutdown, `database/turbo.rs`), and
    `StartupCache` (`database/startup_cache.rs`) as a refinement of `KVStore`.
12. *Client:* the prefetch cache of the router without the segment cache, with `PromiseQueue`
    (`promise-queue.ts`), and a heap of six tasks in `SegmentCache`'s run.
13. *Server:* the `use cache` handlers over the same tags manifest as `ResponseCache`, fetch entries with their
    locks, and `AfterContext`.
14. *Aggregation:* the aggregation numbers and the dirty counts of `aggregation_update.rs`, first as an
    algorithm on small graphs against a reference definition, then on top of `TurboTasksExecution` with children and
    activeness, where a dirty task is scheduled only while somebody needs it.
15. *The rest:* the watcher and the per-path mutex, the node pool, the update stream, the on-demand
    entries, the bots.

Runs of one module that ask related questions are joined, as those of the snapshots are, so that the set stays
small enough to be repeated in minutes; a run of its own is left for each counterexample.

Theorems worth proving next: the refinement of item 10; that values are current whenever nothing runs through any
number of tasks that read one another, up to the readers of a silent cell; the shape of the list of `SegmentLRU` until its head is
deleted; and what the database keeps of the newest value under the selections that move no file.

## 3. The models

Names of variables and actions are those of the source wherever there is one. An action is a whole
handler, or the part of a handler between two points at which another actor can come in. Every mapped
definition has its lines in `PROJECT.json` under `map`. Operators whose comment begins with "Mutant:" are
variants of the definition below them with a plausible bug; no specification uses them. They show that each
property can be violated.

### 3.1 CompactionSelector and MCCompactionSelector

The selection algorithm. Its nested loops are recursive functions over the loops' local variables that call
themselves only as their last act, one call per turn; what a turn does has names of its own. `grow_merge_job` is the
inner loop: `visit` adds the file at `i` if it `joins` the job, `restart` extends the range and begins the search
again, unless that `doubles` the spread. `is_merge_job`, `files_to_move` and `reduction` are what follows it, put
together by `after_job` and `take_job`. `select_from` is the outer loop, which starts the next job at the first file that
is `unused`. `get_compaction_jobs` tries again from the first file to move (`offset`) and keeps the `better` result.
Positions start at 1. The files to move are a set, since only the first one matters. The estimate that chooses
between two results is an `f32` in the source and an integer here.

`MCCompactionSelector` walks through every list of hash ranges up to a length: `SelectorSpec` appends a range to
`compactables`, and the properties judge the jobs selected for the list.

### 3.2 TurboPersistence, refining KVStore

| code (`turbopack/crates/turbo-persistence/src`) | model |
|---|---|
| the directory | `sst`, `blob`, `del`, `CURRENT`, and `unsynced`, `syncedCurrent` for what a crash may lose |
| `Inner`: `static_sorted_files`, `current_sequence_number` | the same names; the list is a set, its order is that of the numbers |
| `open_directory`, `init_directory` | `create_current`, `init_current` |
| `load_directory` | `read_current`, `visit_entry` once per directory entry in any order, `finish_open` |
| `write_batch`, `put`, `create_blob`, `finish` | `write_batch`, `create_sst_file`, `create_blob`, `finish` |
| `compact`, `compact_internal` | `compact` selects the jobs, `start_compact` takes the flag; `write_merged` in any order; `move_file` in order; `finish_compact` |
| `commit` | `sync_file`, `publish`, `write_del`, `sync_del`, `write_current`, `sync_current`, `remove_file`, `release` |
| an error or a dropped batch | `fail`: the flag stays set |
| the process or machine stops | `crash`, possible at every step |

A key is the position of its hash, a file a partial map from keys to values, tombstones and references to
blob files. `get` looks through the files from the newest to the oldest.

The file system: creating and removing a directory entry is durable at once, contents are durable once they
are synced; a crash may remove any of the unsynced files and may bring back the old content of CURRENT. This
is weaker than what some file systems promise and stronger than what others do (a directory is never synced
by the code).

`KVStore` is the promise: a map changed by whole batches; a batch is visible first and durable then; a
restart comes back with the durable map, or with the visible one when it was about to become durable. The
mapping (`KV` in `TurboPersistence`) takes the contents of the readers' files for the visible map, and the
contents a restart would find under the synced CURRENT for the durable one. Recovery, the removal of files and
everything before publication map to stutters. The publication of a compaction maps to a stutter when it keeps the
contents; `KVStore` does not say who wrote a batch, so one that changed them would map to a `Write`. That it keeps them is
a property of its own, `CompactionKeepsContents`.

Left out: several key families (files of different families never meet), caches and statistics, the size
thresholds that decide when a collector is full or a merged file is cut (any cut is allowed).

### 3.3 WriteBatch

What `TurboPersistence` takes as one step per file: threads with a collector each (`put`,
`create_full_sst_file`, `create_blob`), then `finish`. In `finish` the collectors left are merged pairwise
in any order (`reduce`; `drain`, or `drain_beyond` when the larger one becomes full on the way), what is full
and the last one are handed to tasks (`spawn_final`), and each task takes a number and writes its file in
two steps (`take_number`, `create_sst_file`). Any creation may fail. `reset` is the reuse of the batch by the
database. A collector is a set of entries, since the keys of a batch do not conflict, and which entries
are moved first is open.

### 3.4 TurboTasksSnapshot

| code (`mod.rs`) | model |
|---|---|
| `in_progress_operations` with `SNAPSHOT_REQUESTED_BIT` | `in_progress_operations`, `requested_bit` |
| the mutex `snapshot_request` | `snapshot_requested`, `suspended_operations`; `locked` while the snapshot thread is in a critical section of several steps |
| `start_operation` | `start_operation` (the `fetch_add`), `wait_to_start`, `continue_start` |
| `operation_suspend_point` | `operation_suspend_point` (reads the bit), `suspend`, `continue` |
| drop of `OperationGuard` | `drop_guard` (the `fetch_sub`), `notify` (without the mutex) |
| `snapshot` | `request_snapshot`, `set_bit`, `check_suspended`, `park`, `wake_up`, `collect_operations`, `take_log`, `end_request`, `clear_bit`, `save_snapshot`, `save_fails` |
| `startup` | `restart`, and `starting_up`: the uncompleted operations come first, one by one |

The condition of `wait_while` and the sleep after it are two steps (`check_suspended`, `park`), because
`notify` takes no mutex. A notification reaches only a thread that sleeps. What an operation computes is a
number of steps, each of which logs a change. Memory is sequentially consistent. At startup the code holds
one guard for all uncompleted operations; here each has its own.

### 3.5 TurboTasksTaskCache

A call of a cached function: `lookup_forward` in the cache; if it misses, `forward_lookup_task_cache` in the
storage; a hit there is inserted (`insert_found`); otherwise `create_id`, `try_insert`, `push_name`; at the
end `connect_child`. Every one of them is a step of its own, since threads and the snapshot come in
between. Only `connect_child` is an operation, so it alone waits while the logs are taken. The two logs are
taken one after the other (`take_data_log`, `take_task_cache_log`). `save_snapshot` writes names, data and
the next free id in one batch; `restart` is a new backend which begins with that id.

Data is kept with the type its writer had called, so that data of one task under the id of another one
shows. `forgotten` is a history variable: ids under which a stop left data without a name. The free ids are
a set. Transient tasks, which have a factory of their own and are never saved, are left out.

### 3.6 TurboTasksExecution and MCTurboTasksExecution

What happens to tasks, for any program: `NextRead` and `Compute` are the code of a task, which decides what to read
from what it has read. `MCTurboTasksExecution` gives three tasks: one reads a `State` and may fail, one reads
the first through a `ResolvedVc`, and the root calls both and reads the first again only under a condition.

| code (turbo-tasks and turbo-tasks-backend) | model |
|---|---|
| `TurboTasks::schedule`: the job that is spawned | `job`: where it is, the values it has read, the dependents it has to tell, the edges it has to remove |
| `InProgressState`, `Dirty`, `Output`, `CellData` and `CellTypeMaxIndex`, `InProgressCell` | `in_progress`, `dirty`, `output`, `cell` and `celled`, `in_progress_cell` |
| `OutputDependent` and `CellDependent`; the dependencies; the outdated ones | `dependent`, `dependency`, `outdated` |
| `task_execution_canceled`, `try_start_task_execution` | the same names |
| `ConnectChildOperation` | `connect_child` |
| `try_read_task_output` | `try_read_task_output`, `listen_to_done_event`, `read_canceled_output` |
| `try_read_task_cell` | `try_read_task_cell`, `listen_to_cell`, `read_removed_cell`, `read_canceled_cell`; `try_read_task_cell_untracked` and `final_read` for a reader outside (`drop` takes the content away) |
| `UpdateCellOperation`, `UpdateOutputOperation` | `update_cell`, `update_output`, then `make_dependent_dirty` once per dependent |
| `InvalidateOperation`, `make_task_dirty` | `invalidate`, `make_task_dirty` |
| `task_execution_completed` with `CleanupOldEdgesOperation` | `complete`; `remove_dependency` and `removed_cell_dependent`, edge by edge; `finish` |
| `State::get`, `State::set` | `get`, `set` and `invalidate`: the mutex is held until all are invalidated |
| `stop_and_wait`; a restart from a snapshot of an idle system | `stop_and_wait`, `restart` |

An action is what happens under the lock of one task. A read takes a second lock for its own end of the edge;
nobody else touches that end, so both are one action. Two variables are history: `seen`, the values the last
completed execution read, which the properties compare with what the same reads would give now; and `contents`,
everything a cell has contained since its dependents were last told. A cell that has had two values since then has
changed silently (`silent`).

The configuration is one the backend offers in `BackendOptions`: dependencies are tracked, children and
activeness are not. `should_schedule` is then always true and nothing is aggregated. Steps 2 and 3 of the
completion are one action: under these options nothing happens between their locks that would not happen before
or after them. Left out: children, aggregation and strongly consistent reads,
collectibles, once tasks, session dependence, stateful tasks, `mark_finished`, local tasks, and panics, which end
a task as an error does.

### 3.7 AppRouterActionQueue

A step is one handler, as JavaScript runs it: a dispatch, or the settling of one promise, with everything
they call. The handlers are written as functions on a record of the queue, the nodes and what React was given
last, named after the source: `dispatch_action` with `preempt` and `append`, `run_action`,
`run_remaining_actions`, `resolve`. A state is named by the action that produced it, and every node
remembers the state its reducer was given. The reducer itself is a promise that resolves or rejects. React's
update queue is reduced to the last promise or state it was given. Prefetches do not go through the queue.

### 3.8 SegmentCache and MCSegmentCache

| code (`packages/next/src/client/components`) | model |
|---|---|
| `scheduler.ts`: `taskHeap`, `inProgressRequests`, `didScheduleMicrotask` | `queue`, `inProgress`, `scheduled`; tasks are numbered, with priority, phase, sortId |
| `processQueueInMicrotask` | `startMicrotask`, then `processTask` once per task, with `pingRootRouteTree` and what it calls |
| `cache.ts`: the maps and their LRUs, entries, `revalidating` | `routeMap`, `routeLru`, `route`; `segmentMap`, `segmentLru`, `segment` |
| the fetch functions, one step when the answer is there | `respond` with `fetchRouteOnCacheMiss`, `fetchSegmentOnCacheMiss`, `fetchSegmentPrefetchesUsingDynamicRequest` |
| `createPrefetchResponseStream` and the promise `closed` | `closeConnection`, `breakConnection` |
| `links.ts`, `prefetch.ts`, `navigation.ts`, `revalidateEntireCache` | `onLinkVisibilityChanged`, `onNavigationIntent`, `unmountPrefetchableInstance`, `prefetch`, `navigate`, `routerStateChanges`, `revalidateEntireCache` |
| `staleAt` | an entry may become stale at any time: `expireRoute`, `expireSegment` |
| an eviction of the LRU | `onRouteLRUEviction`, `onSegmentLRUEviction` of any entry |

A step is one callback with everything it calls; the functions are written as the source has them, from one
state of the module's variables to the next, which is why the state is one record. Only the loop of the queue has a step per
task; nothing else happens while it runs. `got` is what the last read returned, and `thrown` an exception on its way
to the caller. `faults` notes the rare events that break the code's own expectation: each property names the
ones it excepts, and section 4.4 says what they are. The heap is the set of its tasks, with `ordered`, which says
whether the array is still a heap: `heapDelete` only sifts the task it moves down, and from six tasks on that can leave it
below one it belongs before. While the heap is ordered its root is the task that compareQueuePriority puts first; after that any task
may be (`heapPeek`), and what `heapPop` finds there is the task that was peeked at or one that was pushed since (`firstNow`). A loop over segments, links or blocked tasks is a fold of a
named operator, which is one turn of it.

`MCSegmentCache` has two routes with a common layout, one with PPR, a partial page and a parallel slot, one without, and three
links, one of them with `prefetch={true}`.

`SegmentLRU` is `lru.ts` pointer by pointer: `put`, `updateSize`, `delete`, and `cleanup` with a step per
evicted node.

### 3.9 ResponseCache

| code (`packages/next/src`) | model |
|---|---|
| `lib/batcher.ts`: `pending`, the promise | `pending`, `promise` and `answer`; a promise is settled once (`settle`), and the key is free when the flow is over (`done`) |
| `ResponseCache.get` | `get` joins a flow or begins one; its outcomes are `generated`, `generatedUncacheable`, `generatedNothing` and `failed`, which sets what was read again, to be retried after 3 to 30 seconds (`retryAfter`) |
| `FileSystemCache.get` | `readMemory`, or a step for every await: `readHtml`, `stat`, `readMeta` (app router only; the silent `catch` leaves a page without tags), `readRsc`; `readFails` for the errors that count as no entry |
| `IncrementalCache.get` and what `ResponseCache` does with the entry | `received`, with `isTagStale` and `isStale` |
| `LRUCache.set` | `remember`: a page too large is refused, and the older entry stays |
| `FileSystemCache.set` | `set`: memory at once, then the files of a page; a 404 or a redirect (`bare`) has no file, since `set` returns at `file-system-cache.ts:357` or appends none |
| `MultiFileWriter` and `fs.promises.writeFile` | `openFile` empties a file and `write` fills it, the files in any order; `stored` when all are; `writeFails`, after which the other write goes on (`strayWrite`, `strayFails`) |
| `revalidateTag` and the manifest of tags | `revalidateTag`; a restart forgets the tags |

A page is of the app router, with a tag, or of the pages router, without tags and with 404s and redirects. It has
two files, the html and the data, and the content of each is the version of the source it was rendered from, so
that a page of two renderings and a page older than it may be can be told. The meta file is only read: what is in it
does not change, and one that is cut short is one that cannot be read. A request's kind decides its key: on-demand
revalidations run beside normal requests. The properties are stated with history variables: what was current at
the last revalidation of the tag, was set for the files, and was given to an on-demand revalidation
(`promised`), as it was when a request came (`least`), which flows were under way at a revalidation (`late`), and
what went wrong (`faults`).

Two assumptions are the default configuration. The default cache handlers are installed, so that every revalidation stamps
the tag: `FileSystemCache.revalidateTag` alone stamps a tag once and ignores any later revalidation
(`file-system-cache.ts:103-107`), but `IncrementalCache.revalidateTag` also calls the handlers
(`incremental-cache/index.ts:269-275`), and `cache-handlers/default.ts:119-126` stamps again. And `isrFlushToDisk` is
on, with a memory cache.

Left out: the minimal mode, requests without a key, fetch entries and their locks, route handlers, images, the files of
segments, fallbacks, and the times after which an entry expires.

## 4. The runs

All runs but the two on TurboPersistence set `CHECK_DEADLOCK FALSE`, because their counters are bounded and the
programs also end by themselves; a database can always crash and be opened again. Each run takes less
than three minutes with two workers.

| run | instance | states | shows |
|---|---|---|---|
| `selector` | up to 6 files over 3 hashes, jobs of 3 or 8 files | 111974 | `JobsAreDisjoint` (a file in one job, merges that run at the same time apart), `MergesKeepOrder` (overlapping files merged by age, and newer files that overlap a merged one merged with it or moved behind it) for every such list |
| `persistence` | 2 keys, 1 value, numbers up to 6, batches of up to 2 files with large values, compactions, failures and crashes at every step | 242658 | `DirectoryIsExact` (the type, the files readers use are there, no others stay), `RestartKeepsFiles`, `FilesAreImmutable`, the refinement `ImplementsKVStore` |
| `persistence_reordered` | batches of 1 file, numbers up to 7 | violation | finding 1 |
| `snapshot` | 2 operations of 2 steps, 3 snapshots, 1 failed save, 2 stops, fairness | 175365 | `Quiescent`, `SuspendsForSnapshot`, `SavedIsComplete` (the type, no change is lost, what is saved can be completed), `SnapshotsEnd` (who waits is woken) |
| `write_batch` | 3 threads, 5 entries (one large), collectors of 2, 2 batches, any failures, fairness | 138465 | `FilesAreExact` (the type, every entry in one file, consecutive numbers), `FinishReturns` |
| `task_cache` | 2 threads, 2 functions, 4 calls, 2 snapshots, 1 failed, 1 stop | 745630 | `NamesAreUnique`, `FreeIdsAreFree`, `OwnData`, `DataIsNamed` |
| `execution` | 3 tasks, two of them comparing, a State set once (perhaps to the value that fails), 1 loss of cells, a stop at any time, fairness | 702390 | `OneJob`, `DirtyIsScheduled`, `CalledHasOutput`, `ReadsAreCurrent`, `EdgesAreExact`, `JobsEnd` |
| `action_queue` | 4 dispatches of any kind, up to 2 rejections, fairness | 159755 | `PendingMoves`, `QueueInOrder` (the type, one at a time, in order), `BuildsOnCurrent`, `ShownIsCurrent`, `DispatchedRuns` (what is dispatched runs, and so does the refresh it asks for, unless it was appended to a discarded `last`: finding 2) |
| `action_queue_lost` | 3 dispatches | violation | finding 2 |
| `segment_cache` | 3 links, 2 routes, 4 segments (one a parallel slot), 2 connections, 3 events, fairness | 932589 | `TypeOK`, `TasksAreKept`, `BandwidthIsAccounted`, `PendingIsFetched`, `MappedIsEvictable`, `OldAnswersStayOut`, `FullStays`, `PrefetchEnds` |
| `segment_lru` | 2 nodes of sizes 0, 1 and 3, a maximum of 2 | violation | finding 3 |
| `response_cache` | 2 requests of any kind, 2 versions, 2 times, 2 events (an overlap takes both), fairness | 2291858 | `NotTorn`, `FreshAfterRevalidation`, `ReadsDoNotGoBack`, `OnDemandIsDurable`, `EveryAnswered` |

### 4.1 The bounds, and why they are enough

- `selector`: three hashes give ranges that contain, overlap, touch and miss each other. Six files are
  enough for a job that restarts, a job that is given up and leaves its files used, a moved file that is the
  start of the alternative selection, and two jobs. With `MergeLimits` 3 and 8 a job ends both by its limit
  and by the end of the list.
- `persistence`: six numbers allow two batches and a compaction of their files with its del file, or a batch
  after a crash that left files with the same numbers. Two keys allow a file that covers another one and one
  that does not. One value with the tombstone is enough to tell an overridden entry from the newer one.
  `MaxCoverage` is 0: compaction runs whenever any file spans more than one hash. Sequence numbers do not
  wrap; `MaxSeq` stands in the guards of the actions that take numbers.
- `persistence` and `persistence_reordered` together bound what `CompactionKeepsContents` says: it holds for
  every database `persistence` reaches (TLC finds no violation with it added to that configuration), whose compactions have
  up to three files, and fails with four.
- `snapshot`: two operations are needed so that one waits, or starts, while the other one leaves; two steps
  so that one is suspended with a part of its changes logged; three snapshots with two stops so that a
  resumed operation is suspended again, and stopped again.
- `write_batch`: three threads let two collectors be merged while a third is waiting, and with five entries
  a collector of two becomes full in a `put` as well as in a merge. The second batch reuses what the first
  one left.
- `task_cache`: two threads race for one function, and for two; four calls, two snapshots and a stop allow a
  name that is saved, found again after the stop and saved again. The exceptions in the properties
  (`forgotten`, `failures = 0`, a call that has not logged its name yet) are reached in this instance.
- `execution`: a change while nothing, or any task, is executing already meets every step of every job, since the
  jobs of the three tasks interleave freely and a stale execution starts over. The one loss is the restart, which
  drops the cell of `mid`, or a last read of the cell of `mid` or `leaf`: the missing cell is then computed again, with
  or without the change. `mid` compares its cell before it writes it, and the run reaches states in which
  nothing is left to do, the cell of `mid` has changed silently and `root` has the old value (section 4.4). `leaf`
  does not compare; its cell changes silently too, but only until it has run once more.
- `action_queue`: the interesting cases are a running action, one behind it, a navigation that replaces the
  first, and one dispatched after that.
- `segment_cache`: an event is something that happens to a link, a change of the router's state, an invalidation, a
  navigation, a prefetch, an answer that is not the expected one, or an entry that expires or is evicted; answers
  as expected and the queue's work are not counted. Three of them let one link prefetch, another one or a navigation
  meet its entries, and a third thing go wrong; two connections (the code has three) make tasks wait for
  bandwidth. One route has a parallel slot, for which bandwidth is not looked at, so that three connections are open
  in the run although the limit is two. A heap gets out of order only from six tasks on, which takes more events than the
  run has: that case is covered by the proofs alone.
- `segment_lru`: two nodes are enough for a head that is deleted while another node stays.
- `response_cache`: two requests meet in one flow, follow each other, or run beside each other under two keys;
  two events are a revalidation with a restart, eviction or error, or two of these. Two flows beside each other
  (`OverlapCost`) take both events, since what they do to one another needs nothing else to go wrong. With
  `Revalidate` 0 and two times an entry becomes stale while it is read. A refused page, a 404 and the emptying of a file cost
  nothing: they meet every step of the instance. Every exception in the properties was taken out once, and TLC found the
  run that needs it: here, but for the overlap of `FreshAfterRevalidation`, for which an overlap may cost only one event.

### 4.2 Fairness

- `TurboTasksSnapshot!LiveSpec`: weak fairness of what an operation does once it was started
  (`execute(o)`), and of the snapshot thread once it was asked for a snapshot (`take_snapshot`): these are
  threads of the operating system, and a mutex is free again after finitely many steps of its holder. No
  fairness for starting operations or requesting snapshots. A save may fail, and then the thread still went
  on. `SnapshotsEnd` has two halves: the thread that waits for operations is woken unless it went to sleep with
  nothing in progress (the lost notification of section 4.4), and an operation that waits continues if the
  snapshot thread is not asleep for ever.
- `WriteBatch!LiveSpec`: weak fairness of `write_remaining`, the inside of `finish`, which is a rayon scope that
  runs all its tasks. No fairness for the threads that fill the batch: nobody has to call `finish`.
- `TurboTasksExecution!LiveSpec`: weak fairness of `work`, a step of any job or of the invalidations of `State::set`.
  The runtime goes on with some job while one can go on, and `State::set` does not wait for anything in its loop.
  Nothing is assumed of the environment: changes, reads from outside, the stop and the restart.
- `AppRouterActionQueue!LiveSpec`: weak fairness of settling some promise. Each one that runs does settle,
  since a reducer's request is answered or fails; no order among them is assumed. No fairness for dispatches.

- `SegmentCache!LiveSpec`: a microtask that was scheduled runs and ends, and some open request is answered, closed or
  broken again and again while there is one. These are weak fairness conditions with what enables the steps
  written out, since TLC would have to compute the successors of the large state twice to find out. No fairness
  for events.
- `ResponseCache!LiveSpec`: weak fairness of the steps of each flow: the files are read and written, and the
  generator answers or fails. None for the writes that go on after a flow has failed, for requests, revalidations or restarts.
- `SegmentLRU!Spec`: weak fairness of one turn of the loop in `cleanup`, which nothing interrupts.

### 4.3 Findings

Each is a run that TLC ends with a counterexample, and quotes the sentence of the repository it disagrees with.

1. `persistence_reordered` / `CompactionKeepsContents` (`selector.rs:178`). Compaction moves the files that are newer
   than a merged file and overlap the merged range. A moved file gets a new number, so it becomes newer than a
   file that overlaps *it* but not the merged range, and which overrode its values. Readers then find the old
   value.
2. `action_queue_lost` / `QueuedIsWaiting` (`app-router-instance.ts:171`). A navigation replaces the pending action
   while that is also `last`; `last` stays at the discarded node, and the next action is linked behind it, where
   nothing finds it.
3. `segment_lru` / `CleanupEnds` (`lru.ts:92`). Deleting the head leaves its neighbours pointing at it. `cleanup` takes
   the deleted node for the tail, deletes nothing, and goes on for ever.

### 4.4 Smaller disagreements

Met on the way, without a run of their own. Where a property excepts one, it says so.

- `init_directory` creates CURRENT and then writes it (`db.rs:209-214`). A stop in between leaves an empty file, and every
  later open fails when it reads it (`db.rs:228`), though `db.rs:136-139` says that open cleans up what was not closed properly.
- The last operation leaves and notifies without the mutex (`mod.rs:377-388`), perhaps after the snapshot thread has
  evaluated its condition and before it sleeps (`mod.rs:808`). The thread sleeps until another operation starts and is
  suspended; `mod.rs:175-176` says that the condition is triggered when the counter reaches zero.
- A write to a cell tells the dependents only when the task is dirty (`update_cell.rs:31-37`). A task that executes
  because its cell is missing may read a value that was just written, before the invalidation reaches it. It is
  not dirty, so nobody is told of its new value; the invalidation then lets it run again, and if it compares
  it finds its value equal. The tasks that read the old value keep it. Nothing excludes such types: many values of
  `serialization = "none"` are declared with `cell = "new"`, but not all (`turbopack-core/src/issue/mod.rs:680`).
  `ReadsAreCurrent` excepts the readers of such a cell, as long as it has contained what they have read.
- Segment cache: `heapPop` takes out the first task, which need not be the one that was worked on, when reading its route
  deleted a stale entry and pinged a task of higher priority (fault `popped`).
- `heapDelete` sifts the task that fills the hole down, never up (`scheduler.ts:1149-1162`), so that after a cancellation among
  six or more tasks the queue may give a task of lower priority first.
- The limit on requests is not looked at between parallel slots (`scheduler.ts:532-541`), though `scheduler.ts:262-267`
  says that tasks should check it before issuing new requests.
- A dynamic response that asks for a full page load leaves the entries it was for pending (`cache.ts:1359-1362`; fault
  `mpa`), though `cache.ts:428` lets those who read them wait.
- A stream that breaks after its value was decoded never resolves `closed` (`cache.ts:1523-1550`), so its connection is
  counted for ever (fault `broken`).
- Reading a stale segment that has a revalidation calls `upsertSegmentEntry` (`cache.ts:383`), which begins with the same
  read of the same entry (`cache.ts:548`), and so on (fault `recursion`).
- Re-keying a route may replace an entry that stays in the LRU without being in the map (`cache.ts:1040-1062`; fault
  `overwritten`, which no property has to except).
- `pingFullSegmentRevalidation` resets a revalidation with the revalidating entry as its owner (`scheduler.ts:1046-1050`),
  so that the owner goes on pointing at the old one.
- Response cache: `response-cache/index.ts:26-27` says that it should be safe to run an on-demand revalidation for the
  same key as a normal request. Both write the same files; a reader may get the html of one and the data of the
  other, or what was stored last may be older than what an earlier reader got (fault `overlap`).
- An entry that is rendered while its tag is revalidated is stored with a later time and counts as fresh (`late`), and a
  restart forgets which tags were revalidated (fault `forgotten`).
- A 404 or a redirect of the pages router is kept in memory only (`file-system-cache.ts:357`). Once it is evicted, or after a
  restart, the older page is served again from its files. The two properties about what was stored therefore promise nothing for
  them.
- The LRU refuses a page larger than itself and then leaves the older entry of the key (`lru-cache.ts:21-24`), which goes on
  being served, although the files are newer (fault `kept`).
- `fs.promises.writeFile` empties a file before it writes it (`node-fs-methods.ts:9`). A stop in between leaves a file that the app
  router serves as it is (fault `cut`); the pages router fails to parse its data and renders again.
- A meta file that cannot be read or parsed is passed over silently (`file-system-cache.ts:199-207`): the page then has no
  tags, and no revalidation reaches it (fault `untagged`).
- A failed write is only logged (`incremental-cache/index.ts:613-615`), and `Promise.all` does not wait for the write
  of the other file (`multi-file-writer.ts:97`).
- `turbo-persistence/README.md:181` says that no other file may overlap "between files of a merge operation". With
  files that an earlier job of the same compaction used, the selection may leave such a file in between, which
  is moved. `MergesKeepOrder` is what the code does keep: the order among the files of a job and the files that
  overlap one of them, and nothing about a moved file and the newer ones it passes.
- `turbo-persistence/README.md:7` lets a batch become visible after the commit; the code publishes to readers
  before CURRENT is synced (`db.rs:446`). `KVStore` therefore has `Write` before `Persist`.
- Blob files whose last reference was compacted away stay (`db.rs:519`; `README.md:183` has them deleted).
- What React shows (`use-action-queue.ts:32` calls the hook one that only synchronises state) is not always the queue's
  state in the end. A restore hands its state over when it is handled (`app-router-instance.ts:102`), after the
  promise of an action behind it; and a navigation that takes over the waiting actions is handed over before
  they run. `ShownIsCurrent` excuses exactly these two, and a discarded action that was rejected.
- `task_execution_canceled` wakes those that wait for the task's output, not those that wait for its cell. A job
  that does stays there, and `stop_and_wait` (`manager.rs:1014`) waits for it for ever. `JobsEnd` excuses it.
- When saving a snapshot fails, its part of the log is lost for the storage (`mod.rs:867`), though
  `mod.rs:109` says that all changes are pushed regularly. The parts of `SavedIsComplete` are
  therefore stated for the time before a save has failed.
- Data logged under an id whose name is not yet in the log may be saved without the name. After a stop the id
  may be handed out again (`mod.rs:961`), and the task that gets it finds the data. These are the ids of
  `forgotten`.

## 5. The proofs

TLAPS proves the following for every value of the constants that meets the assumptions in the modules
(finite sets of operations and keys, values that are neither tombstones nor references, bounds that are
natural numbers). The bounds on numbers of files, snapshots, stops and calls are constants too, so the
theorems hold however large they are.

**`TurboPersistenceProofs`**

- `Immutable`: `Spec => FilesAreImmutable`. Not inductive by itself: a new number is unused because the counter of the write
  operation is above every file, and that has to be followed through a restart, which begins with CURRENT
  while files above it are still in the directory. The invariant `NumberInv` is `NumberTypes` (types),
  `NumberKinds` (files of different kinds do not share numbers; a del file names older files only),
  `NumberFresh` (the directory before it has a CURRENT), `NumberLoading` (a file above CURRENT is still to be
  visited, and will be removed), `NumberWriting` (the counter is above all files, the flag is held).
- `Recovery`: `Spec => []RestartKeepsFiles`. `RecoverInv` relates what a restart would find to what readers use at every
  point of a commit: before publication both are the old files; between publication and the sync of CURRENT
  they differ by exactly the files created and superseded; after it the del file hides what is still to be
  unlinked.
- `TypeCorrect`: `Spec => []TypeOK`. The part that is not obvious is that the contents a compaction writes are contents of
  files: it needs that the files it merges exist (`ReadableInv`) and that a nonempty finite set of numbers has
  a maximum (`MaxInSet`).
- `ExactDirectory`: `Spec => []DirectoryIsExact`, both parts, from `DirectoryInv` on top of the invariants above: outside
  the recovery of a directory the files that a del file names are gone, or are the ones still to be
  unlinked (`Unlinked`); whatever is not synced has a number above CURRENT (`Synced`); and the blob files that an SST file
  refers to are there with numbers that CURRENT covers when it covers the SST file (`RefsCommitted`), which at the
  moment CURRENT moves follows from what the batch has written (`RefsWritten`).
- `Refinement`: `Spec => ImplementsKVStore`. Two facts are still missing for it (`ViewInv`): readers never meet a reference
  to a blob file that is gone (`ShownRefs`), and with the CURRENT that is written but not synced a restart finds
  either what it finds with the synced one or what readers see (`CrashFinds`). Contents that do not change come from files
  that do not change (`SameView`, from `KeptFiles`); which steps leave what a restart finds alone is `FoundKept`; `StoreStep`
  then names the step of `KVStore` for every step of the database.

These theorems use nothing about which files the selection picks: they hold for any choice. The module also proves, for every list of
files and every merge limit, what `MCCompactionSelector` states:

- `JobsDisjoint`: `SelectorSpec => []JobsAreDisjoint`, and `OrderKept`: `SelectorSpec => []MergesKeepOrder`. What a recursive function
  computes cannot be proved by induction here. But the loops are functions that call themselves only as their last act,
  and such a function exists whether its loop ends or not (`LoopExists`: where it does not end, any value will do). An invariant of
  the loop gives its result where a pair of numbers decreases with every turn (`LoopHolds`, from the smallest counterexample): the inner loop either
  extends the range, within the hashes of all files, or moves on to the next file (`JobGrown`).
- The invariant of the inner loop is `JobOK`: an older file that was not added when the job was at its n-th file does not
  overlap a range that covers the first n (`PassedOver`), which gives the order within a job (`InOrder`) in spite of the restarts; and the range
  overlaps only what some file overlaps that was still unused (`Connected`), which keeps jobs apart although a range may span files that
  were used before. The invariant of the outer loop is `Selected`: jobs are apart from each other and from all
  unused files; a newer file that overlaps a merged one is moved or merged with it (`Follows`); and no unused file overlaps a newer one
  that belonged to a job which was given up, although such a file stays used. `BestHolds` carries this through the alternatives, whose start
  only moves towards the newest file.

**`WriteBatchProofs`**, for any threads, entries, batches and size of a collector

- `ExactFiles`: `Spec => []FilesAreExact`. The property speaks of the end only; the invariant follows where each entry and each
  number is until then. While threads fill the batch, what each has put is in its collector, in one of its files or
  in its hand (`ThreadIsExact`), no two threads share an entry or a number, and together they have the entries of
  the batch and the numbers since its start (`FillingIsExact`). While `finish` works the same holds of the collectors it
  merges, those handed to tasks, and the files (`MergingIsExact`), up to an error, after which something may be missing and
  nothing is returned. `TakingTurns` says that one side is empty while the other works. The collector that replaces a full
  one in the middle of a merge is empty because everything on the stack is, and what is left to drain into it is not empty
  (`RestIsNotEmpty`). The order of the result is strict because the numbers of different files differ.

**`TurboTasksSnapshotProofs`**

- `SnapshotQuiescent`: `Spec => []Quiescent`, and `SuspendAssertion`: `Spec => []SuspendsForSnapshot`. The invariant `Inv`: the counter
  is the number of operations that are running (`CountsRunning`), the bit and the flag follow from where the
  snapshot thread is (`BitFollowsSnapshot`, `FlagFollowsSnapshot`), and nobody is between two suspend points
  from the moment the counter was seen to be zero until the bit is cleared (`Quiet`). That an operation which
  starts in the meantime does not disturb this is where `Quiet` needs the bit: it saw it set, and waits.
- `SavedAlwaysComplete`: `Spec => []SavedIsComplete`, which is the type, `ChangesAreKept` and `SavedIsResumable`. The invariant
  `LogInv`: exactly the changes of the steps done are in the log, the snapshot or the storage (`EveryChange`); what the
  snapshot is about to save can be resumed (`CapturedIsResumable`), and so can what was saved (`StorageIsResumable`). When
  the log is taken, this follows from `Quiet`: an operation is suspended, and captured at its step, or has done all
  of its steps, or none, unless it is one that the restart has to resume, and those come first
  (`StartsUpFirst`, `StepFollowsPc`). A restart finds its steps where `EveryChange` wants them because of `StorageIsResumable`.

**`TurboTasksTaskCacheProofs`**

- `UniqueNames`, `FreeIds`, `OwnDataOnly`, and `SavedStays` (what was saved is never taken back, which is proved only
  and not part of the run). A function gets a new name only when the cache has none; then neither
  have the logs, which the cache covers (`CacheIsComplete`), nor the storage, which was asked before and to
  which only names of the cache are added (`LookedUp`). The new id is one that no name, no data and no other
  call has (`CreatedIsNew`), since such ids are below the counter and not free (`Below`). `Kept` collects
  what most steps leave alone, and each action has a lemma of its own.
- `DataAlwaysNamed`: `Spec => []DataIsNamed`. Until a snapshot fails, every name that the cache has or a call answers with
  is in the log, taken, saved, or about to be pushed by the call that made it (`NamesAreLogged`), and the data of every id
  with it (`DataIsLogged`). A stop takes the log away together with the cache and the calls; the saved data
  that stays is of an id with a saved name, or of one the stop left without (`forgotten`), by `OwnData`.

**`TurboTasksExecutionProofs`**, for any tasks and any code of them: except for the last two theorems the proofs assume nothing
of `NextRead` and `Compute`.

- `TypeCorrect`: `Spec => []TypeOK`.
- `OneJobAlways`: `Spec => []OneJob`. A new InProgress is added only where there is none, and where it is taken away
  or changed its job goes idle or starts over in the same step; the invariant is `Inv`, the type with `OneJob` and
  `DirtyIsScheduled`.
- `DirtyIsScheduledAlways`: `Spec => []DirtyIsScheduled`. A task becomes dirty while it is in progress, or becomes
  scheduled with it, and Dirty and InProgress are taken away in one step. `OneJob` says that `update_output` is such a
  moment.
- `CalledHasOutputAlways`: `Spec => []CalledHasOutput`. `OutputInv`: a job that is past `update_output` and not stale has an
  output (`EndedHasOutput`), and a job past its call reads from a task that is in progress or has an output
  (`CalledIsKnown`); outputs are never taken back.
- `EdgesAlwaysExact`: if `NextRead` gives an access for every sequence of values (`CodeIsTyped`, which is `CodeAssumption` without
  the bound that lets TLC evaluate it), `Spec => []EdgesAreExact`. `EdgesInv` says of each task, until the system is stopped,
  which of its edges are accounted for: those of a settled task are what its last execution read (`SettledEdges`); of one that runs
  and is not stale, those that are neither outdated nor about to be removed are what it has read so far (`RunEdges`); the two ends agree
  (`Mirror`). The delicate read is `await`, which reads the output in one step and the cell in a later one. It
  must not fail at the second, since a failed await accounts for one edge and this one has two. `OutputHeld` carries the output from one to the other:
  it is still a cell, and then there is one, or waiting, when the task is done (`CellFollows`); or the other task has failed, and is
  telling the reader, whose edge it found because of `Mirror`, that it is stale.
- `ReadsAlwaysCurrent`: `Spec => []ReadsAreCurrent`, for programs with the two properties below, whichever cells are compared and
  whichever can be dropped. `CurrentInv` compares every read, those of the last execution (`Recalls`) and those of the one that
  runs (`Fresh`), with what was *written* since readers were last told (`Agrees`, `contents`), not with what is there: a
  reader that is not being told agrees with it, because who writes something else as a dirty task tells in the same step all it finds among its
  dependents, and by `EdgesInv` it finds every reader. Who is told stays told until it is dirty and runs again (`Tells`). The
  hard case is a cell whose content was dropped (`Lost`, `RunsAgain`). Its task executes without being dirty, and its write tells nobody.
  As long as it is not told it reads what it has read the last time, or what it reads has changed silently itself (`Repeats`), so that it writes
  what its readers have or has an excuse; when it is told, it is going to write once more as a dirty task (`WillWrite`), which ends the
  silence unless it compares. `Noticed` follows that to the end: a cell that changed silently and is not going to be written,
  of a task that does not compare, has read another such cell. Hypotheses:
  - `CodeIsTyped`, as above.
  - `VcsAreResolved`: a `ResolvedVc` was resolved by the task that uses it, or given to it by its caller, who had it from the same
    sources. The type of `ResolvedVc` says so; the model has no arguments, so `args` states which tasks they contain. Without it a
    task could read the cell of one that was never executed. `ArgsInv` carries it through all steps.

  TLC finds each exception needed: without that of silent readers, in a behaviour of 42 states when `mid` compares; without that of a
  task that has read another silent cell, in one of 52 states with four tasks in a chain, the middle two unserialized.

**`ResponseCacheProofs`**, for any number of requests, versions, times and events:

- `TypesCorrect`: `Spec => []TypeOK`, with what a flow has in its local variables at each of its steps (`LocalsOK`).
- `RequestsJoinRunningFlows`: `Spec => []FlowsArePending`. The flow pending for a key and the one flow of that key that is
  under way are the same, so a request never joins a flow that is over. The invariant `Flows` adds that without an overlap there
  is one flow of the page (`Alone`).

  The other four rest on a common invariant `Base`: `Flows`; `Past` (promises are of versions there have been and only
  grow, `PromisesArePast`; no time is later than now, `TimesArePast`; what is rendered is one rendering and who is not under way
  has nothing, `NothingLeft`); and `OnDisk`, for runs without overlaps and failed writes. That one says that the html a flow
  has read and its time are still those on disk (`ReadStays`), and that what a flow has written of its page is still there
  (`WrittenStays`). It is inductive only together with `Alone`: whoever reads or writes is the one flow of the page, although an
  eviction between two writes would send any other one to the files (`Lone`).

  Each of the four is then about a set of pages that memory and the flows never leave (`Holds`, with the lemmas
  `FlowHolds` for a step of a flow and `OtherHolds` for all others), with a clause for the files, which leave the set while they
  are written, and one for the answers.

- `PagesAreWhole`: `Spec => []NotTorn`, with the pages of one rendering (`WholePages`). The files are of one rendering unless some
  flow is writing (`DiskIsWhole`).
- `OnDemandAlwaysDurable`: `Spec => []OnDemandIsDurable`, with restarts between the writes of two files, with the pages from
  the promised version on (`PagesFrom`). Each file is of such a version unless it is open (`DiskIsDurable`). The promise grows once
  memory, if the page is there, and both files are what was written (`WritesContent`).
- `ReadsNeverGoBack`: `Spec => []ReadsDoNotGoBack`, with the pages whose html is from the promised version on (`HtmlFrom`). This
  promise grows when memory is set, before any file is. The html file may be older until the flow that is writing has
  written it (`DiskFollows`), and nobody else reads it meanwhile.
- `RevalidatedIsFresh`: `Spec => []FreshAfterRevalidation`. A revalidation makes every flow under way late, and everything
  stored unusable, since no entry has a time later than now. From then on what is usable and not late is of at least the
  version that was current at the revalidation (`PagesSince`), in memory and in the flows (`Stored`) and in the files
  (`DiskIsCurrent`); for this every page has its tag (`TaggedPages`). The html that was read is judged by the time of the file read
  after it, which is why `ReadStays` is needed. An answer keeps the promise to all who join it (`Answered`), because one who
  joins a flow that a later revalidation overtook finds it late.

**`AppRouterActionQueueProofs`**, for any number of dispatches and rejections: all the safety properties of the run.

- `TypeCorrect`: `Spec => []TypeOK`.
- `PendingAlwaysMoves`, `QueueAlwaysInOrder`, `ShownAlwaysCurrent`: `Spec => []P` for `PendingMoves`, `QueueInOrder` and
  `ShownIsCurrent`; `AlwaysBuildsOnCurrent`: `Spec => BuildsOnCurrent`.

  The invariant `Good` is stated for a router (a record), because a handler is a composition of functions on routers. Its
  heart is `InQueue`: what follows a queued action or the pending one is queued and counts (`NextIsQueued`), and follows only
  one of them (`NextIsNoOthers`). Nodes that are neither may point anywhere, which is what a preemption leaves behind: the
  discarded action keeps its `next`, and `last` may still be that action. Without `NextIsNoOthers` the queue could come
  back to an action that has run. `InOrder` follows what waits, defined as the least set closed under `next`, so that an
  upper bound is any closed set and the proof needs no induction along the list. `PendingOnly` (only the pending action runs and
  counts, on the current state) lasts until a discarded action is rejected, and `LastIsShown` until something is out of order as
  well; both conditions are for good once they hold (`Grows`).

**`SegmentCacheProofs`**, for any routes, trees, links and limits: all the safety properties of the run, `TypesCorrect`,
`TasksKept`, `PendingFetched`, `MappedEvictable`, `OldAnswersOut`, `BandwidthAccounted` and `FullSegmentsStay`.

- The invariant `IInv` is in a module of its own, `SegmentCacheInvariant`, where TLC can check it. It says of the state
  between two steps that it is `Sound`, and that nothing is read or thrown. `Sound` is `Rest` (tasks and the heap, `Tasks`; routes and
  their requests, `Routes`; no task is forgotten, `Kept`), `Seg` (segments, their map and requests), `Counted` and `Bounded` (connections).
- None of the properties is inductive. That a pending segment is requested survives the answer to another request only because
  requests are for different segments (`Disjoint`), and an answer settles only what is pending still because
  nothing else could have settled it. That a full segment stays needs that a segment which will be upserted when its answer
  comes is in no map before (`EntryOK`, `RequestOK`), so that its change from pending to fulfilled is not seen by a reader of the map. That no
  task is forgotten needs that a pending route has the one request that will ping those it blocks. Nothing needs that
  the heap is in order.
- A step is a composition of some forty functions, and between two of them the invariant does not hold: a segment may be
  pending whose request has not been sent. `Seg(s, R, sp)` therefore takes any state with the requests and the spawned
  entries that are still to be accounted for, and each function has a lemma that relates the state before and after it (`Reads`,
  `Steady`, `NotSegments`, `QueueOnly`, `RouteOnly`, `Pinged`, `Answered`). Loops are folds, for which one lemma says that what every turn
  preserves holds after all of them.
- `BandwidthAccounted` holds for every tree: with parallel slots the traversal sends several requests after one look at
  the limit, and `WithinLimit` says how far past it one route can go. In the fold over a tree (`PingHolds`) the connections
  are at most the limit and the slots among the segments pinged so far, and a look at the limit starts the count again.

Only model-checked: all liveness (`SnapshotsEnd`, `FinishReturns`, `DispatchedRuns`, `JobsEnd`, `PrefetchEnds`,
`EveryAnswered`), which is out of the prover's reach; `CompactionKeepsContents`, which is false in general; and
`SegmentLRU`, which is there for its finding.

## 6. Running

    tlc -workers 2 -config TurboPersistence.cfg MCTurboPersistence.tla
    tlapm TurboPersistenceProofs.tla

`PROJECT.json` lists the runs with their modules and configurations, the mutants with the property each one
violates, the lines every definition stands for, the findings, the hazards and the theorems.
