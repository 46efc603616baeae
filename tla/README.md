# p2pget: TLA+ models, checks and proofs

p2pget is a BitTorrent downloader in Go: a download engine around the
anacrolix/torrent library, a terminal UI, a search aggregator, and a DHT crawler
that fills a local SQLite index. This directory models the parts of it that are
concurrent, stateful, or easy to get wrong, model-checks them with TLC on small
instances, and proves the main results with TLAPS for instances of every size.

Contents: [1 the system](#1-the-system), [2 the modules](#2-the-modules),
[3 what the runs check](#3-what-the-runs-check), [4 fairness](#4-fairness),
[5 what is proved](#5-what-is-proved), [6 disagreements found](#6-disagreements-found),
[7 sanity variants](#7-sanity-variants), [8 what is not modelled](#8-what-is-not-modelled),
[9 plan](#9-plan).

## 1 The system

Paths are relative to the repository's root.

| Component | State | Operations |
| - | - | - |
| Task list, `internal/engine/engine.go` | `downloads` (hash to Download, under `mu`), the state file and its temporary file (under `stateMu`) | `AddMagnet`, `AddInfoHash`, `AddTorrentFile`, `AddTorrentURL`, `track`, `Remove`, `Restart`, `persistState`, `restore`, `Close`, `List` |
| `Download`, `internal/engine/download.go` | `wanted`, `paused`, `err`, `initialSkip` (under `d.mu`); the rate and stall clocks (`stallSince`), which only the event loop touches | `initSelection`, `applyLocked`, `SetPaused`, `SetFileWanted`, `SetAllWanted`, `Files`, `SampleRate`, `StallDuration`, `Status`, `ETA` |
| `awaitMetadata`, one goroutine for each Download | where it waits | metadata / dropped / timed out; verify what is on disk, then select files, or fail and drop |
| BitTorrent client (library) | handles, one open handle for each hash; metadata; file priorities | add, `Drop`, `GotInfo`, `Closed`, `SetPriority` |
| Engine construction | none afterwards | part-file migration, storage, rate limiters |
| Bootstrap, `internal/engine/bootstrap.go` | the resolved nodes (`sync.Once`) | DoH queries under a deadline, hard-coded fallback |
| `FetchInfo`, `WaitInfo` | none | a one-shot metadata fetch on a shared handle; a wait for the metadata, the drop or a cancellation |
| DHT crawler, `internal/dht/crawler.go` | a queue of 1024 hashes, the `recentSet` | `onQuery`, `enqueue`, `metadataWorker`, `replenishLoop`; `StoreIndexer` reads the index |
| `recentSet`, `internal/dht/recent.go` | two generations of a bounded set | `seen` |
| Local index, `internal/store/store.go` | rows `(hash, seen_at, resolved)`, an FTS table | `SeenInfoHash`, `SaveMetadata`, `PendingMetadata`, `Search`, `Stats` |
| Search, `internal/search/search.go` | a stream of chunks | `Search`, `SearchStream`, `filterByQuery`, `DedupAndRank` |
| Adapters, `jackett.go`, `nyaa.go`, `piratebay.go`, `torrentscsv.go` | none | one HTTP request and one parser each |
| TUI event loop, `internal/tui/app.go` | results and their generation, the lists, the cursors, the pinned file view, the delete confirmation | `Update`, one message at a time; commands run in goroutines of their own |
| TUI rendering | none | layout |
| Command line, `cmd/p2pget/main.go` | none | `get`, `search` with paging, `dht-crawl`, `dht-status`; `runTUI` wires everything |

How they interact. `runTUI` builds the engine (which restores the saved tasks),
the store, the aggregator and the UI. The event loop calls `Remove`, `Restart`,
`SetPaused`, `SetFileWanted`, `SetAllWanted` and `List` on its own goroutine; adding a
result runs in a command goroutine, and several can run at once
(`addDownload` adds, and then, for "add paused", calls `SetPaused(true)` on what came
back). Every add starts an `awaitMetadata` goroutine that shares the Download, and the
library's handle, with all of these. Every add, removal and restart ends by saving
the list. Crawler workers and adders share library handles as well, because the client
hands out one handle for a hash. Search producers feed the event loop through a
channel; each search has a generation number, and chunks of an old one are ignored.
Between the ticks of the event loop, and between the parts of one tick, the engine
changes under it: metadata arrives or times out, files complete, an add tracks or
replaces a task. Every DHT server asks for the bootstrap nodes from a goroutine of its own.

The behaviours that make this hard, and the properties that make each part correct:

- **Engine.** Changing the map (under `mu`), calling the library (under no lock) and
  saving (under `stateMu`) are three separate moments of one operation, so operations
  of different threads interleave at each of them; the library may drop a handle
  another thread has just been given; a save may be cut by a crash or an I/O error.
  Correct: the state file is never torn; the saved list is the list once nothing is
  under way; a failed task never starts, and adding it again retries; a task on the
  list is never stuck without an error; the user's selection is what the client
  requests, what a save records and what a restart keeps; operations and goroutines end.
- **Crawler.** Reception, a bounded queue, workers and a periodic refill run at once;
  the store can fail. Correct: nothing is handled that has no row; what is resolved stays so; the recent set
  stays within its stated bound; a hash dropped by a full queue is picked up again.
- **TUI.** Messages are handled one at a time, but what they refer to (a hash, a
  Download pointer, a result index) may have been replaced in between, and a tick takes
  several snapshots while goroutines change the engine. Correct: the file view shows a live
  download; the list shows the engine's objects; the watchdog restarts what it has seen stalled for the
  whole threshold, or the retry of a failed task under that hash; finished tasks leave.
- **Search.** Producers race, the reader may stop, a new search does not stop the one
  before. Correct: producers end though nobody reads; the result list is what the
  indexers of the current search have sent, each torrent once, with the best seeders and every
  source; the final count waits for every indexer; pages partition the ranking.
- **`get`.** The command waits for metadata beside the goroutine that may give up on it.
  Correct: the wait ends, and its error names the cause.
- **Bootstrap.** Correct: one resolution, whose result every caller gets; it ends though no
  endpoint answers; the hardcoded addresses are the last resort.

`PROJECT.json` lists the hazards one by one, each at its line, with the properties that cover it.

## 2 The modules

| Module | Models |
| - | - |
| `TorrentClient` | External: the library's handles, as the engine uses them |
| `Engine` | The task list, the Downloads, `awaitMetadata`, persistence, sessions and crashes |
| `TaskList` | Abstract specification: what the engine promises about its list |
| `MCEngine` | `Engine` for TLC: symmetry, and the view that forgets finished Downloads |
| `EngineProofs` | The theorems about `Engine` |
| `InfoHashes` | The constants the crawler's modules share |
| `RecentSet` | `recentSet.seen` |
| `RecentWindow` | What the recent set promises, with two history variables |
| `IndexStore` | The index's rows and full-text table, as the crawler uses them |
| `Crawler` | Composes `RecentSet` and `IndexStore` with the receivers, the queue, the workers and the refill |
| `MCCrawler` | `Crawler` for TLC: symmetry |
| `RecentProofs`, `CrawlerProofs` | The theorems about `RecentWindow` and `Crawler` |
| `Tui` | The download list: keys, ticks, prune, watchdog, modal, delete prompt, add commands |
| `Results` | The adapters' results, the query filter, `DedupAndRank`, and what the merge promises |
| `Search` | `SearchStream` with its producers, and the search tab that shows it |
| `SearchCommand` | `p2pget search`: the blocking search and its pages |
| `Get` | `p2pget get`: add, `WaitInfo` beside `awaitMetadata`, the polling loop |
| `Bootstrap` | The start nodes: `sync.Once`, DoH queries, deadline, fallback |
| `P2pget` | Composes `Tui`, `Search`, `SearchCommand`, `Get` and `Bootstrap`, and names their properties |
| `MCP2pget` | `P2pget` for TLC: the servers' answers and the flags' values |
| `TuiProofs` | The theorems about `Tui` |
| `ResultsProofs` | Lemmas about the pure functions of `Results`: what the loops collect, what the merge keeps |
| `SearchProofs`, `SearchCommandProofs` | The theorems about `Search` and `SearchCommand` |
| `P2pgetProofs` | The theorems about `Get` and `Bootstrap`, and those of every part for the composition |

### Engine: state

| Variable | Code |
| - | - |
| `downloads` | `Engine.downloads`, a Download identity or `Nil` for each hash |
| `dl` | every `Download` of the session: `t` its handle, `skip` = `initialSkip`, `wanted`, `paused`, `err`, and `stage`, where its `awaitMetadata` is |
| `torrent` | the library's handles: hash, metadata known, open, files requested |
| `pc`, `job` | where each calling thread is inside an operation, and the operation's local variables |
| `stateMu`, `snap`, `recs` | the thread inside `persistState`, its copied list less what it has recorded, its records |
| `early` | history: those of the records that were made before their task had its selection |
| `tmpFile`, `stateFile` | contents of the two files: a record (the `Skip` list) or `Nil` for each hash, or `Torn` |
| `session`, `todo` | no process / inside `New` / running, and the records `restore` has still to add |

### Engine: actions

An operation is cut into steps where another thread can see it half done.

| Operation | Steps |
| - | - |
| `AddMagnet`, `AddInfoHash` and `addDownload` of the TUI | `AddTorrent` (the library's call), `Track`, the save, `AddPause` for "add paused" |
| `Remove` | `RemoveTake` (map entry deleted), `Drop`, the save |
| `Restart` | `RestartTake`, `RestartSnapshot` (metainfo and skip list), `Drop`, `RestartReadd` or `RestartRefused`, `Track`, the save |
| `persistState` | `PersistLock`, `PersistRead` for each task, `PersistWrite`, `PersistWritten`, `PersistRename`; `PersistFault` when the write or the rename fails |
| `SetPaused`, `SetFileWanted`, `SetAllWanted` | one step each, a critical section of `d.mu`, with the re-projection on priorities |
| `awaitMetadata` | `AwaitInfo`, `AwaitSelected`; `AwaitClosed`; `AwaitTimeout`, `AwaitDrop` |
| `New` and `restore` | `Boot` (what the file holds, or nothing when reading or parsing it fails), `RestoreTask` or `RestoreRefused` for each record, `RestoreDone` |
| `Close` | `Quit`, the save, `Exit`; `Crash` at any time instead |

Choices a reader of the code should know about:

- *Merged steps.* Taking `stateMu` and copying the map are one step: nothing but another
  `persistState` waits for `stateMu`, so a change of the map between the two is a change
  just before them. The two reads of `RestartSnapshot` are one step: whatever appears
  between them leaves the same skip list. `RestoreTask` is one step because no
  other caller runs inside `New`. Each such step is an action that the interleaving
  of the code can produce.
- *Reads of a Download inside a save* (`Files()`) are separate steps, one for each task: the
  selection may change while the list is being recorded.
- *Adds with known metadata* (`AddTorrentFile`, `AddTorrentURL`) are an add followed at once
  by `GotInfo`, a behaviour the model has; only `Restart`'s re-add with the metainfo is a step of its own.
- *The order in a save* is the map's, which Go leaves open: any.
- *`SetFileWanted` and `SetAllWanted` before `initSelection`* change nothing and are not steps.
- *Faults* are three: `"disk"` (the write or the rename of the state file fails), `"read"` (its read fails, or what was read does not
  parse, which `restore` takes for "no prior state") and `"readd"` (the library refuses the magnet or the hash of a task that is restarted or restored).
- *Adds during `Close`.* A command goroutine may begin and end an add while the event loop saves and closes; nothing in the code stops it.
- *A closed handle* requests nothing: its priorities are empty.
- *A leftover temporary file* of a failed save is truncated by the next save and never read, so it
  is forgotten when the save ends.
- *Nothing after a crash* survives but `stateFile`. The first one is any whole file, as an earlier session could have left it.

### TaskList

A task list without handles, locks or temporary files: each hash is absent,
waiting, active or failed; a save begins by fixing the list of that instant and
ends by replacing the saved set with it; a restart takes a task off and ends only when the task is back, put there by
itself or by an add that came in between; leaving, in order or not, loses all but the saved set; a new session starts with
exactly the saved set. What may go wrong depends on the constant `Faults`, and each fault has one price: with `"disk"` a save may leave
the saved set as it was; with `"readd"` a restart may end without its task, and a session may start without some of the saved
ones; with `"read"` it may start with none. So the same specification says two things: without faults nothing is
lost, and with a fault nothing is lost but what that fault costs.

`Engine` implements it (`ImplementsTaskList`) under the mapping at the end of the module.
It is this that rules out a save mixing two lists, a start-up that returns before it has
restored, a task that jumps from failed to active, and a task forgotten by a restart.

### Crawler: state

| Variable | Code |
| - | - |
| `active`, `old` | the two generations of `recentSet` |
| `row`, `newer`, `fts` | in the index: whether a hash has a row and is resolved; the order of `seen_at` among unresolved rows; how many rows of `torrents_fts` it has |
| `recv` | where each goroutine inside `enqueue` is (the DHT server's own, and those of announces) |
| `queue` | the channel `Crawler.seen` |
| `work` | where each `metadataWorker` is, its hash, whether its library handle is open and has the metadata |
| `refill` | where `replenishLoop` is, and what it has still to send |
| `running` | before `Start` / running / context done / DHT server closed as well |

### Crawler: actions

| Operation | Steps |
| - | - |
| `onQuery`, `onAnnouncePeer`, `enqueue` | `Receive` (`Hit` or `Miss` of the recent set), `Record` or `RecordFault` (the store), `Offer` (a send that never blocks) |
| `metadataWorker` with `FetchInfo` | `Fetch`, `FetchGot` or `FetchTimeout`, `Save` or `SaveFault`, `WorkerExit` |
| `replenishLoop` | `RefillTick`, `RefillSend` for each hash, `RefillExit` |
| `Start` and the process | `Start`, `Cancel`, `CloseServer`, `StartReturns`; `Crash` at any time instead |
| a peer | `GotInfo` |

Choices a reader of the code should know about:

- *The store's calls are steps*: it has one connection, and `SaveMetadata` is a transaction.
- *The age of a row* is the order of the calls. `seen_at` has a resolution of one second, and rows of
  the same second come in an order SQLite chooses; the model has the runs in which no two tie.
- *Receiving from the queue and adding the torrent* are one step, and so are the end of
  `FetchInfo` and its deferred `Drop`: between them a worker touches nothing another one
  reads, except the handle, which each order of the merged steps also reaches.
- *Handles* are kept by the workers: the library has one open handle for a hash, so two workers on one hash share
  `open` and `info`; after one has dropped it, the other waits on a closed handle that can
  get no metadata any more, and a third one gets a new handle.
- *The zero hash* is never received: both entry points discard it first.
- *`newRecentSet`'s default* for a capacity that is not positive is not used by the crawler.

### Tui: state

| Variable | Code |
| - | - |
| `dl` | every `Download` something points to: hash, metadata known, `wanted`, `initialSkip`, `paused`, `err`, `sampled` (`lastSample` is set), `stall` (the age of `stallSince`), `quiet` (history: how long it has shown no life) |
| `downloads` | `Engine.downloads` |
| `have`, `dead` | the environment: the files of each torrent that the client has complete, torrents whose peers are gone for good |
| `loop`, `rest`, `ticking` | which part of a tick the event loop is in, what is left of that part's snapshot, whether the next tick is armed |
| `due` | the Download the watchdog has found stalled and is about to restart |
| `dlList` | `Model.dlList`: the Downloads behind the list's items |
| `fileView` | the file modal: its Download and the files shown as wanted |
| `confirmDelete` | the hash the delete prompt is about |
| `adds` | the `addDownload` commands in flight |

### Tui: actions

| Operation | Steps |
| - | - |
| `refreshTickMsg` | `Tick` (`SampleRates`), `Prune` for each download and `PruneEnds` (`pruneCompleted`), `WatchdogSkips` or `WatchdogFinds` and then `WatchdogRestarts` for each (`restartStalled`), `Refresh` (`refreshDownloads`, the modal's files, the next tick) |
| keys of the list | `KeyRemove` (d), `KeyPause` (p), `KeyDelete` (D), `ConfirmYes`, `ConfirmNo`, `KeyFiles` (enter) |
| keys of the modal | `ModalToggle`, `ModalAll`, `ModalNone`, `ModalClose` |
| `addDownload` | `AddDownload`, `AddTracks` or `AddRefused`, `AddPauses` for "add paused", `DownloadAdded` (the message) |
| beside the loop | `GotInfo`, `InitSelection`, `MetadataTimeout`, `FileCompletes`, `PeersVanish` |

Choices a reader of the code should know about:

- *Engine operations are single steps*; `Engine` takes them apart. What is not a single step is
  a tick: each of its parts works on a snapshot of its own while the goroutines run on. The watchdog's look at a Download and its
  `Restart`, which goes by hash and asks nothing again, are two steps, for in between an add may pause the Download or
  replace a failed one, and the last piece may arrive. The prune's look and its `Remove` are one: none of these changes
  what the removal leaves.
- *The pause of an add* (`AddPauses`) goes to the Download that `track` returned, which may be an old task of the user's, and may
  have left the map by then.
- *Deletion by name.* `Remove` with data deletes what the torrent's name leads to: with the metadata the directory of its files, which
  another torrent may share; before it, a name out of the magnet. `Wipes` has every such set of torrents.
- *Identities and garbage.* The modal, the list, a snapshot and the map hold pointers; `sameDownloads` and
  the prune's exemption compare them. `Heap` keeps an identity as long as something
  points to it and frees it then, as Go's collector does. It also clears the clock and the pause of a Download that
  has left the map and the snapshot, which nothing reads again.
- *Time* is counted in ticks: a tick comes one to `MaxGap` units after the last, and
  ages stop at `Threshold`. `stallSince` is kept as its age at the last sample.
- *Rates* are one bit, whether a sample found life (bytes, or an active peer).

### Search, Results, SearchCommand

In `Search`, for each search g of the session, `ch[g]` is the channel of `SearchStream` (the indexers
whose chunk is in it), `reply[g]` what each producer has sent, `closed[g]` whether the
closing goroutine is through, and `waiting[g]` the `waitChunk` command: running, carrying a chunk or the end as a
message, or over. `Produce` is one indexer's goroutine, `CloseStream` the one that waits for all
of them; `WaitChunk` receives; `ShowChunk`, `EndSearch` and `DiscardChunk` are the handler of
`searchChunkMsg`; `StartSearch` is the enter key. A producer's request and its send are one step: nothing else
sees the time between.

`Results` holds the pure functions: `ResultOf`, one case for each adapter (which fields may be missing, where a
magnet may be, which hash is lower-cased, what is dropped as unusable), `FilterByQuery`, `DedupAndRank` with
`MergeResult`, and `Faithful`, the reference the merge is checked against, written without the loop and its keys.
An info-hash is the torrent it names and the case it is spelled in; a magnet is the torrent it starts and the one, if any, that the first 40 hex
digits in the link name, for that is what `infoHashFromLink` reads: the hash itself if it is spelled in hex and nothing like it comes before,
else none, or something else (a tracker's passkey, a v2 hash). A title is a set of words. `sort.Slice` is not stable, so the model has every order of equal seeders. The loops that append are
recursive functions over the position (`Kept`, `Dedup`), which the provers can unfold.

`SearchCommand` has one step for each indexer's critical section (`Reply`), `Rank` behind the last one, and
`PrintPage`. The page arithmetic is Go's: `Wrap` is the overflow of an int whose largest value
is `MaxInt`, and a negative first index panics.

### Get, Bootstrap

`Get` follows one `p2pget get`: `command` is where the command is, `awaiter` where `awaitMetadata` is; `known`,
`dropped` and `failure` are `GotInfo`, `Closed` and `Download.err`. `WaitInfo` is a select of three cases
(`InfoArrived`, `TorrentClosed`, `Cancelled`) beside the select of `awaitMetadata` (`AwaiterSelects`,
`AwaiterTimesOut`), whose error and drop are two steps.

In `Bootstrap`, `once` and `runner` are the `sync.Once`, `host` and `endpoint` the loops of `resolveBootstrapNodes` and `dohLookup`,
`found` what they have resolved, `asked` (history) the queries that failed by themselves. `QueryEnds` is a query that ends before the
deadline, `Expire` the deadline, `QueryCancelled` a query after it, `Finish` the
end of the function, `Return` the end of a caller's `Do`.

### P2pget

The five modules share no state: `get` and `search` are commands of their own, and the two tabs of the TUI
meet only in the add command, which `Tui` lets come at any time and for any hash. So a behaviour of `P2pget`
follows one of them (`activity`) and leaves the rest at a start: every behaviour of each part is there, and
the products of unrelated interleavings are not. Where a part has a module of theorems, `P2pget` instantiates that one (which
extends the part's), so that they can be cited of the instance. What the parts share with `Engine` is there in the
small: `Tui` and `Get` have the engine's operations as single steps.

## 3 What the runs check

| Run | Instance | Checks |
| - | - | - |
| `engine_faults` | 1 hash, 2 files, 1 adder, 2 Downloads and handles a session; all three faults; timeout | `TypeOK`, `StateFileNeverTorn`, `FailedNeverStarts`, `PriorityFollowsSelection`, `SavedSelectionExact`, `ImplementsTaskList` |
| `engine_saves` | 2 hashes, 1 file, 1 adder, 2 Downloads and handles; no faults; timeout | `QuiescentStateFileMatches`, `AddRetriesFailed`, `ImplementsTaskList` |
| `engine_live` | 1 hash, no selection, disk errors, timeout disabled, fair | `OperationsEnd`, `AwaitEnds` |
| `engine_quit`, `engine_hang`, `engine_keep` | 1 hash, 1 file | three disagreements of section 6 (each run is expected to be violated) |
| `crawler` | 3 hashes, 2 receivers, 1 worker; recent set and queue of 1, refills of 2; no store errors | `TypeOK`, `SwallowedIsRecorded`, `HandledIsRecorded`, `SearchableOnce`, `RowsOnlyAdvance` |
| `crawler_live` | 2 hashes, 1 receiver, 2 workers; queue of 1, recent set of 2, refills of 1; store errors; fair | `FetchEnds`, `QueueServed`, `StopCompletes` |
| `recent_window` | 6 hashes, capacity 2 | `RemembersWindow` |
| `crawler_refill`, `recent_bound` | 2 hashes, refills of 1; 6 hashes, capacity 2 | two disagreements of section 6 (expected to be violated) |
| `p2pget` | TUI: 1 hash, 2 files, 4 Downloads alive at once, 1 add command, threshold of 2 ticks, gaps of 1 or 2, refused re-adds. Search: 2 indexers, 2 queries, 2 searches, 4 torrents. Command: ints up to 31, 5 page sizes and pages. `get`: 2 files. Bootstrap: 2 callers, hosts and endpoints. Fair | the 18 properties below |

What the properties say:

- `StateFileNeverTorn`: no crash, disk error or second saver leaves a half-written state file.
- `QuiescentStateFileMatches`: when every operation has returned, the hashes on disk are
  those of the map. Operations change the map in one order and save in another; the
  property says that the last save always carries the last list.
- `SavedSelectionExact`: when `Close` is about to put its save in place, each record is the selection the user has made of the task by
  then, never a stale or a mixed one, though adds, timers and `initSelection` run on meanwhile. Only a record made before the task
  had its selection in this session (the history variable `early`) is empty instead; without that exception it is
  `CleanQuitSavesSelection`, which is violated. Two files, so that there are selections to mix.
- `ImplementsTaskList`: see [TaskList](#tasklist). `engine_saves` checks it where nothing may be lost, `engine_faults` where each fault may cost
  what the abstract list allows it.
- `PriorityFollowsSelection`: what the client requests is the selection and the pause of the
  listed Download, though four kinds of writers race and old and new Downloads may share a handle.
- `FailedNeverStarts`: a listed task that timed out never gets a selection, even if its metadata
  was ready together with the timer, and its handle is closed once its goroutine has ended.
- `AddRetriesFailed` (action property): what an add or a restart tracks has not failed.
- `OperationsEnd`, `AwaitEnds` (liveness): every operation returns, in spite of disk errors
  under a mutex held over file I/O; `awaitMetadata` ends once its handle is dropped, by
  whichever thread, with the timeout disabled.
- `SwallowedIsRecorded`: deduplication loses nothing. The recent set turns a hash away before the store
  has it; then some receiver is on its way to the store with it. True without store errors only:
  after an error the code gives the hash up until it is evicted.
- `HandledIsRecorded`: what is queued, fetched or about to be refilled has a row, though a
  refill works from what it read earlier.
- `SearchableOnce`, `RowsOnlyAdvance`: a hash that is evicted, seen and fetched again, or fetched by two workers at
  once, keeps its resolved row and its one full-text entry.
- `FetchEnds`, `QueueServed`, `StopCompletes` (liveness): no worker waits for ever, also on a handle
  another worker has dropped; what is queued is fetched; after its context ends `Start` returns.
- `RemembersWindow`: the recent set recognises a hash as long as at most its capacity of others were
  seen since. It is what the promotion on a hit is for: without it, the property fails.

Of the run `p2pget`, by part:

- The list. `ListFresh`: between two messages the screen shows the engine's objects, so that a key acts on
  what is listed; a restarted task under its old hash counts as another one. `ModalKeepsLive`: the modal's Download stays in the
  engine while its ticks prune and restart, unless it failed. `RestartedWasStalled` (action property): when the watchdog replaces a healthy task, the Download it had looked at
  has its metadata, has shown no life for the whole threshold, and is that task, or a failed one that an add of the hash has replaced
  since. It may have been paused since the look, but only by an add that has not reported yet, and it may have completed:
  `Restart` asks nothing again. `DoneIsPruned`, `StalledIsRestarted` (liveness): the chain
  of ticks never breaks, and each finished or stalled task is served.
- The search tab. `ShownIsAccumulated`: the rows and errors shown are exactly those of the chunks of the current search
  handled so far, merged as `Faithful` says.
  `FinalIsComplete`: the final count waits for every indexer. `ProducersEnd`, `SearchCompletes` (liveness): no
  producer blocks on a search that was superseded, and the current one comes to its end.
- The search command. `RankingIsComplete`: the ranking stands for every answer, in every order of the
  goroutines. `PagesPartition`: each row is on one page, and the page count and the out-of-range message agree with
  the pages, as long as the page's last index fits an int. `SearchReturns` (liveness).
- `get`. `FailureIsExplained`: whoever waits for a torrent that is given up learns why, because the error is
  recorded before the drop. `WaitInfoEnds` (liveness): the wait ends though the metadata never comes.
- Bootstrap. `NodesComplete`: every caller gets the same addresses, at least one. `FallbackIsLast`: the hardcoded ones only after
  the deadline or when all else was asked. `BootstrapEnds` (liveness): with endpoints that never answer.

Bounds. `DownloadIds` and `TorrentIds` bound the Downloads and handles one *session* creates
(the number of sessions is not bounded). The guard `RoomToAdd` keeps an operation from
starting when the identities it will need could run out, so that no operation is cut
short by the bound. Two of each are enough for each pair that
the properties speak of: an old and a new Download of a hash (a failed one and its retry,
a restarted one and its successor), or two tasks in one save. One adder and the managing thread give the races between a command
goroutine and the event loop; two adders, or three Downloads with files and faults, exceed five
minutes. The theorems of section 5 cover any number of both, also where
a removal, an add and a restart of one hash overlap.

In `crawler` a recent set and a queue of one fill and overflow at once, so three hashes give a full
queue, a rotation and an eviction while two receivers race; refills of two send a list one of whose members is resolved in
between. In `crawler_live` two workers are what it takes to share a handle. In `recent_window` six
hashes are three times the capacity: enough to fill both generations and to evict.

In `p2pget` four Downloads are all one hash can have alive (in the map, on the screen, in a
snapshot, in the modal), so `FreeDownloads # {}` never holds anything up; tasks of other hashes share nothing with this
one but the tick, whose parts treat them one by one. A threshold of two with gaps of one and two has a clock
that is short of it, reaches it and jumps over it. Two searches are one superseded and one current. The
answers hold a torrent in both spellings of its hash and with different seeders and sizes, one known by a base32 magnet alone, one with a malformed hash and a magnet, and an
item with neither, and a link whose first 40 hex digits name another torrent; the two indexers are the adapters that differ most. Page sizes and pages cover the default (0), 1, an inner and a last page,
one beyond the last, and the largest int. `CHECK_DEADLOCK` is off in this run: commands and searches end.

`MCEngine!Visible` is a VIEW that collapses a Download that is over (goroutine ended, not in the map, in no
operation and in no save under way) and its closed handle: nothing reads them
again. `Symmetry` permutes hashes, files and adders, not the identities `CHOOSE` picks.
`engine_live` uses neither.

## 4 Fairness

`FairSpec` assumes weak fairness of every step a thread takes on its own once its
operation has begun, of every step of `awaitMetadata` (its timer included, where enabled) and of
`restore`: the Go scheduler runs every runnable goroutine, timers fire, and file-system
calls return. `PersistLock` is strongly fair, because `sync.Mutex` switches to
starvation mode and hands itself to a goroutine that has waited for 1 ms, so a waiter is not
overtaken forever. Nothing is assumed about users, peers, faults, crashes or starting the program.

`Crawler!FairSpec` assumes weak fairness of each receiver inside `enqueue`, of each worker, of the replenish
loop, and of `Start` after the end of its context. A worker's fetch has its own deadline
(`MetadataTimeout`), which is why `FetchTimeout` is among a worker's steps. Nothing is assumed of DHT
traffic, of peers, of the store's success, or of the user.

`P2pget!FairSpec` has one weak fairness condition for each kind of work of the activity that is followed: an armed tick comes
and the handler of a message runs to its end (bubbletea's loop serves its queue); some stream goroutine that can run
does; a message that has come is handled; an indexer's request ends, with an answer or at the aggregator's timeout; the command
goes on; `awaitMetadata`, `WaitInfo`, the DoH loop and the deadline's timer run. These are
weaker than fairness of each goroutine, which Go's scheduler gives, so what holds under them holds under that. Nothing is assumed of
users, of peers, or of what a server answers.

## 5 What is proved

**The engine.** `EngineProofs`, for every number of hashes, files, threads and identities, from the assumptions
`Engine` states on its constants (`Nil` and `Torn` are no hash, no set of hashes and no identity, known names of faults):

| Theorem | Statement |
| - | - |
| `TypeCorrect` | `Spec => []TypeOK` |
| `StateFileWhole` | `Spec => []StateFileNeverTorn`, with crashes, disk errors and any number of savers |
| `NoLostSave` | `Spec => []QuiescentStateFileMatches`, assuming `Faults = {}` |
| `FailedStaysIdle` | `Spec => []FailedNeverStarts` |
| `RetryIsFresh` | `Spec => AddRetriesFailed` |
| `TaskListImplemented` | `Spec => ImplementsTaskList`: the engine refines `TaskList`, for every set of faults |
| `PrioritiesFollow` | `Spec => []PriorityFollowsSelection` |
| `ClosingSaveExact` | `Spec => []SavedSelectionExact`, assuming `OneManager` |

*Files.* `TypeOK` is not inductive: a step reads the operation's local variables, so
`JobInv` says which of them are set at each label, `ListInv` that a listed Download
has a handle, and `SessionInv` that no caller runs outside a session and that `restore` adds only what
the file holds. `SaveInv` says that a thread in `persistState` holds `stateMu` (so there is
one), that it has recorded everything before it writes, and that what it renames is
what it recorded; `StateFileNeverTorn` follows. These together are `Inv`, proved
inductive with one lemma for each group of actions (`TypeAdd`, `TypePersist`, `TypeManage`,
`TypeSelect`, `TypeAwait`, `TypeSession`, `SaveStep`).

*The saved list.* `QuiescentStateFileMatches` speaks of quiet states only, and says nothing the
next step could use. The strengthening `ListSaved` says that at any time *somebody has yet to
take the list* (an operation is before its save's lock), *or the one who is saving took the list as it
still is, or nobody is saving and the file is right*. A change of the map makes the first
disjunct true; taking the lock makes the second one true; the rename turns the second into the
third (`QuietInv` is this and `Inv`). With a disk error or a refused re-add the property fails, as it must
(the errors are dropped by the code), and so does it after a read error or a refused record, hence the assumption.

*Tasks.* The next five theorems need to know what the Downloads may look like, which is `TaskInv`: each Download
is consistent with the stage of its `awaitMetadata` (`DownloadsInv`: with an error it has no selection, and once that goroutine is over its
handle is closed); a listed Download has the hash it is listed under (`ListedInv`); a handle an
operation carries is one the library has given out for that operation's hash (`HandleInv`); and what `restore` has
still to add is not on the list (`RestoreInv`). `FailedStaysIdle` is a
consequence. `RetryIsFresh` speaks of a step: `Track` either registers a new Download, which has not failed, or leaves the old one,
which the code does only if it has not failed either.

*The refinement.* The mapping reads a hash as absent, waiting, active or failed off the map and the listed Download, the
list being saved off `snap` and `recs`, and the saved set off `stateFile`. `TaskListImplemented` goes action by action. The `Image` lemmas state what
happens to the mapped variables when a Download, the map or the session's state changes; most of the engine's
steps are then stutters, `Track`, `RemoveTake`, `RestartTake`, `AwaitInfo` and `AwaitTimeout` change one hash, `PersistLock` and
`PersistRename` begin and end a save, `Exit` and `Crash` lose what is not saved. That a restart ends with its task on the list is the
`Track` it ends with; that a session starts from what was saved needs `RestoreInv`: what is
neither on the list nor still to add was refused. `Faults` is the same set on both sides, so the theorem covers the engine without
faults, which loses nothing, and with any of them.

*Priorities.* `ShareInv` says who may write a handle's priorities: an open handle with an
unfailed, listed Download has no other Download that could still start it (`OpenInv`), and a
Download past its selection has projected on it exactly what it wants, unless paused (`PrioInv`). The awaiting goroutine
of a Download that was removed, and its successor on the same hash, are why this is an
invariant about all Downloads and not about the listed one.

*The last save.* For `ClosingSaveExact`, `CloseInv` adds to the invariants above that after `Quit` nobody but `Close` manages
tasks (`QuitInv`), and that the records its save has so far are the selections the Downloads have now, or an empty skip list
made before the task had its selection (`Exact`; the history variable `early` remembers which those are). It holds with every fault: an error loses
the save, not its exactness. `OneManager` is what
the code has: removals, restarts and selections come from the TUI's event loop, which is also what calls `Close`. With two
managers a selection could change between its record and the end of the save.

**The terminal UI.** `TuiProofs`, for every number of hashes, files, identities and commands in flight, and every threshold, from `TuiAssumption`:

| Theorem | Statement |
| - | - |
| `TypeCorrect` | `Spec => []TypeOK` |
| `ScreenIsFresh` | `Spec => []ListFresh` |
| `ModalIsLive` | `Spec => []ModalKeepsLive` |
| `RestartIsJustified` | `Spec => RestartedWasStalled` |

The one invariant behind them (`Inv`) has ten parts. `TypeOK` and `Keyed` say that pointers lead to Downloads, and the map's entry for a hash to a
Download of that hash. Call a Download *current* if the map has it for its hash, or it has failed (then the
map may have another one, added since). `RestInv`: the snapshot a part of a tick works on has one
Download for each hash, and what is left of it stays current, though `addDownload` commands and
the goroutines of metadata run on; without it the prune could remove a newer task than it looked at. `ShownInv`: what the screen lists is current,
so the modal opens on something current; `ModalInv`: it stays so while the modal is open, because the
prune spares that Download and the watchdog replaces the modal's pointer with the task's. `InputInv`: the modal and the delete prompt exclude each
other, so that no deletion comes under the modal. `ClockInv`: the stall clock never exceeds the time without life. `AddInv`:
an adder that is still to pause a Download points to one of the hash it adds. `DueInv`: the Download the watchdog has found stalled
has its metadata and a stall clock past the threshold until the restart, and if it is paused, an add of its hash has done it and has not
reported yet; `RestartIsJustified` follows from this and `ClockInv`. `ListFresh` is part of the invariant itself. The steps that collect garbage are handled once (`Collected`, `HeapSame`,
`HeapFresh`): whatever `Heap` frees, nothing in the invariant points to.

`TuiAssumption` says that the bound on identities admits one for each hash (the initial list needs them), besides the kinds of the numbers.

**The recent set.** `RecentProofs`, for every set of hashes and every capacity:

| Theorem | Statement |
| - | - |
| `WindowKept` | `Spec => []RemembersWindow` |

The invariant adds to the types two facts: of a hash that is only in the old generation, all of the
active one was seen since (`OldBehind`); of a hash in neither, more than the capacity was
(`Forgotten`). A rotation happens when the active generation is full, so the hashes it discards have a full active
generation behind them, and the one being inserted.

**The crawler.** `CrawlerProofs`, for every number of hashes, receivers and workers, every capacity and batch, and with
store errors unless stated:

| Theorem | Statement |
| - | - |
| `TypeCorrect` | `Spec => []TypeOK`, the queue's bound included |
| `HandledRecorded` | `Spec => []HandledIsRecorded` |
| `SearchedOnce` | `Spec => []SearchableOnce` |
| `RowsAdvance` | `Spec => RowsOnlyAdvance` |
| `DedupLosesNothing` | `Spec => []SwallowedIsRecorded`, assuming no store errors |

The invariant is `TypeOK`, `SearchableOnce` and `PipelineInv`: every hash a receiver offers, the queue
holds, a refill has still to send, or a worker has in hand, has a row. It is inductive because rows
are never removed (`RowsKept`). `RowsAdvance` needs it too: `Save` resolves a row only because the worker's hash has one,
and `SearchableOnce` survives a save for the same reason. There is one lemma for each thread
(`ReceiverKeeps`, `WorkerKeeps`, `RefillKeeps`, `SessionKeeps`, `GotInfoKeeps`). `DedupLosesNothing` is a second induction on top
(`SwallowKept`): only a receiver that holds the hash can end its being recorded, and it does so by recording it.

**The data of a search.** `ResultsProofs`, for every list of results and every answer of a server. The promise is
`Faithful(in, out)`: the rows `out` are ranked, each result of `in` has exactly one row of its torrent, and a row carries the most
seeders, every source, and a magnet and a size if a result of its torrent had one. It says nothing of keys or of the order of `in`; that
the code keeps it is an induction over the loop of `DedupAndRank`.

| Lemma | Statement |
| - | - |
| `LoopExists` | a recursive function over `0 .. N` is what its definition says at every position |
| `KeptGood` | a loop that appends what passes a test returns exactly that |
| `KeyOfTorrent` | two results have one key exactly if they are of one torrent |
| `InsertGathers`, `DedupGathers` | one more result joins the row of its torrent or opens one, and no row loses anything (`Gathered`); so after the whole list |
| `Permutation`, `RankingFaithful` | any order by seeders of what `Dedup` returns is `Faithful` |
| `AdapterResults`, `FilterType` | what the adapters return and the filter leaves are lists of results |

The library's induction theorems take an operator, so the induction is stated for sets: `Induction` (a set that has 0 and every
successor has every natural number) comes from the well-foundedness of `<`. The recursive functions are unfolded by
`LoopExists`, which is itself such an induction: it builds the function on `0 .. n` from the one on `0 .. n - 1`.

The assumption is `ResultsAssumption`: `Nil` is no hash, magnet or list.

**The streaming search.** `SearchProofs`, for every set of indexers, answers and number of searches:

| Theorem | Statement |
| - | - |
| `TypeCorrect` | `Spec => []TypeOK` |
| `FinalCountComplete` | `Spec => []FinalIsComplete` |
| `AccumulatedShown` | `Spec => []ShownIsAccumulated` |

The invariant follows the end of a stream to the screen (`EndInv`): a closed channel has all of its producers behind it, so nobody sends any
more; the end is received only from a closed channel that is empty; the final count stands only while that
holds of the current search. That needs nothing of the answers. The rows do: `QueueInv` says that a chunk is in the channel
or in a message at most once, and only after its producer has sent it, so that the chunks handled (`Handled`) grow by the one the handler has in
hand; `ScreenInv` that the accumulated list has exactly the results of the handled chunks, and the rows shown are its
ranking (`RankingFaithful`). A superseded search changes neither.

**The search command.** `SearchCommandProofs`, for every set of indexers and answers, every `-n` and `-page`, and every width of an int above 20:

| Theorem | Statement |
| - | - |
| `TypeCorrect` | `Spec => []TypeOK` |
| `CompleteRanking` | `Spec => []RankingIsComplete` |
| `PagesCover` | `Spec => []PagesPartition` |

`ListInv` says that the shared list has exactly the results of those that answered without an error, in whatever order, and that past `wg.Wait` it is
complete and its ranking `Faithful`. `PageInv` says which rows are printed. The rest is arithmetic: as long as the page's last index fits, no `Wrap`
does anything (`WrapSmall`, `Bounds`), row k is between the page's bounds exactly if `(k - 1) / n` is the page's number
(`QuotientIs`, `RowsOfPage`), the count of pages covers the last row and no more (`PagesCounted`), and the message about the range
comes exactly beyond it (`RangeChecked`).

**`get`.** In `P2pgetProofs`, for every set of files: `TimeoutIsReported` (`Spec => []FailureIsExplained`).
The invariant (`GettingInv`) says that a torrent dropped while the command waits was dropped by `awaitMetadata` after it recorded the error (`DropInv`).

**Bootstrap.** In `P2pgetProofs`, for every number of callers, hosts and endpoints:

| Theorem | Statement |
| - | - |
| `SameNodes` | `Spec => []NodesComplete` |
| `LastResort` | `Spec => []FallbackIsLast` |

`LastResort` speaks of the end only. Its invariant (`AskedInv`) speaks of every query: as long as nothing is found and the
deadline has not passed, the queries that failed are exactly those before the one under way, in the order of the two loops (`Before`); `BeforeNext` says that
going on adds one. `OnceInv` says that nobody has addresses before the resolution is over.

**The composition.** `P2pgetProofs` states of `P2pget!Spec`, which the run `p2pget` checks, all of its safety properties: `TypeCorrect` (the types of
the five parts), `ScreenIsFresh`, `ModalIsLive`, `RestartIsJustified`, `FinalCountComplete`, `AccumulatedShown`,
`CompleteRanking`, `PagesCover`, `TimeoutIsReported`, `SameNodes` and `LastResort`. In the variables of a part, each step
of the composition is a step of the part or leaves them alone (`DownloadsPart`, `SearchTabPart`, `SearchingPart`, `GettingPart`, `StartingPart`), so that
`P2pget!Spec` implies each part's specification and inherits its theorems.

The assumptions of these are `TuiAssumption`, `SearchAssumption`, `SearchCommandAssumption`,
`GetAssumption` and `BootstrapAssumption`, which `P2pget` states and its run evaluates.

Every safety property that a passing run checks is stated by a theorem. Liveness under fairness is out of the prover's reach
and only model-checked: `OperationsEnd` and `AwaitEnds` of the engine, `FetchEnds`, `QueueServed` and `StopCompletes` of the
crawler, `DoneIsPruned`, `StalledIsRestarted`, `ProducersEnd`, `SearchCompletes`, `SearchReturns`, `WaitInfoEnds` and `BootstrapEnds` of `p2pget`.

## 6 Disagreements found

Each is a run whose single property restates a comment of the code, and fails.

- `engine_quit` / `CleanQuitSavesSelection`. `persistState` takes the skip list from `Files()`,
  which is empty before the metadata is there (`engine.go:469`). A task restored with a
  partial selection whose metadata has not yet come is written without it by the next save, and the
  following session downloads everything; `engine.go:448-449` says the selection survives.
- `engine_hang` / `TrackedNeverHangs`. An add that gets the shared handle from the library just before another thread
  drops it (a timeout between `setErr` and `Drop`, or `Remove` between the map and `Drop`)
  tracks a dead handle without an error, and each later add returns the same Download;
  `engine.go:263-265` says re-adding actually retries.
- `engine_keep` / `RestartKeepsSelection`. A restart while existing data is being verified sees the metadata
  but no selection yet, and loses the restored skip list; `engine.go:382-383` says it preserves the selection.

- `recent_bound` / `RecentBounded`. Promotions ignore the capacity (`recent.go:34`), so the two
  generations can together hold more than `2 * cap`, which `recent.go:5-7` states and
  `recent_test.go:36` asserts for insertions alone.
- `crawler_refill` / `OfferedIsQueued`. A refill asks for the unresolved hashes seen last
  (`crawler.go:174`), so a hash the full queue dropped may never be among them; `crawler.go:127` says that the loop will pick it up later.

Not claimed as disagreements, for no text of the repository says otherwise, but worth knowing; each is a behaviour of the models or was met while reading:

- The first DoH endpoint, if it hangs, uses up the eight seconds all queries share, so that the backup endpoint and the
  other hosts fail at once (`bootstrap.go:67`, `117-118`).
- "D", then "y" after a prune in between, reports a failed deletion, and the files stay.
- A paused download's stall clock runs on, so one resumed after the threshold may be restarted by the next tick.
- A download with no file selected has no bytes to complete: it is never pruned, and restarted again and again (`app.go:419`).
- Prune and watchdog act on the hash of the Download they looked at, which an add may have replaced (`app.go:437`, `481`). The watchdog may also restart
  a task that an add has just paused, which loses the pause, or one that has just completed.
- The pause of an "add paused" goes to the Download that the add got: an old task of the user's is paused by it, and if the task has been
  restarted since, the pause is lost.
- A state file that cannot be read or parsed starts an empty session, and its first save replaces the file (`engine.go:496`); a record the library
  refuses is left out, and gone with the next save (`engine.go:508`).
- A Jackett result without a hash takes the first 40 hex digits anywhere in its magnet for one (`nyaa.go:135`, `jackett.go:115`), so a row may show, and be merged
  by, a hash that is not what its magnet starts.
- A page whose index overflows an int panics (`main.go:250`).
- When metadata and timer are ready together, `get` can see the first while `awaitMetadata` obeys the second, and then polls a dropped torrent
  until it is interrupted (`main.go:322`). A torrent without content never counts as complete.
- A Jackett result with a malformed hash and no magnet is listed, though adding it fails.
- Removing a task with its data goes by the torrent's name (`engine.go:376`), which two tasks can share; before the metadata it is the magnet's, and
  the task's own files may stay.

## 7 Sanity variants

An operator `Action_Variant` right before `Action` is the same step with a plausible bug (a save that does not lock,
an error return that keeps the mutex, a timeout that keeps waiting, a record that inverts the selection, ...). No
specification uses them. `PROJECT.json` pairs one with each property of each run: with the variant in place of the
original, TLC finds the property violated, so each property can fail.

## 8 What is not modelled

- Names, sizes and magnet URIs, hence which torrents share a name (in `Tui` a removal with data may take the files of any); piece verification itself
  (only the window it opens), the value of rates and ETA, DHT statistics, rate limits.
- Engine construction: sequential work on the data directory, with no state afterwards.
- Adapters: the requests, the decoding of foreign formats, and the parsing of sizes and dates; their choice of hash and magnet is in `Results`. Rendering: layout only.
- FTS ranking, which is SQLite's.
- `Stats` and `Search` of the index: reads.
- TUI: tabs, focus, cursors and the totals line. A re-sorted list under the cursor (`app.go:306`) is therefore a hazard without a property.
- Command line: flag parsing, `dht-status`, and output other than the page of results.

A crash is the loss of everything but the state file at a step boundary; `rename` is atomic, as POSIX promises. A power loss that reorders
the rename and the data of the temporary file (the code does not call `fsync`) is not modelled.

## 9 Plan

Done: `Engine` with `TaskList`; `Crawler` with `RecentSet` and `IndexStore`; `Tui`, `Search`, `SearchCommand`, `Get` and `Bootstrap`, composed by
`P2pget`; the theorems of section 5, one for each safety property of the runs. What is left is in section 8.
