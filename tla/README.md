# Formal models of my-no-sql-server-grpc

TLA+ models of the server in `server/src`, an in-memory database of tables,
partitions and rows, served over gRPC, that writes what changed to disk behind
the writes and feeds every change to subscribed readers; of the tools it gives
agents; and of the browser UI in `ui/src`. The models are checked with TLC on
small instances; for the parts that carry the most, TLAPS proves the
invariants for every size.

Paths below are relative to `server/src` unless they start with `ui/` (for
`ui/src`) or `proto/`, or name `DESIGN.md`. `PROJECT.json` gives, for every
definition, the lines it stands for.

## 1. The system

| Component | State | Operations | Interacts with |
|---|---|---|---|
| **Page files** (`persist/files_repo*.rs`, `slot.rs`, `size_class.rs`) | one file per size class; in memory an index, free lists, a version counter | save, delete, vacuum (remove dead files, compact half-empty ones), recovery scan | called by persist passes, under a mutex; the state survives the process |
| **Persist queue** (`persist/markers/`) | per table: metadata moment, partition moments | mark, get_task, take_all | marked by writers, drained by passes |
| **Write-behind** (`operations/persist.rs`, `shutdown.rs`, `init.rs`, `background/persist_timer.rs`) | `persist_lock`, the pass under way | timer tick, flush, shutdown drain, load at start | queue, tables, page files |
| **Writes** (`db_operations/write/`, `db_operations/gc.rs`) | the tables (`DbTable`, in the core crate) | row, bulk, partition, table calls; collection of expired rows | change the table under its lock, then mark, then announce |
| **Schemas and versions of rows** (`db_operations/write/build_db_row.rs`, `gc.rs`, the row calls of `grpc_server/writer_grpc_service.rs`) | schemas by id in a table, a TimeStamp on each row | register with the first row, collect unused; insert, replace, insert if new, bulk streams | metadata is marked when a schema is new |
| **Namespaces** (`app/db_namespaces.rs`, `db_operations/write/namespace.rs`) | name -> namespace with its tables, queue and folder | get_or_create, delete, move_table | every call resolves one; folder removed under `persist_lock` |
| **Sync to readers** (`db_operations/sync.rs`, `reader/`, `grpc_server/reader_grpc_service.rs`) | sessions: subscriptions, queue of chunks, overflow flag, notification | greeting, subscribe, get_change (long poll), enqueue, expiry | announced to by writes; polled by readers |
| **Transactions** (`transactions/`, `grpc_server/writer_grpc_service.rs`) | registry of transactions and their actions | start, post (a stream), commit, cancel, expiry | commit is one visit of a table |
| **Backups** (`db_operations/backup.rs`, `persist/backup/`, `background/backup_timer.rs`) | archives, reserved names, when the last was taken | make, upload, restore, timer, retention | reads tables; restores through bulk writes |
| **Write windows** (`app/write_window.rs`) | how long each is still open, one for the tools and one for the UI | open, close, lapse | asked by MCP tools, by the restore route, by the UI before a delete |
| **MCP tools** (`mcp/`) | none; each call is gate, table, schema, write | get_rows, insert, bulk insert, delete, restore | JSON view, write window, tables |
| **JSON view** (`json_view/`) | a cache of resolved schemas | row to JSON, JSON to row | MCP tools, HTTP rows |
| **HTTP controllers** (`http_server/`) | none | requests mapped onto the operations above | UI |
| **UI settings** (`app/ui_settings.rs`, `set_settings_action.rs`) | `ui-settings.json`: two thresholds | load, patch, save | settings page |
| **Web UI** (`ui/src/pages/`) | one state per page, the URL, the tasks a page has spawned | clicks, polls, loads, dialogs | HTTP controllers; other tabs through the browser's storage |
| **Migration** (`db_operations/migrate.rs`), monitoring, server settings | none the database depends on | | |

The core crate (`DbTable`, `DbInstance`, row indexes) is a dependency outside
the repository; it is modelled from how the server uses it: a table changes and
answers under its own lock.

### What is hard, and what makes each part correct

* **Crashes between disk steps.** A save writes one slot and then frees
  another; a compaction copies and then truncates; the recovery itself writes.
  Correct: every partition is after a restart what its last returned call made
  it. A strict start (without `SkipBrokenPartitions`) may refuse, never lose.
* **Nothing is atomic across a request.** Change, mark and announcement are
  three steps on a thread of their own, beside other requests, the persist
  timer, a flush and the shutdown drain. A table object outlives its name: a
  request that resolved it goes on using it. Correct: what nobody owes the disk
  is on the disk; a flush and a shutdown leave behind only what came later.
* **Names outlive what they name.** A namespace can be deleted while a request
  holds it, and opened again on the folder that is being removed; a move
  publishes a table over whatever took the name meanwhile. Correct: an
  acknowledged row stays reachable, both ends of a move reach the disk, a pass
  never meets a folder that a deletion took.
* **Schemas come and go under the rows that name them.** The id is looked up
  when a message arrives and the row inserted later, by when the collector has
  walked the table. Correct: a stored row is shown in the shape it was written
  in, and a replace overwrites only what its client has read, for as long as no
  TimeStamp comes up twice.
* **Readers join at any moment**, to tables that do not exist yet, are deleted,
  come back; queues overflow, sessions expire, polls time out. Correct: no
  change falls between snapshot and queue, no poll sleeps on a filled queue,
  batches arrive whole, and a reader that keeps asking catches up.
* **A transaction is held by handlers after its id is gone.** Correct: applied
  once at most, whole posts only, with everything acknowledged before the
  commit was called.
* **Archives share nothing but a folder.** Names are taken by creating a file;
  the timer removes what was answered to somebody a moment ago; a restore meets
  a table that was dropped. Correct: a reservation lasts as long as its write,
  an archive until enough newer ones are there, restored rows have schemas.
* **A permission that runs out.** Correct: nothing is written that nobody had
  the window open for at some moment of the call.
* **A page is written by tasks nobody waits for.** An answer may be about a
  table, a page or a dialog the user has left. Correct: what is shown belongs to
  the URL, what is offered for deletion was ticked, and nothing loads for ever.

The hazards, each at the line where it bites and with the properties that watch
it, are in `PROJECT.json`.

## 2. The modules

```
PartitionStore        what the page files promise
  ^ refines
PageFiles             slots, index, vacuum, recovery, crashes        (MCPageFiles)
  ^ EXTENDS
PageFilesProofs       theorems, with the refinement

PersistMarkers        the persist queue, as operators
  ^ EXTENDS
WriteBehind           requests, passes, restart                      (MCWriteBehind)
  ^ EXTENDS
WriteBehindInvariant  its inductive invariant
  ^ EXTENDS
WriteBehindProofs     theorems

Namespaces            names, folders, moves, deletions, passes       (MCNamespaces)
  ^ EXTENDS
NamespacesProofs      its invariant; theorems

RowWrites             versions and schemas of rows; its invariant    (MCRowWrites)
  ^ EXTENDS
RowWritesProofs       theorems

ReaderSync            writers, sessions, readers                     (MCReaderSync)
  ^ EXTENDS
ReaderSyncProofs      its invariant; theorems

AtomicTransactions    what the transaction calls promise
  ^ refines
Transactions          registry, posts, commits, collection           (MCTransactions)
  ^ EXTENDS
TransactionsProofs    theorems, with the refinement (also of McpTools)

Backups               archives, names, the timer, restores           (MCBackups)
  ^ EXTENDS
BackupsProofs         its invariant; theorems (also of SnapshotsPage)

SchemaIndex           what a schema is resolved to, as operators
  ^ EXTENDS
JsonView              rows to JSON and back, as operators
McpTools              tools, gate, schemas, collection
  ^ EXTENDS
McpRows               the two together: what an agent is shown       (MCMcpTools)

McpTools
  ^ EXTENDS
TransactionsProofs    theorems, beside those of the transactions

DataPage              ui/src/pages/data.rs                           (MCDataPage)
SettingsPage          ui/src/pages/settings.rs and the server's part (MCSettingsPage)
  ^ EXTENDS
PagesProofs           the invariant of DataPage; theorems of both

SnapshotsPage         ui/src/pages/snapshots.rs                      (MCSnapshotsPage)
  ^ EXTENDS
BackupsProofs         theorems, beside those of the folder it looks into
```

`PagesProofs` and `BackupsProofs` EXTEND two components each: the names of
`SettingsPage` and `SnapshotsPage` (`SettingsInit`, `SnapshotsNext`, ...) are
their own for that reason. The inductive invariants of these two are beside
their types and properties; the theorems about one component use nothing of the
other.

In several modules an action has a twin whose comment begins with "Slip:" and
which is in no next-state relation: the action as a plausible mistake would have
it. `PROJECT.json` lists them as mutants; each property is known to fail when
one of them takes the place of the action.

**PartitionStore / PageFiles.** `PartitionStore` is a map from keys to values
with calls that begin, take effect and return, and a crash that may or may not
let the call under way take effect. `PageFiles` is `FilesRepoInner`: `disk` and
`len` are the files as the scan decodes them, `index`, `slotCount`, `free`,
`nextVersion` the memory. Every operation holds the mutex in `op` and takes its
disk steps one at a time, with `Crash` possible between any two: `Save` picks
the slot and `WriteSlot`, then `Delete`/`ZeroSlot` free the old one; `Vacuum`
removes dead files, then `CompactBegin`, `CompactCopy` and `CompactTruncate`;
`Scan`, `ZeroLoser` and `Loaded` are the start. A crash may tear the slot being
written unless it is one sector. A key stands for a (table, partition) pair, a
value for a serialized partition; the free list is a set, so `Vec::pop` is the
choice of any free slot.

**PersistMarkers / WriteBehind.** `Marked` keeps the earliest moment, `DueTasks`
is the choice `get_task` makes (metadata before partitions, in hash order
otherwise), `AllTasks` is `take_all`. In `WriteBehind` a request goes through
`Resolve`, one change of the table (`Write`, `Remove`, `SetTableAttributes`,
`CreateTable`, `DeleteTable`) and one `Mark` per task it owes. A pass goes
through `TakeLock`, `TakeTask` (or `TakeAll` for a flush), `LookUp`,
`ReadAttributes`, `ReadRows`, `WriteDisk`, `EndPass`; `Restart` is a crash with
the load that follows. Rows of a partition are one value. The disk is what
`PartitionStore` promises, saves and deletes taking effect whole.

**ReaderSync.** A writer resolves the table, changes it, collects the sessions
subscribed at that moment (`Announce`) and pushes all the chunks of its call to
each, under that session's lock (`Push`), then wakes it (`Notify`, which stores
a permit). A reader greets, subscribes (look up; if there is no table, register
and look again; then registration and snapshot under the table's lock), and
polls: `Pop`, `Wake` or `TimeOut`, `Pop` again, then `TakeIn` of the chunk.
`Leave` is any failed call, `Collect` the session collector, `StartOver` what a
refused reader does. Snapshots are applied in one step; the reader itself is
outside the repository and does what `proto/MyNoSqlReader.proto` says.

**AtomicTransactions / Transactions.** `AtomicTransactions` gathers posts whole
and applies them with a commit in one step, once, or never. `Transactions` has
each handler as it runs: `PostBegin` (look up, touch), `PostLookUp` (the
table), `PostMessage` or `PostBreaks`, `PostAppend`, `PostAnswer`;
`CommitBegin` (out of the registry), `CommitLookUp`, `CommitTake`,
`CommitApply`; `Cancel`; `GcList` and `GcRemove`; `Restart`, which forgets all.

**Namespaces.** An open namespace is an object with its tables, queue and
repository; `map` says which one a name stands for. A call resolves or opens
one (`Resolve`; `OpenFolder`, `Prime` under `write_lock`), finds or makes a
table (`LookUp`, `GetOrCreateTable`), inserts and marks. A move is `MoveCheck`,
`MoveTake` (out of the source), `MoveCopy`, `MovePublish`, the marks,
`MoveClean`, the marks of the source. A deletion is `RemoveFromMap`,
`DeleteTakeLock`, `DeleteOneTable` for each, `DeleteFolder`, which may fail. A
pass snapshots the map and visits each namespace for one task (`TakeLock`,
`Visit`, `EndPass`); `Restart` is the start, which serves the folders it finds.
`forgiven` and `doomed` are history: rows whose loss the code accounts for, and
namespaces opened on a folder another one had used.

**RowWrites.** A client stamps its row with any moment or leaves that to the
server (`Call`, `Message`; `StampsOf` says which kinds of call may), and with a
replace it sends the version of a row it has read. A call reads the clock, which
may answer what it has answered before, and looks its schema up (`LookUp`),
registers it (`Register`, `MarkMetadata`) and applies (`Apply`), a bulk write
after any number of messages, or never if its stream breaks (`Message`). The
collector looks for dead schemas (`Walk`), drops them unless something was
written since (`Drop`) and marks (`MarkDropped`). The metadata task goes
through `TakeTask` and `Persist`. A row is its stamp, who wrote it, and the
shape (id and bytes) it was written in. `taken`, `shared` and `unclear` are
history, below.

**Backups.** A call of any kind and the timer go from namespace to namespace:
`ReadAttributes`, `ListPartitions`, `ReadPartition` build the archive beside
writers (`Put`, `DropTable`, `CreateTable`); `TryExists` and `CreateNew` reserve
a name, `WriteAndRename` fills and publishes it, `List` and `Tidy` are the
retention. `CallUpload` skips the building. A restore is `RestoreTable`,
`RestoreAttributes`, `RestoreRows`, with the collector of schemas (`Collect`) at
any moment between them. `Refused` is a file operation that fails,
`TryExistsRefused` the look for a name, whose failure is taken for "there is
none", `GivesBack` a write that fails and removes its temporary file, or fails
to: that one stays `STALE`, as do those a `Crash` leaves. A second is the
resolution of a name.

**SchemaIndex / JsonView / McpTools / McpRows.** `SchemaIndex` is the resolved
schema and `JsonView` the renderer and the encoder, as functions: fields by
number and by name, duplicates, packed values, widths of integers (`% 2^w`),
the nearest float of a number (`Rounded`: so many binary digits, whatever the
size, and infinite past the largest), nesting to the cap, moments, text and
base64. `JsonView` uses RECURSIVE
operators for nested messages and stays with TLC; `McpTools` takes the encoder
as a parameter, `Encoded`, and `McpRows` puts `RowFrom` of `JsonView` there
(`EncoderAssumption`) and says what an agent is shown. `McpTools` has
each write tool as it runs: `Arrive`, `Gate` (the window is asked once), `Pick`
(one of the table's schemas, by the cache), `Apply`; and an agent that pages
through `get_rows` (`StartReading`, `GetRows`). Clients write, the collector
collects, the window opens, shuts and lapses, the server restarts.

**DataPage, SnapshotsPage.** The page's state is one record with the fields of
`DataState` (`SnapshotsState`); `route` is the URL, `flights` the tasks waiting
for an answer. Clicks change both and launch tasks; a task's `Deliver` reads the
server as it is then and applies the answer under the conditions the code
applies it; `Fail` is a request that failed. The effects that load what the URL
names (`LoadTable`, `LoadRows`; `LoadFiles`, `LoadLevel`) are actions, as a
render may come at any moment. An answer is formed by the server in one step,
also where a route visits several tables or partitions.

**SettingsPage.** The two windows and the file on the server, each POST of
settings in the steps of the code (`LoadFile`, `OpenFile` that empties it,
`WriteFile`, `SaveFails`), and the page: its poll, its switches, its form, the
thresholds in force, the gate before another page's delete. A question is asked,
answered and heard, three steps; a window is the time it has left.

## 3. The runs

Times are with two workers; each takes less than five minutes.

| Run | Asks | Bounds |
|---|---|---|
| PageFiles | Inv (slots and index agree, versions order copies, promises kept over crashes), VacuumReclaims, implements PartitionStore; each start strict or not | 3 keys, 2 values in 2 classes, 3 slots a file, 4 writes |
| WriteBehind | OwedOrDurable, FlushSettles, ShutdownDrains, RestartRestores | 1 table, 1 partition, 2 table objects, 1 request of several marks, all three passes, persistence switched on and off, a period of 1, time 0..1 |
| Namespaces | OwedOrDurable, AcknowledgedRowsReachable, Inv (PassFindsFolder, ServedHasFolder), SettlesOnDisk | 2 names, 1 table, 2 requests of any kind, 1 crash, each folder there or not at the start, its table with a row or empty |
| RowWrites | RowsAreShown, SchemasOwedOrDurable, NoLostUpdate | 2 calls of any kind beside a loaded row, 1 key, 2 ids of which one comes with two contents, 2 messages a stream, moments 0 and 1 |
| ReaderSync | CachesAgree, NoLostWakeup, BatchesStayWhole | 2 rows of one partition, 2 table objects, 2 writers, 1 session, chunks of 1 row, queue of 4, 3 calls |
| ReaderSyncSessions | Inv (the same with two sessions and calls of two actions), EveryReaderCatchesUp | 1 row, 2 table objects, 1 writer, 2 sessions, queue of 3, 2 calls |
| Transactions | AppliesWhatWasAcknowledged, OneOwner, implements AtomicTransactions, AbandonedIsForgotten | 1 transaction, 2 posts of up to 2 actions, 2 commits |
| Backups | Inv (ReservationsAreHeld, KeptUntilOutnumbered), RowsKeepTheirSchemas, TimerKeepsUp | 1 namespace, its table loaded with a row or empty, 1 partition, 2 versions, 1 call and the timer, 1 archive kept, 2 names a second, seconds 0..1, 2 events (rows written, drops, crashes, refused operations) |
| McpTools | AsSent, HandsBack, WholeBatches, NothingUninvited, ToolsInv (PagesMissNothing) | 1 call at a time, 3 schemas (one unreadable), 2 keys, 13 documents and batches, integers of 2 and 3 bits, floats of 3 and 4 binary digits, nesting to 2, a window of 1, pages of 1 |
| DataPage | Inv (RowsAreOfTheWindow, PaneIsOfTheWindow, TotalIsOfTheRows), OnlyTickedRowsOffered, Settles | 2 tables, 2 partitions that share keys, page sizes 1 and 2, pane of 1, 4 clicks, 3 tasks |
| SnapshotsPage | SnapshotsInv (LevelsAreOfTheirKeys), DialogsTellTheTruth, Settles | 2 namespaces, 2 snapshots each, 1 table of 1 partition, 5 clicks, 2 tasks, 1 change of the namespace |
| SettingsPage | SettingsInv (WarnBeforeBad, SavedIsStored, DeletesAreInvited), NothingReset, SettingsSettle | windows of 2, 3 typed values, 2 bodies, 1 edit, 2 acts, 2 failures |

`Inv` (`SnapshotsInv`, `SettingsInv`) is the conjunction, in each module, of the type invariant and the named
invariants in brackets. Where there is none, the types are proved (section 5).

Why these bounds are enough to be interesting.

* Three keys and three slots leave room for a compaction with a move, a free
  head and a tail; four writes give every key an old and a new copy.
* Two table objects let a table be deleted and created again while a request
  still holds the first and a pass the second. Two requests at once, with any
  number of tables and any periods, are what `WriteBehindProofs` covers. With a
  period and a clock of one a mark of the first moment comes due and one of the
  last does not, so the timer, which waits, and a flush, which does not, part.
  `WriteBehindClock.cfg` asks the same with two periods, where a later mark
  brings a due moment forward, and persistence left on; it holds too.
* Two names, one of them the default, and two requests give every pair of calls:
  two moves of one table, a move and a deletion of either end, a deletion and
  the call that opens the same folder, each against a pass at any step.
* Two ids are enough for a collection; two calls and two messages put a
  registration, a walk and a drop between a look-up and its insertion. One key
  is enough for a lost update: two calls read the loaded row, or one does and
  the other writes over it, removes it or makes it anew, under a stamp that is
  new or came up before. `RowVersions.cfg` asks NoLostUpdate with three calls
  and three moments, of rows of one shape; it holds too.
* A queue shorter than two batches overflows; a chunk of one row makes a
  two-row batch three chunks; three calls delete, create and write a table, or
  write around a deletion, and two calls of two actions do as much.
* Two commits and two posts of one transaction cover a repeated commit and a
  post on either side of it. The transactions of the server share nothing but
  the registry's lock; `TransactionsProofs` covers any number.
* Two names a second and one archive kept make the retention and the
  reservation meet in the second they are about. Two events are a name refused
  and its file left behind, two crashes, a fault over a table that was written
  to, or - with the row that was loaded - a second schema for the collector and
  a table dropped and made anew under a restore.
* Integers of two and three bits have every case of width and sign the wide
  ones have, and a float of a digit less than a double is rounded where that is
  not; the documents are chosen one per rule of the encoder.
* Four clicks reach any view of the data page and leave it, and three tasks
  keep two late answers beside the current one; five clicks walk to the rows of
  an archive and back, or around a restore.
* Time is either a short clock or free choice (polls that time out, sessions,
  transactions and windows that lapse at any moment), which covers every
  duration.

`CHECK_DEADLOCK FALSE` stands where the bounds run out (no more writes, calls
or ids), or after the shutdown drain; the server has nothing left to do there.
The other runs check for deadlock.

### Fairness

Safety properties need none, and the liveness properties assume no more than
what the program's scheduling gives.

* `ReaderSyncSessions`: tasks of the runtime make progress (a writer that has
  changed a table announces it) and readers keep polling; **not** that a poll's
  time limit ever ends, so notifications alone are enough.
* `Transactions`: an abandoned transaction becomes quiet and the collector's
  timer, repeated for the life of the process, ticks; a collection in progress
  is a loop without awaits, hence fairness for each removal.
* `Namespaces`: requests in flight are run, and the persist timer comes round.
  Nobody has to call, and the crash need not happen.
* `Backups`: tasks are run, and the timer ticks.
* `DataPage`, `SnapshotsPage`: the browser renders and runs the page's tasks,
  and every request is answered or fails. Clicks are not fair.
* `SettingsPage`: the server serves and answers, answers are heard, the poll
  sleeps no longer than it means to. Time itself need not pass.

### Histories, or what the properties leave out

Where the code lets something happen that a plain reading would exclude, the
property names the case through a history variable, and holds for all others.

| Variable | What it names |
|---|---|
| `disputed` (ReaderSync) | keys two announcements fought over, or touched through an object that had lost its name |
| `forgiven` (Namespaces) | rows of a deleted namespace, rows not on disk at a crash, rows published over by a move, rows inserted into a table that had left its namespace (and, at the start, the row an empty table lacks) |
| `doomed` (Namespaces) | namespaces opened while their folder was being removed, or on one an unfinished deletion had left |
| `shared` (RowWrites, of the moments `taken`) | moments that came up twice: sent by a client, or read off the clock again within its tick |
| `unclear` (RowWrites) | ids two calls registered at once with different bytes, ids collected while a call held a row of them |
| `gaps` (Backups) | versions an archive lacks because it read the attributes before the writer registered them, and those collected while the restore that had brought them was about to insert their rows |
| `raced` (Backups) | names an archive got while another task, which had found nothing of that name, was about to take it, and names whose look-up was refused |
| `stray` (McpTools) | rows whose schema was collected between being picked and the write |

## 4. Where the code and its documentation differ

Each of these is a definition of the module, next to the code that breaks it;
TLC finds the steps when it is made an invariant or a property. Configurations
for six of them are beside the modules (`PageFilesTornCopy.cfg`,
`WriteBehindSwitchOff.cfg`, `WriteBehindSwitchOn.cfg`,
`ReaderSyncReordered.cfg`, `TransactionsLatePost.cfg`,
`NamespacesRecreated.cfg`).

| Definition | Statement | What happens |
|---|---|---|
| PageFiles `TornCopyIsSkipped` | a torn compaction copy "is skipped" (`persist/files_repo_inner.rs:375`) | a strict start refuses it |
| WriteBehind `NotPersistedHoldsNothing` | a table not persisted "must hold nothing on disk" (`operations/persist.rs:96`) | its slots stay, and come back at the next start |
| WriteBehind `FlushedRowsAreOnDisk` | after a flush "everything they had written" is on disk (`operations/persist.rs:39`) | not the rows written before persistence was switched on |
| WriteBehind `NoWriteLandsInRemovedTable` | "no write can land" in a table that is going (`db_operations/write/table.rs:113`) | a request that resolved it before writes into it afterwards |
| WriteBehind `RowsLandAfterMetadata` | metadata goes before rows (`DESIGN.md:61`) | not when it is due later, or not marked yet |
| ReaderSync `CachesConverge` | readers are "eventually consistent" (`sdk_tests.rs:195`) | two writers of one row announce in the opposite order and the reader keeps the older row; a subscription that looked up a table since deleted and created again misses what was written in between |
| Transactions `NothingPostedAfterRemoval` | "nothing more can be posted into it" (`DESIGN.md:195`) | a post that already holds the transaction is acknowledged after the commit took the actions |
| Transactions `PostToForgottenIsUnknown` | such a post is unknown (`proto/MyNoSqlWriter.proto:215`) | a post whose stream outlives its transaction is acknowledged |
| Transactions `FailedCommitStaysOpen` | a failed commit leaves the transaction open (`sdk_tests.rs:1475`) | it has left the registry |
| Namespaces `NothingLandsInWhatGoes` | "from here on nothing can resolve it by name, so no write can land in what is about to go" (`db_operations/write/namespace.rs:37`) | the next call that names it opens a namespace on the folder that is being removed |
| Namespaces `FoldersSettle` | "emptying the table is what hands over the partition keys whose slots the source folder has to free" (`db_operations/write/namespace.rs:126`): in the end a folder holds what its namespace serves | of the table a move is published over nothing is emptied or marked: a slot it had flushed stays, under an empty table for good, and comes back at the next start (`namespace.rs:105-113`) |
| RowWrites `ReplacesWhatWasRead` | "every write that lands makes a version nobody else is holding" (`proto/MyNoSqlWriter.proto:566`), so a replace overwrites only what its client has read | a row stored with a TimeStamp its client sent, or read off the clock within the same tick, may have the version of the row before it, and a replace that read that one lands on it (`build_db_row.rs:116`) |
| RowWrites `OneShapePerId` | an id stands for one shape (`db_operations/write/build_db_row.rs`) | two calls that register it at once are not compared; a schema collected under a writer leaves its row without one |
| Backups `NameTakenOnce` | two backups of one second "end up with a name each" (`persist/backup/backups_repo.rs:186`) | one that looked for the name before the other was renamed, and creates its temporary file after, takes the same name and writes over it (`backups_repo.rs:196`) |
| Backups `RestoredRowsAreShown` | "the schemas come back with the table's attributes, whatever is being restored" (`db_operations/backup.rs:185`), so the rows restored have them | between the attributes and the rows of a restore into a live table the collector finds no row that names them and drops them (`db_operations/gc.rs:36`); nor does an archive have a schema that was registered after it read the attributes |
| Backups `NoEmptyArchives` | an empty namespace makes no archive: "nothing to back up means no file at all" (`db_operations/backup.rs`, `DESIGN.md:739`) | only `make` looks, and before it builds: a call for one namespace without tables writes an archive of nothing, which the retention counts |
| DataPage `DeletesWhatTheDialogShowed` | a dialog is about the table it was opened over | confirming uses the table of the URL, which may have moved on under the dialog (`ui/pages/data.rs:652`) |
| DataPage `LateAnswersLeaveTheRoute` | only clicks move the URL | a late answer for a single-partition table opens its partition after the user has left (`ui/pages/data.rs:433`) |
| DataPage `EmptyPaneHasPager` | an empty page has a pager to get back with | the pane's has not, when deletes emptied its last page |
| DataPage `PagerIsOfTheSelection` | the footer counts "rows the selected partition holds" (`ui/pages/data.rs:75`) | back on the table alone the count of the partition that was left stays, and the footer with it, whose buttons turn the pages of nothing (`ui/pages/data.rs:844`, `ui/components/data/pagination.rs:26`) |
| McpRows `NumbersComeBack` | "what goes in comes back out" (`json_view/json_to_row.rs:370`), and an integer that does not fit is refused | a number with more digits than its `double` or `float` has is rounded, and one past the largest is stored as infinite (`json_to_row.rs:261-269`, `307-315`) |
| SnapshotsPage `FailedLoadsCanBeRetried` | refresh is offered unless something loads | a failed load leaves it disabled (`ui/pages/snapshots.rs:373`) |
| SnapshotsPage `RestoresIntoWhatIsShown` | a restore goes into the namespace the dialog names | another tab changed it between the dialog and the request |
| SettingsPage `FormFollows` | the form shows what is in force | a page opened by its own address fills it before the answer comes, and never again (`ui/pages/settings.rs:203-213`) |
| SettingsPage `AppliedStays` | what was applied stays in force | the answer to the question asked at the start comes later and undoes it (`ui/main.rs:92-109`) |

Read in the sources while modelling, without a definition of their own:

* A corrupt slot is only put on the in-memory free list, where the comment says
  the scan "zeroes" it (`persist/files_repo_inner.rs:110`): its bytes stay
  until reuse.
* A write that resolved a table before `move_table` took it out of its namespace
  is acknowledged and then cleaned away (`db_operations/write/namespace.rs:86-92`
  says this cannot happen to one that comes later; it does to this one).
* A crash after the pass freed the source of a move and before it wrote the
  destination loses the rows, durable before the move.
* `json_view/json_to_row.rs` drops a field of the entity that is itself called
  TimeStamp, without saying so.
* A backup that fails removes its temporary file and ignores whether that
  worked (`persist/backup/backups_repo.rs:255-258`): the name may stay taken, as
  after a crash, where the comment says it is given back. A `try_exists` that
  fails is taken for a free name (`backups_repo.rs:196`), and the archive that
  has it is written over.
* A file of UI settings in which one number is nonsense answers the defaults for
  both (`app/ui_settings.rs:66-73`), where the comment says "the two numbers are
  independent, and one of them hand-edited into nonsense is no reason to forget
  the other" (`77-79`); that keeps a number only where the other is missing.
* Two saves of the UI's settings that overlap lose one of the patches, and a
  read while the file is truncated answers the defaults, where
  `set_settings_action.rs:52` says a body "must not quietly reset the other".
* The UI's comments say that "the server ADDS the window to whatever was left"
  (`ui/pages/settings.rs:77`; `app/write_window.rs:36` counts from now), that
  "this server keeps no store" for the thresholds (`ui/pages/settings.rs:260`,
  `395`; `app/ui_settings.rs` does), that the server card empties when the
  server stops answering (`ui/pages/settings.rs:25`; it keeps the last answer),
  that backups are always available (`ui/pages/settings.rs:483`;
  `make_backup_action.rs:59` answers 403 when the window is shut), that an
  unknown namespace is created when it is named (`ui/api/mod.rs:51`; the HTTP
  routes answer 404), and name the route `/api/Settings/McpWrites`
  (`ui/api/mod.rs:310`; the call goes to `/api/Mcp/Writes`).
* The UI's gate re-reads the window and then calls (`ui/api/mod.rs:345`): it may
  close in between, and most destructive routes do not ask again. In the same
  way, "shuts them at once" of the tools' window does not reach a call that is
  past its gate.
* After another tab selected a namespace (`ui/main.rs:144-159`) the rows ticked
  in this one are deleted by key in the new one.

## 5. What is proved

`WriteBehindProofs`, for any number of tables, partitions, table objects,
requests and values and any clock:

* `TypeCorrect`, `NoChangeForgotten` (`OwedOrDurable`), `FlushIsComplete`,
  `ShutdownIsComplete` as invariants, `RestartIsFaithful` as an action
  property, all from `InvariantHolds` (`Spec => []IInv`).
* Why `IInv` is needed: a pass takes a task out of the queue before it reads,
  and reads before it writes, so `OwedOrDurable` says nothing while a task is
  in hand. `UpToDate` fills that in: what a pass is about to write is what is
  wanted, unless the task is owed again. It is kept because `SingleFlight`
  leaves one pass past `persist_lock`, and because `OneName` makes a request
  that changes a table object mark the very table a pass is writing it for.
  `QueuedIsRecent` and `DrainedAtStop` carry the flush and the shutdown.

`RowWritesProofs`, for any number of calls, keys, schemas and messages:

* `RowsStayReadable` (`RowsAreShown`) and `SchemasReachTheDisk`
  (`SchemasOwedOrDurable`) as invariants, `ReplacesAreSafe` (`NoLostUpdate`) as
  an action property, from `InvariantHolds`.
* A row in a call's hands is as good as its schema: `CollectedAreKnown` says the
  table has it, or the call is about to register it, or the id is `unclear`.
  A collection removes only what `Named` has not: `WalkStands` keeps what the
  walk saw true until something is written, and a write cancels the drop. For a
  replace, equal stamps must mean equal rows, and they do where the stamp came
  up once: `StampsTellRows` and `StampsAreReserved`, over the stored rows, those
  clients have read and those calls have made. Nothing is assumed of the clock,
  nor of what clients stamp their rows with.

`TransactionsProofs`, for any number of transactions, posts, commits and
actions: `TypeCorrect`, `AppliedOnce` (`OneOwner`) and
`NothingAcknowledgedIsLost` (`AppliesWhatWasAcknowledged`), from an `IInv` that
adds `Kept`: the posts of a transaction are in its list while it is registered
or on its way to the table, and in what its commit took afterwards. `OneOwner`
is what keeps a second commit from emptying the list in between.

`TransactionsImplementAtomicTransactions` adds that every step of a handler is a
step of `AtomicTransactions` or a stutter: a post is gathered by the one append
that takes all of it, a commit applies by the one visit of the table, and a
transaction that was cancelled, forgotten or lost to a restart has no way back.

It also holds the proofs about `McpTools`, for any number of calls in flight,
schemas, clients, bodies and keys, any length of the window and any limit of a
page:

* `AgentsMissNothing` (`ToolsInv`), `BatchesAllOrNothing` (`WholeBatches`) and
  `ToolsAreInvited` (`NothingUninvited`), from `ToolsIInvHolds`.
* `Carries` keeps with a call what its tool was given, and past its pick all the
  rows of that and nothing else; `Invited` that no call is past its gate without
  the window having been open since it came.
* `Paging` says that what a reader is owed lies at or behind its place. Rows
  that come can only move others further back (`GrowthKeepsPlaces`), and up to
  the place of a key there is a key at every place (`NoPlaceIsEmpty`, by the
  least of a well-founded set, as there is no induction over data), so a page
  with no row beyond its limit has shown all there is (`SlicesAreFull`).
* The encoder may be anything that makes of an object one row or none
  (`RowsAssumption`); that the one of `JsonView` does is evaluated in the run.

`PageFilesProofs`, for any number of keys, values, size classes, slots and
writes, and with a crash between any two disk steps:

* `PageFilesCorrect` (`Inv`), `VacuumLeavesNoHalf` (`VacuumReclaims`) and
  `PageFilesImplementPartitionStore`, from `InvariantHolds`.
* `IInv` says of each phase of the mutex (`Writing`, `Zeroing`, `Vacuuming`,
  `Recovering`) which slot may hold a second copy of a partition at that step
  and no other. `VersionsAhead` makes the copy a save writes newer than all, and
  `TiesAreCopies` says that two copies of one version, which a compaction leaves
  when it is cut, have the same content; so the newest copy on the disk is what
  was promised (`Promised`), before, during and after the recovery.
* The refinement maps the store to that newest copy. A save and a delete take
  effect at the one disk step that makes it another; every step of a vacuum and
  of a start is a stutter.

`NamespacesProofs`, for any number of names, tables, requests and restarts:

* `FoldersAreThere` (`Inv`), `ChangesReachTheDisk` (`OwedOrDurable`) and
  `AcknowledgedRowsStay` (`AcknowledgedRowsReachable`), from `InvariantHolds`.
* Nothing in the code says who may touch an object a request holds on to;
  `IInv` does. `Locks` is who holds `write_lock` and `persist_lock`. `Births`
  says that an object is nobody's before the call that makes it, `Homes` that a
  table sits in one place at most, `Hands` that one a move took out is in
  nobody else's. `Going`, `Priming`, `Passing` and `Gone` follow a name from the
  map through its deletion, a namespace opened on the same folder meanwhile, and
  a pass that still visits the first. On these rest `Mirrored`, for a served
  namespace and its folder, and `Kept`, for the acknowledged rows.

`ReaderSyncProofs`, for any keys, writers and sessions and any ceilings of a
chunk and a queue:

* `CachesAgreeAlways` (`CachesAgree`), `NoWakeupIsLost` (`NoLostWakeup`),
  `BatchesArriveWhole` (`BatchesStayWhole`) and `ReaderSyncCorrect` (`Inv`), from
  `InvariantHolds`.
* A queue is a sequence a reader has yet to take in, of any length. `Follows`
  says there is a run of the reader through it from one view to another; runs
  are put together when a writer pushes and taken apart when a poll pops.
  `Told` says that the run through what is queued leads to what the table holds,
  but for what an announcement on its way (`Truthful`) or a disputed key
  explains. `Whole` says the queue is cut between batches or inside the one the
  reader has begun, `Woken` that a sleeping poll has its permit stored or a
  writer about to store it.

`BackupsProofs`, for any namespaces, partitions, versions, calls and settings:

* `FolderKeeps` (`Inv`: `ReservationsAreHeld`, `KeptUntilOutnumbered`) and
  `RestoredRowsKeepTheirSchemas` (`RowsKeepTheirSchemas`), from `InvariantHolds`.
* The retention removes by a list it read earlier: `Retained` says that what is
  on it is outnumbered by newer archives still there. It stays so while the list
  is worked off, because whatever is removed is outnumbered itself: those newer
  than it are newer than all it was counted for. That a name still holds
  the very archive that was promised rests on `Naming`: a task about to take or
  to fill a name has found nothing there, or the name is `raced`, and a
  reservation belongs to the task that made it. A restore inserts into the table
  object it found or made: `Ages` says which ones it may hold, `Schemas` that
  its archive's schemas are registered there before its rows go in, or have been
  collected since and are among the `gaps`.

`BackupsProofs` also, for any archives, namespaces, clicks and tasks of the
snapshots page:

* `LevelsShowTheirKeys` (`SnapshotsInv`) and `DialogsAreTrue`
  (`DialogsTellTheTruth`), from `SnapshotsInvariantHolds`.
* An answer is put into the level its task names if that level is still loaded
  for the key the task asked about. `LevelStates` and `LevelTasks` keep keys and
  answers together in both places, and `LevelsAreKeyed` says that a level is
  only ever loaded for a key of its own length, so that the level of one archive
  is never compared with that of a table. A restore is answered into whatever
  dialog is open: `DialogsAreAlone` says that it is the one it was sent from,
  because a busy dialog can not be closed and so no task of a dialog outlives
  it, and that what a task waits to hear of has happened.

`PagesProofs`, for any tables, rows, page sizes, clicks and tasks of the data
page:

* `ShownIsSelected` (`Inv`) and `NothingUntickedIsOffered`
  (`OnlyTickedRowsOffered`), from `InvariantHolds`.
* `PageOK` keeps what the page shows with what it is about: rows and ticks with
  the scope, the scope with its partition, the pane with its table and window.
  `FlightOK` says that every task carries the question its answer answers. A
  late answer is then dropped by the comparison the code makes, and a tick
  cannot outlive the scope it was put on under. The pager's count is kept with
  the partition loaded last; it is the one the URL names as long as the rows are.

and for any bodies, edits, thresholds, failures and lengths of the windows of
the settings page:

* `PageTellsTheTruth` (`SettingsInv`) as an invariant and `NothingIsReset`
  (`NothingReset`) as an action property, from `SettingsInvariantHolds`.
* `Shapes` has every pair anybody holds in order: the server sorts what it
  reads, so an answer, and what the page takes from one, is sorted too.
  `SavingApplied` follows the POST of the form: until it is heard of its body is
  what was applied last, and once it is stored the file is that, unless somebody
  touched it. `Inviting` is what makes the gate safe although its answer is old
  when it is heard: the window was open when the answer was formed, and that
  was after the delete was asked for.

The assumptions are the named `ASSUME`s of the modules, which TLC evaluates in
the runs: bounds are numbers; the constants that stand for "nothing", "stale" or
a place of another kind are none of the things they are compared with
(`NoneAssumption`, `ApartAssumption`, `LocationAssumption`, `DataAssumption`);
the three passes are different; `DEFAULT` is a name and there is a table to name
(`NameAssumption`); keys are finitely many where a call tells them one by one
(`KeysAssumption`); ids of schemas are numbers, of which a collection keeps the
largest (`IdsAssumption`, `VersionsAssumption`); the rows of a partition of `DataPage` are finitely many
numbers, their order being that of the keys (`RowsAssumption`); the defaults of
`SettingsPage` are in order, as they are in the source, and what is typed,
posted or edited is any pair or part of one (`PairsAssumption`,
`WindowAssumption`); a path into an archive is a table, or a table and one
of its partitions (`PathsAssumption`); and of `McpTools`, keys are finitely many
and in one order (`RankAssumption`), a batch is a sequence
(`BatchesAssumption`), and what clients and snapshots hold names ids there are
and has one row to a key (`RowsAssumption`). Each inductive invariant was
model-checked on the instances of the runs before it was proved.

Only model-checked:

* All liveness (`SettlesOnDisk`, `EveryReaderCatchesUp`, `AbandonedIsForgotten`,
  `TimerKeepsUp`, `Settles` of the pages, `SettingsSettle`): the prover does not reach properties
  that rest on fairness.
* `JsonView`, and with it `AsSent` and `HandsBack` of `McpRows`: messages nest,
  so they rest on RECURSIVE operators, which the prover does not take.
* That the moments of `RowWrites` are those its instance has: `Types` is the
  part of `TypeOK` that is inductive, and nothing depends on the rest.

## 6. Not modelled, and why

* Byte layout of slots, crc, serialization; fsync and power loss (the code
  declares it best effort; the model's writes survive the process, not the
  machine); I/O errors that panic.
* Row contents, indexes and limits of a table: the core crate. What the JSON
  writer, outside the repository too, makes of an infinite number: `HandsBack`
  leaves rows with one out.
* Liveness of `get_task`: it goes through a hash map, so one table may be served
  for ever before another while marks keep coming. Nothing in the code bounds
  that, and the fairness that would make it a theorem is not there.
* Migration from another server of this kind (`db_operations/migrate.rs`). It
  registers the schemas it was sent without comparing bytes with an id already
  taken, before any row names them, and the source looks schemas up after it
  has read its rows; the first and second are hazards RowWrites has for writers.
* Reader announcements of attributes, read statistics, several tables of one
  session, cutting chunks by bytes.
* HTTP routes that map a request onto an operation modelled elsewhere, the api
  key, prompts and listing tools of the MCP server, monitoring, the settings
  file of the server: read-only, or a comparison, or read once.
* Of the UI: layout and formatting, the filter box, the poll of the status, the
  server card, pages that render one polled answer. Answers are formed in one
  step: a route such as `/api/Partitions/Details`, which lists keys and then
  counts rows for each, can answer a mixture the pages never see here.

## 7. Plan

1. **Migration** as a kind of call of RowWrites, with the source's two steps.
2. **Errors of the disk** in PageFiles: a panic between index and slot.
3. Chunking of announcements by bytes and size classes as pure operators,
   against reference definitions.
