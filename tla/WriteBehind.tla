---------------------------- MODULE WriteBehind ----------------------------
(***************************************************************************)
(* Write-behind persistence of one namespace: requests change tables in    *)
(* memory and mark what they changed (db_operations/write); persist        *)
(* passes take the marks and write what the tables hold by then            *)
(* (operations/persist.rs, shutdown.rs); a start loads what is on disk     *)
(* (operations/init.rs).                                                   *)
(*                                                                         *)
(* Every request runs on a thread of its own: a table changes under its    *)
(* lock, the marks follow after the lock is released, one at a time.  A    *)
(* table is an object that a request resolves by name and keeps: removing  *)
(* the name does not stop the requests that already hold it.               *)
(*                                                                         *)
(* Abstractions.  The content of a partition is one value, EMPTY when it   *)
(* has no rows.  Of a table's attributes only persist is kept.  The disk   *)
(* is what PageFiles promises: each save or delete takes effect as a       *)
(* whole.  A crash and the start after it are one step, since no request   *)
(* or timer runs before the load has finished.                             *)
(***************************************************************************)
EXTENDS PersistMarkers

CONSTANTS
  Instances,   \* bound: table objects alive at a time
  Values,      \* contents of a partition that has rows
  EMPTY,       \* content of a partition that has none
  Requests,    \* concurrent requests
  Passes,      \* who runs persist passes
  Timer, Flush, Shutdown,
  Settings,    \* bound: persist attributes asked for
  Periods,     \* bound: sync periods asked for
  MaxTime      \* bound: the clock

ASSUME PassAssumption ==
  /\ Passes = {Timer, Flush, Shutdown}
  /\ Timer # Flush /\ Timer # Shutdown /\ Flush # Shutdown
  /\ NONE \notin Passes
ASSUME DataAssumption ==
  /\ EMPTY \notin Values
  /\ NONE \notin Instances
  /\ NONE \notin BOOLEAN
ASSUME BoundAssumption ==
  /\ Settings \subseteq BOOLEAN
  /\ Periods \subseteq Nat
  /\ MaxTime \in Nat

VARIABLES
  tables,       \* DbInstance: table name -> the object it resolves to, or NONE
  rows,         \* object -> partition -> content
  persistAttr,  \* object -> its persist attribute
  queue,        \* persist_markers
  request,      \* request -> where it is and what it still has to mark
  persistLock,  \* persist_lock: the pass holding it, or NONE
  pass,         \* pass -> where it is, with its locals
  diskRows,     \* <<table, partition>> -> content of its slot
  diskMeta,     \* table -> the persist attribute in tables.meta, or NONE
  now,
  stopped,      \* the shutdown drain has finished
  unsettled,    \* history: tasks nothing was marked for when their table was
                \* switched or restored
  recent        \* history: tasks marked since the flush under way took its own

tableVars == <<tables, rows, persistAttr>>
diskVars == <<diskRows, diskMeta>>
ghosts == <<unsettled, recent>>
vars == <<tables, rows, persistAttr, queue, request, persistLock, pass,
          diskRows, diskMeta, now, stopped, unsettled, recent>>

Content == Values \cup {EMPTY}
Slots == Tables \X Partitions

NoRows == [p \in Partitions |-> EMPTY]
HasRows(inst) == {p \in Partitions : rows[inst][p] # EMPTY}

NewRequest == [at |-> "idle", table |-> NONE, inst |-> NONE, owes |-> {}, due |-> 0]
NewPass == [at |-> "idle", now |-> NONE, tasks |-> {}, task |-> NONE, inst |-> NONE,
            found |-> NONE]

(* What the disk should hold for a task of a table: no table, no rows and    *)
(* persistence turned off all come to nothing.                               *)
RowsToWrite(inst, p) ==
  IF inst # NONE /\ persistAttr[inst] THEN rows[inst][p] ELSE EMPTY
MetadataToWrite(inst) == IF inst = NONE THEN NONE ELSE persistAttr[inst]
ToWrite(inst, task) ==
  IF task[2] = META THEN MetadataToWrite(inst) ELSE RowsToWrite(inst, task[2])

Init ==
  /\ tables = [t \in Tables |-> NONE]
  /\ rows = [i \in Instances |-> NoRows]
  /\ persistAttr = [i \in Instances |-> TRUE]
  /\ queue = EmptyQueue
  /\ request = [r \in Requests |-> NewRequest]
  /\ persistLock = NONE
  /\ pass = [a \in Passes |-> NewPass]
  /\ diskRows = [s \in Slots |-> EMPTY]
  /\ diskMeta = [t \in Tables |-> NONE]
  /\ now = 0
  /\ stopped = FALSE
  /\ unsettled = {}
  /\ recent = {}

-----------------------------------------------------------------------------
(* Requests. *)

Unused(i) ==
  /\ \A t \in Tables : tables[t] # i
  /\ \A r \in Requests : request[r].inst # i
  /\ \A a \in Passes : pass[a].inst # i

Goes(r, next) == request' = [request EXCEPT ![r] = next]

(* The table is looked up, and the moment the write is due by is settled. *)
Resolve(r, t, period) ==
  /\ ~stopped /\ request[r].at = "idle"
  /\ tables[t] # NONE
  /\ Goes(r, [at |-> "resolved", table |-> t, inst |-> tables[t], owes |-> {},
              due |-> now + period])
  /\ UNCHANGED <<tableVars, queue, persistLock, pass, diskVars, now, stopped, ghosts>>

(* One visit of the table, under its lock: insert, replace, bulk_write or   *)
(* commit_transaction leave content in the partitions they touch...         *)
Write(r, parts, v) ==
  /\ ~stopped /\ request[r].at = "resolved"
  /\ rows' = [rows EXCEPT ![request[r].inst] =
                [p \in Partitions |-> IF p \in parts THEN v ELSE @[p]]]
  /\ Goes(r, [request[r] EXCEPT !.at = "marking", !.owes = parts])
  /\ UNCHANGED <<tables, persistAttr, queue, persistLock, pass, diskVars, now, stopped, ghosts>>

(* ... delete_row, delete_partitions, clean_table and the collector empty   *)
(* some that had rows.                                                      *)
Remove(r, parts) ==
  /\ ~stopped /\ request[r].at = "resolved"
  /\ parts \subseteq HasRows(request[r].inst)
  /\ rows' = [rows EXCEPT ![request[r].inst] =
                [p \in Partitions |-> IF p \in parts THEN EMPTY ELSE @[p]]]
  /\ Goes(r, [request[r] EXCEPT !.at = "marking", !.owes = parts])
  /\ UNCHANGED <<tables, persistAttr, queue, persistLock, pass, diskVars, now, stopped, ghosts>>

(* A write that is refused, or has nothing to remove, marks nothing. *)
NothingToDo(r) ==
  /\ ~stopped /\ request[r].at = "resolved"
  /\ Goes(r, NewRequest)
  /\ UNCHANGED <<tableVars, queue, persistLock, pass, diskVars, now, stopped, ghosts>>

(* set_table_attributes marks the metadata, and no partition. *)
SetTableAttributes(r, persist) ==
  /\ ~stopped /\ request[r].at = "resolved"
  /\ persistAttr' = [persistAttr EXCEPT ![request[r].inst] = persist]
  /\ unsettled' = unsettled \cup
       IF persist # persistAttr[request[r].inst]
       THEN {request[r].table} \X Partitions ELSE {}
  /\ Goes(r, [request[r] EXCEPT !.at = "marking", !.owes = {META}])
  /\ UNCHANGED <<tables, rows, queue, persistLock, pass, diskVars, now, stopped, recent>>

(* create: a table that is not there is published empty, then marked. *)
CreateTable(r, t, i, persist, period) ==
  /\ ~stopped /\ request[r].at = "idle"
  /\ tables[t] = NONE
  /\ Unused(i)
  /\ tables' = [tables EXCEPT ![t] = i]
  /\ rows' = [rows EXCEPT ![i] = NoRows]
  /\ persistAttr' = [persistAttr EXCEPT ![i] = persist]
  /\ Goes(r, [at |-> "marking", table |-> t, inst |-> i, owes |-> {META},
              due |-> now + period])
  /\ UNCHANGED <<queue, persistLock, pass, diskVars, now, stopped, ghosts>>

(* delete_table: the name goes first, the rows and the marks after it. *)
DeleteTable(r, t, period) ==
  /\ ~stopped /\ request[r].at = "idle"
  /\ tables[t] # NONE
  /\ tables' = [tables EXCEPT ![t] = NONE]
  /\ Goes(r, [at |-> "removed", table |-> t, inst |-> tables[t], owes |-> {},
              due |-> now + period])
  /\ UNCHANGED <<rows, persistAttr, queue, persistLock, pass, diskVars, now, stopped, ghosts>>

CleanDeleted(r) ==
  /\ ~stopped /\ request[r].at = "removed"
  /\ rows' = [rows EXCEPT ![request[r].inst] = NoRows]
  /\ Goes(r, [request[r] EXCEPT !.at = "marking",
                                !.owes = HasRows(request[r].inst) \cup {META}])
  /\ UNCHANGED <<tables, persistAttr, queue, persistLock, pass, diskVars, now, stopped, ghosts>>

(* Slip: a table that is not persisted marks no rows. *)
MarkWhenPersisted(r, x) ==
  /\ ~stopped /\ request[r].at = "marking"
  /\ x \in request[r].owes
  /\ x = META => request[r].owes = {META}
  /\ queue' = IF x = META \/ persistAttr[request[r].inst]
              THEN Marked(queue, <<request[r].table, x>>, request[r].due) ELSE queue
  /\ unsettled' = unsettled \ {<<request[r].table, x>>}
  /\ recent' = recent
  /\ Goes(r, IF request[r].owes = {x} THEN NewRequest
             ELSE [request[r] EXCEPT !.owes = @ \ {x}])
  /\ UNCHANGED <<tableVars, persistLock, pass, diskVars, now, stopped>>

(* One mark, under the mutex of the queue; the metadata comes last.  After  *)
(* the last one the request announces its change and answers.               *)
Mark(r, x) ==
  /\ ~stopped /\ request[r].at = "marking"
  /\ x \in request[r].owes
  /\ x = META => request[r].owes = {META}
  /\ queue' = Marked(queue, <<request[r].table, x>>, request[r].due)
  /\ unsettled' = unsettled \ {<<request[r].table, x>>}
  /\ recent' = IF pass[Flush].at = "idle" THEN recent ELSE recent \cup {<<request[r].table, x>>}
  /\ Goes(r, IF request[r].owes = {x} THEN NewRequest
             ELSE [request[r] EXCEPT !.owes = @ \ {x}])
  /\ UNCHANGED <<tableVars, persistLock, pass, diskVars, now, stopped>>

-----------------------------------------------------------------------------
(* Persist passes. *)

Steps(a, next) == pass' = [pass EXCEPT ![a] = next]

(* The timer reads the clock before it waits for the lock; a flush and the   *)
(* shutdown drain have no clock.                                            *)
StartTimer ==
  /\ ~stopped /\ pass[Timer].at = "idle"
  /\ Steps(Timer, [NewPass EXCEPT !.at = "waiting", !.now = now])
  /\ UNCHANGED <<tableVars, queue, request, persistLock, diskVars, now, stopped, ghosts>>

(* Slip: passes do not wait for each other. *)
TakeNoLock(a) ==
  /\ ~stopped /\ pass[a].at = IF a = Timer THEN "waiting" ELSE "idle"
  /\ persistLock' = a
  /\ Steps(a, [pass[a] EXCEPT !.at = "locked"])
  /\ UNCHANGED <<tableVars, queue, request, diskVars, now, stopped, ghosts>>

TakeLock(a) ==
  /\ ~stopped /\ pass[a].at = IF a = Timer THEN "waiting" ELSE "idle"
  /\ persistLock = NONE
  /\ persistLock' = a
  /\ Steps(a, [pass[a] EXCEPT !.at = "locked"])
  /\ UNCHANGED <<tableVars, queue, request, diskVars, now, stopped, ghosts>>

(* persist takes one due task... *)
TakeTask(a, task) ==
  /\ ~stopped /\ pass[a].at = "locked" /\ a # Flush
  /\ task \in DueTasks(queue, pass[a].now)
  /\ queue' = Without(queue, task)
  /\ Steps(a, [pass[a] EXCEPT !.at = "working", !.tasks = {task}])
  /\ UNCHANGED <<tableVars, request, persistLock, diskVars, now, stopped, ghosts>>

(* Slip: the shutdown drain leaves what is not due yet. *)
NothingDue(a) ==
  /\ ~stopped /\ pass[a].at = "locked" /\ a # Flush
  /\ DueTasks(queue, now) = {}
  /\ persistLock' = NONE
  /\ stopped' = (a = Shutdown)
  /\ Steps(a, NewPass)
  /\ UNCHANGED <<tableVars, queue, request, diskVars, now, ghosts>>

(* ... or finds none, which is where the shutdown stops asking. *)
NoTask(a) ==
  /\ ~stopped /\ pass[a].at = "locked" /\ a # Flush
  /\ DueTasks(queue, pass[a].now) = {}
  /\ persistLock' = NONE
  /\ stopped' = (a = Shutdown)
  /\ Steps(a, NewPass)
  /\ UNCHANGED <<tableVars, queue, request, diskVars, now, ghosts>>

(* flush takes everything in one go. *)
TakeAll ==
  /\ ~stopped /\ pass[Flush].at = "locked"
  /\ queue' = EmptyQueue
  /\ Steps(Flush, [pass[Flush] EXCEPT !.at = "working", !.tasks = AllTasks(queue)])
  /\ recent' = {}
  /\ UNCHANGED <<tableVars, request, persistLock, diskVars, now, stopped, unsettled>>

(* execute: the table is looked up by name... *)
LookUp(a, task) ==
  /\ ~stopped /\ pass[a].at = "working"
  /\ task \in HandedOutNext(pass[a].tasks)
  /\ Steps(a, [pass[a] EXCEPT !.at = "found", !.tasks = @ \ {task}, !.task = task,
                              !.inst = tables[TableOf(task)]])
  /\ UNCHANGED <<tableVars, queue, request, persistLock, diskVars, now, stopped, ghosts>>

(* ... its attributes are copied out of it: they are what tables.meta gets,  *)
(* and whether the rows matter...                                            *)
ReadAttributes(a) ==
  LET inst == pass[a].inst IN
  /\ ~stopped /\ pass[a].at = "found"
  /\ Steps(a,
       IF pass[a].task[2] = META
       THEN [pass[a] EXCEPT !.at = "read", !.found = MetadataToWrite(inst)]
       ELSE IF inst # NONE /\ persistAttr[inst]
       THEN [pass[a] EXCEPT !.at = "persisted"]
       ELSE [pass[a] EXCEPT !.at = "read", !.found = EMPTY])
  /\ UNCHANGED <<tableVars, queue, request, persistLock, diskVars, now, stopped, ghosts>>

(* ... then its rows, under its lock...                                      *)
ReadRows(a) ==
  /\ ~stopped /\ pass[a].at = "persisted"
  /\ Steps(a, [pass[a] EXCEPT !.at = "read",
                              !.found = rows[pass[a].inst][pass[a].task[2]]])
  /\ UNCHANGED <<tableVars, queue, request, persistLock, diskVars, now, stopped, ghosts>>

(* ... and written, or deleted, without the table's lock.                    *)
WriteDisk(a) ==
  /\ ~stopped /\ pass[a].at = "read"
  /\ IF pass[a].task[2] = META
     THEN /\ diskMeta' = [diskMeta EXCEPT ![TableOf(pass[a].task)] = pass[a].found]
          /\ UNCHANGED diskRows
     ELSE /\ diskRows' = [diskRows EXCEPT ![pass[a].task] = pass[a].found]
          /\ UNCHANGED diskMeta
  /\ Steps(a, [NewPass EXCEPT !.at = "working", !.now = pass[a].now, !.tasks = pass[a].tasks])
  /\ UNCHANGED <<tableVars, queue, request, persistLock, now, stopped, ghosts>>

EndPass(a) ==
  /\ ~stopped /\ pass[a].at = "working" /\ pass[a].tasks = {}
  /\ persistLock' = NONE
  /\ Steps(a, NewPass)
  /\ recent' = IF a = Flush THEN {} ELSE recent
  /\ UNCHANGED <<tableVars, queue, request, diskVars, now, stopped, unsettled>>

-----------------------------------------------------------------------------
Tick ==
  /\ ~stopped /\ now < MaxTime
  /\ now' = now + 1
  /\ UNCHANGED <<tableVars, queue, request, persistLock, pass, diskVars, stopped, ghosts>>

(* The process stops or dies, and starts again.  load_namespace: a table of *)
(* tables.meta gets its attributes back, partitions of one that is not      *)
(* there are restored into a table with default attributes; nothing is      *)
(* marked.                                                                  *)
DefaultPersist == TRUE

Stored(t) == {p \in Partitions : diskRows[<<t, p>>] # EMPTY}
(* Slips: only tables that have rows, or only persisted ones, come back. *)
OnDiskWithRows == {t \in Tables : Stored(t) # {}}
OnDisk == {t \in Tables : diskMeta[t] # NONE \/ Stored(t) # {}}

Restart ==
  /\ \E place \in [OnDisk -> Instances] :
       /\ \A t1, t2 \in OnDisk : place[t1] = place[t2] => t1 = t2
       /\ tables' = [t \in Tables |-> IF t \in OnDisk THEN place[t] ELSE NONE]
       /\ rows' = [i \in Instances |-> [p \in Partitions |->
                     IF \E t \in OnDisk : place[t] = i
                     THEN diskRows[<<CHOOSE t \in OnDisk : place[t] = i, p>>] ELSE EMPTY]]
       /\ persistAttr' = [i \in Instances |->
                     IF \E t \in OnDisk : place[t] = i /\ diskMeta[t] # NONE
                     THEN diskMeta[CHOOSE t \in OnDisk : place[t] = i] ELSE DefaultPersist]
  /\ queue' = EmptyQueue
  /\ request' = [r \in Requests |-> NewRequest]
  /\ persistLock' = NONE
  /\ pass' = [a \in Passes |-> NewPass]
  /\ now' = 0
  /\ stopped' = FALSE
  /\ unsettled' = {s \in Slots : diskMeta[s[1]] = FALSE /\ diskRows[s] # EMPTY}
                  \cup {MetadataOf(t) : t \in {u \in OnDisk : diskMeta[u] = NONE}}
  /\ recent' = {}
  /\ UNCHANGED diskVars

-----------------------------------------------------------------------------
RequestStep(r) ==
  \/ \E t \in Tables, d \in Periods : Resolve(r, t, d) \/ DeleteTable(r, t, d)
  \/ \E parts \in (SUBSET Partitions) \ {{}}, v \in Values : Write(r, parts, v)
  \/ \E parts \in (SUBSET Partitions) \ {{}} : Remove(r, parts)
  \/ NothingToDo(r)
  \/ \E persist \in Settings : SetTableAttributes(r, persist)
  \/ \E t \in Tables, i \in Instances, persist \in Settings, d \in Periods :
       CreateTable(r, t, i, persist, d)
  \/ CleanDeleted(r)
  \/ \E x \in Partitions \cup {META} : Mark(r, x)

PassStep(a) ==
  \/ TakeLock(a) \/ NoTask(a) \/ ReadAttributes(a) \/ ReadRows(a) \/ WriteDisk(a) \/ EndPass(a)
  \/ \E task \in Task : TakeTask(a, task) \/ LookUp(a, task)

Next ==
  \/ \E r \in Requests : RequestStep(r)
  \/ \E a \in Passes : PassStep(a)
  \/ StartTimer \/ TakeAll \/ Tick \/ Restart

Spec == Init /\ [][Next]_vars

-----------------------------------------------------------------------------
RequestState ==
  [at : {"idle", "resolved", "removed", "marking"}, table : Tables \cup {NONE},
   inst : Instances \cup {NONE}, owes : SUBSET (Partitions \cup {META}), due : Nat]

PassState ==
  [at : {"idle", "waiting", "locked", "working", "found", "persisted", "read"}, now : Nat \cup {NONE},
   tasks : SUBSET Task, task : Task \cup {NONE}, inst : Instances \cup {NONE},
   found : Content \cup BOOLEAN \cup {NONE}]

(* The types of the variables. *)
TypeOK ==
  /\ tables \in [Tables -> Instances \cup {NONE}]
  /\ rows \in [Instances -> [Partitions -> Content]]
  /\ persistAttr \in [Instances -> BOOLEAN]
  /\ queue \in Queue
  /\ request \in [Requests -> RequestState]
  /\ persistLock \in Passes \cup {NONE}
  /\ pass \in [Passes -> PassState]
  /\ diskRows \in [Slots -> Content]
  /\ diskMeta \in [Tables -> BOOLEAN \cup {NONE}]
  /\ now \in Nat
  /\ stopped \in BOOLEAN
  /\ unsettled \subseteq Task
  /\ recent \subseteq Task

(* What the disk still has to be told about a task: it is queued, taken by a *)
(* pass that has not come to it, or a request is on its way to mark it.      *)
OwedByRequest(r, task) ==
  /\ request[r].table = TableOf(task)
  /\ \/ request[r].at = "marking" /\ task[2] \in request[r].owes
     \/ /\ request[r].at = "removed"
        /\ task[2] = META \/ task[2] \in HasRows(request[r].inst)

Owed(task) ==
  \/ queue[task] # NONE
  \/ \E a \in Passes : task \in pass[a].tasks
  \/ \E r \in Requests : OwedByRequest(r, task)

BeingWritten(task) == \E a \in Passes : pass[a].at \in {"found", "persisted", "read"} /\ pass[a].task = task

OnDiskNow(task) == IF task[2] = META THEN diskMeta[TableOf(task)] ELSE diskRows[task]
Wanted(task) == ToWrite(tables[TableOf(task)], task)

Durable(task) == task \in unsettled \/ OnDiskNow(task) = Wanted(task)

(* No change is forgotten: whatever the interleaving of requests, passes,    *)
(* flushes, deleted and recreated tables and crashes, a partition or a       *)
(* tables.meta entry that nobody owes the disk any more is on the disk as    *)
(* the server would write it now.  The exceptions are the ones the code      *)
(* makes: nothing is marked when persist is switched, nor for what a start   *)
(* restored.                                                                 *)
OwedOrDurable == \A task \in Task : Owed(task) \/ BeingWritten(task) \/ Durable(task)

(* When a flush is through its snapshot, everything marked before it took    *)
(* the snapshot is on disk, also what another pass had taken by then: only   *)
(* later marks, and requests that have not marked yet, are left.             *)
FlushSettles ==
  (pass[Flush].at = "working" /\ pass[Flush].tasks = {}) =>
    \A task \in Task :
      \/ task \in recent
      \/ \E r \in Requests : OwedByRequest(r, task)
      \/ Durable(task)

(* When the shutdown drain stops asking, every change whose request has      *)
(* answered is on disk, whatever sync period it had asked for.               *)
ShutdownDrains ==
  stopped => \A task \in Task :
               (\E r \in Requests : OwedByRequest(r, task)) \/ Durable(task)

(* A start brings back what the disk was told: a table nothing is owed for   *)
(* has after the restart the same attributes and rows, or is not there, as   *)
(* before.                                                                   *)
Settled(task) == ~Owed(task) /\ ~BeingWritten(task) /\ task \notin unsettled

RestartRestores ==
  [][Restart => \A t \in Tables :
        (\A task \in Task : TableOf(task) = t => Settled(task))
           => \A task \in Task : TableOf(task) = t => Wanted(task)' = Wanted(task)]_vars

-----------------------------------------------------------------------------
(* What comments and the design say, and the code does not keep.             *)

(* delete_table: once the name is gone "nothing can resolve it by name, so   *)
(* no write can land in what is about to be emptied".  The requests that     *)
(* resolved it before still write.                                           *)
Named(i) == \E t \in Tables : tables[t] = i

NoWriteLandsInRemovedTable ==
  [][\A i \in Instances :
        (~Named(i) /\ ~Named(i)') => \A p \in Partitions : rows'[i][p] \in {EMPTY, rows[i][p]}]_vars

(* DESIGN.md: "a row cannot land on disk earlier than the metadata naming    *)
(* its table".  get_task puts due metadata before due rows, but the metadata *)
(* may be due later, or not be marked yet.                                   *)
RowsLandAfterMetadata ==
  [][\A s \in Slots :
        (diskRows[s] = EMPTY /\ diskRows'[s] # EMPTY) => diskMeta[TableOf(s)] # NONE]_vars

(* execute: "A table which is not persisted must hold nothing on disk -      *)
(* including the slots it filled while the attribute was still on".  Nobody  *)
(* marks those slots when it is switched off.                                *)
NotPersistedHoldsNothing ==
  \A s \in Slots :
    (/\ tables[TableOf(s)] # NONE
     /\ ~persistAttr[tables[TableOf(s)]]
     /\ ~Owed(s) /\ ~BeingWritten(s)) => diskRows[s] = EMPTY

(* flush: "everything they had written before they asked is on disk".  Rows  *)
(* a pass has skipped while persistence was off are not marked again when it *)
(* is switched on.                                                           *)
FlushedRowsAreOnDisk ==
  (pass[Flush].at = "working" /\ pass[Flush].tasks = {}) =>
    \A s \in Slots :
      LET inst == tables[TableOf(s)] IN
      (/\ inst # NONE /\ persistAttr[inst]
       /\ s \notin recent
       /\ \A r \in Requests : ~OwedByRequest(r, s)) => diskRows[s] = rows[inst][s[2]]
=============================================================================
