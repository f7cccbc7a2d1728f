------------------------------ MODULE Backups ------------------------------
(***************************************************************************)
(* Backups: how an archive is built from what is served, how it gets its   *)
(* name and its place in the folder (persist/backup/backups_repo.rs), the  *)
(* timer that takes them and removes the oldest                            *)
(* (background/backup_timer.rs), uploads, and the restore of one           *)
(* (db_operations/backup.rs), beside the collector of schemas              *)
(* (db_operations/gc.rs).                                                  *)
(*                                                                         *)
(* Any number of calls and the timer run at once and share nothing but the *)
(* folder: a name is taken there, by creating the file the archive is      *)
(* written through, and between any two operations on files the others     *)
(* move on.  A second is the resolution of a name.                         *)
(*                                                                         *)
(* Abstractions.  A namespace has at most one table at a time, which is    *)
(* dropped and created anew at most MaxDrops times; a row is the entity    *)
(* version (the schema) it was written under, one row to a partition.      *)
(* A writer registers the version and inserts the row in one step, and the *)
(* collector, which a write between its walk and its drop calls off, walks *)
(* and drops in one: what happens in between is the subject of RowWrites.  *)
(* A crash loses the calls and leaves the folder; what a start finds of    *)
(* the tables is that of WriteBehind, here they are as they were.          *)
(***************************************************************************)
EXTENDS Naturals, FiniteSets

CONSTANTS
  Namespaces, Partitions,
  Versions,      \* schema ids, numbers: the largest survives a collection
  Jobs,          \* calls, each made at most once
  TIMER,         \* the timer's task
  NONE, BROKEN,  \* BROKEN: a partition blob that does not parse
  STALE,         \* the owner of a reservation nobody writes through any more
  MaxBackups,    \* settings: how many archives of a namespace the timer keeps
  Interval,      \* settings: seconds between two backups of the timer
  MaxPerSecond,  \* MAX_BACKUPS_PER_SECOND
  LastSecond,    \* bound: the clock
  Loaded,        \* bound: the versions of rows that a start has loaded
  MaxDrops,      \* bound: tables dropped
  MaxEvents      \* bound: rows written, tables dropped, crashes and refused
                 \* file operations, together

ASSUME VersionsAssumption == Versions \subseteq Nat /\ Loaded \subseteq Versions
ASSUME SettingsAssumption == MaxBackups \in Nat /\ Interval \in Nat
ASSUME NamesAssumption == MaxPerSecond \in Nat \ {0} /\ LastSecond \in Nat
ASSUME BoundsAssumption == {MaxDrops, MaxEvents} \subseteq Nat

Tasks == Jobs \cup {TIMER}
Tables == Namespaces \X (0..MaxDrops)
NoRows == [p \in Partitions |-> NONE]
EmptyTable == [schemas |-> {}, rows |-> NoRows]

(* What a zip holds: a table's attributes, the schemas in them, and its      *)
(* partitions - or no table at all.                                          *)
EmptyArchive == [table |-> FALSE, schemas |-> {}, rows |-> NoRows]
OfTable(schemas) == [table |-> TRUE, schemas |-> schemas, rows |-> NoRows]
Held(archive) == {p \in Partitions : archive.rows[p] # NONE}
Archive == [table : BOOLEAN, schemas : SUBSET Versions,
            rows : [Partitions -> Versions \cup {NONE, BROKEN}]]

(* No table, no archive and no owner are none of those there are.            *)
ASSUME ApartAssumption ==
  /\ NONE \notin Tasks \cup (0..MaxDrops) /\ STALE \notin Tasks
  /\ NONE \notin Archive \cup Tables

(* What a caller hands back is any zip that reads as one, blobs unseen.      *)
Uploads == {[OfTable({}) EXCEPT !.rows = [p \in Partitions |-> BROKEN]]}

(* Stamps sort as the names made of them do.                                 *)
Stamps == (0..LastSecond) \X (1..MaxPerSecond)
Older(s, t) == s[1] < t[1] \/ (s[1] = t[1] /\ s[2] < t[2])

VARIABLES
  clock,        \* seconds
  current,      \* namespace -> its table, or NONE
  table,        \* table -> its schemas and rows; held by who resolved it
  folder,       \* namespace -> stamp -> the archive of that name, or NONE
  reserved,     \* namespace -> stamp -> the task whose .tmp it is, STALE, or NONE
  task,         \* task -> where it is, with its locals
  lastTaken,    \* BackupTimer::last_taken
  drops, faults, puts,
  promised,     \* history: archives whose name was answered, with the name
  raced,        \* history: names an archive got while another task, which had found
                \* nothing of that name, was about to take it, or while a look for
                \* it was refused
  gaps          \* history: table -> versions its rows may lack: an archive restored
                \* into it did, or they were collected before its rows came

files == <<folder, reserved>>
data == <<current, table>>
counters == <<drops, faults, puts>>
history == <<promised, raced, gaps>>
vars == <<clock, current, table, folder, reserved, task, lastTaken, counters, history>>

(* A table as it was loaded, with the versions that its rows name.          *)
LoadedTables ==
  {[schemas |-> {rows[p] : p \in Partitions} \ {NONE}, rows |-> rows] :
     rows \in [Partitions -> Loaded \cup {NONE}]}

Idle == [at |-> "idle", kind |-> NONE, ns |-> NONE, todo |-> {}, now |-> 0,
         attempt |-> 1, of |-> NONE, left |-> {}, archive |-> EmptyArchive,
         taken |-> {}, tidy |-> {}]

Init ==
  /\ clock = 0
  /\ current \in [Namespaces -> {NONE, 0}]
  /\ \E loaded \in [Namespaces -> LoadedTables] :
       table = [o \in Tables |-> IF o[2] = current[o[1]] THEN loaded[o[1]] ELSE EmptyTable]
  /\ folder = [n \in Namespaces |-> [s \in Stamps |-> NONE]]
  /\ reserved = [n \in Namespaces |-> [s \in Stamps |-> NONE]]
  /\ task = [j \in Tasks |-> Idle]
  /\ lastTaken = NONE
  /\ drops = 0 /\ faults = 0 /\ puts = 0
  /\ promised = {} /\ raced = {} /\ gaps = [o \in Tables |-> {}]

At(j, place) == task[j].at = place
Goes(j, next) == task' = [task EXCEPT ![j] = next]
Ends(j) == Goes(j, [Idle EXCEPT !.at = IF j = TIMER THEN "idle" ELSE "ended"])
Moves(j, place) == Goes(j, [task[j] EXCEPT !.at = place])
TableOf(n) == <<n, current[n]>>
Spent == drops + faults + puts

-----------------------------------------------------------------------------
(* The tables, as far as a backup sees them.                                 *)

(* The version is registered, and the row inserted.                          *)
Put(n, p, v) ==
  /\ current[n] # NONE
  /\ Spent < MaxEvents
  /\ puts' = puts + 1
  /\ table' = [table EXCEPT ![TableOf(n)].schemas = @ \cup {v},
                            ![TableOf(n)].rows[p] = v]
  /\ UNCHANGED <<clock, current, files, task, lastTaken, drops, faults, history>>

(* A dropped table is emptied, and lives on in the calls that hold it.       *)
DropTable(n) ==
  /\ current[n] # NONE
  /\ drops < MaxDrops
  /\ Spent < MaxEvents
  /\ drops' = drops + 1
  /\ current' = [current EXCEPT ![n] = NONE]
  /\ IF \E j \in Tasks : task[j].of = TableOf(n)
     THEN table' = [table EXCEPT ![TableOf(n)].rows = NoRows] /\ UNCHANGED gaps
     ELSE /\ table' = [table EXCEPT ![TableOf(n)] = EmptyTable]
          /\ gaps' = [gaps EXCEPT ![TableOf(n)] = {}]
  /\ UNCHANGED <<clock, files, task, lastTaken, faults, puts, promised, raced>>

(* The next table of a namespace is one nobody has held.                     *)
Unheld == drops
CreateTable(n) ==
  /\ current[n] = NONE
  /\ current' = [current EXCEPT ![n] = Unheld]
  /\ UNCHANGED <<clock, table, files, task, lastTaken, counters, history>>

(* The versions of the rows that a restore is about to insert.               *)
Brought(j) == {task[j].archive.rows[p] : p \in Held(task[j].archive) \cap task[j].left}

(* The collector of schemas, at a table that is served or that it resolved   *)
(* before it was dropped: of more than one schema, it keeps those that rows  *)
(* in the table name, or else the largest.                                   *)
Collect(o) ==
  LET schemas == table[o].schemas
      named == {v \in schemas : \E p \in Partitions : table[o].rows[p] = v}
      kept == IF named # {} THEN named
              ELSE {v \in schemas : \A w \in schemas : w <= v}
      coming == UNION {Brought(j) : j \in {k \in Tasks : At(k, "insert") /\ task[k].of = o}}
  IN  /\ Cardinality(schemas) > 1
      /\ table' = [table EXCEPT ![o].schemas = kept]
      /\ gaps' = [gaps EXCEPT ![o] = @ \cup (coming \cap (schemas \ kept))]
      /\ UNCHANGED <<clock, current, files, task, lastTaken, counters, promised, raced>>

-----------------------------------------------------------------------------
(* Who asks for an archive.                                                  *)

IsDue == lastTaken # NONE => clock - lastTaken >= Interval

(* The interval starts when a backup is begun, whatever becomes of it.       *)
TimerTick ==
  /\ At(TIMER, "idle")
  /\ IsDue
  /\ lastTaken' = clock
  /\ Goes(TIMER, [Idle EXCEPT !.at = "next", !.kind = "all", !.todo = Namespaces,
                              !.now = clock])
  /\ UNCHANGED <<clock, data, files, counters, history>>

CallAll(j) ==
  /\ At(j, "idle")
  /\ Goes(j, [Idle EXCEPT !.at = "next", !.kind = "all", !.todo = Namespaces, !.now = clock])
  /\ UNCHANGED <<clock, data, files, lastTaken, counters, history>>

CallOne(j, n) ==
  /\ At(j, "idle")
  /\ Goes(j, [Idle EXCEPT !.at = "build", !.kind = "one", !.ns = n, !.of = TableOf(n),
                          !.now = clock])
  /\ UNCHANGED <<clock, data, files, lastTaken, counters, history>>

CallUpload(j, n) ==
  /\ At(j, "idle")
  /\ \E archive \in Uploads :
       Goes(j, [Idle EXCEPT !.at = "reserve", !.kind = "one", !.ns = n,
                            !.archive = archive, !.now = clock])
  /\ UNCHANGED <<clock, data, files, lastTaken, counters, history>>

(* A namespace without tables gets no archive from a call that takes them    *)
(* all.  When there is none left, the timer turns to tidying up.             *)
NextNamespace(j) ==
  /\ At(j, "next")
  /\ IF task[j].todo = {}
     THEN IF j = TIMER THEN Moves(j, "list") ELSE Ends(j)
     ELSE \E n \in task[j].todo :
            LET rest == [task[j] EXCEPT !.todo = @ \ {n}]
            IN  Goes(j, IF current[n] = NONE THEN rest
                        ELSE [rest EXCEPT !.at = "build", !.ns = n, !.of = TableOf(n),
                                          !.attempt = 1, !.archive = EmptyArchive])
  /\ UNCHANGED <<clock, data, files, lastTaken, counters, history>>

-----------------------------------------------------------------------------
(* The archive: the attributes, the keys, then partition by partition, each  *)
(* as it is when its turn comes.                                             *)

ReadAttributes(j) ==
  /\ At(j, "build")
  /\ Goes(j, IF task[j].of[2] = NONE
             THEN [task[j] EXCEPT !.at = "reserve"]
             ELSE [task[j] EXCEPT !.at = "keys",
                                  !.archive = OfTable(table[task[j].of].schemas)])
  /\ UNCHANGED <<clock, data, files, lastTaken, counters, history>>

ListPartitions(j) ==
  /\ At(j, "keys")
  /\ LET keys == Held(table[task[j].of])
     IN  Goes(j, [task[j] EXCEPT !.at = IF keys = {} THEN "reserve" ELSE "rows",
                                 !.left = keys])
  /\ UNCHANGED <<clock, data, files, lastTaken, counters, history>>

ReadPartition(j) ==
  /\ At(j, "rows")
  /\ \E p \in task[j].left :
       Goes(j, [task[j] EXCEPT !.at = IF task[j].left = {p} THEN "reserve" ELSE "rows",
                               !.left = @ \ {p},
                               !.archive.rows[p] = table[task[j].of].rows[p]])
  /\ UNCHANGED <<clock, data, files, lastTaken, counters, history>>

-----------------------------------------------------------------------------
(* Its name and its place.                                                   *)

Stamp(j) == <<task[j].now, task[j].attempt>>

(* Slip: a panic, which takes the timer's task with it.                      *)
FailsForGood(j) ==
  /\ Spent < MaxEvents
  /\ faults' = faults + 1
  /\ Goes(j, [Idle EXCEPT !.at = "ended"])

(* A backup that fails ends the call; a namespace taken before it keeps what *)
(* it got, and one after it gets none.                                       *)
Fails(j) ==
  /\ Spent < MaxEvents
  /\ faults' = faults + 1
  /\ Ends(j)

NextAttempt(j) ==
  IF task[j].attempt = MaxPerSecond
  THEN Ends(j)
  ELSE Goes(j, [task[j] EXCEPT !.at = "reserve", !.attempt = @ + 1])

TryExists(j) ==
  /\ At(j, "reserve")
  /\ IF folder[task[j].ns][Stamp(j)] # NONE THEN NextAttempt(j) ELSE Moves(j, "create")
  /\ UNCHANGED <<clock, data, files, lastTaken, counters, history>>

CreateNew(j) ==
  /\ At(j, "create")
  /\ IF reserved[task[j].ns][Stamp(j)] # NONE
     THEN NextAttempt(j) /\ UNCHANGED reserved
     ELSE /\ reserved' = [reserved EXCEPT ![task[j].ns][Stamp(j)] = j]
          /\ Moves(j, "write")
  /\ UNCHANGED <<clock, data, folder, lastTaken, counters, history>>

(* try_exists refused is answered as if there were nothing of that name.     *)
TryExistsRefused(j) ==
  /\ At(j, "reserve")
  /\ folder[task[j].ns][Stamp(j)] # NONE
  /\ Spent < MaxEvents
  /\ faults' = faults + 1
  /\ Moves(j, "create")
  /\ raced' = raced \cup {<<task[j].ns, Stamp(j)>>}
  /\ UNCHANGED <<clock, data, files, lastTaken, drops, puts, promised, gaps>>

(* create_dir_all and the creation of the file may be refused.               *)
Refused(j) ==
  /\ task[j].at \in {"reserve", "create"}
  /\ Fails(j)
  /\ UNCHANGED <<clock, data, files, lastTaken, drops, puts, history>>

(* Written, flushed, and renamed over whatever has come to be there: what is *)
(* listed is never half of one.                                              *)
WriteAndRename(j) ==
  LET n == task[j].ns
      s == Stamp(j)
  IN  /\ At(j, "write")
      /\ folder' = [folder EXCEPT ![n][s] = task[j].archive]
      /\ reserved' = [reserved EXCEPT ![n][s] = NONE]
      /\ promised' = promised \cup {<<n, s, task[j].archive>>}
      /\ raced' = IF \E i \in Tasks : At(i, "create") /\ task[i].ns = n /\ Stamp(i) = s
                  THEN raced \cup {<<n, s>>} ELSE raced
      /\ IF task[j].kind = "one"
         THEN Ends(j)
         ELSE Goes(j, [Idle EXCEPT !.at = "next", !.kind = "all", !.todo = task[j].todo,
                                   !.now = task[j].now, !.taken = task[j].taken \cup {n}])
      /\ UNCHANGED <<clock, data, lastTaken, counters, gaps>>

(* A write or a rename that did not happen gives the name back, by removing  *)
(* the file - which may fail as well, and is not tried again.                *)
GivesBack(j) ==
  /\ At(j, "write")
  /\ Fails(j)
  /\ \E left \in {NONE, STALE} :
       reserved' = [reserved EXCEPT ![task[j].ns][Stamp(j)] = left]
  /\ UNCHANGED <<clock, data, folder, lastTaken, drops, puts, history>>

-----------------------------------------------------------------------------
(* Retention, by the timer and for the namespaces it has just taken.         *)

Listed(n) == {s \in Stamps : folder[n][s] # NONE}
Newer(all, s) == {t \in all : Older(s, t)}

(* Slip: one too many are past the last.                                     *)
PastOneLess(n) == {s \in Listed(n) : Cardinality(Newer(Listed(n), s)) + 1 >= MaxBackups}

PastTheLast(n) == {s \in Listed(n) : Cardinality(Newer(Listed(n), s)) >= MaxBackups}

List(j) ==
  /\ At(j, "list")
  /\ IF task[j].taken = {}
     THEN Ends(j)
     ELSE \E n \in task[j].taken :
            Goes(j, [task[j] EXCEPT !.at = "tidy", !.ns = n, !.taken = @ \ {n},
                                    !.tidy = PastTheLast(n)])
  /\ UNCHANGED <<clock, data, files, lastTaken, counters, history>>

(* Oldest first; a file that can not be removed is passed over.              *)
Tidy(j) ==
  LET oldest == {s \in task[j].tidy : \A t \in task[j].tidy : ~Older(t, s)}
  IN  /\ At(j, "tidy")
      /\ IF task[j].tidy = {}
         THEN Moves(j, "list") /\ UNCHANGED <<folder, faults>>
         ELSE \E s \in oldest :
                /\ Goes(j, [task[j] EXCEPT !.tidy = @ \ {s}])
                /\ \/ /\ folder' = [folder EXCEPT ![task[j].ns][s] = NONE]
                      /\ UNCHANGED faults
                   \/ /\ Spent < MaxEvents
                      /\ faults' = faults + 1
                      /\ UNCHANGED folder
      /\ UNCHANGED <<clock, data, reserved, lastTaken, drops, puts, history>>

-----------------------------------------------------------------------------
(* Restore.                                                                  *)

(* All of an archive or one partition of it; left is what was asked for.     *)
CallRestore(j, n, s) ==
  /\ At(j, "idle")
  /\ folder[n][s] # NONE
  /\ \E only \in {Partitions} \cup {{p} : p \in Partitions} :
       Goes(j, [Idle EXCEPT !.at = "table", !.kind = "restore", !.ns = n,
                            !.archive = folder[n][s], !.left = only])
  /\ UNCHANGED <<clock, data, files, lastTaken, counters, history>>

(* get_or_create: a live table is restored into, a new one starts with the   *)
(* archive's attributes.                                                     *)
RestoreTable(j) ==
  LET n == task[j].ns
      g == IF current[n] = NONE THEN Unheld ELSE current[n]
  IN  /\ At(j, "table")
      /\ IF ~task[j].archive.table
         THEN Ends(j) /\ UNCHANGED data
         ELSE /\ current' = [current EXCEPT ![n] = g]
              /\ table' = IF current[n] # NONE THEN table
                          ELSE [table EXCEPT ![<<n, g>>].schemas = task[j].archive.schemas]
              /\ Goes(j, [task[j] EXCEPT !.at = "attributes", !.of = <<n, g>>])
      /\ UNCHANGED <<clock, files, lastTaken, counters, history>>

(* Slip: a table that is already there keeps its own schemas.                *)
RestoreNoAttributes(j) ==
  /\ At(j, "attributes")
  /\ Moves(j, "insert")
  /\ UNCHANGED <<clock, data, files, lastTaken, counters, history>>

(* The archive's schemas join the table's, and the metadata is marked.       *)
RestoreAttributes(j) ==
  /\ At(j, "attributes")
  /\ table' = [table EXCEPT ![task[j].of].schemas = @ \cup task[j].archive.schemas]
  /\ Moves(j, "insert")
  /\ UNCHANGED <<clock, current, files, lastTaken, counters, history>>

(* A blob that does not parse ends the call before any row of the table is   *)
(* touched; otherwise what was asked for replaces the table's at once.       *)
RestoreRows(j) ==
  LET archive == task[j].archive
      o == task[j].of
      wanted == Held(archive) \cap task[j].left
  IN  /\ At(j, "insert")
      /\ IF BROKEN \in Brought(j)
         THEN UNCHANGED <<table, gaps>>
         ELSE /\ table' = [table EXCEPT ![o].rows =
                   [p \in Partitions |-> IF p \in wanted THEN archive.rows[p] ELSE @[p]]]
              /\ gaps' = [gaps EXCEPT ![o] = @ \cup (Brought(j) \ archive.schemas)]
      /\ Ends(j)
      /\ UNCHANGED <<clock, current, files, lastTaken, counters, promised, raced>>

-----------------------------------------------------------------------------
ClockTicks ==
  /\ clock < LastSecond
  /\ clock' = clock + 1
  /\ UNCHANGED <<data, files, task, lastTaken, counters, history>>

Crash ==
  /\ Spent < MaxEvents
  /\ faults' = faults + 1
  /\ task' = [j \in Tasks |-> IF j = TIMER \/ At(j, "idle") THEN Idle
                              ELSE [Idle EXCEPT !.at = "ended"]]
  /\ reserved' = [n \in Namespaces |-> [s \in Stamps |->
       IF reserved[n][s] = NONE THEN NONE ELSE STALE]]
  /\ lastTaken' = NONE
  /\ UNCHANGED <<clock, data, folder, drops, puts, history>>

Step(j) ==
  \/ NextNamespace(j) \/ ReadAttributes(j) \/ ListPartitions(j) \/ ReadPartition(j)
  \/ TryExists(j) \/ CreateNew(j) \/ WriteAndRename(j)
  \/ List(j) \/ Tidy(j)
  \/ RestoreTable(j) \/ RestoreAttributes(j) \/ RestoreRows(j)

Next ==
  \/ TimerTick \/ ClockTicks \/ Crash
  \/ \E j \in Tasks : Step(j) \/ TryExistsRefused(j) \/ Refused(j) \/ GivesBack(j)
  \/ \E j \in Jobs : CallAll(j)
  \/ \E j \in Jobs, n \in Namespaces :
       CallOne(j, n) \/ CallUpload(j, n) \/ \E s \in Stamps : CallRestore(j, n, s)
  \/ \E n \in Namespaces : DropTable(n) \/ CreateTable(n)
  \/ \E n \in Namespaces, p \in Partitions, v \in Versions : Put(n, p, v)
  \/ \E o \in Tables : Collect(o)

(* Tasks are run, the timer ticks; nobody has to call or to write.           *)
Fairness == WF_vars(TimerTick) /\ \A j \in Tasks : WF_vars(Step(j))
Spec == Init /\ [][Next]_vars /\ Fairness

-----------------------------------------------------------------------------
Places == {"idle", "next", "build", "keys", "rows", "reserve", "create", "write",
           "list", "tidy", "table", "attributes", "insert", "ended"}

TypeOK ==
  /\ clock \in 0..LastSecond
  /\ current \in [Namespaces -> {NONE} \cup (0..MaxDrops)]
  /\ table \in [Tables -> [schemas : SUBSET Versions,
                           rows : [Partitions -> Versions \cup {NONE}]]]
  /\ folder \in [Namespaces -> [Stamps -> Archive \cup {NONE}]]
  /\ reserved \in [Namespaces -> [Stamps -> Tasks \cup {STALE, NONE}]]
  /\ \A j \in Tasks :
       /\ task[j].at \in Places
       /\ task[j].attempt \in 1..MaxPerSecond
       /\ task[j].archive \in Archive
       /\ task[j].todo \cup task[j].taken \subseteq Namespaces
       /\ task[j].tidy \subseteq Stamps
       /\ task[j].left \subseteq Partitions
  /\ lastTaken \in {NONE} \cup (0..clock)
  /\ promised \subseteq Namespaces \X Stamps \X Archive
  /\ raced \subseteq Namespaces \X Stamps

(* A reservation lasts as long as its archive is being written: what no      *)
(* running task answers for was left by a crash, or by a file that could not *)
(* be removed.  Otherwise every later backup of that second would step over  *)
(* a name nobody writes.                                                     *)
(* (backups_repo.rs, write_and_rename)                                       *)
ReservationsAreHeld ==
  \A n \in Namespaces, s \in Stamps : reserved[n][s] \in Tasks =>
    LET j == reserved[n][s]
    IN  At(j, "write") /\ task[j].ns = n /\ Stamp(j) = s

(* An archive whose name was answered to whoever asked for it stays under    *)
(* that name until MaxBackups newer ones are beside it, whatever the timer   *)
(* listed before they came - but for names of "raced", where another one may *)
(* have taken its place.  (backups_repo.rs, keep_last, reserve_name)         *)
KeptUntilOutnumbered ==
  \A a \in promised :
    LET n == a[1]
        s == a[2]
    IN  \/ folder[n][s] = a[3]
        \/ Cardinality(Newer(Listed(n), s)) >= MaxBackups
        \/ <<n, s>> \in raced

(* The folder keeps what tasks rely on: a reservation for as long as its     *)
(* archive is written, an archive until newer ones take its place            *)
(* (backups_repo.rs:128-290).                                                *)
Inv == TypeOK /\ ReservationsAreHeld /\ KeptUntilOutnumbered

(* A row has its schema in its table, through drops, collections and         *)
(* restores into a table made anew, unless an archive restored into it was   *)
(* built while that schema was being registered, or the schema was collected *)
(* while the restore that had brought it was about to insert the row.        *)
(* (db_operations/backup.rs, restore)                                        *)
RowsKeepTheirSchemas ==
  \A o \in Tables, p \in Partitions :
    table[o].rows[p] \in {NONE} \cup table[o].schemas \cup gaps[o]

(* A backup that failed does not keep the timer from the next one.           *)
(* (backups_repo.rs:56-63, backup_timer.rs:62-74)                            *)
TimerKeepsUp == <>[]~IsDue

(* An archive in its place is not written over: two that were begun at once  *)
(* end up with a name each.  (backups_repo.rs, reserve_name)                 *)
NameTakenOnce ==
  [][\A n \in Namespaces, s \in Stamps :
       folder[n][s] # NONE => folder'[n][s] \in {folder[n][s], NONE}]_vars

(* The schemas come back with the attributes, before the rows: no row is in a *)
(* table that does not know its schema.  (db_operations/backup.rs:185-188)    *)
RestoredRowsAreShown ==
  \A o \in Tables, p \in Partitions : table[o].rows[p] \in {NONE} \cup table[o].schemas

(* An archive holds a table.  (make_backup_action.rs, DESIGN.md)             *)
NoEmptyArchives ==
  \A n \in Namespaces : \A s \in Listed(n) : folder[n][s].table
=============================================================================
