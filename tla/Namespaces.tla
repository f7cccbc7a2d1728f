----------------------------- MODULE Namespaces -----------------------------
(***************************************************************************)
(* Namespaces: the map from names to open namespaces                       *)
(* (app/db_namespaces.rs), their deletion, the move of a table from one to *)
(* another (db_operations/write/namespace.rs), the calls that bring        *)
(* a namespace into existence by naming it, the persist pass over all of   *)
(* them (operations/persist.rs) and the start (operations/init.rs).        *)
(*                                                                         *)
(* A name outlives what it names: an open namespace is an object with its  *)
(* own tables, persist queue and repository, and a second one can be       *)
(* opened on the same folder after the first left the map.  Requests hold  *)
(* the namespace and the table they resolved, whatever becomes of the name.*)
(*                                                                         *)
(* Abstractions.  A table has one partition; each request writes one row   *)
(* of its own.  Tasks are due at once.  What the repository of a namespace *)
(* knows of its folder is the tables it has a slot for and the entries of  *)
(* its tables.meta; the slots themselves are PageFiles, the steps of one   *)
(* task WriteBehind.                                                       *)
(***************************************************************************)
EXTENDS Naturals, FiniteSets, Sequences

CONSTANTS
  Names,        \* namespace names
  DEFAULT,      \* the one that always exists
  Tables,
  Requests,     \* calls, each made at most once
  NONE,
  MaxRestarts   \* bound: crashes

ASSUME NameAssumption == DEFAULT \in Names /\ Tables # {}
ASSUME BoundAssumption == MaxRestarts \in Nat

(* A start opens one namespace per folder and loads its tables; later ones   *)
(* are opened, and tables created, by requests: their names tell them apart. *)
Loaded(n, t) == <<n, t>>
Opened == Names \cup Requests
Objects == (Names \X Tables) \cup Requests
SEEDED == "seeded"               \* the row of the first load, if there is one
Rows == Requests \cup {SEEDED}

ASSUME ApartAssumption ==
  /\ Requests \cap (Names \cup (Names \X Tables) \cup {"pass", NONE, SEEDED}) = {}
  /\ NONE \notin Names \cup Tables \cup (Names \X Tables) \cup {"pass", "done"}

Kinds == {"write", "create", "restore", "move", "delete"}
Metadata(t) == [of |-> "metadata", table |-> t]
Partition(t) == [of |-> "partition", table |-> t]
Task == {Metadata(t) : t \in Tables} \cup {Partition(t) : t \in Tables}

VARIABLES
  map,          \* DbNamespaces::inner: name -> open namespace, or NONE
  writeLock,    \* DbNamespaces::write_lock: the request holding it, or NONE
  tables,       \* open namespace -> table name -> object, or NONE
  queue,        \* open namespace -> its persist markers
  repo,         \* open namespace -> what its repository knows of the folder
  rows,         \* object -> the rows it holds
  folder,       \* name -> what the folder holds
  request,      \* request -> where it is, with its locals
  pass,         \* the persist pass: namespaces still to visit
  persistLock,  \* persist_lock: "pass", a request, or NONE
  restarts,
  forgiven,     \* history: rows whose loss is accounted for
  doomed        \* history: namespaces opened on a folder that was then removed,
                \* or that an unfinished deletion had left behind

memory == <<map, tables, queue, rows>>
history == <<forgiven, doomed>>
vars == <<map, writeLock, tables, queue, repo, rows, folder, request, pass,
          persistLock, restarts, forgiven, doomed>>

NoTables == [t \in Tables |-> NONE]
NewRepo == [index |-> {}, meta |-> {}]
NoFolder == [exists |-> FALSE, meta |-> {}, slot |-> [t \in Tables |-> {}]]
WithTables(content) == [exists |-> TRUE, meta |-> Tables, slot |-> [t \in Tables |-> content]]
NewRequest == [at |-> "idle", kind |-> NONE, name |-> NONE, table |-> NONE,
               ns |-> NONE, source |-> NONE, obj |-> NONE, copied |-> {},
               owes |-> <<>>, then |-> NONE, answer |-> NONE]

Slots(n) == {t \in Tables : folder[n].slot[t] # {}}

(* Every folder found is opened under its name and loaded: the tables of     *)
(* tables.meta, and those only slots speak of.                               *)
LoadedTables(n) == folder[n].meta \cup Slots(n)
OnStart(n) == n = DEFAULT \/ folder[n].exists

Init ==
  /\ \E home \in Names, open \in SUBSET Names, content \in SUBSET {SEEDED} :
       /\ {DEFAULT, home} \subseteq open
       /\ folder = [n \in Names |->
            IF n = home THEN WithTables(content)
            ELSE [NoFolder EXCEPT !.exists = n \in open]]
       /\ forgiven = {SEEDED} \ content
       /\ map = [n \in Names |-> IF n \in open THEN n ELSE NONE]
  /\ writeLock = NONE
  /\ tables = [i \in Opened |->
       [t \in Tables |-> IF i \in Names /\ t \in LoadedTables(i)
                         THEN Loaded(i, t) ELSE NONE]]
  /\ queue = [i \in Opened |-> {}]
  /\ repo = [i \in Opened |-> IF i \in Names
                              THEN [index |-> Slots(i), meta |-> folder[i].meta]
                              ELSE NewRepo]
  /\ rows = [o \in Objects |-> IF o \in Requests THEN {} ELSE folder[o[1]].slot[o[2]]]
  /\ request = [q \in Requests |-> NewRequest]
  /\ pass = {}
  /\ persistLock = NONE
  /\ restarts = 0
  /\ doomed = {}

-----------------------------------------------------------------------------
(* The calls.                                                                *)

At(q, place) == request[q].at = place
Goes(q, next) == request' = [request EXCEPT ![q] = next]
Ends(q, answer) ==
  Goes(q, [request[q] EXCEPT !.at = "ended", !.answer = answer, !.owes = <<>>])

(* What a move names twice, the others once.                                 *)
Call(q) ==
  /\ At(q, "idle")
  /\ \E kind \in Kinds \ {"move", "delete"}, n \in Names, t \in Tables :
       Goes(q, [request[q] EXCEPT !.at = "resolve", !.kind = kind, !.name = n,
                                  !.table = t])
  /\ UNCHANGED <<memory, writeLock, repo, folder, pass, persistLock, restarts, history>>

(* move_table_to_namespace resolves its source first; that namespace has to  *)
(* be there.                                                                 *)
CallMove(q) ==
  /\ At(q, "idle")
  /\ \E n, m \in Names, t \in Tables :
       IF map[n] = NONE
       THEN Ends(q, "namespace not found")
       ELSE Goes(q, [request[q] EXCEPT !.at = "resolve", !.kind = "move", !.name = m,
                                       !.table = t, !.source = map[n]])
  /\ UNCHANGED <<memory, writeLock, repo, folder, pass, persistLock, restarts, history>>

(* get_or_create: the map answers, or the folder is opened under the write   *)
(* lock, which also looks again.                                             *)
AfterResolve(q) == IF request[q].kind = "move" THEN "check" ELSE "table"

Resolve(q) ==
  /\ At(q, "resolve")
  /\ map[request[q].name] # NONE
  /\ Goes(q, [request[q] EXCEPT !.at = AfterResolve(q), !.ns = map[request[q].name]])
  /\ UNCHANGED <<memory, writeLock, repo, folder, pass, persistLock, restarts, history>>

Deleting(n) == \E d \in Requests : /\ request[d].kind = "delete" /\ request[d].name = n
                                   /\ request[d].at \in {"wait", "tables", "folder"}

(* A namespace opened while the folder is not its own, or not empty.         *)
OpensDoomed(n) == Deleting(n) \/ LoadedTables(n) # {}

(* Slip: the lock is not taken.                                              *)
OpenFolderUnlocked(q) == LET n == request[q].name IN
  /\ At(q, "resolve")
  /\ map[n] = NONE
  /\ writeLock' = q
  /\ folder' = [folder EXCEPT ![n].exists = TRUE]
  /\ repo' = [repo EXCEPT ![q] = [index |-> {}, meta |-> folder[n].meta]]
  /\ Goes(q, [request[q] EXCEPT !.at = "prime", !.ns = q])
  /\ doomed' = IF OpensDoomed(n) THEN doomed \cup {q} ELSE doomed
  /\ UNCHANGED <<memory, pass, persistLock, restarts, forgiven>>

OpenFolder(q) == LET n == request[q].name IN
  /\ At(q, "resolve")
  /\ map[n] = NONE /\ writeLock = NONE
  /\ writeLock' = q
  /\ folder' = [folder EXCEPT ![n].exists = TRUE]
  /\ repo' = [repo EXCEPT ![q] = [index |-> {}, meta |-> folder[n].meta]]
  /\ Goes(q, [request[q] EXCEPT !.at = "prime", !.ns = q])
  /\ doomed' = IF OpensDoomed(n) THEN doomed \cup {q} ELSE doomed
  /\ UNCHANGED <<memory, pass, persistLock, restarts, forgiven>>

(* prime_for_writes scans the folder without loading it; a folder that has   *)
(* gone since is a panic, the request's own.                                 *)
Prime(q) == LET n == request[q].name IN
  /\ At(q, "prime")
  /\ writeLock' = NONE
  /\ IF folder[n].exists
     THEN /\ repo' = [repo EXCEPT ![q].index = Slots(n)]
          /\ map' = [map EXCEPT ![n] = q]
          /\ Goes(q, [request[q] EXCEPT !.at = AfterResolve(q)])
     ELSE /\ Ends(q, "panic")
          /\ UNCHANGED <<repo, map>>
  /\ UNCHANGED <<tables, queue, rows, folder, pass, persistLock, restarts, history>>

-----------------------------------------------------------------------------
(* Rows and tables.  A write looks its table up; a restore and the creation  *)
(* of a table bring it into existence, and a restore marks its metadata      *)
(* whether it was there or not.                                              *)
Held(q) == tables[request[q].ns][request[q].table]

LookUp(q) ==
  /\ At(q, "table")
  /\ request[q].kind = "write"
  /\ IF Held(q) = NONE
     THEN Ends(q, "table not found")
     ELSE Goes(q, [request[q] EXCEPT !.at = "insert", !.obj = Held(q)])
  /\ UNCHANGED <<memory, writeLock, repo, folder, pass, persistLock, restarts, history>>

GetOrCreateTable(q) == LET t == request[q].table IN
  /\ At(q, "table")
  /\ request[q].kind \in {"create", "restore"}
  /\ tables' = IF Held(q) = NONE THEN [tables EXCEPT ![request[q].ns][t] = q] ELSE tables
  /\ IF request[q].kind = "create" /\ Held(q) # NONE
     THEN Ends(q, "table exists")
     ELSE Goes(q, [request[q] EXCEPT
            !.at = "mark", !.owes = <<Metadata(t)>>, !.obj = IF Held(q) = NONE THEN q ELSE Held(q),
            !.then = IF request[q].kind = "create" THEN "ended" ELSE "insert"])
  /\ UNCHANGED <<map, queue, rows, writeLock, repo, folder, pass, persistLock,
                 restarts, history>>

(* The object may have left its namespace since it was looked up: its row is *)
(* then acknowledged and nowhere to be found.                                *)
Served(o) == \E n \in Names, t \in Tables : map[n] # NONE /\ tables[map[n]][t] = o

AboutToBeCopied(o) == \E m \in Requests : At(m, "copy") /\ request[m].obj = o

Insert(q) ==
  /\ At(q, "insert")
  /\ rows' = [rows EXCEPT ![request[q].obj] = @ \cup {q}]
  /\ Goes(q, [request[q] EXCEPT !.at = "mark", !.owes = <<Partition(request[q].table)>>,
                                !.then = "ended"])
  /\ forgiven' = IF Served(request[q].obj) \/ AboutToBeCopied(request[q].obj)
                 THEN forgiven ELSE forgiven \cup {q}
  /\ UNCHANGED <<map, tables, queue, writeLock, repo, folder, pass, persistLock,
                 restarts, doomed>>

(* One mark at a time; a call that owes no more goes on.                     *)
Marks(q) == IF request[q].kind = "move" /\ request[q].then = "ended"
            THEN request[q].source ELSE request[q].ns

Mark(q) ==
  /\ At(q, "mark")
  /\ request[q].owes # <<>>
  /\ queue' = [queue EXCEPT ![Marks(q)] = @ \cup {Head(request[q].owes)}]
  /\ Goes(q, [request[q] EXCEPT !.owes = Tail(@)])
  /\ UNCHANGED <<map, tables, rows, writeLock, repo, folder, pass, persistLock,
                 restarts, history>>

Marked(q) ==
  /\ At(q, "mark")
  /\ request[q].owes = <<>>
  /\ IF request[q].then = "ended"
     THEN Ends(q, "done")
     ELSE Goes(q, [request[q] EXCEPT !.at = request[q].then])
  /\ UNCHANGED <<memory, writeLock, repo, folder, pass, persistLock, restarts, history>>

-----------------------------------------------------------------------------
(* move_table_to_namespace.                                                  *)

MoveCheck(q) ==
  /\ At(q, "check")
  /\ IF request[q].source = request[q].ns \/ Held(q) # NONE
     THEN Ends(q, "table exists")
     ELSE Goes(q, [request[q] EXCEPT !.at = "take"])
  /\ UNCHANGED <<memory, writeLock, repo, folder, pass, persistLock, restarts, history>>

(* The table leaves its namespace before its rows are read.                  *)
MoveTake(q) == LET held == tables[request[q].source][request[q].table] IN
  /\ At(q, "take")
  /\ IF held = NONE
     THEN /\ Ends(q, "table not found")
          /\ UNCHANGED tables
     ELSE /\ tables' = [tables EXCEPT ![request[q].source][request[q].table] = NONE]
          /\ Goes(q, [request[q] EXCEPT !.at = "copy", !.obj = held])
  /\ UNCHANGED <<map, queue, rows, writeLock, repo, folder, pass, persistLock,
                 restarts, history>>

MoveCopy(q) ==
  /\ At(q, "copy")
  /\ Goes(q, [request[q] EXCEPT !.at = "publish", !.copied = rows[request[q].obj]])
  /\ UNCHANGED <<memory, writeLock, repo, folder, pass, persistLock, restarts, history>>

(* The filled table is published over whatever the name means by now.        *)
Overwritten(q) == IF Held(q) = NONE THEN {} ELSE rows[Held(q)]

PartitionOf(t, content) == IF content = {} THEN <<>> ELSE <<Partition(t)>>

MovePublish(q) == LET t == request[q].table IN
  /\ At(q, "publish")
  /\ tables' = [tables EXCEPT ![request[q].ns][t] = q]
  /\ rows' = [rows EXCEPT ![q] = request[q].copied]
  /\ Goes(q, [request[q] EXCEPT
       !.at = "mark", !.then = "clean",
       !.owes = <<Metadata(t)>> \o PartitionOf(t, request[q].copied)])
  /\ forgiven' = forgiven \cup Overwritten(q)
                          \cup (IF map[request[q].name] = request[q].ns
                                THEN {} ELSE request[q].copied)
  /\ UNCHANGED <<map, queue, writeLock, repo, folder, pass, persistLock, restarts, doomed>>

(* Slip: only the metadata of the source is marked.                          *)
MoveCleanUnmarked(q) ==
  /\ At(q, "clean")
  /\ rows' = [rows EXCEPT ![request[q].obj] = {}]
  /\ Goes(q, [request[q] EXCEPT !.at = "mark", !.then = "ended",
                                !.owes = <<Metadata(request[q].table)>>])
  /\ UNCHANGED <<map, tables, queue, writeLock, repo, folder, pass, persistLock,
                 restarts, history>>

MoveClean(q) == LET t == request[q].table IN
  /\ At(q, "clean")
  /\ rows' = [rows EXCEPT ![request[q].obj] = {}]
  /\ Goes(q, [request[q] EXCEPT
       !.at = "mark", !.then = "ended",
       !.owes = PartitionOf(t, rows[request[q].obj]) \o <<Metadata(t)>>])
  /\ UNCHANGED <<map, tables, queue, writeLock, repo, folder, pass, persistLock,
                 restarts, history>>

-----------------------------------------------------------------------------
(* delete_namespace: out of the map, then, under the persist lock, table by  *)
(* table out of the namespace, then the folder.                              *)

ServedRows(i) == UNION {rows[tables[i][t]] : t \in {u \in Tables : tables[i][u] # NONE}}

RemoveFromMap(q) ==
  /\ At(q, "idle")
  /\ writeLock = NONE
  /\ \E n \in Names :
       IF n = DEFAULT \/ map[n] = NONE
       THEN Ends(q, "refused") /\ UNCHANGED <<map, forgiven>>
       ELSE /\ map' = [map EXCEPT ![n] = NONE]
            /\ Goes(q, [request[q] EXCEPT !.at = "wait", !.kind = "delete", !.name = n,
                                          !.ns = map[n]])
            /\ forgiven' = forgiven \cup ServedRows(map[n])
  /\ UNCHANGED <<tables, queue, rows, writeLock, repo, folder, pass, persistLock,
                 restarts, doomed>>

(* Slip: does not wait for the pass.                                         *)
DeleteBesidePass(q) ==
  /\ At(q, "wait")
  /\ Goes(q, [request[q] EXCEPT
       !.at = "tables", !.copied = {t \in Tables : tables[request[q].ns][t] # NONE}])
  /\ UNCHANGED <<memory, writeLock, repo, folder, pass, persistLock, restarts, history>>

DeleteTakeLock(q) ==
  /\ At(q, "wait")
  /\ persistLock = NONE
  /\ persistLock' = q
  /\ Goes(q, [request[q] EXCEPT
       !.at = "tables", !.copied = {t \in Tables : tables[request[q].ns][t] # NONE}])
  /\ UNCHANGED <<memory, writeLock, repo, folder, pass, restarts, history>>

(* A table that somebody else removed in the meantime ends the call: the     *)
(* folder stays.                                                             *)
DeleteOneTable(q) == LET i == request[q].ns IN
  /\ At(q, "tables")
  /\ \E t \in request[q].copied :
       IF tables[i][t] = NONE
       THEN /\ Ends(q, "table not found")
            /\ persistLock' = NONE
            /\ UNCHANGED <<tables, queue, rows>>
       ELSE /\ tables' = [tables EXCEPT ![i][t] = NONE]
            /\ rows' = [rows EXCEPT ![tables[i][t]] = {}]
            /\ queue' = [queue EXCEPT ![i] = @ \cup {Metadata(t), Partition(t)}]
            /\ Goes(q, [request[q] EXCEPT !.copied = @ \ {t}])
            /\ UNCHANGED persistLock
  /\ UNCHANGED <<map, writeLock, repo, folder, pass, restarts, history>>

(* The folder cannot always be removed; then that is the answer.             *)
DeleteFolder(q) == LET n == request[q].name IN
  /\ At(q, "tables")
  /\ request[q].copied = {}
  /\ repo' = [repo EXCEPT ![request[q].ns] = NewRepo]
  /\ persistLock' = NONE
  /\ \/ folder' = [folder EXCEPT ![n] = NoFolder] /\ Ends(q, "done")
     \/ UNCHANGED folder /\ Ends(q, "folder not deleted")
  /\ UNCHANGED <<memory, writeLock, pass, restarts, history>>

-----------------------------------------------------------------------------
(* persist: under its lock, one task of each namespace in the map.           *)

(* Slip: only the default namespace is drained.                              *)
TakeLockOfDefault ==
  /\ persistLock = NONE
  /\ queue[map[DEFAULT]] # {}
  /\ persistLock' = "pass"
  /\ pass' = {map[DEFAULT]}
  /\ UNCHANGED <<memory, writeLock, repo, folder, request, restarts, history>>

TakeLock ==
  /\ persistLock = NONE
  /\ \E n \in Names : map[n] # NONE /\ queue[map[n]] # {}
  /\ persistLock' = "pass"
  /\ pass' = {map[n] : n \in {m \in Names : map[m] # NONE}}
  /\ UNCHANGED <<memory, writeLock, repo, folder, request, restarts, history>>

NameOf(i) == IF i \in Names THEN i ELSE request[i].name
Content(i, t) == IF tables[i][t] = NONE THEN {} ELSE rows[tables[i][t]]

(* tables.meta is written whole, from what the repository holds in memory.   *)
WritesMeta(i, entries) ==
  /\ repo' = [repo EXCEPT ![i].meta = entries]
  /\ folder' = [folder EXCEPT ![NameOf(i)].meta = entries]

ExecuteMetadata(i, t) ==
  IF tables[i][t] # NONE THEN WritesMeta(i, repo[i].meta \cup {t})
  ELSE IF t \in repo[i].meta THEN WritesMeta(i, repo[i].meta \ {t})
  ELSE UNCHANGED <<repo, folder>>

(* A slot the repository does not know of stays beside the one it writes;    *)
(* which of the two a start prefers is up to versions counted apart.         *)
ExecutePartition(i, t) == LET n == NameOf(i) IN
  IF Content(i, t) = {}
  THEN /\ repo' = [repo EXCEPT ![i].index = @ \ {t}]
       /\ folder' = IF t \in repo[i].index
                    THEN [folder EXCEPT ![n].slot[t] = {}] ELSE folder
  ELSE /\ repo' = [repo EXCEPT ![i].index = @ \cup {t}]
       /\ \/ folder' = [folder EXCEPT ![n].slot[t] = Content(i, t)]
          \/ t \notin repo[i].index /\ folder[n].slot[t] # {} /\ UNCHANGED folder

(* The files are opened with expect: without its folder the pass panics and  *)
(* the task is lost; the timer starts another pass.                          *)
NeedsFolder(i, task) ==
  \/ tables[i][task.table] # NONE
  \/ task.of = "metadata" /\ task.table \in repo[i].meta
  \/ task.of = "partition" /\ task.table \in repo[i].index

HandedOut(i) == LET first == {task \in queue[i] : task.of = "metadata"}
                IN IF first # {} THEN first ELSE queue[i]

Visit(i) ==
  /\ persistLock = "pass"
  /\ i \in pass
  /\ IF queue[i] = {}
     THEN pass' = pass \ {i} /\ UNCHANGED <<queue, repo, folder, persistLock>>
     ELSE \E task \in HandedOut(i) :
            /\ queue' = [queue EXCEPT ![i] = @ \ {task}]
            /\ IF NeedsFolder(i, task) /\ ~folder[NameOf(i)].exists
               THEN /\ pass' = {} /\ persistLock' = NONE
                    /\ UNCHANGED <<repo, folder>>
               ELSE /\ pass' = pass \ {i} /\ UNCHANGED persistLock
                    /\ IF task.of = "metadata" THEN ExecuteMetadata(i, task.table)
                                               ELSE ExecutePartition(i, task.table)
  /\ UNCHANGED <<map, tables, rows, writeLock, request, restarts, history>>

EndPass ==
  /\ persistLock = "pass"
  /\ pass = {}
  /\ persistLock' = NONE
  /\ UNCHANGED <<memory, writeLock, repo, folder, request, pass, restarts, history>>

-----------------------------------------------------------------------------
(* A crash, and load_from_disk: the default namespace and one per folder.    *)
OnDisk == UNION {folder[n].slot[t] : n \in Names, t \in Tables}

Restart ==
  /\ restarts < MaxRestarts
  /\ restarts' = restarts + 1
  /\ map' = [n \in Names |-> IF OnStart(n) THEN n ELSE NONE]
  /\ tables' = [i \in Opened |-> IF i \in Names
       THEN [t \in Tables |-> IF t \in LoadedTables(i) THEN Loaded(i, t) ELSE NONE]
       ELSE NoTables]
  /\ rows' = [o \in Objects |-> IF o \in Requests THEN {} ELSE folder[o[1]].slot[o[2]]]
  /\ repo' = [i \in Opened |-> IF i \in Names
       THEN [index |-> Slots(i), meta |-> folder[i].meta] ELSE NewRepo]
  /\ folder' = [folder EXCEPT ![DEFAULT].exists = TRUE]
  /\ queue' = [i \in Opened |-> {}]
  /\ request' = [q \in Requests |->
       IF At(q, "idle") \/ At(q, "ended") THEN request[q]
       ELSE [NewRequest EXCEPT !.at = "ended", !.kind = request[q].kind,
                               !.answer = "connection lost"]]
  /\ writeLock' = NONE /\ persistLock' = NONE /\ pass' = {}
  /\ forgiven' = forgiven \cup (Rows \ OnDisk)
  /\ doomed' = {}

Step(q) ==
  \/ Resolve(q) \/ OpenFolder(q) \/ Prime(q)
  \/ LookUp(q) \/ GetOrCreateTable(q) \/ Insert(q) \/ Mark(q) \/ Marked(q)
  \/ MoveCheck(q) \/ MoveTake(q) \/ MoveCopy(q) \/ MovePublish(q) \/ MoveClean(q)
  \/ DeleteTakeLock(q) \/ DeleteOneTable(q) \/ DeleteFolder(q)

Persist == TakeLock \/ (\E i \in Opened : Visit(i)) \/ EndPass

Next ==
  \/ \E q \in Requests : Call(q) \/ CallMove(q) \/ RemoveFromMap(q) \/ Step(q)
  \/ Persist
  \/ Restart

(* Requests are tasks of the runtime and the timer comes round; a call that  *)
(* nobody makes and a crash need not happen.                                 *)
Fairness == (\A q \in Requests : WF_vars(Step(q))) /\ WF_vars(Persist)
Spec == Init /\ [][Next]_vars /\ Fairness

-----------------------------------------------------------------------------
Places == {"idle", "resolve", "prime", "table", "insert", "mark", "check", "take",
           "copy", "publish", "clean", "wait", "tables", "ended"}
Answers == {NONE, "done", "namespace not found", "table not found", "table exists",
            "refused", "panic", "folder not deleted", "connection lost"}

(* Types.                                                                    *)
TypeOK ==
  /\ map \in [Names -> Opened \cup {NONE}]
  /\ writeLock \in Requests \cup {NONE}
  /\ tables \in [Opened -> [Tables -> Objects \cup {NONE}]]
  /\ queue \in [Opened -> SUBSET Task]
  /\ repo \in [Opened -> [index : SUBSET Tables, meta : SUBSET Tables]]
  /\ rows \in [Objects -> SUBSET Rows]
  /\ folder \in [Names -> [exists : BOOLEAN, meta : SUBSET Tables,
                           slot : [Tables -> SUBSET Rows]]]
  /\ \A q \in Requests :
       /\ request[q].at \in Places
       /\ request[q].kind \in Kinds \cup {NONE}
       /\ request[q].answer \in Answers
       /\ request[q].ns \in Opened \cup {NONE}
       /\ request[q].obj \in Objects \cup {NONE}
       /\ request[q].at \in {"insert", "copy", "publish", "clean"} =>
            request[q].obj # NONE
  /\ pass \subseteq Opened
  /\ persistLock \in Requests \cup {"pass", NONE}
  /\ restarts \in 0 .. MaxRestarts
  /\ forgiven \subseteq Rows
  /\ doomed \subseteq Requests

(* A call still on its way to mark what it changed, or to clean the table it *)
(* is moving out.                                                            *)
Owes(i, task) ==
  \E q \in Requests :
    \/ At(q, "mark") /\ Marks(q) = i /\ \E k \in 1 .. Len(request[q].owes) :
                                            request[q].owes[k] = task
    \/ /\ request[q].kind = "move" /\ request[q].source = i
       /\ task.table = request[q].table
       /\ \/ request[q].at \in {"copy", "publish", "clean"}
          \/ At(q, "mark") /\ request[q].then = "clean"

(* A table a start restored from its slots alone is not in tables.meta, and  *)
(* nothing marks it.                                                         *)
RestoredWithoutEntry(n, t) == restarts > 0 /\ tables[map[n]][t] = Loaded(n, t)

(* A move that publishes over a table marks its own partitions only: those   *)
(* of the other table keep their slots.                                      *)
PublishedOver(n, t) == folder[n].slot[t] # {} /\ folder[n].slot[t] \subseteq forgiven

(* Whatever moves, comes or goes: what a served namespace holds in memory    *)
(* and what its folder holds differ only where its queue, or a call on its   *)
(* way to mark it, says so (namespace.rs marks both namespaces of a move; a  *)
(* namespace created on the fly starts from an empty folder).                *)
OwedOrDurable ==
  \A n \in Names : map[n] # NONE /\ map[n] \notin doomed =>
    \A t \in Tables :
      /\ Content(map[n], t) # folder[n].slot[t] =>
           \/ Partition(t) \in queue[map[n]] \/ Owes(map[n], Partition(t))
           \/ PublishedOver(n, t)
      /\ (tables[map[n]][t] # NONE) # (t \in folder[n].meta) =>
           \/ Metadata(t) \in queue[map[n]] \/ Owes(map[n], Metadata(t))
           \/ RestoredWithoutEntry(n, t)

(* A row that was acknowledged while its table had a name is served under    *)
(* one, or is in the hands of a move, until its namespace is deleted, a      *)
(* crash takes what was not on disk, or a move publishes over its table.     *)
Reachable == UNION {Content(map[n], t) : n \in {m \in Names : map[m] # NONE}, t \in Tables}
InHand == UNION {IF At(q, "copy") THEN rows[request[q].obj]
                 ELSE IF At(q, "publish") THEN request[q].copied ELSE {} : q \in Requests}
Acknowledged == {SEEDED} \cup
  {q \in Requests : request[q].kind \in {"write", "restore"} /\ request[q].answer = "done"}

AcknowledgedRowsReachable == Acknowledged \subseteq Reachable \cup InHand \cup forgiven

(* The pass that snapshotted the namespaces before one was removed never     *)
(* finds its folder gone: that is what a deletion takes the persist lock for.*)
PassFindsFolder ==
  \A i \in pass : queue[i] # {} => folder[NameOf(i)].exists \/ i \in doomed

(* A namespace whose name was free and whose folder was empty when it was    *)
(* opened keeps its folder for as long as it is served.                      *)
ServedHasFolder ==
  \A n \in Names : map[n] # NONE => folder[n].exists \/ map[n] \in doomed

(* Types, and folders where the pass and the start expect them               *)
(* (namespace.rs:25-60, persist.rs:17-60).                                   *)
Inv == TypeOK /\ PassFindsFolder /\ ServedHasFolder

(* In the end everything served is on the disk, and all that is there is     *)
(* served - but for the slots of a table that a move of an empty one was     *)
(* published over, which nothing marks again (namespace.rs:105-113).         *)
SettlesOnDisk ==
  <>[](\A n \in Names : map[n] # NONE /\ map[n] \notin doomed =>
         \A t \in Tables : \/ Content(map[n], t) = folder[n].slot[t]
                          \/ (Content(map[n], t) = {} /\ PublishedOver(n, t)))

(* What a move publishes over leaves its folder, as what it moves out does:  *)
(* "emptying the table is what hands over the partition keys whose slots the *)
(* source folder has to free" (namespace.rs:126-128).                        *)
FoldersSettle ==
  <>[](\A n \in Names : map[n] # NONE /\ map[n] \notin doomed =>
         \A t \in Tables : Content(map[n], t) = folder[n].slot[t])

(* A served namespace always has its folder: "from here on nothing can       *)
(* resolve it by name, so no write can land in what is about to go"          *)
(* (namespace.rs:37).                                                        *)
NothingLandsInWhatGoes == \A n \in Names : map[n] # NONE => folder[n].exists
=============================================================================
