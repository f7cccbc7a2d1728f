--------------------------- MODULE SnapshotsPage ---------------------------
(***************************************************************************)
(* The snapshots page of the browser UI (ui/src/pages/snapshots.rs): the   *)
(* list of a namespace's backups, the walk into one of them (its tables,   *)
(* their partitions, their rows), a forced backup and the restore dialog.  *)
(* The URL is the path of that walk, and each of its levels is loaded by a *)
(* task whose answer may be about a level the user has left.               *)
(*                                                                         *)
(* Every request carries the namespace the browser's storage names when    *)
(* the request is built, which another tab may change, and a restore is    *)
(* let through by the UI's write window alone, which the page asks first   *)
(* and the server again.                                                   *)
(***************************************************************************)
EXTENDS Integers, Sequences, FiniteSets

CONSTANTS Spaces,       \* the namespaces
          Paths,        \* what an archive holds: sequences <<table>> and <<table, partition>>
          MaxFiles,     \* bound: snapshots of a namespace
          None,
          MaxClicks,    \* bound: what the user does
          MaxFlights,   \* bound: tasks at a time
          MaxSwitches   \* bound: changes of the namespace in another tab

VARIABLES
    route,      \* the URL below /snapshots: <<>>, <<file>>, <<file, table>>, ...
    cs,         \* SnapshotsState
    flights,    \* tasks waiting for an answer, by slot
    configured, \* whether the server has a backups folder
    archives,   \* the snapshots the server holds of each namespace, numbered as made
    restored,   \* what the server has restored: [ns, file, what]
    open,       \* the server's write window for the UI
    ns,         \* the namespace in the browser's storage
    clicks, switches

snapshotsVars ==
    <<route, cs, flights, configured, archives, restored, open, ns, clicks, switches>>
world == <<configured, archives, restored, open, ns, switches>>

ASSUME SnapshotsPageAssumption ==
    /\ Spaces # {} /\ MaxFiles \in Nat \ {0}
    /\ {MaxClicks, MaxFlights, MaxSwitches} \subseteq Nat
ASSUME PathsAssumption ==
    \A p \in Paths : p = <<p[1]>> \/ (p = <<p[1], p[2]>> /\ <<p[1]>> \in Paths)

Slots  == 1 .. MaxFlights
Files  == 1 .. MaxFiles
Levels == 1 .. 3

(* The level a URL of n segments is a view of is n; levels 1 to n are loaded. *)
UpTo(n) == SubSeq(route, 1, n)
Routes  == {<<>>} \cup {<<f>> : f \in Files} \cup {<<f, p[1]>> : f \in Files, p \in Paths}
           \cup {<<f, p[1], p[2]>> : f \in Files, p \in {q \in Paths : Len(q) = 2}}

(* What is served of a level, and a dialog of a restore; None is none of these. *)
Served  == [of : Routes, inside : SUBSET Paths]
Dialogs == [file : Files, what : Paths \cup {<<>>}, busy : BOOLEAN, done : BOOLEAN]
Kinds   == {"status", "list", "level", "make", "gate", "restore"}

ASSUME NoneAssumption ==
    None \notin Routes /\ None \notin Served /\ None \notin Dialogs /\ None \notin Kinds

-----------------------------------------------------------------------------
(* SnapshotsState and its transitions.  A level is what it is loaded for,  *)
(* what it holds and whether that has arrived.                             *)

NoLevel == [key |-> None, holds |-> None, ready |-> FALSE, failed |-> FALSE]

Fresh == [configured |-> None, ns |-> None, files |-> {}, started |-> FALSE, ready |-> FALSE,
          level |-> [l \in Levels |-> NoLevel], restore |-> None, making |-> FALSE,
          error |-> FALSE]

BeginFilesLoad(s) == [s EXCEPT !.started = TRUE, !.ready = FALSE, !.error = FALSE]
SetBackups(s, has, name) == [s EXCEPT !.configured = has, !.ns = name, !.ready = ~ has,
                                      !.files = IF has THEN @ ELSE {}]
StatusError(s) == [s EXCEPT !.ready = TRUE, !.error = TRUE]
SetFiles(s, files) == [s EXCEPT !.files = files, !.ready = TRUE]

BeginLoad(s, l, key) == [s EXCEPT !.level[l] = [NoLevel EXCEPT !.key = key], !.error = FALSE]
(* Slip: whichever answer comes last is shown. *)
SetLevelOfAnyKey(s, l, key, answer) ==
    IF s.level[l].key = None THEN s
    ELSE [s EXCEPT !.level[l].holds = answer, !.level[l].ready = TRUE]

SetLevel(s, l, key, answer) ==
    IF s.level[l].key # key THEN s
    ELSE [s EXCEPT !.level[l].holds = answer, !.level[l].ready = TRUE]

BeginMake(s) == [s EXCEPT !.making = TRUE, !.error = FALSE]
MakeDone(s)  == [s EXCEPT !.making = FALSE, !.started = FALSE]
(* Slip: the button stays on "Making". *)
MakeErrorOnly(s) == [s EXCEPT !.error = TRUE]

MakeError(s) == [s EXCEPT !.making = FALSE, !.error = TRUE]

Dialog(file, what) == [file |-> file, what |-> what, busy |-> FALSE, done |-> FALSE]
RestoreBegin(s) == [s EXCEPT !.restore.busy = TRUE]
RestoreDone(s)  == IF s.restore = None THEN s
                   ELSE [s EXCEPT !.restore.busy = FALSE, !.restore.done = TRUE]
RestoreError(s) == IF s.restore = None THEN s ELSE [s EXCEPT !.restore.busy = FALSE]

-----------------------------------------------------------------------------
(* Tasks.  The server acts the moment it is asked, and the answer arrives  *)
(* at any later moment, or the request fails.                              *)

NoTask == [kind |-> None]
Free   == {i \in Slots : flights[i] = NoTask}
Launch(task) == Free # {} /\ flights' = [flights EXCEPT ![CHOOSE i \in Free : TRUE] = task]
FlightEnds(i) == flights' = [flights EXCEPT ![i] = NoTask]
FlightGoes(i, task) == flights' = [flights EXCEPT ![i] = task]

(* Nothing backed up yet is an empty list. *)
AnswerList == archives[ns]
ListTask   == [kind |-> "list", answer |-> AnswerList]

(* A render spawns what the state is not about, and the browser polls a new *)
(* task before it takes the next event.                                     *)
LoadFiles ==
    /\ ~ cs.started
    /\ cs' = BeginFilesLoad(cs)
    /\ Launch([kind |-> "status"])
    /\ UNCHANGED <<route, clicks, world>>

(* What the archive holds right under a file, a table or a partition (of whose *)
(* rows only the partition is told), or nothing where there is no such file.   *)
BackupTables              == {p \in Paths : Len(p) = 1}
BackupPartitions(t)       == {p \in Paths : Len(p) = 2 /\ p[1] = t}
BackupRows(t, partition)  == {<<t, partition>>} \cap Paths
Inside(key) == CASE Len(key) = 1 -> BackupTables
                 [] Len(key) = 2 -> BackupPartitions(key[2])
                 [] Len(key) = 3 -> BackupRows(key[2], key[3])
AnswerLevel(key) == IF key[1] \in archives[ns] THEN [of |-> key, inside |-> Inside(key)] ELSE None

(* Nothing below the list is asked for until backups are known to be configured. *)
LoadLevel(l) ==
    /\ cs.configured = TRUE /\ Len(route) >= l /\ cs.level[l].key # UpTo(l)
    /\ cs' = BeginLoad(cs, l, UpTo(l))
    /\ Launch([kind |-> "level", level |-> l, key |-> UpTo(l),
               answer |-> AnswerLevel(UpTo(l))])
    /\ UNCHANGED <<route, clicks, world>>

(* The status names the namespace to show; the list is asked for after it. *)
DeliverStatus(i) ==
    /\ flights[i].kind = "status"
    /\ cs' = SetBackups(cs, configured, ns)
    /\ IF configured THEN FlightGoes(i, ListTask) ELSE FlightEnds(i)
    /\ UNCHANGED <<route, clicks, world>>

DeliverList(i) ==
    /\ flights[i].kind = "list"
    /\ cs' = SetFiles(cs, flights[i].answer)
    /\ FlightEnds(i)
    /\ UNCHANGED <<route, clicks, world>>

DeliverLevel(i) ==
    /\ flights[i].kind = "level" /\ flights[i].answer # None
    /\ cs' = SetLevel(cs, flights[i].level, flights[i].key, flights[i].answer)
    /\ FlightEnds(i)
    /\ UNCHANGED <<route, clicks, world>>

DeliverMake(i) ==
    /\ flights[i].kind = "make" /\ flights[i].made
    /\ cs' = MakeDone(cs)
    /\ FlightEnds(i)
    /\ UNCHANGED <<route, clicks, world>>

(* The server: refused while the window is shut, and without such a file; the *)
(* archive replaces its namespace, or one partition of one table of it.       *)
Restorable(file) == open /\ file \in archives[ns]
RestoreAll(file)          == restored \cup {[ns |-> ns, file |-> file, what |-> <<>>]}
RestorePartition(file, p) == restored \cup {[ns |-> ns, file |-> file, what |-> p]}

(* The page asks for the write window, and the server asks it again when the *)
(* restore arrives: with the namespace in storage by then.                   *)
DeliverGate(i) ==
    /\ flights[i].kind = "gate"
    /\ LET task == flights[i]
       IN  /\ task.open
           /\ Restorable(task.file)
           /\ FlightGoes(i, [task EXCEPT !.kind = "restore"])
           /\ restored' = IF task.what = <<>> THEN RestoreAll(task.file)
                          ELSE RestorePartition(task.file, task.what)
    /\ UNCHANGED <<route, cs, configured, archives, open, ns, clicks, switches>>

DeliverRestore(i) ==
    /\ flights[i].kind = "restore"
    /\ cs' = RestoreDone(cs)
    /\ FlightEnds(i)
    /\ UNCHANGED <<route, clicks, world>>

Deliver(i) == \/ DeliverStatus(i) \/ DeliverList(i) \/ DeliverLevel(i)
              \/ DeliverMake(i) \/ DeliverGate(i) \/ DeliverRestore(i)

(* A request fails, is refused or is not heard of again: an error line, and *)
(* only the status call stops the page from loading.                        *)
Failed(task) ==
    CASE task.kind = "status" -> StatusError(cs)
      [] task.kind = "list"   -> [cs EXCEPT !.error = TRUE]
      [] task.kind = "level"  -> [cs EXCEPT !.error = TRUE,
                                    !.level[task.level].failed = @ \/ cs.level[task.level].key = task.key]
      [] task.kind = "make"   -> MakeError(cs)
      [] task.kind \in {"gate", "restore"} -> RestoreError(cs)

Fail(i) ==
    /\ flights[i] # NoTask
    /\ cs' = Failed(flights[i])
    /\ FlightEnds(i)
    /\ UNCHANGED <<route, clicks, world>>

-----------------------------------------------------------------------------
(* The user.  An open dialog covers the page, though not the browser's own *)
(* buttons.                                                                *)

Click == clicks < MaxClicks /\ clicks' = clicks + 1
PageClick == Click /\ cs.restore = None

(* What the view of the URL has to show, and whether it is still waited for. *)
Shown == IF route = <<>> THEN cs.files
         ELSE IF cs.level[Len(route)].key = route /\ cs.level[Len(route)].ready
              THEN cs.level[Len(route)].holds.inside ELSE {}
Loading == IF route = <<>> THEN ~ cs.ready
           ELSE ~ (cs.level[Len(route)].key = route /\ cs.level[Len(route)].ready)

OpenFile(f)   == PageClick /\ route = <<>> /\ cs.configured = TRUE /\ f \in cs.files
                 /\ route' = <<f>> /\ UNCHANGED <<cs, flights, world>>
OpenInside(p) == PageClick /\ Len(route) \in 1 .. 2 /\ p \in Shown
                 /\ route' = Append(route, p[Len(p)]) /\ UNCHANGED <<cs, flights, world>>
Browse(f)     == Click /\ route # <<f>>
                 /\ route' = <<f>> /\ UNCHANGED <<cs, flights, world>>
Crumb(n)      == PageClick /\ n < Len(route)
                 /\ route' = UpTo(n) /\ UNCHANGED <<cs, flights, world>>

(* The deepest level of the URL is asked for again. *)
Refresh ==
    /\ PageClick
    /\ ~ Loading
    /\ cs' = IF route = <<>> THEN [cs EXCEPT !.started = FALSE]
             ELSE [cs EXCEPT !.level[Len(route)].key = None]
    /\ UNCHANGED <<route, flights, world>>

(* The server refuses it without a folder, and while the write window is shut. *)
MakeSnapshot ==
    /\ PageClick
    /\ ~ cs.making /\ cs.configured # FALSE
    /\ cs' = BeginMake(cs)
    /\ LET made == configured /\ open /\ Cardinality(archives[ns]) < MaxFiles
       IN  /\ Launch([kind |-> "make", made |-> made])
           /\ archives' = IF made THEN [archives EXCEPT ![ns] = @ \cup {Cardinality(@) + 1}]
                          ELSE archives
    /\ UNCHANGED <<route, configured, restored, open, ns, switches>>

(* A whole snapshot from the list or from inside it, one partition from its table. *)
OpenRestore(f) ==
    /\ PageClick
    /\ cs.configured = TRUE /\ IF route = <<>> THEN f \in cs.files ELSE f = route[1]
    /\ cs' = [cs EXCEPT !.restore = Dialog(f, <<>>)]
    /\ UNCHANGED <<route, flights, world>>
OpenRestorePartition(p) ==
    /\ PageClick
    /\ Len(route) = 2 /\ p \in Shown
    /\ cs' = [cs EXCEPT !.restore = Dialog(route[1], p)]
    /\ UNCHANGED <<route, flights, world>>

(* Slip: Cancel is not held back while the restore is on its way. *)
CloseAnyRestore ==
    /\ Click
    /\ cs.restore # None
    /\ cs' = [cs EXCEPT !.restore = None]
    /\ UNCHANGED <<route, flights, world>>

CloseRestore ==
    /\ Click
    /\ cs.restore # None /\ ~ cs.restore.busy
    /\ cs' = [cs EXCEPT !.restore = None]
    /\ UNCHANGED <<route, flights, world>>

ConfirmRestore ==
    /\ Click
    /\ cs.restore # None /\ ~ cs.restore.busy /\ ~ cs.restore.done
    /\ cs' = RestoreBegin(cs)
    /\ Launch([kind |-> "gate", file |-> cs.restore.file, what |-> cs.restore.what, open |-> open])
    /\ UNCHANGED <<route, world>>

(* The write window is opened and shut from the settings page, and lapses. *)
Switch == /\ open' = ~ open
          /\ UNCHANGED <<route, cs, flights, configured, archives, restored, ns, clicks, switches>>

(* Another tab of this browser selects another namespace. *)
OtherTab(n) ==
    /\ switches < MaxSwitches /\ n # ns
    /\ ns' = n /\ switches' = switches + 1
    /\ UNCHANGED <<route, cs, flights, configured, archives, restored, open, clicks>>

-----------------------------------------------------------------------------
SnapshotsInit ==
    /\ route = <<>> /\ cs = Fresh
    /\ flights = [i \in Slots |-> NoTask]
    /\ configured \in BOOLEAN
    /\ archives = [n \in Spaces |-> {1}]
    /\ restored = {} /\ open \in BOOLEAN
    /\ ns = CHOOSE n \in Spaces : TRUE
    /\ clicks = 0 /\ switches = 0

User ==
    \/ \E f \in Files : OpenFile(f) \/ Browse(f) \/ OpenRestore(f)
    \/ \E p \in Paths : OpenInside(p) \/ OpenRestorePartition(p)
    \/ \E n \in 0 .. 2 : Crumb(n)
    \/ Refresh \/ MakeSnapshot \/ CloseRestore \/ ConfirmRestore

Load == LoadFiles \/ \E l \in Levels : LoadLevel(l)

SnapshotsNext == \/ User \/ Load \/ Switch
        \/ \E i \in Slots : Deliver(i) \/ Fail(i)
        \/ \E n \in Spaces : OtherTab(n)

(* The browser keeps rendering and polling tasks, and every request is answered *)
(* or fails.                                                                    *)
SnapshotsFairness ==
    WF_snapshotsVars(Load) /\ \A i \in Slots : WF_snapshotsVars(Deliver(i) \/ Fail(i))

SnapshotsSpec == SnapshotsInit /\ [][SnapshotsNext]_snapshotsVars /\ SnapshotsFairness

-----------------------------------------------------------------------------
(* Types: the URL is a path into an archive, a level that is ready is loaded for *)
(* something, and only files that were made are listed.                          *)
SnapshotsTypeOK ==
    /\ route \in Routes
    /\ \A l \in Levels : /\ cs.level[l].key \in Routes \cup {None}
                         /\ cs.level[l].ready => cs.level[l].holds # None
    /\ cs.files \subseteq Files /\ cs.configured \in BOOLEAN \cup {None}
    /\ cs.restore # None => cs.restore.file \in Files /\ cs.restore.what \in Paths \cup {<<>>}
    /\ clicks \in 0 .. MaxClicks /\ switches \in 0 .. MaxSwitches

(* What a level shows is what the archive, the table or the partition in the URL *)
(* holds, whatever order the answers came in.                                    *)
LevelsAreOfTheirKeys ==
    \A l \in Levels : cs.level[l].ready /\ cs.level[l].key # None
                        => cs.level[l].holds.of = cs.level[l].key

(* Whatever order the answers come in, each level shows what the URL names       *)
(* (snapshots.rs:150-250).                                                       *)
SnapshotsInv == SnapshotsTypeOK /\ LevelsAreOfTheirKeys

(* "Has been restored" is said of the file and the partition the dialog names,   *)
(* and while a dialog is busy exactly one restore is on its way, its own.        *)
DialogsTellTheTruth ==
    cs.restore # None =>
        /\ cs.restore.done =>
             \E r \in restored : r.file = cs.restore.file /\ r.what = cs.restore.what
        /\ LET mine == {i \in Slots : /\ flights[i] # NoTask
                                      /\ flights[i].kind \in {"gate", "restore"}}
           IN  /\ Cardinality(mine) = IF cs.restore.busy THEN 1 ELSE 0
               /\ \A i \in mine : /\ flights[i].file = cs.restore.file
                                  /\ flights[i].what = cs.restore.what

(* The inductive invariant.  Types; a level is loaded for a key of its own, and  *)
(* holds what the archive has under it.                                          *)
LevelStates == {v \in [key : Routes \cup {None}, holds : Served \cup {None},
                       ready : BOOLEAN, failed : BOOLEAN] :
                  /\ v.ready => v.holds # None
                  /\ v.ready /\ v.key # None
                        => v.holds.of = v.key /\ v.holds.inside = Inside(v.key)}
PageState == [configured : BOOLEAN \cup {None}, ns : Spaces \cup {None}, files : SUBSET Files,
              started : BOOLEAN, ready : BOOLEAN, level : [Levels -> LevelStates],
              restore : Dialogs \cup {None}, making : BOOLEAN, error : BOOLEAN]
LevelsAreKeyed == \A l \in Levels : cs.level[l].key # None => Len(cs.level[l].key) = l

(* A task carries what it has asked for, and an answer that is about that.       *)
LevelTasks == {f \in [kind : {"level"}, level : Levels, key : Routes,
                      answer : Served \cup {None}] :
                 /\ Len(f.key) = f.level
                 /\ f.answer # None => f.answer.of = f.key /\ f.answer.inside = Inside(f.key)}
DialogTasks == [kind : {"gate", "restore"}, file : Files, what : Paths \cup {<<>>},
                open : BOOLEAN]
PageTasks == {NoTask} \cup [kind : {"status"}] \cup [kind : {"list"}, answer : SUBSET Files]
         \cup LevelTasks \cup [kind : {"make"}, made : BOOLEAN] \cup DialogTasks

OfDialogs == {i \in Slots : flights[i].kind \in {"gate", "restore"}}
About(x, y) == x.file = y.file /\ x.what = y.what

(* No task of a dialog is left behind, and what a restore waits to hear of has   *)
(* happened.                                                                     *)
DialogsAreAlone ==
    /\ OfDialogs # {} => cs.restore # None /\ cs.restore.busy
    /\ cs.restore # None /\ cs.restore.busy
          => \E i \in Slots : OfDialogs = {i} /\ About(flights[i], cs.restore)
    /\ cs.restore # None /\ cs.restore.done => \E r \in restored : About(r, cs.restore)
    /\ \A i \in Slots : flights[i].kind = "restore" => \E r \in restored : About(r, flights[i])

SnapshotsIInv ==
    /\ route \in Routes /\ cs \in PageState /\ LevelsAreKeyed
    /\ flights \in [Slots -> PageTasks]
    /\ configured \in BOOLEAN /\ open \in BOOLEAN
    /\ archives \in [Spaces -> SUBSET Files] /\ ns \in Spaces
    /\ clicks \in 0 .. MaxClicks /\ switches \in 0 .. MaxSwitches
    /\ DialogsAreAlone

(* Once the user stops, the level of the URL is on display or its request has    *)
(* failed, and neither a forced snapshot nor a restore is "in progress" for ever. *)
Settles == <>[](/\ ~ cs.making
                /\ cs.restore # None => ~ cs.restore.busy
                /\ route # <<>> /\ cs.configured = TRUE
                       => ~ Loading \/ cs.level[Len(route)].failed)

(* A load that failed leaves Refresh to the user: with nothing on its way the page *)
(* is not "loading".                                                               *)
FailedLoadsCanBeRetried ==
    cs.error /\ Free = Slots /\ cs.started => ~ Loading

(* A restore goes into the namespace the dialog names. *)
RestoresIntoWhatIsShown == \A r \in restored : r.ns = cs.ns

=============================================================================
