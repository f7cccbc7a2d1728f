-------------------------- MODULE PersistMarkers --------------------------
(***************************************************************************)
(* The write-behind queue of one namespace                                 *)
(* (server/src/persist/markers/persist_markers_inner.rs), as operators on  *)
(* its value: a function from the tasks it could hold to the moment each   *)
(* is due, NONE for a task that is not queued.  A task is a table with one *)
(* of its partitions, or with META for the table's own metadata.           *)
(*                                                                         *)
(* The two nested maps of the code are flattened: a table without markers  *)
(* is a table all of whose tasks are NONE.  Their iteration order is       *)
(* arbitrary, so get_task is the choice of any task the code could reach   *)
(* first.                                                                  *)
(***************************************************************************)
EXTENDS Naturals

CONSTANTS Tables, Partitions, META, NONE

ASSUME MarkerAssumption ==
  /\ META \notin Partitions
  /\ NONE \notin Nat

Task == Tables \X (Partitions \cup {META})
TableOf(task) == task[1]
MetadataOf(t) == <<t, META>>

Moment == Nat
Queue == [Task -> Moment \cup {NONE}]

EmptyQueue == [task \in Task |-> NONE]

(* A due moment only ever moves earlier. *)
KeepEarliest(current, candidate) ==
  IF current = NONE THEN candidate
  ELSE IF candidate < current THEN candidate ELSE current

(* persist_partition and persist_table_metadata. *)
Marked(queue, task, moment) == [queue EXCEPT ![task] = KeepEarliest(@, moment)]

(* now = NONE: everything queued is due. *)
IsDue(moment, now) ==
  /\ moment # NONE
  /\ now # NONE => moment <= now

(* What get_task may hand out: a due partition only while the metadata of   *)
(* its table is not due itself.                                             *)
DueTasks(queue, now) ==
  {task \in Task :
     /\ IsDue(queue[task], now)
     /\ task # MetadataOf(TableOf(task)) => ~IsDue(queue[MetadataOf(TableOf(task))], now)}

Without(queue, task) == [queue EXCEPT ![task] = NONE]

(* Slip: take_all hands out what get_task could. *)
AllDueTasks(queue) == DueTasks(queue, NONE)

(* take_all empties the queue and hands out everything, each table's        *)
(* metadata before that table's partitions.                                 *)
AllTasks(queue) == {task \in Task : queue[task] # NONE}

HandedOutNext(tasks) ==
  {task \in tasks : task # MetadataOf(TableOf(task)) => MetadataOf(TableOf(task)) \notin tasks}
=============================================================================
